---------------------------- MODULE DepositProofs ----------------------------
(***************************************************************************)
(* Safety of the deposit lifecycle, of its execution by workers and of its *)
(* replay by operators, for any number of accounts, deposits, workers,     *)
(* operators and concurrent requests.                                      *)
(*                                                                         *)
(* Workers and replays change a deposit only through the handlers of       *)
(* DepositIntents, so one inductive invariant of those, DepositInv, serves *)
(* all three.                                                              *)
(***************************************************************************)
EXTENDS DepositExecution, DepositReplay, LedgerProofs, SequenceTheorems

(* The rows a handler will write exist: it creates a transaction if it read *)
(* none, except to confirm.                                                 *)
RequestFits(r) ==
  /\ r.row <= Len(txs[r.intent])
  /\ r.reviewCase <= Len(reviewCases[r.intent])
  /\ r.op = "confirm" => r.row # 0

TypeInv ==
  /\ TypeOK
  /\ ProjectionMatchesLedger
  /\ \A s \in Slots : request[s] # Idle => RequestFits(request[s])

(* What holds of a deposit whose requests do not overlap.                   *)
RowOK(d) ==
  /\ status[d] \in {"absent", "approved", "queued"} => txs[d] = <<>>
  /\ status[d] \in {"review_required", "broadcast"} /\ txs[d] # <<>>
       => LatestTx(d).status = "broadcast"
  /\ status[d] \in {"confirmed", "settled"} => LatestTx(d).status = "confirmed"
  /\ LatestTx(d).status = "confirmed" => ProofIsValid(LatestTx(d))
  /\ Credited(d) <=> status[d] = "settled"
  /\ proof[d] # NoHash <=> status[d] = "settled"
  /\ status[d] = "settled" => proof[d] = LatestTx(d).hash
  /\ status[d] = "review_required" <=> policyDecision[d] = "review_required"
  /\ status[d] \in {"approved", "queued", "broadcast", "confirmed", "settled"}
       => policyDecision[d] = "approved"
  /\ \A n \in 1 .. Len(reviewCases[d]) :
       reviewCases[d][n] = "open"
         => status[d] = "review_required" /\ n = Len(reviewCases[d])

(* The state a handler checked when it read still holds when it writes.     *)
Allowed(r) ==
  /\ r.op \in {"approve", "deny"} => status[r.intent] = "review_required"
  /\ r.op = "queue" => Approved(r.intent, "approved")
  /\ r.op = "broadcast" => MayBroadcast(r.intent, r.hash) /\ r.hash \in Hashes
  /\ r.op = "fail" => MayFail(r.intent, r.hash)
  /\ r.op = "confirm" => Approved(r.intent, "broadcast")
  /\ r.op = "settle" => Approved(r.intent, "confirmed")
  /\ r.op = "resolve" => status[r.intent] = "failed"

RequestOK(r) ==
  /\ r.row = Len(txs[r.intent])
  /\ r.tx = LatestTx(r.intent)
  /\ r.reviewCase = Len(reviewCases[r.intent])
  /\ Allowed(r)

ServedAlone ==
  \A s \in Slots : request[s] # Idle /\ request[s].intent \notin Overlapping =>
    /\ RequestOK(request[s])
    /\ \A t \in Slots : request[t] # Idle /\ request[t].intent = request[s].intent
                          => t = s

DepositInv ==
  /\ TypeInv
  /\ \A d \in Deposits \ Overlapping : RowOK(d)
  /\ ServedAlone

-----------------------------------------------------------------------------
(* Types *)

(* The latest transaction of a deposit is a row.                            *)
LEMMA LatestTxType ==
  ASSUME TypeOK, NEW d \in Deposits
  PROVE  /\ txs[d] \in Seq(TxRows) /\ Len(txs[d]) \in Nat
         /\ LatestTx(d) \in TxRows
         /\ txs[d] = <<>> => LatestTx(d) = NoTx /\ Len(txs[d]) = 0
         /\ txs[d] # <<>> => Len(txs[d]) # 0
         /\ reviewCases[d] \in Seq({"open", "closed"}) /\ Len(reviewCases[d]) \in Nat
  <1>1. txs[d] \in Seq(TxRows) /\ reviewCases[d] \in Seq({"open", "closed"})
    BY DEF TypeOK
  <1>2. CASE txs[d] = <<>>
    BY <1>1, <1>2 DEF LatestTx, NoTx, TxRows
  <1>3. CASE txs[d] # <<>>
    BY <1>1, <1>3 DEF LatestTx
  <1> QED
    BY <1>1, <1>2, <1>3

(* A served slot holds a request for a deposit, which is an intent.         *)
LEMMA ServedRequest ==
  ASSUME TypeInv, NEW s \in Slots, request[s] # Idle
  PROVE  /\ request[s] \in Requests
         /\ request[s].intent \in Deposits /\ request[s].intent \in Intents
         /\ request[s].op \in Operations
         /\ request[s].hash \in Hashes \cup {NoHash} /\ request[s].sound \in BOOLEAN
         /\ request[s].row \in Nat /\ request[s].tx \in TxRows
         /\ request[s].reviewCase \in Nat
         /\ RequestFits(request[s])
  BY DepositAssumption DEF TypeInv, TypeOK, Requests

(* What a request leaves of another deposit.                                *)
Untouched(e) ==
  /\ status'[e] = status[e] /\ policyDecision'[e] = policyDecision[e]
  /\ txs'[e] = txs[e] /\ reviewCases'[e] = reviewCases[e] /\ proof'[e] = proof[e]
  /\ Credited(e)' <=> Credited(e)

(* No row of a deposit is ever deleted.                                     *)
RowsStay(d) ==
  Len(txs'[d]) >= Len(txs[d]) /\ Len(reviewCases'[d]) >= Len(reviewCases[d])

Tables ==
  /\ LedgerTypeOK
  /\ ProjectionMatchesLedger
  /\ status \in [Deposits -> Statuses]
  /\ policyDecision \in [Deposits -> Decisions]
  /\ txs \in [Deposits -> Seq(TxRows)]
  /\ reviewCases \in [Deposits -> Seq({"open", "closed"})]
  /\ proof \in [Deposits -> Hashes \cup {NoHash}]

(* A handler wrote rows of the deposit d only.                              *)
Wrote(d) ==
  /\ Tables'
  /\ \A e \in Deposits : e # d => Untouched(e)
  /\ RowsStay(d)

(* The tables do not change.                                                *)
LEMMA NothingWritten ==
  ASSUME TypeInv, UNCHANGED <<ledgerVars, intentVars>>
  PROVE  Tables' /\ \A e \in Deposits : Untouched(e) /\ RowsStay(e)
  <1>1. /\ UNCHANGED <<availableBalance, pendingBalance, ledger, journals>>
        /\ UNCHANGED <<status, policyDecision, txs, reviewCases, proof>>
    BY DEF ledgerVars, intentVars
  <1>2. Tables'
    BY <1>1 DEF TypeInv, TypeOK, Tables, LedgerTypeOK, ProjectionMatchesLedger
  <1>3. ASSUME NEW e \in Deposits PROVE Untouched(e) /\ RowsStay(e)
    BY <1>1, LatestTxType DEF Untouched, RowsStay, Credited, TypeInv
  <1> QED
    BY <1>2, <1>3

(* The ledger does not change.                                              *)
LEMMA LedgerKept ==
  ASSUME TypeInv, UNCHANGED ledgerVars
  PROVE  /\ LedgerTypeOK' /\ ProjectionMatchesLedger'
         /\ \A e \in Deposits : Credited(e)' <=> Credited(e)
  BY DEF TypeInv, TypeOK, LedgerTypeOK, ProjectionMatchesLedger, ledgerVars, Credited

-----------------------------------------------------------------------------
(* Initial state *)

(* No deposit exists and no request is served.                              *)
LEMMA DepositInit == Init => DepositInv
  <1> SUFFICES ASSUME Init PROVE DepositInv
    OBVIOUS
  <1>1. LedgerTypeOK /\ ProjectionMatchesLedger
    BY LedgerInitial DEF Init, LedgerInv
  <1>2. TypeOK
    BY <1>1 DEF Init, TypeOK, Statuses, Decisions
  <1>3. ASSUME NEW d \in Deposits PROVE RowOK(d)
    BY DEF Init, LedgerInit, RowOK, LatestTx, NoTx, Credited
  <1> QED
    BY <1>1, <1>2, <1>3 DEF DepositInv, TypeInv, ServedAlone, Init

-----------------------------------------------------------------------------
(* Writing rows *)

(* The transaction written is the one read as the latest, or a new one.     *)
LEMMA WriteTxRows ==
  ASSUME TypeOK, NEW r \in Requests, NEW tx \in TxRows, WriteTx(r, tx),
         r.row <= Len(txs[r.intent])
  PROVE  /\ txs' \in [Deposits -> Seq(TxRows)]
         /\ \A e \in Deposits : e # r.intent => txs'[e] = txs[e]
         /\ Len(txs'[r.intent]) >= Len(txs[r.intent])
         /\ r.row = Len(txs[r.intent])
              => LatestTx(r.intent)' = tx /\ txs'[r.intent] # <<>>
  <1> DEFINE p == txs[r.intent]
             q == IF r.row = 0 THEN Append(p, tx) ELSE [p EXCEPT ![r.row] = tx]
  <1>1. r.intent \in Deposits /\ r.row \in Nat /\ txs \in [Deposits -> Seq(TxRows)]
    BY DEF Requests, TypeOK
  <1>2. p \in Seq(TxRows) /\ Len(p) \in Nat /\ r.row <= Len(p)
    BY <1>1
  <1>3. txs' = [txs EXCEPT ![r.intent] = q]
    BY <1>1 DEF WriteTx
  <1> HIDE DEF p
  <1>4. CASE r.row = 0
    <2>1. q = Append(p, tx) /\ q \in Seq(TxRows) /\ Len(q) = Len(p) + 1
      BY <1>2, <1>4
    <2>2. q[Len(p) + 1] = tx
      BY <1>2, <2>1
    <2> HIDE DEF q
    <2>3. q # <<>> /\ q[Len(q)] = tx
      BY <1>2, <2>1, <2>2
    <2> QED
      BY <1>1, <1>2, <1>3, <2>1, <2>3 DEF LatestTx, p
  <1>5. CASE r.row # 0
    <2>1. /\ q = [p EXCEPT ![r.row] = tx] /\ q \in Seq(TxRows) /\ Len(q) = Len(p)
          /\ \A n \in 1 .. Len(q) : q[n] = IF n = r.row THEN tx ELSE p[n]
      BY <1>1, <1>2, <1>5, ExceptSeq
    <2> HIDE DEF q
    <2>2. q # <<>> /\ (r.row = Len(p) => q[Len(q)] = tx)
      BY <1>1, <1>2, <1>5, <2>1
    <2> QED
      BY <1>1, <1>2, <1>3, <2>1, <2>2 DEF LatestTx, p
  <1> QED
    BY <1>4, <1>5

(* The confirmation of the transaction a handler read.                      *)
LEMMA ConfirmRows ==
  ASSUME TypeOK, NEW r \in Requests, r.row # 0, r.row <= Len(txs[r.intent]),
         txs' = [txs EXCEPT ![r.intent][r.row].status = "confirmed"]
  PROVE  /\ txs' \in [Deposits -> Seq(TxRows)]
         /\ \A e \in Deposits : e # r.intent => txs'[e] = txs[e]
         /\ Len(txs'[r.intent]) >= Len(txs[r.intent])
         /\ r.row = Len(txs[r.intent])
              => LatestTx(r.intent)' = [LatestTx(r.intent) EXCEPT !.status = "confirmed"]
  <1> DEFINE p == txs[r.intent]
             tx == [p[r.row] EXCEPT !.status = "confirmed"]
             q == [p EXCEPT ![r.row] = tx]
  <1>1. r.intent \in Deposits /\ r.row \in Nat /\ txs \in [Deposits -> Seq(TxRows)]
    BY DEF Requests, TypeOK
  <1>2. p \in Seq(TxRows) /\ Len(p) \in Nat /\ r.row \in 1 .. Len(p)
    BY <1>1
  <1>3. p[r.row] \in TxRows
    BY <1>2
  <1>4. tx \in TxRows
    BY <1>3 DEF TxRows, TxStatuses
  <1>5. txs' = [txs EXCEPT ![r.intent] = q]
    BY <1>1
  <1> HIDE DEF p, tx
  <1>6. /\ q \in Seq(TxRows) /\ Len(q) = Len(p)
        /\ \A n \in 1 .. Len(q) : q[n] = IF n = r.row THEN tx ELSE p[n]
    BY <1>2, <1>4, ExceptSeq
  <1> HIDE DEF q
  <1>7. q # <<>> /\ p # <<>> /\ q[r.row] = tx
    BY <1>2, <1>6
  <1>8. txs'[r.intent] = q /\ \A e \in Deposits : e # r.intent => txs'[e] = txs[e]
    BY <1>1, <1>5
  <1>9. r.row = Len(p) => LatestTx(r.intent)' = tx /\ LatestTx(r.intent) = p[r.row]
    BY <1>6, <1>7, <1>8 DEF LatestTx, p
  <1>10. r.row = Len(p)
           => LatestTx(r.intent)' = [LatestTx(r.intent) EXCEPT !.status = "confirmed"]
    BY <1>9 DEF tx
  <1>11. txs' \in [Deposits -> Seq(TxRows)]
    BY <1>1, <1>5, <1>6
  <1>12. Len(txs'[r.intent]) >= Len(txs[r.intent])
    BY <1>2, <1>6, <1>8 DEF p
  <1>13. r.row = Len(txs[r.intent])
           => LatestTx(r.intent)' = [LatestTx(r.intent) EXCEPT !.status = "confirmed"]
    BY <1>10, Zenon DEF p
  <1> QED
    BY <1>8, <1>11, <1>12, <1>13, Zenon

(* A review case is opened for the deposit, or an open one used again.      *)
LEMMA OpenedCase ==
  ASSUME TypeOK, NEW d \in Deposits, OpenReviewCase(d)
  PROVE  /\ reviewCases' \in [Deposits -> Seq({"open", "closed"})]
         /\ \A e \in Deposits : e # d => reviewCases'[e] = reviewCases[e]
         /\ Len(reviewCases'[d]) >= Len(reviewCases[d])
         /\ (\A n \in 1 .. Len(reviewCases[d]) :
               reviewCases[d][n] = "open" => n = Len(reviewCases[d]))
              => \A n \in 1 .. Len(reviewCases'[d]) :
                   reviewCases'[d][n] = "open" => n = Len(reviewCases'[d])
  <1> DEFINE p == reviewCases[d]
             q == IF \E n \in 1 .. Len(p) : p[n] = "open" THEN p ELSE Append(p, "open")
  <1>1. reviewCases \in [Deposits -> Seq({"open", "closed"})]
    BY DEF TypeOK
  <1>2. p \in Seq({"open", "closed"}) /\ Len(p) \in Nat
    BY <1>1
  <1>3. reviewCases' = [reviewCases EXCEPT ![d] = q]
    BY DEF OpenReviewCase
  <1> HIDE DEF p
  <1>4. CASE \E n \in 1 .. Len(p) : p[n] = "open"
    <2>1. q = p
      BY <1>4
    <2> HIDE DEF q
    <2> QED
      BY <1>1, <1>2, <1>3, <2>1 DEF p
  <1>5. CASE ~\E n \in 1 .. Len(p) : p[n] = "open"
    <2>1. /\ q = Append(p, "open") /\ q \in Seq({"open", "closed"}) /\ Len(q) = Len(p) + 1
      BY <1>2, <1>5
    <2>2. \A n \in 1 .. Len(p) : q[n] = p[n]
      BY <1>2, <2>1
    <2>3. \A n \in 1 .. Len(q) : q[n] = "open" => n = Len(q)
      BY <1>2, <1>5, <2>1, <2>2
    <2> HIDE DEF q
    <2> QED
      BY <1>1, <1>2, <1>3, <2>1, <2>3 DEF p
  <1> QED
    BY <1>4, <1>5

(* A decision closes the case its handler read.                             *)
LEMMA ClosedCase ==
  ASSUME TypeOK, NEW d \in Deposits, NEW n \in 1 .. Len(reviewCases[d]),
         reviewCases' = [reviewCases EXCEPT ![d][n] = "closed"]
  PROVE  /\ reviewCases' \in [Deposits -> Seq({"open", "closed"})]
         /\ \A e \in Deposits : e # d => reviewCases'[e] = reviewCases[e]
         /\ Len(reviewCases'[d]) = Len(reviewCases[d])
         /\ \A m \in 1 .. Len(reviewCases[d]) :
              reviewCases'[d][m] = IF m = n THEN "closed" ELSE reviewCases[d][m]
  <1> DEFINE p == reviewCases[d]
             q == [p EXCEPT ![n] = "closed"]
  <1>1. reviewCases \in [Deposits -> Seq({"open", "closed"})]
    BY DEF TypeOK
  <1>2. p \in Seq({"open", "closed"}) /\ Len(p) \in Nat
    BY <1>1
  <1>3. reviewCases' = [reviewCases EXCEPT ![d] = q]
    BY <1>1
  <1> HIDE DEF p
  <1>4. /\ q \in Seq({"open", "closed"}) /\ Len(q) = Len(p)
        /\ \A m \in 1 .. Len(q) : q[m] = IF m = n THEN "closed" ELSE p[m]
    BY <1>2, ExceptSeq DEF p
  <1> HIDE DEF q
  <1> QED
    BY <1>1, <1>2, <1>3, <1>4 DEF p

-----------------------------------------------------------------------------
(* What each handler writes *)

(* How a commit moves a deposit whose requests do not overlap: what is      *)
(* confirmed can only be settled, and a transaction is replaced by the one  *)
(* that is reported.                                                        *)
Moved(r) ==
  LET d == r.intent IN
  /\ status[d] = "settled" => status'[d] = "settled"
  /\ status[d] = "confirmed" => status'[d] \in {"confirmed", "settled"}
  /\ r.op = "settle" => status'[d] = "settled"
  /\ \/ LatestTx(d)' = LatestTx(d)
     \/ r.op = "broadcast" /\ LatestTx(d)'.hash = r.hash
          /\ LatestTx(d)'.status = "broadcast"
     \/ r.op = "fail" /\ LatestTx(d)'.status = "failed"
          /\ LatestTx(d)'.hash = IF r.hash = NoHash THEN LatestTx(d).hash ELSE r.hash
     \/ r.op = "confirm" /\ LatestTx(d)'.hash = LatestTx(d).hash

Written(r) ==
  /\ Wrote(r.intent)
  /\ r.intent \notin Overlapping => RowOK(r.intent)' /\ Moved(r)

(* What a handler knows when it commits.                                    *)
LEMMA CommitKnows ==
  ASSUME DepositInv, NEW s \in Slots, NEW r \in Requests, request[s] = r,
         NEW op, Serving(s, op)
  PROVE  /\ r # Idle /\ r.op = op /\ RequestFits(r)
         /\ r.intent \in Deposits /\ r.intent \in Intents
         /\ r.intent \notin Overlapping => RowOK(r.intent) /\ RequestOK(r)
  <1>1. request[s] # Idle /\ request[s].op = op
    BY DEF Serving
  <1> QED
    BY <1>1, ServedRequest DEF DepositInv, ServedAlone

(* A handler that writes neither transactions nor ledger, and moves status, *)
(* decision and cases of its deposit.                                       *)
LEMMA StatusWritten ==
  ASSUME TypeInv, NEW d \in Deposits, NEW st \in Statuses,
         SetStatus(d, st), UNCHANGED <<ledgerVars, txs, proof>>,
         policyDecision' \in [Deposits -> Decisions],
         \A e \in Deposits : e # d => policyDecision'[e] = policyDecision[e],
         reviewCases' \in [Deposits -> Seq({"open", "closed"})],
         \A e \in Deposits : e # d => reviewCases'[e] = reviewCases[e],
         Len(reviewCases'[d]) >= Len(reviewCases[d])
  PROVE  Wrote(d) /\ status'[d] = st /\ LatestTx(d)' = LatestTx(d)
         /\ (Credited(d)' <=> Credited(d))
  <1>1. /\ status \in [Deposits -> Statuses] /\ txs \in [Deposits -> Seq(TxRows)]
        /\ proof \in [Deposits -> Hashes \cup {NoHash}]
    BY DEF TypeInv, TypeOK
  <1>2. /\ LedgerTypeOK' /\ ProjectionMatchesLedger'
        /\ \A e \in Deposits : Credited(e)' <=> Credited(e)
    BY LedgerKept
  <1>3. /\ status' \in [Deposits -> Statuses] /\ status'[d] = st
        /\ \A e \in Deposits : e # d => status'[e] = status[e]
    BY <1>1 DEF SetStatus
  <1>4. Tables'
    BY <1>1, <1>2, <1>3 DEF Tables
  <1>5. \A e \in Deposits : e # d => Untouched(e)
    BY <1>2, <1>3 DEF Untouched
  <1>6. Len(txs[d]) \in Nat
    BY LatestTxType DEF TypeInv
  <1>7. RowsStay(d)
    BY <1>6 DEF RowsStay
  <1> QED
    BY <1>2, <1>3, <1>4, <1>5, <1>7 DEF Wrote, LatestTx

(* The proof of the transaction failed: the deposit waits for operators.    *)
LEMMA UnderReviewStep ==
  ASSUME TypeInv, NEW d \in Deposits, PlaceUnderReview(d)
  PROVE  /\ Wrote(d)
         /\ status'[d] = "review_required" /\ policyDecision'[d] = "review_required"
         /\ LatestTx(d)' = LatestTx(d) /\ txs' = txs /\ proof' = proof
         /\ Credited(d)' <=> Credited(d)
         /\ (\A n \in 1 .. Len(reviewCases[d]) :
               reviewCases[d][n] = "open" => n = Len(reviewCases[d]))
              => \A n \in 1 .. Len(reviewCases'[d]) :
                   reviewCases'[d][n] = "open" => n = Len(reviewCases'[d])
  <1>1. /\ OpenReviewCase(d) /\ SetStatus(d, "review_required")
        /\ policyDecision' = [policyDecision EXCEPT ![d] = "review_required"]
        /\ UNCHANGED <<ledgerVars, txs, proof>>
    BY DEF PlaceUnderReview
  <1>2. /\ reviewCases' \in [Deposits -> Seq({"open", "closed"})]
        /\ \A e \in Deposits : e # d => reviewCases'[e] = reviewCases[e]
        /\ Len(reviewCases'[d]) >= Len(reviewCases[d])
        /\ (\A n \in 1 .. Len(reviewCases[d]) :
              reviewCases[d][n] = "open" => n = Len(reviewCases[d]))
             => \A n \in 1 .. Len(reviewCases'[d]) :
                  reviewCases'[d][n] = "open" => n = Len(reviewCases'[d])
    BY <1>1, OpenedCase DEF TypeInv
  <1>3. /\ policyDecision' \in [Deposits -> Decisions]
        /\ policyDecision'[d] = "review_required"
        /\ \A e \in Deposits : e # d => policyDecision'[e] = policyDecision[e]
    BY <1>1 DEF TypeInv, TypeOK, Decisions
  <1>4. "review_required" \in Statuses
    BY DEF Statuses
  <1>5. /\ Wrote(d) /\ status'[d] = "review_required" /\ LatestTx(d)' = LatestTx(d)
        /\ Credited(d)' <=> Credited(d)
    BY <1>1, <1>2, <1>3, <1>4, StatusWritten
  <1> QED
    BY <1>1, <1>2, <1>3, <1>5

(* A decision closes the deposit's case, the only one that may be open.     *)
LEMMA CommitDecideStep ==
  ASSUME DepositInv, NEW s \in Slots, NEW r \in Requests, request[s] = r,
         CommitDecide(s)
  PROVE  Written(r) /\ Finish(s)
  <1>1. Serving(s, "approve") \/ Serving(s, "deny")
    BY DEF CommitDecide
  <1>2. /\ r # Idle /\ r.op \in {"approve", "deny"} /\ RequestFits(r)
        /\ r.intent \in Deposits /\ r.intent \in Intents
        /\ r.intent \notin Overlapping => RowOK(r.intent) /\ RequestOK(r)
    BY <1>1, CommitKnows, Zenon
  <1>3. PICK d \in Deposits : d = r.intent
    BY <1>2
  <1>4. /\ CloseLinkedCase(r) /\ Finish(s) /\ UNCHANGED <<ledgerVars, txs, proof>>
        /\ \/ /\ r.op = "approve" /\ SetStatus(d, ApprovedStatus(r.tx))
              /\ policyDecision' = [policyDecision EXCEPT ![d] = "approved"]
           \/ /\ r.op = "deny" /\ SetStatus(d, "failed")
              /\ policyDecision' = [policyDecision EXCEPT ![d] = "denied"]
    BY <1>1, <1>2, <1>3 DEF CommitDecide, Serving
  <1>5. TypeInv /\ TypeOK /\ r.reviewCase \in Nat /\ r.reviewCase <= Len(reviewCases[d])
    BY <1>2, <1>3 DEF DepositInv, TypeInv, Requests, RequestFits
  <1>6. /\ reviewCases \in [Deposits -> Seq({"open", "closed"})]
        /\ Len(reviewCases[d]) \in Nat
    BY <1>5, LatestTxType DEF TypeOK
  <1>7. /\ reviewCases' \in [Deposits -> Seq({"open", "closed"})]
        /\ \A e \in Deposits : e # d => reviewCases'[e] = reviewCases[e]
        /\ Len(reviewCases'[d]) >= Len(reviewCases[d])
        /\ \A n \in 1 .. Len(reviewCases'[d]) :
             reviewCases'[d][n] = "open"
               => n \in 1 .. Len(reviewCases[d]) /\ n # r.reviewCase
                  /\ reviewCases[d][n] = "open"
    <2>1. CASE r.reviewCase = 0
      BY <1>4, <1>6, <2>1 DEF CloseLinkedCase
    <2>2. CASE r.reviewCase # 0
      <3>1. r.reviewCase \in 1 .. Len(reviewCases[d])
        BY <1>5, <1>6, <2>2
      <3>2. reviewCases' = [reviewCases EXCEPT ![d][r.reviewCase] = "closed"]
        BY <1>3, <1>4, <2>2 DEF CloseLinkedCase
      <3>3. /\ reviewCases' \in [Deposits -> Seq({"open", "closed"})]
            /\ \A e \in Deposits : e # d => reviewCases'[e] = reviewCases[e]
            /\ Len(reviewCases'[d]) = Len(reviewCases[d])
            /\ \A m \in 1 .. Len(reviewCases[d]) :
                 reviewCases'[d][m] = IF m = r.reviewCase THEN "closed" ELSE reviewCases[d][m]
        BY <1>5, <3>1, <3>2, ClosedCase
      <3> QED
        BY <1>6, <3>3
    <2> QED
      BY <2>1, <2>2
  <1>8. PICK st \in Statuses, pd \in Decisions :
          /\ SetStatus(d, st) /\ policyDecision' = [policyDecision EXCEPT ![d] = pd]
          /\ \/ st = ApprovedStatus(r.tx) /\ pd = "approved"
             \/ st = "failed" /\ pd = "denied"
    <2>1. ApprovedStatus(r.tx) \in Statuses /\ "failed" \in Statuses
      BY DEF ApprovedStatus, Statuses
    <2>2. "approved" \in Decisions /\ "denied" \in Decisions
      BY DEF Decisions
    <2> QED
      BY <1>4, <2>1, <2>2
  <1>9. /\ policyDecision' \in [Deposits -> Decisions] /\ policyDecision'[d] = pd
        /\ \A e \in Deposits : e # d => policyDecision'[e] = policyDecision[e]
    BY <1>5, <1>8 DEF TypeOK
  <1>10. /\ Wrote(d) /\ status'[d] = st /\ LatestTx(d)' = LatestTx(d)
         /\ Credited(d)' <=> Credited(d)
    BY <1>4, <1>5, <1>7, <1>8, <1>9, StatusWritten
  <1>11. ASSUME d \notin Overlapping PROVE RowOK(d)' /\ Moved(r)
    <2>1. /\ RowOK(d) /\ RequestOK(r) /\ status[d] = "review_required"
          /\ r.tx = LatestTx(d) /\ r.reviewCase = Len(reviewCases[d])
      BY <1>2, <1>3, <1>11 DEF RequestOK, Allowed
    <2>2. /\ txs[d] = <<>> => LatestTx(d) = NoTx
          /\ txs[d] # <<>> => LatestTx(d).status = "broadcast"
      BY <1>5, <2>1, LatestTxType DEF RowOK
    <2>3. \/ st = "approved" /\ txs[d] = <<>> /\ pd = "approved"
          \/ st = "broadcast" /\ txs[d] # <<>> /\ pd = "approved"
          \/ st = "failed" /\ pd = "denied"
      BY <1>8, <2>1, <2>2 DEF ApprovedStatus, NoTx
    <2>4. \A n \in 1 .. Len(reviewCases'[d]) : reviewCases'[d][n] # "open"
      BY <1>7, <2>1 DEF RowOK
    <2>5. txs' = txs /\ proof' = proof
      BY <1>4
    <2>6. Moved(r)
      BY <1>3, <1>10, <2>1, <1>2 DEF Moved
    <2>7. RowOK(d)'
      BY <1>9, <1>10, <2>1, <2>2, <2>3, <2>4, <2>5 DEF RowOK, ProofIsValid
    <2> QED
      BY <2>6, <2>7
  <1> QED
    BY <1>3, <1>4, <1>10, <1>11 DEF Written

(* A handler that writes the status and the transactions of its deposit.    *)
LEMMA TxWritten ==
  ASSUME TypeInv, NEW d \in Deposits, NEW st \in Statuses, SetStatus(d, st),
         UNCHANGED <<ledgerVars, policyDecision, reviewCases, proof>>,
         txs' \in [Deposits -> Seq(TxRows)],
         \A e \in Deposits : e # d => txs'[e] = txs[e],
         Len(txs'[d]) >= Len(txs[d])
  PROVE  /\ Wrote(d) /\ status'[d] = st
         /\ Credited(d)' <=> Credited(d)
  <1>1. /\ status \in [Deposits -> Statuses] /\ policyDecision \in [Deposits -> Decisions]
        /\ reviewCases \in [Deposits -> Seq({"open", "closed"})]
        /\ proof \in [Deposits -> Hashes \cup {NoHash}]
    BY DEF TypeInv, TypeOK
  <1>2. /\ LedgerTypeOK' /\ ProjectionMatchesLedger'
        /\ \A e \in Deposits : Credited(e)' <=> Credited(e)
    BY LedgerKept
  <1>3. /\ status' \in [Deposits -> Statuses] /\ status'[d] = st
        /\ \A e \in Deposits : e # d => status'[e] = status[e]
    BY <1>1 DEF SetStatus
  <1>4. Tables'
    BY <1>1, <1>2, <1>3 DEF Tables
  <1>5. \A e \in Deposits : e # d => Untouched(e)
    BY <1>2, <1>3 DEF Untouched
  <1>6. Len(reviewCases[d]) \in Nat
    BY LatestTxType DEF TypeInv
  <1>7. RowsStay(d)
    BY <1>6 DEF RowsStay
  <1> QED
    BY <1>2, <1>3, <1>4, <1>5, <1>7 DEF Wrote

(* The same, when no transaction changes.                                   *)
LEMMA StatusMoves ==
  ASSUME TypeInv, NEW d \in Deposits, NEW st \in Statuses, SetStatus(d, st),
         UNCHANGED <<ledgerVars, policyDecision, txs, reviewCases, proof>>
  PROVE  /\ Wrote(d) /\ status'[d] = st /\ LatestTx(d)' = LatestTx(d)
         /\ Credited(d)' <=> Credited(d)
  <1>1. txs \in [Deposits -> Seq(TxRows)] /\ Len(txs[d]) \in Nat
    BY LatestTxType DEF TypeInv, TypeOK
  <1> QED
    BY <1>1, TxWritten DEF LatestTx

(* Custody queues an approved deposit.                                      *)
LEMMA CommitQueueStep ==
  ASSUME DepositInv, NEW s \in Slots, NEW r \in Requests, request[s] = r,
         CommitQueue(s)
  PROVE  Written(r) /\ Finish(s)
  <1>1. Serving(s, "queue") /\ Finish(s) /\ SetStatus(r.intent, "queued")
        /\ UNCHANGED <<ledgerVars, policyDecision, txs, reviewCases, proof>>
    BY DEF CommitQueue
  <1>2. /\ r # Idle /\ r.op = "queue" /\ r.intent \in Deposits
        /\ r.intent \notin Overlapping => RowOK(r.intent) /\ RequestOK(r)
    BY <1>1, CommitKnows, Zenon
  <1>3. PICK d \in Deposits : d = r.intent
    BY <1>2
  <1>4. /\ Wrote(d) /\ status'[d] = "queued" /\ LatestTx(d)' = LatestTx(d)
        /\ Credited(d)' <=> Credited(d)
    BY <1>1, <1>3, StatusMoves DEF DepositInv, Statuses
  <1>5. ASSUME d \notin Overlapping PROVE RowOK(d)' /\ Moved(r)
    <2>1. RowOK(d) /\ status[d] = "approved" /\ policyDecision[d] = "approved"
      BY <1>2, <1>3, <1>5 DEF RequestOK, Allowed, Approved
    <2>2. txs' = txs /\ proof' = proof /\ reviewCases' = reviewCases
          /\ policyDecision' = policyDecision
      BY <1>1
    <2>3. Moved(r)
      BY <1>2, <1>3, <1>4, <2>1 DEF Moved
    <2>4. RowOK(d)'
      BY <1>4, <2>1, <2>2 DEF RowOK, ProofIsValid
    <2> QED
      BY <2>3, <2>4
  <1> QED
    BY <1>1, <1>3, <1>4, <1>5 DEF Written

(* An operator closes a failed deposit.                                     *)
LEMMA CommitResolveStep ==
  ASSUME DepositInv, NEW s \in Slots, NEW r \in Requests, request[s] = r,
         CommitResolve(s)
  PROVE  Written(r) /\ Finish(s)
  <1>1. Serving(s, "resolve") /\ Finish(s) /\ SetStatus(r.intent, "manually_resolved")
        /\ UNCHANGED <<ledgerVars, policyDecision, txs, reviewCases, proof>>
    BY DEF CommitResolve
  <1>2. /\ r # Idle /\ r.op = "resolve" /\ r.intent \in Deposits
        /\ r.intent \notin Overlapping => RowOK(r.intent) /\ RequestOK(r)
    BY <1>1, CommitKnows, Zenon
  <1>3. PICK d \in Deposits : d = r.intent
    BY <1>2
  <1>4. /\ Wrote(d) /\ status'[d] = "manually_resolved" /\ LatestTx(d)' = LatestTx(d)
        /\ Credited(d)' <=> Credited(d)
    BY <1>1, <1>3, StatusMoves DEF DepositInv, Statuses
  <1>5. ASSUME d \notin Overlapping PROVE RowOK(d)' /\ Moved(r)
    <2>1. RowOK(d) /\ status[d] = "failed"
      BY <1>2, <1>3, <1>5 DEF RequestOK, Allowed
    <2>2. txs' = txs /\ proof' = proof /\ reviewCases' = reviewCases
          /\ policyDecision' = policyDecision
      BY <1>1
    <2>3. Moved(r)
      BY <1>2, <1>3, <1>4, <2>1 DEF Moved
    <2>4. RowOK(d)'
      BY <1>4, <2>1, <2>2 DEF RowOK, ProofIsValid
    <2> QED
      BY <2>3, <2>4
  <1> QED
    BY <1>1, <1>3, <1>4, <1>5 DEF Written

(* The reported transaction is recorded for a queued deposit, which had     *)
(* none.                                                                    *)
LEMMA CommitBroadcastStep ==
  ASSUME DepositInv, NEW s \in Slots, NEW r \in Requests, request[s] = r,
         CommitBroadcast(s)
  PROVE  Written(r) /\ Finish(s)
  <1> DEFINE tx == [status |-> "broadcast", hash |-> r.hash, sound |-> r.sound]
  <1>1. Serving(s, "broadcast") /\ Finish(s) /\ SetStatus(r.intent, "broadcast")
        /\ WriteTx(r, tx) /\ UNCHANGED <<ledgerVars, policyDecision, reviewCases, proof>>
    BY DEF CommitBroadcast
  <1>2. /\ r # Idle /\ r.op = "broadcast" /\ r.intent \in Deposits /\ RequestFits(r)
        /\ r.intent \notin Overlapping => RowOK(r.intent) /\ RequestOK(r)
    BY <1>1, CommitKnows, Zenon
  <1>3. PICK d \in Deposits : d = r.intent
    BY <1>2
  <1>4. TypeInv /\ TypeOK /\ r.row <= Len(txs[r.intent])
    BY <1>2 DEF DepositInv, TypeInv, RequestFits
  <1>5. tx \in TxRows /\ tx.status = "broadcast" /\ tx.hash = r.hash
    BY DEF Requests, TxRows, TxStatuses
  <1> HIDE DEF tx
  <1>6. /\ txs' \in [Deposits -> Seq(TxRows)]
        /\ \A e \in Deposits : e # d => txs'[e] = txs[e]
        /\ Len(txs'[d]) >= Len(txs[d])
        /\ r.row = Len(txs[d]) => LatestTx(d)' = tx /\ txs'[d] # <<>>
    BY <1>1, <1>3, <1>4, <1>5, WriteTxRows
  <1>7. /\ Wrote(d) /\ status'[d] = "broadcast" /\ (Credited(d)' <=> Credited(d))
    BY <1>1, <1>3, <1>4, <1>6, TxWritten DEF Statuses
  <1>8. ASSUME d \notin Overlapping PROVE RowOK(d)' /\ Moved(r)
    <2>1. RowOK(d) /\ status[d] = "queued" /\ policyDecision[d] = "approved"
          /\ r.row = Len(txs[d])
      BY <1>2, <1>3, <1>8 DEF RequestOK, Allowed, MayBroadcast, Approved
    <2>2. proof' = proof /\ reviewCases' = reviewCases /\ policyDecision' = policyDecision
      BY <1>1
    <2>3. LatestTx(d)'.status = "broadcast" /\ LatestTx(d)'.hash = r.hash
      BY <1>5, <1>6, <2>1
    <2>4. Moved(r)
      BY <1>2, <1>3, <1>7, <2>1, <2>3 DEF Moved
    <2>5. RowOK(d)'
      BY <1>7, <2>1, <2>2, <2>3 DEF RowOK
    <2> QED
      BY <2>4, <2>5
  <1> QED
    BY <1>1, <1>3, <1>7, <1>8 DEF Written

(* A failure is final for a deposit that was queued or broadcast.           *)
LEMMA CommitFailStep ==
  ASSUME DepositInv, NEW s \in Slots, NEW r \in Requests, request[s] = r,
         CommitFail(s)
  PROVE  Written(r) /\ Finish(s)
  <1> DEFINE h == IF r.hash = NoHash THEN r.tx.hash ELSE r.hash
             tx == [status |-> "failed", hash |-> h, sound |-> r.sound]
  <1>1. Serving(s, "fail") /\ Finish(s) /\ SetStatus(r.intent, "failed")
        /\ WriteTx(r, tx) /\ UNCHANGED <<ledgerVars, policyDecision, reviewCases, proof>>
    BY DEF CommitFail
  <1>2. /\ r # Idle /\ r.op = "fail" /\ r.intent \in Deposits /\ RequestFits(r)
        /\ r.intent \notin Overlapping => RowOK(r.intent) /\ RequestOK(r)
    BY <1>1, CommitKnows, Zenon
  <1>3. PICK d \in Deposits : d = r.intent
    BY <1>2
  <1>4. TypeInv /\ TypeOK /\ r.row <= Len(txs[r.intent])
    BY <1>2 DEF DepositInv, TypeInv, RequestFits
  <1>5. tx \in TxRows /\ tx.status = "failed" /\ tx.hash = h
    <2>1. h \in Hashes \cup {NoHash} /\ r.sound \in BOOLEAN
      BY DEF Requests, TxRows
    <2> HIDE DEF h
    <2> QED
      BY <2>1 DEF TxRows, TxStatuses
  <1> HIDE DEF tx
  <1>6. /\ txs' \in [Deposits -> Seq(TxRows)]
        /\ \A e \in Deposits : e # d => txs'[e] = txs[e]
        /\ Len(txs'[d]) >= Len(txs[d])
        /\ r.row = Len(txs[d]) => LatestTx(d)' = tx /\ txs'[d] # <<>>
    BY <1>1, <1>3, <1>4, <1>5, WriteTxRows
  <1>7. /\ Wrote(d) /\ status'[d] = "failed" /\ (Credited(d)' <=> Credited(d))
    BY <1>1, <1>3, <1>4, <1>6, TxWritten DEF Statuses
  <1>8. ASSUME d \notin Overlapping PROVE RowOK(d)' /\ Moved(r)
    <2>1. /\ RowOK(d) /\ r.row = Len(txs[d]) /\ r.tx = LatestTx(d)
          /\ status[d] \in {"queued", "broadcast"} /\ policyDecision[d] = "approved"
      BY <1>2, <1>3, <1>8 DEF RequestOK, Allowed, MayFail, Approved
    <2>2. proof' = proof /\ reviewCases' = reviewCases /\ policyDecision' = policyDecision
      BY <1>1
    <2>3. /\ LatestTx(d)'.status = "failed"
          /\ LatestTx(d)'.hash = IF r.hash = NoHash THEN LatestTx(d).hash ELSE r.hash
      BY <1>5, <1>6, <2>1
    <2>4. Moved(r)
      BY <1>2, <1>3, <1>7, <2>1, <2>3 DEF Moved
    <2>5. RowOK(d)'
      BY <1>7, <2>1, <2>2, <2>3 DEF RowOK
    <2> QED
      BY <2>4, <2>5
  <1> QED
    BY <1>1, <1>3, <1>7, <1>8 DEF Written

(* A broadcast transaction whose proof is accepted is confirmed; any other  *)
(* sends its deposit to review.                                             *)
LEMMA CommitConfirmStep ==
  ASSUME DepositInv, NEW s \in Slots, NEW r \in Requests, request[s] = r,
         CommitConfirm(s)
  PROVE  Written(r) /\ Finish(s)
  <1>1. Serving(s, "confirm") /\ Finish(s) /\ Confirm(r)
    BY DEF CommitConfirm
  <1>2. /\ r # Idle /\ r.op = "confirm" /\ r.intent \in Deposits /\ RequestFits(r)
        /\ r.intent \notin Overlapping => RowOK(r.intent) /\ RequestOK(r)
    BY <1>1, CommitKnows, Zenon
  <1>3. PICK d \in Deposits : d = r.intent
    BY <1>2
  <1>4. TypeInv /\ TypeOK /\ r.row <= Len(txs[r.intent]) /\ r.row # 0
    BY <1>2 DEF DepositInv, TypeInv, RequestFits
  <1>5. d \notin Overlapping =>
          /\ RowOK(d) /\ status[d] = "broadcast" /\ policyDecision[d] = "approved"
          /\ r.row = Len(txs[d]) /\ r.tx = LatestTx(d)
    BY <1>2, <1>3 DEF RequestOK, Allowed, Approved
  <1>6. CASE ProofIsValid(r.tx)
    <2>1. /\ txs' = [txs EXCEPT ![r.intent][r.row].status = "confirmed"]
          /\ SetStatus(r.intent, "confirmed")
          /\ UNCHANGED <<ledgerVars, policyDecision, reviewCases, proof>>
      BY <1>1, <1>6 DEF Confirm
    <2>2. /\ txs' \in [Deposits -> Seq(TxRows)]
          /\ \A e \in Deposits : e # d => txs'[e] = txs[e]
          /\ Len(txs'[d]) >= Len(txs[d])
          /\ r.row = Len(txs[d])
               => LatestTx(d)' = [LatestTx(d) EXCEPT !.status = "confirmed"]
      BY <1>3, <1>4, <2>1, ConfirmRows
    <2>3. Wrote(d) /\ status'[d] = "confirmed" /\ (Credited(d)' <=> Credited(d))
      BY <1>3, <1>4, <2>1, <2>2, TxWritten DEF Statuses
    <2>4. ASSUME d \notin Overlapping PROVE RowOK(d)' /\ Moved(r)
      <3>1. LatestTx(d) \in TxRows
        BY <1>4, LatestTxType
      <3>2. /\ LatestTx(d)'.status = "confirmed" /\ LatestTx(d)'.hash = LatestTx(d).hash
            /\ LatestTx(d)'.sound = LatestTx(d).sound
        BY <1>5, <2>2, <2>4, <3>1 DEF TxRows
      <3>3. ProofIsValid(LatestTx(d))'
        BY <1>5, <1>6, <2>4, <3>2 DEF ProofIsValid
      <3>4. proof' = proof /\ reviewCases' = reviewCases /\ policyDecision' = policyDecision
        BY <2>1
      <3>5. Moved(r)
        BY <1>2, <1>3, <1>5, <2>3, <2>4, <3>2 DEF Moved
      <3>6. RowOK(d)'
        BY <1>5, <2>3, <2>4, <3>2, <3>3, <3>4 DEF RowOK
      <3> QED
        BY <3>5, <3>6
    <2> QED
      BY <1>1, <1>3, <2>3, <2>4 DEF Written
  <1>7. CASE ~ProofIsValid(r.tx)
    <2>1. PlaceUnderReview(d)
      BY <1>1, <1>3, <1>7 DEF Confirm
    <2>2. /\ Wrote(d)
          /\ status'[d] = "review_required" /\ policyDecision'[d] = "review_required"
          /\ LatestTx(d)' = LatestTx(d) /\ txs' = txs /\ proof' = proof
          /\ Credited(d)' <=> Credited(d)
          /\ (\A n \in 1 .. Len(reviewCases[d]) :
                reviewCases[d][n] = "open" => n = Len(reviewCases[d]))
               => \A n \in 1 .. Len(reviewCases'[d]) :
                    reviewCases'[d][n] = "open" => n = Len(reviewCases'[d])
      BY <1>4, <2>1, UnderReviewStep
    <2>3. ASSUME d \notin Overlapping PROVE RowOK(d)' /\ Moved(r)
      <3>1. Moved(r)
        BY <1>2, <1>3, <1>5, <2>2, <2>3 DEF Moved
      <3>2. RowOK(d)'
        BY <1>5, <2>2, <2>3 DEF RowOK, ProofIsValid
      <3> QED
        BY <3>1, <3>2
    <2> QED
      BY <1>1, <1>3, <2>2, <2>3 DEF Written
  <1> QED
    BY <1>6, <1>7

(* A confirmed deposit is credited once, with the proof its transaction     *)
(* gave.                                                                    *)
LEMMA CommitSettleStep ==
  ASSUME DepositInv, NEW s \in Slots, NEW r \in Requests, request[s] = r,
         CommitSettle(s)
  PROVE  Written(r) /\ Finish(s)
  <1>1. Serving(s, "settle") /\ Finish(s) /\ Settle(r)
    BY DEF CommitSettle
  <1>2. /\ r # Idle /\ r.op = "settle" /\ r.intent \in Deposits /\ RequestFits(r)
        /\ r.intent \in Intents
        /\ r.intent \notin Overlapping => RowOK(r.intent) /\ RequestOK(r)
    BY <1>1, CommitKnows, Zenon
  <1>3. PICK d \in Deposits : d = r.intent
    BY <1>2
  <1>4. TypeInv /\ TypeOK
    BY DEF DepositInv, TypeInv
  <1>5. d \notin Overlapping =>
          /\ RowOK(d) /\ status[d] = "confirmed" /\ policyDecision[d] = "approved"
          /\ r.tx = LatestTx(d) /\ LatestTx(d).status = "confirmed"
          /\ ProofIsValid(r.tx)
    BY <1>2, <1>3 DEF RequestOK, Allowed, Approved, RowOK
  <1>6. CASE ProofIsValid(r.tx)
    <2>1. /\ SettleConfirmedDeposit(d) /\ SetStatus(d, "settled")
          /\ proof' = [proof EXCEPT ![d] = r.tx.hash]
          /\ UNCHANGED <<policyDecision, txs, reviewCases>>
      BY <1>1, <1>3, <1>6 DEF Settle
    <2>2. /\ LedgerInv'
          /\ journals' = journals \cup {<<d, "deposit_settlement">>}
      BY <1>2, <1>3, <1>4, <2>1, SettleConfirmedDepositStep DEF LedgerInv, TypeInv, TypeOK
    <2>3. /\ r.tx.hash \in Hashes /\ r.tx.hash # NoHash
      BY <1>6 DEF ProofIsValid, Requests, TxRows
    <2>4. /\ proof' \in [Deposits -> Hashes \cup {NoHash}] /\ proof'[d] = r.tx.hash
          /\ \A e \in Deposits : e # d => proof'[e] = proof[e]
      BY <1>4, <2>1, <2>3 DEF TypeOK
    <2>5. /\ status' \in [Deposits -> Statuses] /\ status'[d] = "settled"
          /\ \A e \in Deposits : e # d => status'[e] = status[e]
      BY <1>4, <2>1 DEF TypeOK, SetStatus, Statuses
    <2>6. Tables'
      BY <1>4, <2>1, <2>2, <2>4, <2>5 DEF Tables, TypeOK, LedgerInv
    <2>7. Credited(d)' /\ \A e \in Deposits : e # d => (Credited(e)' <=> Credited(e))
      BY <2>2 DEF Credited
    <2>8. Wrote(d)
      <3>1. Len(txs[d]) \in Nat /\ Len(reviewCases[d]) \in Nat
        BY <1>4, LatestTxType
      <3>2. RowsStay(d)
        BY <2>1, <3>1 DEF RowsStay
      <3>3. \A e \in Deposits : e # d => Untouched(e)
        BY <2>1, <2>4, <2>5, <2>7 DEF Untouched
      <3> QED
        BY <2>6, <3>2, <3>3 DEF Wrote
    <2>9. ASSUME d \notin Overlapping PROVE RowOK(d)' /\ Moved(r)
      <3>1. LatestTx(d)' = LatestTx(d)
        BY <2>1 DEF LatestTx
      <3>2. Moved(r)
        BY <1>2, <1>3, <1>5, <2>5, <2>9, <3>1 DEF Moved
      <3>3. RowOK(d)'
        BY <1>5, <2>1, <2>3, <2>4, <2>5, <2>7, <2>9, <3>1 DEF RowOK, ProofIsValid
      <3> QED
        BY <3>2, <3>3
    <2> QED
      BY <1>1, <1>3, <2>8, <2>9 DEF Written
  <1>7. CASE ~ProofIsValid(r.tx)
    <2>1. PlaceUnderReview(d)
      BY <1>1, <1>3, <1>7 DEF Settle
    <2>2. Wrote(d)
      BY <1>4, <2>1, UnderReviewStep
    <2> QED
      BY <1>1, <1>3, <1>5, <1>7, <2>2 DEF Written
  <1> QED
    BY <1>6, <1>7

(* What any handler writes.                                                 *)
LEMMA CommitWritten ==
  ASSUME DepositInv, NEW s \in Slots, Commit(s)
  PROVE  /\ request[s] \in Requests /\ request[s] # Idle /\ Finish(s)
         /\ \A r \in Requests : request[s] = r => Written(r)
  <1>1. request[s] # Idle
    BY DEF Commit, CommitDecide, CommitQueue, CommitBroadcast, CommitFail,
           CommitConfirm, CommitSettle, CommitResolve, Serving
  <1>2. request[s] \in Requests
    BY <1>1, ServedRequest DEF DepositInv
  <1>3. ASSUME NEW r \in Requests, request[s] = r
        PROVE  Written(r) /\ Finish(s)
    BY <1>3, CommitDecideStep, CommitQueueStep, CommitBroadcastStep, CommitFailStep,
       CommitConfirmStep, CommitSettleStep, CommitResolveStep DEF Commit
  <1>4. Finish(s)
    BY <1>2, <1>3
  <1> QED
    BY <1>1, <1>2, <1>3, <1>4

-----------------------------------------------------------------------------
(* The steps of the API *)

(* An untouched deposit stays what it was, and so do its requests.          *)
LEMMA UntouchedOK ==
  ASSUME NEW e \in Deposits, Untouched(e)
  PROVE  /\ RowOK(e) => RowOK(e)'
         /\ \A r \in Requests : r.intent = e /\ RequestOK(r) => RequestOK(r)'
         /\ RowsStay(e) \/ Len(txs[e]) \notin Nat \/ Len(reviewCases[e]) \notin Nat
  <1>1. LatestTx(e)' = LatestTx(e)
    BY DEF Untouched, LatestTx
  <1>2. RowOK(e) => RowOK(e)'
    BY <1>1 DEF Untouched, RowOK, ProofIsValid
  <1>3. \A r \in Requests : r.intent = e /\ RequestOK(r) => RequestOK(r)'
    BY <1>1 DEF Untouched, RequestOK, Allowed, Approved, MayBroadcast, MayFail
  <1>4. RowsStay(e) \/ Len(txs[e]) \notin Nat \/ Len(reviewCases[e]) \notin Nat
    BY DEF Untouched, RowsStay
  <1> QED
    BY <1>2, <1>3, <1>4

(* The rows that a request will write still exist: none is ever deleted.    *)
LEMMA FitsStill ==
  ASSUME TypeInv, NEW d \in Deposits, Wrote(d), NEW t \in Slots, request[t] # Idle,
         NEW r \in Requests, request[t] = r
  PROVE  RequestFits(r)'
  <1>1. /\ r.intent \in Deposits /\ r.row \in Nat /\ r.reviewCase \in Nat
        /\ RequestFits(r)
    BY ServedRequest
  <1>2. /\ Len(txs[r.intent]) \in Nat /\ Len(reviewCases[r.intent]) \in Nat
    BY <1>1, LatestTxType DEF TypeInv
  <1>3. RowsStay(r.intent)
    BY <1>1, <1>2, UntouchedOK DEF Wrote
  <1>4. Len(txs'[r.intent]) \in Nat /\ Len(reviewCases'[r.intent]) \in Nat
    BY <1>1 DEF Wrote, Tables
  <1> QED
    BY <1>1, <1>2, <1>3, <1>4 DEF RowsStay, RequestFits

(* A handler has written the rows of its deposit and ended.                 *)
LEMMA EndStep ==
  ASSUME DepositInv, NEW s \in Slots, NEW r \in Requests, request[s] = r, r # Idle,
         Finish(s), Wrote(r.intent), r.intent \notin Overlapping => RowOK(r.intent)'
  PROVE  DepositInv'
  <1>1. PICK d \in Deposits : d = r.intent
    BY DEF Requests
  <1>2. /\ request \in [Slots -> Requests \cup {Idle}]
        /\ request' = [request EXCEPT ![s] = Idle]
        /\ TypeInv
    BY DEF Finish, DepositInv, TypeInv, TypeOK
  <1>3. /\ request' \in [Slots -> Requests \cup {Idle}]
        /\ \A t \in Slots : request'[t] # Idle
             => t # s /\ request'[t] = request[t] /\ request[t] # Idle
    BY <1>2
  <1>4. TypeOK' /\ ProjectionMatchesLedger'
    BY <1>3 DEF Wrote, Tables, TypeOK
  <1>5. ASSUME NEW t \in Slots, request'[t] # Idle PROVE RequestFits(request[t])'
    <2>1. PICK q \in Requests : q = request[t]
      BY <1>2, <1>3, <1>5
    <2>2. request'[t] = q /\ RequestFits(q)'
      BY <1>1, <1>2, <1>3, <1>5, <2>1, FitsStill
    <2> QED
      BY <2>2
  <1>6. TypeInv'
    BY <1>4, <1>5 DEF TypeInv
  <1>7. ASSUME NEW e \in Deposits \ Overlapping PROVE RowOK(e)'
    BY <1>1, UntouchedOK DEF Wrote, DepositInv
  <1>8. ASSUME NEW t \in Slots, request'[t] # Idle, request'[t].intent \notin Overlapping
        PROVE  /\ RequestOK(request[t])'
               /\ \A u \in Slots :
                    request'[u] # Idle /\ request'[u].intent = request'[t].intent
                      => u = t
    <2>1. PICK q \in Requests : q = request[t]
      BY <1>2, <1>3, <1>8
    <2>2. t # s /\ request'[t] = q /\ q # Idle /\ q.intent \in Deposits
      BY <1>3, <1>8, <2>1 DEF Requests
    <2>3. /\ RequestOK(q)
          /\ \A u \in Slots : request[u] # Idle /\ request[u].intent = q.intent => u = t
      BY <1>8, <2>1, <2>2 DEF DepositInv, ServedAlone
    <2>4. q.intent # d
      BY <1>1, <2>2, <2>3
    <2>5. RequestOK(q)'
      BY <1>1, <2>2, <2>3, <2>4, UntouchedOK DEF Wrote
    <2>6. RequestOK(request[t])'
      BY <2>2, <2>5
    <2>7. ASSUME NEW u \in Slots, request'[u] # Idle, request'[u].intent = request'[t].intent
          PROVE  u = t
      <3>1. request[u] # Idle /\ request[u].intent = q.intent
        BY <1>3, <2>2, <2>7
      <3> QED
        BY <2>3, <3>1
    <2> QED
      BY <2>6, <2>7
  <1>9. ServedAlone'
    BY <1>8 DEF ServedAlone
  <1> QED
    BY <1>6, <1>7, <1>9 DEF DepositInv

(* A handler has read: it may write what it read.                           *)
LEMMA BeginStep ==
  ASSUME DepositInv, NEW s \in Slots, NEW d \in Deposits, NEW op \in Operations,
         NEW h \in Hashes \cup {NoHash}, NEW b \in BOOLEAN, Begin(s, op, d, h, b),
         op = "confirm" => txs[d] # <<>>,
         NEW r, r = [op |-> op, intent |-> d, hash |-> h, sound |-> b,
                     row |-> Len(txs[d]), tx |-> LatestTx(d),
                     reviewCase |-> Len(reviewCases[d])],
         d \notin Overlapping => Allowed(r)
  PROVE  DepositInv' /\ request'[s] = r /\ r \in Requests
  <1>1. /\ request[s] = Idle
        /\ \A t \in Slots : request[t] # Idle /\ request[t].intent = d
                              => d \in Overlapping
        /\ request' = [request EXCEPT ![s] = r]
        /\ UNCHANGED <<ledgerVars, intentVars>>
    BY DEF Begin
  <1>2. TypeInv /\ TypeOK /\ request \in [Slots -> Requests \cup {Idle}]
    BY DEF DepositInv, TypeInv, TypeOK
  <1>3. r \in Requests /\ r.op = op /\ r.intent = d /\ r.row = Len(txs[d])
        /\ r.tx = LatestTx(d) /\ r.reviewCase = Len(reviewCases[d])
    BY <1>2, LatestTxType DEF Requests
  <1>4. /\ request' \in [Slots -> Requests \cup {Idle}] /\ request'[s] = r
        /\ \A t \in Slots : t # s => request'[t] = request[t]
    BY <1>1, <1>2, <1>3
  <1>5. Tables' /\ \A e \in Deposits : Untouched(e) /\ RowsStay(e)
    BY <1>1, <1>2, NothingWritten
  <1>6. Wrote(d)
    BY <1>5 DEF Wrote
  <1>7. ASSUME NEW t \in Slots, request'[t] # Idle PROVE RequestFits(request[t])'
    <2>1. CASE t = s
      <3>1. Len(txs[d]) \in Nat /\ Len(reviewCases[d]) \in Nat
            /\ (op = "confirm" => Len(txs[d]) # 0)
        BY <1>2, LatestTxType
      <3>2. txs'[d] = txs[d] /\ reviewCases'[d] = reviewCases[d]
        BY <1>5 DEF Untouched
      <3>3. RequestFits(r)'
        BY <1>3, <3>1, <3>2 DEF RequestFits
      <3> QED
        BY <1>4, <2>1, <3>3
    <2>2. CASE t # s
      <3>1. PICK q \in Requests : q = request[t]
        BY <1>2, <1>4, <1>7, <2>2
      <3>2. request'[t] = q /\ RequestFits(q)'
        BY <1>2, <1>4, <1>6, <1>7, <2>2, <3>1, FitsStill
      <3> QED
        BY <3>2
    <2> QED
      BY <2>1, <2>2
  <1>8. TypeInv'
    <2>1. TypeOK' /\ ProjectionMatchesLedger'
      BY <1>4, <1>5 DEF Tables, TypeOK
    <2> QED
      BY <1>7, <2>1 DEF TypeInv
  <1>9. ASSUME NEW e \in Deposits \ Overlapping PROVE RowOK(e)'
    BY <1>5, UntouchedOK DEF DepositInv
  <1>10. ASSUME NEW t \in Slots, request'[t] # Idle, request'[t].intent \notin Overlapping
         PROVE  /\ RequestOK(request[t])'
                /\ \A u \in Slots :
                     request'[u] # Idle /\ request'[u].intent = request'[t].intent
                       => u = t
    <2>1. PICK q \in Requests : q = request'[t]
      BY <1>4, <1>10
    <2>2. CASE t = s
      <3>1. q = r /\ d \notin Overlapping
        BY <1>3, <1>4, <1>10, <2>1, <2>2
      <3>2. RequestOK(r)
        BY <1>3, <3>1 DEF RequestOK
      <3>3. RequestOK(q)'
        BY <1>3, <1>5, <3>1, <3>2, UntouchedOK
      <3>4. ASSUME NEW u \in Slots, request'[u] # Idle,
                   request'[u].intent = request'[t].intent
            PROVE  u = t
        BY <1>1, <1>3, <1>4, <2>1, <2>2, <3>1, <3>4
      <3> QED
        BY <2>1, <3>3, <3>4
    <2>3. CASE t # s
      <3>1. request[t] = q /\ q # Idle /\ q.intent \in Deposits
        BY <1>4, <1>10, <2>1, <2>3 DEF Requests
      <3>2. /\ RequestOK(q)
            /\ \A u \in Slots : request[u] # Idle /\ request[u].intent = q.intent => u = t
        BY <1>10, <2>1, <3>1 DEF DepositInv, ServedAlone
      <3>3. RequestOK(q)'
        BY <1>5, <3>1, <3>2, UntouchedOK
      <3>4. q.intent # d
        BY <1>1, <1>10, <2>1, <3>1
      <3>5. ASSUME NEW u \in Slots, request'[u] # Idle,
                   request'[u].intent = request'[t].intent
            PROVE  u = t
        <4>1. u # s
          BY <1>3, <1>4, <2>1, <3>4, <3>5
        <4>2. request[u] # Idle /\ request[u].intent = q.intent
          BY <1>4, <2>1, <3>5, <4>1
        <4> QED
          BY <3>2, <4>2
      <3> QED
        BY <2>1, <3>3, <3>5
    <2> QED
      BY <2>2, <2>3
  <1>11. ServedAlone'
    BY <1>10 DEF ServedAlone
  <1> QED
    BY <1>3, <1>4, <1>8, <1>9, <1>11 DEF DepositInv

(* Every handler checks, when it reads, what it is allowed to write.        *)
LEMMA ReadKnows ==
  ASSUME NEW s \in Slots, NEW d \in Deposits, Read(s, d)
  PROVE  \E op \in Operations, h \in Hashes \cup {NoHash}, b \in BOOLEAN :
           /\ Begin(s, op, d, h, b)
           /\ op = "confirm" => txs[d] # <<>>
           /\ \A r : r.op = op /\ r.intent = d /\ r.hash = h => Allowed(r)
  <1> DEFINE Known(op, h, b) ==
               /\ Begin(s, op, d, h, b)
               /\ op = "confirm" => txs[d] # <<>>
               /\ \A r : r.op = op /\ r.intent = d /\ r.hash = h => Allowed(r)
  <1>1. ASSUME NEW op \in {"approve", "deny"}, BeginDecide(s, d, op)
        PROVE  Known(op, NoHash, FALSE)
    BY <1>1 DEF BeginDecide, Allowed
  <1>2. ASSUME BeginQueue(s, d) PROVE Known("queue", NoHash, FALSE)
    BY <1>2 DEF BeginQueue, Allowed
  <1>3. ASSUME NEW h \in Hashes, NEW b \in BOOLEAN, BeginBroadcast(s, d, h, b)
        PROVE  Known("broadcast", h, b)
    BY <1>3 DEF BeginBroadcast, Allowed
  <1>4. ASSUME NEW h \in Hashes \cup {NoHash}, NEW b \in BOOLEAN, BeginFail(s, d, h, b)
        PROVE  Known("fail", h, b)
    BY <1>4 DEF BeginFail, Allowed
  <1>5. ASSUME BeginConfirm(s, d) PROVE Known("confirm", NoHash, FALSE)
    BY <1>5 DEF BeginConfirm, Allowed
  <1>6. ASSUME BeginSettle(s, d) PROVE Known("settle", NoHash, FALSE)
    BY <1>6 DEF BeginSettle, Allowed
  <1>7. ASSUME BeginResolve(s, d) PROVE Known("resolve", NoHash, FALSE)
    BY <1>7 DEF BeginResolve, Allowed
  <1> HIDE DEF Known
  <1>8. \E op \in Operations, h \in Hashes \cup {NoHash}, b \in BOOLEAN : Known(op, h, b)
    BY <1>1, <1>2, <1>3, <1>4, <1>5, <1>6, <1>7 DEF Read, Operations
  <1> QED
    BY <1>8 DEF Known

(* Reading, of whatever handler.                                            *)
LEMMA ReadStep ==
  ASSUME DepositInv, NEW s \in Slots, NEW d \in Deposits, Read(s, d)
  PROVE  DepositInv' /\ UNCHANGED <<ledgerVars, intentVars>>
  <1>1. PICK op \in Operations, h \in Hashes \cup {NoHash}, b \in BOOLEAN :
          /\ Begin(s, op, d, h, b)
          /\ op = "confirm" => txs[d] # <<>>
          /\ \A r : r.op = op /\ r.intent = d /\ r.hash = h => Allowed(r)
    BY ReadKnows
  <1>2. PICK r : r = [op |-> op, intent |-> d, hash |-> h, sound |-> b,
                      row |-> Len(txs[d]), tx |-> LatestTx(d),
                      reviewCase |-> Len(reviewCases[d])]
    OBVIOUS
  <1>3. Allowed(r)
    BY <1>1, <1>2
  <1>4. DepositInv'
    BY <1>1, <1>2, <1>3, BeginStep
  <1>5. UNCHANGED <<ledgerVars, intentVars>>
    BY <1>1 DEF Begin
  <1> QED
    BY <1>4, <1>5

(* Writing a deposit that no request is about, or nothing a request read.   *)
LEMMA QuietStep ==
  ASSUME DepositInv, request' = request, NEW d \in Deposits, Wrote(d),
         d \notin Overlapping => RowOK(d)',
         \A s \in Slots, r \in Requests :
           request[s] = r /\ r.intent = d /\ d \notin Overlapping => RequestOK(r)'
  PROVE  DepositInv'
  <1>1. request \in [Slots -> Requests \cup {Idle}] /\ TypeInv
    BY DEF DepositInv, TypeInv, TypeOK
  <1>2. ASSUME NEW t \in Slots, request[t] # Idle
        PROVE  RequestFits(request[t])'
    <2>1. PICK q \in Requests : q = request[t]
      BY <1>1, <1>2
    <2>2. RequestFits(q)' /\ request'[t] = q
      BY <1>1, <1>2, <2>1, FitsStill
    <2> QED
      BY <2>2
  <1>3. TypeInv'
    <2>1. TypeOK' /\ ProjectionMatchesLedger'
      BY <1>1 DEF Wrote, Tables, TypeOK
    <2> QED
      BY <1>2, <2>1 DEF TypeInv
  <1>4. ASSUME NEW e \in Deposits \ Overlapping PROVE RowOK(e)'
    BY UntouchedOK DEF Wrote, DepositInv
  <1>5. ASSUME NEW t \in Slots, request[t] # Idle, request[t].intent \notin Overlapping
        PROVE  RequestOK(request[t])'
    <2>1. PICK q \in Requests : q = request[t]
      BY <1>1, <1>5
    <2>2. RequestOK(q) /\ q.intent \in Deposits
      BY <1>5, <2>1 DEF DepositInv, ServedAlone, Requests
    <2>3. RequestOK(q)'
      BY <1>5, <2>1, <2>2, UntouchedOK DEF Wrote
    <2>4. request'[t] = q
      BY <2>1
    <2> QED
      BY <2>3, <2>4
  <1>6. ServedAlone'
    BY <1>5 DEF ServedAlone, DepositInv
  <1> QED
    BY <1>3, <1>4, <1>6 DEF DepositInv

(* A new deposit, for which nobody has made a request yet.                  *)
LEMMA CreateStep ==
  ASSUME DepositInv, NEW d \in Deposits, CreateDepositIntent(d)
  PROVE  DepositInv' /\ Wrote(d) /\ status[d] = "absent"
  <1>1. status[d] = "absent" /\ request' = request /\ TypeInv /\ TypeOK
    BY DEF CreateDepositIntent, DepositInv, TypeInv
  <1>2. /\ Wrote(d) /\ status'[d] \in {"approved", "review_required"}
        /\ status'[d] = "approved" <=> policyDecision'[d] = "approved"
        /\ status'[d] = "review_required" <=> policyDecision'[d] = "review_required"
        /\ LatestTx(d)' = LatestTx(d) /\ txs' = txs /\ proof' = proof
        /\ Credited(d)' <=> Credited(d)
        /\ RowOK(d) => \A n \in 1 .. Len(reviewCases'[d]) :
             reviewCases'[d][n] = "open"
               => status'[d] = "review_required" /\ n = Len(reviewCases'[d])
    <2>1. CASE d \in AutoApproved
      <3>1. /\ SetStatus(d, "approved")
            /\ policyDecision' = [policyDecision EXCEPT ![d] = "approved"]
            /\ UNCHANGED <<ledgerVars, txs, reviewCases, proof>>
        BY <2>1 DEF CreateDepositIntent
      <3>2. /\ policyDecision' \in [Deposits -> Decisions] /\ policyDecision'[d] = "approved"
            /\ \A e \in Deposits : e # d => policyDecision'[e] = policyDecision[e]
        BY <1>1, <3>1 DEF TypeOK, Decisions
      <3>3. /\ reviewCases \in [Deposits -> Seq({"open", "closed"})]
            /\ Len(reviewCases[d]) \in Nat
        BY <1>1, LatestTxType DEF TypeOK
      <3>4. /\ Wrote(d) /\ status'[d] = "approved" /\ LatestTx(d)' = LatestTx(d)
            /\ Credited(d)' <=> Credited(d)
        BY <1>1, <3>1, <3>2, <3>3, StatusWritten DEF Statuses
      <3> QED
        BY <1>1, <3>1, <3>2, <3>4 DEF RowOK
    <2>2. CASE d \notin AutoApproved
      <3>1. PlaceUnderReview(d)
        BY <2>2 DEF CreateDepositIntent
      <3> QED
        BY <1>1, <3>1, UnderReviewStep DEF RowOK
    <2> QED
      BY <2>1, <2>2
  <1>3. d \notin Overlapping => RowOK(d)'
    <2>1. d \notin Overlapping => RowOK(d) /\ (txs[d] = <<>> => LatestTx(d) = NoTx)
      BY <1>1, LatestTxType DEF DepositInv
    <2> QED
      BY <1>1, <1>2, <2>1 DEF RowOK, NoTx
  <1>4. ASSUME NEW s \in Slots, NEW r \in Requests,
               request[s] = r, r.intent = d, d \notin Overlapping
        PROVE  FALSE
    <2>1. r.op \in Operations /\ request[s] # Idle
      BY <1>4 DEF Requests, Operations, Idle
    <2>2. RequestOK(r)
      BY <1>4, <2>1 DEF DepositInv, ServedAlone
    <2> QED
      BY <1>1, <1>4, <2>1, <2>2 DEF RequestOK, Allowed, Approved, MayBroadcast, MayFail, Operations
  <1> QED
    BY <1>1, <1>2, <1>3, <1>4, QuietStep

(* A case closed on its own leaves the deposit under review.                *)
LEMMA CloseCaseStep ==
  ASSUME DepositInv, NEW d \in Deposits, NEW n, CloseReviewCase(d, n)
  PROVE  DepositInv' /\ Wrote(d) /\ UNCHANGED <<status, txs>>
  <1>1. /\ n \in 1 .. Len(reviewCases[d])
        /\ reviewCases' = [reviewCases EXCEPT ![d][n] = "closed"]
        /\ UNCHANGED <<ledgerVars, status, policyDecision, txs, proof, request>>
        /\ TypeInv /\ TypeOK
    BY DEF CloseReviewCase, DepositInv, TypeInv
  <1>2. /\ reviewCases' \in [Deposits -> Seq({"open", "closed"})]
        /\ \A e \in Deposits : e # d => reviewCases'[e] = reviewCases[e]
        /\ Len(reviewCases'[d]) = Len(reviewCases[d])
        /\ \A m \in 1 .. Len(reviewCases[d]) :
             reviewCases'[d][m] = IF m = n THEN "closed" ELSE reviewCases[d][m]
    BY <1>1, ClosedCase
  <1>3. /\ LedgerTypeOK' /\ ProjectionMatchesLedger'
        /\ \A e \in Deposits : Credited(e)' <=> Credited(e)
    BY <1>1, LedgerKept
  <1>4. Wrote(d)
    <2>1. Tables'
      BY <1>1, <1>2, <1>3 DEF Tables, TypeOK
    <2>2. \A e \in Deposits : e # d => Untouched(e)
      BY <1>1, <1>2, <1>3 DEF Untouched
    <2>3. RowsStay(d)
      BY <1>1, <1>2, LatestTxType DEF RowsStay
    <2> QED
      BY <2>1, <2>2, <2>3 DEF Wrote
  <1>5. LatestTx(d)' = LatestTx(d)
    BY <1>1 DEF LatestTx
  <1>6. d \notin Overlapping => RowOK(d)'
    BY <1>1, <1>2, <1>3, <1>5 DEF DepositInv, RowOK, ProofIsValid
  <1>7. ASSUME NEW s \in Slots, NEW r \in Requests,
               request[s] = r, r.intent = d, d \notin Overlapping
        PROVE  RequestOK(r)'
    <2>1. request[s] # Idle
      BY <1>7 DEF Requests, Operations, Idle
    <2>2. RequestOK(r)
      BY <1>7, <2>1 DEF DepositInv, ServedAlone
    <2> QED
      BY <1>1, <1>2, <1>5, <1>7, <2>2
         DEF RequestOK, Allowed, Approved, MayBroadcast, MayFail
  <1> QED
    BY <1>1, <1>4, <1>6, <1>7, QuietStep

(* A rolled-back transaction leaves every row as it was.                    *)
LEMMA AbortStep ==
  ASSUME DepositInv, NEW s \in Slots, Abort(s)
  PROVE  DepositInv' /\ UNCHANGED <<ledgerVars, intentVars>> /\ Finish(s)
  <1>1. /\ request[s] # Idle /\ Finish(s) /\ TypeInv
        /\ UNCHANGED <<ledgerVars, intentVars>>
    BY DEF Abort, DepositInv
  <1>2. PICK r \in Requests : r = request[s]
    BY <1>1, ServedRequest
  <1>3. r.intent \in Deposits
    BY DEF Requests
  <1>4. Tables' /\ \A e \in Deposits : Untouched(e) /\ RowsStay(e)
    BY <1>1, NothingWritten
  <1>5. Wrote(r.intent)
    BY <1>3, <1>4 DEF Wrote
  <1>6. r.intent \notin Overlapping => RowOK(r.intent)'
    BY <1>3, <1>4, UntouchedOK DEF DepositInv
  <1> QED
    BY <1>1, <1>2, <1>5, <1>6, EndStep

(* A commit, and how it moves its deposit.                                  *)
LEMMA CommitStep ==
  ASSUME DepositInv, NEW s \in Slots, Commit(s)
  PROVE  /\ DepositInv'
         /\ request[s] \in Requests /\ request[s] # Idle /\ Finish(s)
         /\ \A r \in Requests : request[s] = r =>
              /\ r.intent \notin Overlapping => Moved(r)
              /\ \A e \in Deposits : e # r.intent => Untouched(e)
  <1>1. /\ request[s] \in Requests /\ request[s] # Idle /\ Finish(s)
        /\ \A r \in Requests : request[s] = r => Written(r)
    BY CommitWritten
  <1>2. PICK r \in Requests : r = request[s]
    BY <1>1
  <1>3. Written(r)
    BY <1>1, <1>2
  <1>4. DepositInv'
    BY <1>1, <1>2, <1>3, EndStep DEF Written
  <1> QED
    BY <1>1, <1>4 DEF Written, Wrote

(* What is confirmed is only ever settled, and what is settled stays so.    *)
Onward(d) ==
  /\ status[d] = "settled" => status'[d] = "settled"
  /\ status[d] = "confirmed" => status'[d] \in {"confirmed", "settled"}

(* A commit takes no deposit back.                                          *)
LEMMA CommitOnward ==
  ASSUME DepositInv, NEW s \in Slots, Commit(s)
  PROVE  \A d \in Deposits \ Overlapping : Onward(d)
  <1>1. PICK r \in Requests : r = request[s]
    BY CommitStep
  <1>2. /\ r.intent \notin Overlapping => Moved(r)
        /\ \A e \in Deposits : e # r.intent => Untouched(e)
    BY <1>1, CommitStep
  <1> QED
    BY <1>2 DEF Moved, Untouched, Onward

(* Every step of the specification preserves the invariant and takes no     *)
(* deposit back.                                                            *)
LEMMA DepositStep ==
  ASSUME DepositInv, [Next]_vars
  PROVE  DepositInv' /\ \A d \in Deposits \ Overlapping : Onward(d)
  <1>1. ASSUME NEW d \in Deposits, CreateDepositIntent(d)
        PROVE  DepositInv' /\ \A e \in Deposits \ Overlapping : Onward(e)
    BY <1>1, CreateStep DEF Wrote, Untouched, Onward
  <1>2. ASSUME NEW d \in Deposits, NEW n, CloseReviewCase(d, n)
        PROVE  DepositInv' /\ \A e \in Deposits \ Overlapping : Onward(e)
    BY <1>2, CloseCaseStep DEF Onward
  <1>3. ASSUME NEW s \in Slots, NEW d \in Deposits, Read(s, d)
        PROVE  DepositInv' /\ \A e \in Deposits \ Overlapping : Onward(e)
    BY <1>3, ReadStep DEF Onward, intentVars
  <1>4. ASSUME NEW s \in Slots, Commit(s)
        PROVE  DepositInv' /\ \A e \in Deposits \ Overlapping : Onward(e)
    BY <1>4, CommitStep, CommitOnward
  <1>5. ASSUME NEW s \in Slots, Abort(s)
        PROVE  DepositInv' /\ \A e \in Deposits \ Overlapping : Onward(e)
    BY <1>5, AbortStep DEF Onward, intentVars
  <1>6. ASSUME UNCHANGED vars
        PROVE  DepositInv' /\ \A e \in Deposits \ Overlapping : Onward(e)
    <2>1. UNCHANGED <<ledgerVars, intentVars>> /\ request' = request /\ TypeInv
      BY <1>6 DEF vars, DepositInv
    <2>2. Tables' /\ \A e \in Deposits : Untouched(e) /\ RowsStay(e)
      BY <2>1, NothingWritten
    <2>3. CASE Deposits = {}
      <3>1. \A t \in Slots : request[t] = Idle
        BY <2>1, <2>3, ServedRequest
      <3> QED
        BY <2>1, <2>2, <2>3, <3>1
           DEF DepositInv, TypeInv, TypeOK, Tables, ServedAlone
    <2>4. CASE Deposits # {}
      <3>1. PICK d \in Deposits : TRUE
        BY <2>4
      <3>2. Wrote(d) /\ (d \notin Overlapping => RowOK(d)')
        BY <2>2, UntouchedOK DEF Wrote, DepositInv
      <3>3. ASSUME NEW s \in Slots, NEW r \in Requests,
                   request[s] = r, r.intent = d, d \notin Overlapping
            PROVE  RequestOK(r)'
        <4>1. request[s] # Idle
          BY <3>3 DEF Requests, Operations, Idle
        <4>2. RequestOK(r)
          BY <3>3, <4>1 DEF DepositInv, ServedAlone
        <4> QED
          BY <2>2, <3>3, <4>2, UntouchedOK
      <3> QED
        BY <2>1, <2>2, <3>2, <3>3, QuietStep DEF Untouched, Onward
    <2> QED
      BY <2>3, <2>4
  <1> QED
    BY <1>1, <1>2, <1>3, <1>4, <1>5, <1>6 DEF Next

-----------------------------------------------------------------------------
(* What the invariant says                                                  *)

(* The invariant implies the properties of DepositIntents.                  *)
LEMMA DepositFollows ==
  ASSUME DepositInv
  PROVE  CreditFollowsProof /\ RecordedIsNeverRequeued /\ ReviewFollowsStatus
  <1>1. TypeOK
    BY DEF DepositInv, TypeInv
  <1>2. CreditFollowsProof
    BY DEF DepositInv, RowOK, CreditFollowsProof
  <1>3. RecordedIsNeverRequeued
    <2> SUFFICES ASSUME NEW d \in Deposits \ Overlapping, LatestTx(d).hash # NoHash
                 PROVE  status[d] \notin {"approved", "queued"}
      BY DEF RecordedIsNeverRequeued
    <2>1. txs[d] # <<>>
      BY <1>1, LatestTxType DEF NoTx
    <2> QED
      BY <2>1 DEF DepositInv, RowOK
  <1>4. ReviewFollowsStatus
    BY DEF DepositInv, RowOK, ReviewFollowsStatus
  <1> QED
    BY <1>2, <1>3, <1>4

-----------------------------------------------------------------------------
(* Replays by operators *)

(* What a replay that was marked executed has brought about.                *)
TookEffect(d, action) ==
  d \notin Overlapping =>
    status[d] \in IF action = "settle" THEN {"settled"} ELSE {"confirmed", "settled"}

(* The confirmation of a deposit whose requests do not overlap is never     *)
(* replayed: its status and its transaction are confirmed together.         *)
Asked(d, action) == d \notin Overlapping => action = "settle"

ReplayOK(r) ==
  replay[r] # NoReplay =>
    /\ Asked(replay[r].intent, replay[r].action)
    /\ replay[r].status \in {"approved", "executed"}
         => replay[r].approver \in Operators \ {replay[r].by}
    /\ replay[r].status = "executed"
         => /\ replay[r].executor # replay[r].by
            /\ TookEffect(replay[r].intent, replay[r].action)

(* A replay handler knows a row, which its operator did not write, and,     *)
(* while the handler of DepositIntents runs, has a slot of its own.         *)
DeskOK(h) ==
  /\ h.replay \in Replays
  /\ h.at \in {"request", "answer", "call", "wait", "mark"}
  /\ h.operator \in Operators
  /\ h.at = "request"
       => h.intent \in Deposits /\ h.action \in {"confirm", "settle"} /\ Asked(h.intent, h.action)
  /\ h.at # "request" => replay[h.replay] # NoReplay /\ h.operator # replay[h.replay].by
  /\ h.at = "answer" => h.answer \in {"approved", "rejected"}
  /\ h.at \in {"call", "wait", "mark"} => h.approver \in Operators \ {replay[h.replay].by}
  /\ h.at = "wait" =>
       /\ h.slot \in Slots /\ request[h.slot] # Idle
       /\ request[h.slot].op = replay[h.replay].action
       /\ request[h.slot].intent = replay[h.replay].intent
  /\ h.at = "mark" => TookEffect(replay[h.replay].intent, replay[h.replay].action)

SlotsApart ==
  \A g \in desk, h \in desk : g.at = "wait" /\ h.at = "wait" /\ g.slot = h.slot => g = h

ReplayInv ==
  /\ replay \in [Replays -> ReplayRows \cup {NoReplay}]
  /\ \A r \in Replays : ReplayOK(r)
  /\ \A h \in desk : DeskOK(h)
  /\ SlotsApart

(* A row that is not absent has the fields of a replay.                     *)
LEMMA ReplayFields ==
  ASSUME ReplayInv, NEW r \in Replays, replay[r] # NoReplay
  PROVE  /\ replay[r] \in ReplayRows
         /\ replay[r].intent \in Deposits /\ replay[r].action \in {"confirm", "settle"}
         /\ replay[r].by \in Operators
  BY DEF ReplayInv, ReplayRows

(* How the deposits that do not overlap are classified.                     *)
LEMMA Classified ==
  ASSUME NEW d \in Deposits, RowOK(d)
  PROVE  /\ Classify(d) # "confirm"
         /\ status[d] = "confirmed" => Classify(d) = "settle"
         /\ status[d] = "settled" => Classify(d) = "healthy_settled"
  <1>1. CASE status[d] = "confirmed"
    BY <1>1 DEF RowOK, Classify
  <1>2. CASE status[d] = "settled"
    BY <1>2 DEF RowOK, Classify
  <1>3. CASE status[d] = "broadcast"
    <2>1. LatestTx(d).status # "confirmed"
      BY <1>3 DEF RowOK, LatestTx, NoTx
    <2> QED
      BY <1>3, <2>1 DEF Classify
  <1>4. CASE status[d] \notin {"confirmed", "settled", "broadcast"}
    BY <1>4 DEF Classify
  <1> QED
    BY <1>1, <1>2, <1>3, <1>4

(* No step takes back what a replay has brought about.                      *)
LEMMA EffectStays ==
  ASSUME \A d \in Deposits \ Overlapping : Onward(d),
         NEW d \in Deposits, NEW action, TookEffect(d, action)
  PROVE  TookEffect(d, action)'
  BY DEF TookEffect, Onward

(* The row stays the row of the same request.                               *)
KeepsReplay(r) ==
  replay[r] # NoReplay =>
    /\ replay'[r] # NoReplay
    /\ replay'[r].by = replay[r].by
    /\ replay'[r].intent = replay[r].intent
    /\ replay'[r].action = replay[r].action

(* A handler that does not act still knows what it knew.                    *)
LEMMA DeskStays ==
  ASSUME ReplayInv, \A d \in Deposits \ Overlapping : Onward(d),
         \A r \in Replays : KeepsReplay(r),
         NEW h, DeskOK(h), h.at = "wait" => request'[h.slot] = request[h.slot]
  PROVE  DeskOK(h)'
  <1>1. PICK r \in Replays : r = h.replay
    BY DEF DeskOK
  <1>2. CASE h.at = "request"
    BY <1>2 DEF DeskOK, Asked
  <1>3. CASE h.at # "request"
    <2>1. /\ replay[r] # NoReplay /\ replay'[r] # NoReplay
          /\ replay'[r].by = replay[r].by
          /\ replay'[r].intent = replay[r].intent
          /\ replay'[r].action = replay[r].action
      BY <1>1, <1>3 DEF DeskOK, KeepsReplay
    <2>2. PICK d \in Deposits : d = replay[r].intent
      BY <2>1, ReplayFields
    <2>3. PICK action : action = replay[r].action
      OBVIOUS
    <2>4. h.at = "mark" => TookEffect(d, action)'
      BY <1>1, <2>2, <2>3, EffectStays DEF DeskOK
    <2>5. h.at = "mark" => TookEffect(replay[r].intent, replay[r].action)'
      BY <2>1, <2>2, <2>3, <2>4 DEF TookEffect
    <2> QED
      BY <1>1, <1>3, <2>1, <2>5 DEF DeskOK
  <1> QED
    BY <1>2, <1>3

(* A row that is not written stays in order.                                *)
LEMMA ReplayStays ==
  ASSUME ReplayInv, \A d \in Deposits \ Overlapping : Onward(d),
         NEW r \in Replays, replay'[r] = replay[r]
  PROVE  ReplayOK(r)' /\ KeepsReplay(r)
  <1>1. KeepsReplay(r)
    BY DEF KeepsReplay
  <1>2. CASE replay[r] # NoReplay
    <2>1. PICK row \in ReplayRows : row = replay[r]
      BY <1>2, ReplayFields
    <2>2. row.intent \in Deposits /\ replay'[r] = row
      BY <2>1 DEF ReplayRows
    <2>3. TookEffect(row.intent, row.action) => TookEffect(row.intent, row.action)'
      BY <2>2, EffectStays
    <2>4. ReplayOK(r)
      BY DEF ReplayInv
    <2> QED
      BY <1>1, <1>2, <2>1, <2>2, <2>3, <2>4 DEF ReplayOK, Asked, TookEffect
  <1>3. CASE replay[r] = NoReplay
    BY <1>1, <1>3 DEF ReplayOK
  <1> QED
    BY <1>2, <1>3

(* A handler acts: it leaves the desk, or another takes its place.          *)
LEMMA DeskStep ==
  ASSUME ReplayInv, \A d \in Deposits \ Overlapping : Onward(d),
         replay' \in [Replays -> ReplayRows \cup {NoReplay}],
         \A r \in Replays : ReplayOK(r)' /\ KeepsReplay(r),
         \A h \in desk' :
           \/ DeskOK(h)'
           \/ h \in desk /\ (h.at = "wait" => request'[h.slot] = request[h.slot]),
         SlotsApart'
  PROVE  ReplayInv'
  <1>1. ASSUME NEW h \in desk' PROVE DeskOK(h)'
    BY <1>1, DeskStays DEF ReplayInv
  <1> QED
    BY <1>1 DEF ReplayInv

(* Steps that leave the deposits alone take none back.                      *)
LEMMA StillOnward ==
  ASSUME UNCHANGED vars
  PROVE  \A d \in Deposits \ Overlapping : Onward(d)
  BY DEF vars, intentVars, Onward

(* A handler starts: it has read the row of an operator other than its own. *)
LEMMA StartReplayStep ==
  ASSUME ReplayInv, NEW h, StartReplay(h), DeskOK(h), h.at # "wait"
  PROVE  ReplayInv'
  <1>1. UNCHANGED <<vars, replay>> /\ desk' = desk \cup {h} /\ request' = request
    BY DEF StartReplay, vars
  <1>2. \A d \in Deposits \ Overlapping : Onward(d)
    BY <1>1, StillOnward
  <1>3. \A r \in Replays : ReplayOK(r)' /\ KeepsReplay(r)
    BY <1>1, <1>2, ReplayStays
  <1>4. replay' \in [Replays -> ReplayRows \cup {NoReplay}] /\ SlotsApart'
    BY <1>1 DEF ReplayInv, SlotsApart
  <1>5. DeskOK(h)'
    BY <1>1, <1>2, <1>3, DeskStays
  <1>6. \A k \in desk' :
          \/ DeskOK(k)'
          \/ k \in desk /\ (k.at = "wait" => request'[k.slot] = request[k.slot])
    BY <1>1, <1>5
  <1> QED
    BY <1>2, <1>3, <1>4, <1>6, DeskStep

(* The three handlers that start.                                           *)
LEMMA BeginReplaySteps ==
  ASSUME DepositInv, ReplayInv, NEW r \in Replays, NEW p \in Operators
  PROVE  /\ \A d \in Deposits, action \in {"confirm", "settle"} :
              BeginRequestReplay(r, d, action, p) => ReplayInv' /\ UNCHANGED vars
         /\ \A answer \in {"approved", "rejected"} :
              BeginAnswerReplay(r, p, answer) => ReplayInv' /\ UNCHANGED vars
         /\ BeginReplay(r, p) => ReplayInv' /\ UNCHANGED vars
  <1>1. ASSUME NEW d \in Deposits, NEW action \in {"confirm", "settle"},
               BeginRequestReplay(r, d, action, p)
        PROVE  ReplayInv' /\ UNCHANGED vars
    <2> DEFINE h == [at |-> "request", replay |-> r, intent |-> d, action |-> action,
                     operator |-> p]
    <2>1. Classify(d) = action /\ StartReplay(h)
      BY <1>1 DEF BeginRequestReplay
    <2>2. Asked(d, action)
      BY <2>1, Classified DEF Asked, DepositInv
    <2>3. DeskOK(h) /\ h.at # "wait"
      BY <2>2 DEF DeskOK
    <2> HIDE DEF h
    <2> QED
      BY <2>1, <2>3, StartReplayStep DEF StartReplay
  <1>2. ASSUME NEW answer \in {"approved", "rejected"}, BeginAnswerReplay(r, p, answer)
        PROVE  ReplayInv' /\ UNCHANGED vars
    <2> DEFINE h == [at |-> "answer", replay |-> r, operator |-> p, answer |-> answer]
    <2>1. /\ replay[r].status = "pending_approval" /\ replay[r].by # p
          /\ StartReplay(h)
      BY <1>2 DEF BeginAnswerReplay, AnotherMay
    <2>2. replay[r] # NoReplay
      BY <2>1 DEF NoReplay
    <2>3. DeskOK(h) /\ h.at # "wait"
      BY <2>1, <2>2 DEF DeskOK
    <2> HIDE DEF h
    <2> QED
      BY <2>1, <2>3, StartReplayStep DEF StartReplay
  <1>3. ASSUME BeginReplay(r, p)
        PROVE  ReplayInv' /\ UNCHANGED vars
    <2> DEFINE h == [at |-> "call", replay |-> r, operator |-> p,
                     approver |-> replay[r].approver]
    <2>1. replay[r].status = "approved" /\ replay[r].by # p /\ StartReplay(h)
      BY <1>3 DEF BeginReplay, AnotherMay
    <2>2. replay[r] # NoReplay
      BY <2>1 DEF NoReplay
    <2>3. replay[r].approver \in Operators \ {replay[r].by}
      BY <2>1, <2>2 DEF ReplayInv, ReplayOK
    <2>4. DeskOK(h) /\ h.at # "wait"
      BY <2>1, <2>2, <2>3 DEF DeskOK
    <2>5. PICK k : k = h
      OBVIOUS
    <2> QED
      BY <2>1, <2>4, <2>5, StartReplayStep DEF StartReplay
  <1> QED
    BY <1>1, <1>2, <1>3

(* A handler writes its row, or none, and ends.                             *)
LEMMA EndReplayStep ==
  ASSUME ReplayInv, NEW h \in desk, EndReplay(h),
         \A d \in Deposits \ Overlapping : Onward(d),
         NEW r \in Replays, \A q \in Replays : q # r => replay'[q] = replay[q],
         replay' \in [Replays -> ReplayRows \cup {NoReplay}],
         ReplayOK(r)', KeepsReplay(r),
         \A k \in desk : k # h /\ k.at = "wait" => request'[k.slot] = request[k.slot]
  PROVE  ReplayInv'
  <1>1. desk' = desk \ {h}
    BY DEF EndReplay
  <1>2. \A q \in Replays : ReplayOK(q)' /\ KeepsReplay(q)
    BY ReplayStays
  <1>3. SlotsApart'
    BY <1>1 DEF ReplayInv, SlotsApart
  <1> QED
    BY <1>1, <1>2, <1>3, DeskStep

(* The request for a replay is recorded.                                    *)
LEMMA CommitRequestReplayStep ==
  ASSUME ReplayInv, NEW h \in desk, CommitRequestReplay(h)
  PROVE  ReplayInv' /\ UNCHANGED vars
  <1>1. DeskOK(h)
    BY DEF ReplayInv
  <1>2. PICK r \in Replays : r = h.replay
    BY <1>1 DEF DeskOK
  <1>3. PICK row : row = [status |-> "pending_approval", intent |-> h.intent,
                          action |-> h.action, by |-> h.operator,
                          approver |-> "none", executor |-> "none"]
    OBVIOUS
  <1>4. /\ replay[r] = NoReplay /\ replay' = [replay EXCEPT ![r] = row]
        /\ EndReplay(h) /\ UNCHANGED vars /\ h.at = "request" /\ request' = request
    BY <1>2, <1>3 DEF CommitRequestReplay, vars
  <1>5. row \in ReplayRows
    BY <1>1, <1>3, <1>4 DEF DeskOK, ReplayRows
  <1>6. /\ replay' \in [Replays -> ReplayRows \cup {NoReplay}] /\ replay'[r] = row
        /\ \A q \in Replays : q # r => replay'[q] = replay[q]
    BY <1>4, <1>5 DEF ReplayInv
  <1>7. KeepsReplay(r)
    BY <1>4 DEF KeepsReplay
  <1>8. ReplayOK(r)'
    <2>1. row.status = "pending_approval" /\ Asked(row.intent, row.action)
      BY <1>1, <1>3, <1>4 DEF DeskOK
    <2> QED
      BY <1>6, <2>1 DEF ReplayOK, Asked
  <1>9. \A d \in Deposits \ Overlapping : Onward(d)
    BY <1>4, StillOnward
  <1> QED
    BY <1>4, <1>6, <1>7, <1>8, <1>9, EndReplayStep

(* The answer of another operator is recorded.                              *)
LEMMA AnswerReplayStep ==
  ASSUME ReplayInv, NEW h \in desk,
         CommitApproveReplay(h) \/ CommitRejectReplay(h)
  PROVE  ReplayInv' /\ UNCHANGED vars
  <1>1. DeskOK(h)
    BY DEF ReplayInv
  <1>2. PICK r \in Replays : r = h.replay
    BY <1>1 DEF DeskOK
  <1>3. PICK answer, approver :
          /\ AnswerReplay(h, answer, approver)
          /\ \/ answer = "approved" /\ approver = h.operator
             \/ answer = "rejected" /\ approver = replay[r].approver
    BY <1>2 DEF CommitApproveReplay, CommitRejectReplay
  <1>4. /\ h.at = "answer" /\ h.answer = answer
        /\ replay' = [replay EXCEPT ![r].status = answer, ![r].approver = approver]
        /\ EndReplay(h) /\ UNCHANGED vars /\ request' = request
    BY <1>2, <1>3 DEF AnswerReplay, vars
  <1>5. replay[r] # NoReplay /\ h.operator # replay[r].by /\ h.operator \in Operators
    BY <1>1, <1>2, <1>4 DEF DeskOK
  <1>6. PICK row \in ReplayRows : row = replay[r]
    BY <1>5, ReplayFields
  <1>7. PICK new : new = [row EXCEPT !.status = answer, !.approver = approver]
    OBVIOUS
  <1>8. /\ new \in ReplayRows /\ new.status = answer /\ new.approver = approver
        /\ new.by = row.by /\ new.intent = row.intent /\ new.action = row.action
    BY <1>3, <1>5, <1>6, <1>7 DEF ReplayRows
  <1>9. replay' = [replay EXCEPT ![r] = new]
    BY <1>4, <1>6, <1>7 DEF ReplayInv
  <1>10. /\ replay' \in [Replays -> ReplayRows \cup {NoReplay}] /\ replay'[r] = new
         /\ \A q \in Replays : q # r => replay'[q] = replay[q]
    BY <1>8, <1>9 DEF ReplayInv
  <1>11. new # NoReplay
    BY <1>3, <1>8 DEF NoReplay
  <1>12. KeepsReplay(r)
    BY <1>6, <1>8, <1>10, <1>11 DEF KeepsReplay
  <1>13. ReplayOK(r)'
    <2>1. Asked(row.intent, row.action)
      BY <1>5, <1>6 DEF ReplayInv, ReplayOK
    <2>2. new.status # "executed"
          /\ (new.status = "approved" => new.approver \in Operators \ {new.by})
      BY <1>3, <1>5, <1>6, <1>8
    <2> QED
      BY <1>8, <1>10, <2>1, <2>2 DEF ReplayOK, Asked
  <1>14. \A d \in Deposits \ Overlapping : Onward(d)
    BY <1>4, StillOnward
  <1> QED
    BY <1>4, <1>10, <1>12, <1>13, <1>14, EndReplayStep

(* The replay is marked executed.                                           *)
LEMMA MarkReplayedStep ==
  ASSUME ReplayInv, NEW h \in desk, MarkReplayed(h)
  PROVE  ReplayInv' /\ UNCHANGED vars
  <1>1. DeskOK(h)
    BY DEF ReplayInv
  <1>2. PICK r \in Replays : r = h.replay
    BY <1>1 DEF DeskOK
  <1>3. /\ h.at = "mark" /\ EndReplay(h) /\ UNCHANGED vars /\ request' = request
        /\ replay' = [replay EXCEPT ![r].status = "executed",
                        ![r].executor = h.operator, ![r].approver = h.approver]
    BY <1>2 DEF MarkReplayed, vars
  <1>4. /\ replay[r] # NoReplay /\ h.operator # replay[r].by /\ h.operator \in Operators
        /\ h.approver \in Operators \ {replay[r].by}
        /\ TookEffect(replay[r].intent, replay[r].action)
    BY <1>1, <1>2, <1>3 DEF DeskOK
  <1>5. PICK row \in ReplayRows : row = replay[r]
    BY <1>4, ReplayFields
  <1>6. PICK new : new = [row EXCEPT !.status = "executed", !.executor = h.operator,
                                     !.approver = h.approver]
    OBVIOUS
  <1>7. /\ new \in ReplayRows /\ new.status = "executed" /\ new.approver = h.approver
        /\ new.executor = h.operator
        /\ new.by = row.by /\ new.intent = row.intent /\ new.action = row.action
    BY <1>4, <1>5, <1>6 DEF ReplayRows
  <1>8. replay' = [replay EXCEPT ![r] = new]
    BY <1>3, <1>5, <1>6 DEF ReplayInv
  <1>9. /\ replay' \in [Replays -> ReplayRows \cup {NoReplay}] /\ replay'[r] = new
        /\ \A q \in Replays : q # r => replay'[q] = replay[q]
    BY <1>7, <1>8 DEF ReplayInv
  <1>10. new # NoReplay
    BY <1>7 DEF NoReplay
  <1>11. KeepsReplay(r)
    BY <1>5, <1>7, <1>9, <1>10 DEF KeepsReplay
  <1>12. \A d \in Deposits \ Overlapping : Onward(d)
    BY <1>3, StillOnward
  <1>13. ReplayOK(r)'
    <2>1. Asked(row.intent, row.action)
      BY <1>4, <1>5 DEF ReplayInv, ReplayOK
    <2>2. row.intent \in Deposits /\ TookEffect(row.intent, row.action)
      BY <1>4, <1>5 DEF ReplayRows
    <2>3. TookEffect(row.intent, row.action)'
      BY <1>12, <2>2, EffectStays
    <2> QED
      BY <1>4, <1>5, <1>7, <1>9, <2>1, <2>3 DEF ReplayOK, Asked, TookEffect
  <1> QED
    BY <1>3, <1>9, <1>11, <1>12, <1>13, EndReplayStep

(* A handler goes on with its replay, as another entry of the desk.         *)
LEMMA GoOnStep ==
  ASSUME ReplayInv, NEW h \in desk, NEW new, desk' \subseteq (desk \ {h}) \cup new,
         UNCHANGED replay, \A d \in Deposits \ Overlapping : Onward(d),
         \A g \in new : DeskOK(g)',
         \A k \in desk : k # h /\ k.at = "wait" => request'[k.slot] = request[k.slot],
         SlotsApart'
  PROVE  ReplayInv'
  <1>1. \A r \in Replays : ReplayOK(r)' /\ KeepsReplay(r)
    BY ReplayStays
  <1>2. replay' \in [Replays -> ReplayRows \cup {NoReplay}]
    BY DEF ReplayInv
  <1> QED
    BY <1>1, <1>2, DeskStep

(* The handler answers without a transaction: a worker came first, or it    *)
(* refuses.                                                                 *)
LEMMA AnswerHandlerStep ==
  ASSUME ReplayInv, NEW h \in desk, AnswerHandler(h)
  PROVE  ReplayInv' /\ UNCHANGED vars
  <1>1. DeskOK(h) /\ h.at = "call" /\ UNCHANGED vars /\ UNCHANGED replay
    BY DEF ReplayInv, AnswerHandler
  <1>2. PICK r \in Replays : r = h.replay
    BY <1>1 DEF DeskOK
  <1>3. PICK new : new = IF AlreadyDone(replay[r].intent, replay[r].action)
                         THEN {Returned(h)} ELSE {}
    OBVIOUS
  <1>4. desk' = (desk \ {h}) \cup new
    BY <1>2, <1>3 DEF AnswerHandler
  <1>5. /\ replay[r] # NoReplay /\ h.operator # replay[r].by /\ h.operator \in Operators
        /\ h.approver \in Operators \ {replay[r].by}
        /\ Asked(replay[r].intent, replay[r].action)
    BY <1>1, <1>2 DEF DeskOK, ReplayInv, ReplayOK
  <1>6. UNCHANGED <<status, request>>
    BY <1>1 DEF vars, intentVars
  <1>7. ASSUME NEW g \in new PROVE DeskOK(g)' /\ g.at = "mark"
    <2>1. g = Returned(h) /\ AlreadyDone(replay[r].intent, replay[r].action)
      BY <1>3, <1>7
    <2>2. /\ g.at = "mark" /\ g.replay = r /\ g.operator = h.operator
          /\ g.approver = h.approver
      BY <1>2, <2>1 DEF Returned
    <2>3. TookEffect(replay[r].intent, replay[r].action)'
      BY <1>1, <1>5, <1>6, <2>1 DEF Asked, AlreadyDone, TookEffect
    <2> QED
      BY <1>1, <1>5, <2>2, <2>3 DEF DeskOK
  <1>8. SlotsApart'
    BY <1>4, <1>7 DEF ReplayInv, SlotsApart
  <1>9. \A d \in Deposits \ Overlapping : Onward(d)
    BY <1>1, StillOnward
  <1> QED
    BY <1>1, <1>4, <1>6, <1>7, <1>8, <1>9, GoOnStep

(* The handler of DepositIntents is called and reads.                       *)
LEMMA CallHandlerStep ==
  ASSUME DepositInv, ReplayInv, NEW h \in desk, NEW s \in Slots, CallHandler(h, s)
  PROVE  ReplayInv' /\ \E d \in Deposits : Read(s, d)
  <1>1. DeskOK(h) /\ h.at = "call" /\ UNCHANGED replay
    BY DEF ReplayInv, CallHandler
  <1>2. PICK r \in Replays : r = h.replay
    BY <1>1 DEF DeskOK
  <1>3. /\ replay[r] # NoReplay /\ h.operator # replay[r].by /\ h.operator \in Operators
        /\ h.approver \in Operators \ {replay[r].by}
    BY <1>1, <1>2 DEF DeskOK
  <1>4. PICK d \in Deposits, action \in {"confirm", "settle"} :
          d = replay[r].intent /\ action = replay[r].action
    BY <1>3, ReplayFields
  <1>5. PICK g : g = [at |-> "wait", replay |-> h.replay, operator |-> h.operator,
                      approver |-> h.approver, slot |-> s]
    OBVIOUS
  <1>6. /\ IF action = "confirm" THEN BeginConfirm(s, d) ELSE BeginSettle(s, d)
        /\ desk' = (desk \ {h}) \cup {g}
    BY <1>2, <1>4, <1>5 DEF CallHandler
  <1>7. Read(s, d) /\ Begin(s, action, d, NoHash, FALSE)
    BY <1>4, <1>6 DEF Read, BeginConfirm, BeginSettle
  <1>8. /\ request[s] = Idle /\ request'[s] # Idle
        /\ request'[s].op = action /\ request'[s].intent = d
        /\ \A t \in Slots : t # s => request'[t] = request[t]
    <2>1. PICK q : q = [op |-> action, intent |-> d, hash |-> NoHash, sound |-> FALSE,
                        row |-> Len(txs[d]), tx |-> LatestTx(d),
                        reviewCase |-> Len(reviewCases[d])]
      OBVIOUS
    <2>2. /\ request \in [Slots -> Requests \cup {Idle}] /\ request[s] = Idle
          /\ request' = [request EXCEPT ![s] = q]
      BY <1>7, <2>1 DEF Begin, DepositInv, TypeInv, TypeOK
    <2>3. q.op = action /\ q.intent = d
      BY <2>1
    <2>4. q # Idle
      BY <1>4, <2>3 DEF Idle
    <2> QED
      BY <2>2, <2>3, <2>4
  <1>9. \A e \in Deposits \ Overlapping : Onward(e)
    BY <1>7 DEF Begin, intentVars, Onward
  <1>10. DeskOK(g)'
    BY <1>1, <1>2, <1>3, <1>4, <1>5, <1>8 DEF DeskOK
  <1>11. ASSUME NEW k \in desk, k.at = "wait"
         PROVE  k.slot # s /\ request'[k.slot] = request[k.slot]
    BY <1>8, <1>11 DEF ReplayInv, DeskOK
  <1>12. SlotsApart'
    BY <1>5, <1>6, <1>11 DEF ReplayInv, SlotsApart
  <1>13. ReplayInv'
    BY <1>1, <1>6, <1>9, <1>10, <1>11, <1>12, GoOnStep
  <1> QED
    BY <1>7, <1>13

(* The transaction of the handler commits: a settlement is settled.         *)
LEMMA HandlerCommitsStep ==
  ASSUME DepositInv, ReplayInv, NEW h \in desk, HandlerCommits(h)
  PROVE  ReplayInv' /\ \E s \in Slots : Commit(s)
  <1>1. DeskOK(h) /\ h.at = "wait" /\ UNCHANGED replay
    BY DEF ReplayInv, HandlerCommits
  <1>2. PICK r \in Replays : r = h.replay
    BY <1>1 DEF DeskOK
  <1>3. PICK s \in Slots : s = h.slot
    BY <1>1 DEF DeskOK
  <1>4. PICK g : g = Returned(h)
    OBVIOUS
  <1>5. Commit(s) /\ desk' = (desk \ {h}) \cup {g}
    BY <1>3, <1>4 DEF HandlerCommits
  <1>6. /\ replay[r] # NoReplay /\ h.operator # replay[r].by /\ h.operator \in Operators
        /\ h.approver \in Operators \ {replay[r].by}
        /\ request[s].op = replay[r].action /\ request[s].intent = replay[r].intent
        /\ Asked(replay[r].intent, replay[r].action)
    BY <1>1, <1>2, <1>3 DEF DeskOK, ReplayInv, ReplayOK
  <1>7. PICK q \in Requests : q = request[s]
    BY <1>5, CommitStep
  <1>8. /\ Finish(s) /\ (q.intent \notin Overlapping => Moved(q))
    BY <1>5, <1>7, CommitStep
  <1>9. \A d \in Deposits \ Overlapping : Onward(d)
    BY <1>5, CommitOnward
  <1>10. q.intent = replay[r].intent /\ q.op = replay[r].action /\ q.intent \in Deposits
    BY <1>6, <1>7 DEF Requests
  <1>11. TookEffect(replay[r].intent, replay[r].action)'
    <2>1. q.intent \notin Overlapping => q.op = "settle" /\ status'[q.intent] = "settled"
      BY <1>6, <1>8, <1>10 DEF Asked, Moved
    <2> QED
      BY <1>1, <1>10, <2>1 DEF TookEffect
  <1>12. g.at = "mark" /\ g.replay = r /\ g.operator = h.operator /\ g.approver = h.approver
    BY <1>2, <1>4 DEF Returned
  <1>13. DeskOK(g)'
    BY <1>1, <1>6, <1>11, <1>12 DEF DeskOK
  <1>14. ASSUME NEW k \in desk, k # h, k.at = "wait"
         PROVE  request'[k.slot] = request[k.slot]
    <2>1. k.slot # s /\ k.slot \in Slots
      BY <1>1, <1>3, <1>14 DEF ReplayInv, SlotsApart, DeskOK
    <2> QED
      BY <1>8, <2>1 DEF Finish, DepositInv, TypeInv, TypeOK
  <1>15. SlotsApart'
    BY <1>5, <1>12 DEF ReplayInv, SlotsApart
  <1>16. ReplayInv'
    BY <1>1, <1>5, <1>9, <1>13, <1>14, <1>15, GoOnStep
  <1> QED
    BY <1>5, <1>16

(* The transaction rolls back, or the API dies: the replay is over.         *)
LEMMA ReplayEndsStep ==
  ASSUME DepositInv, ReplayInv, NEW h \in desk, HandlerAborts(h) \/ ReplayDies(h)
  PROVE  ReplayInv' /\ ((\E s \in Slots : Abort(s)) \/ UNCHANGED vars)
  <1>1. EndReplay(h) /\ UNCHANGED replay /\ DeskOK(h)
    BY DEF HandlerAborts, ReplayDies, ReplayInv
  <1>2. SlotsApart' /\ desk' = desk \ {h}
    BY <1>1 DEF EndReplay, ReplayInv, SlotsApart
  <1> DEFINE none == {}
  <1>3. desk' \subseteq (desk \ {h}) \cup none /\ \A g \in none : DeskOK(g)'
    BY <1>2
  <1> HIDE DEF none
  <1>4. CASE HandlerAborts(h)
    <2>1. PICK s \in Slots : s = h.slot /\ h.at = "wait" /\ Abort(s)
      BY <1>1, <1>4 DEF HandlerAborts, DeskOK
    <2>2. Finish(s) /\ status' = status
      BY <2>1, AbortStep DEF intentVars
    <2>3. \A d \in Deposits \ Overlapping : Onward(d)
      BY <2>2 DEF Onward
    <2>4. ASSUME NEW k \in desk, k # h, k.at = "wait"
          PROVE  request'[k.slot] = request[k.slot]
      <3>1. k.slot # s /\ k.slot \in Slots
        BY <2>1, <2>4 DEF ReplayInv, SlotsApart, DeskOK
      <3> QED
        BY <2>2, <3>1 DEF Finish, DepositInv, TypeInv, TypeOK
    <2> QED
      BY <1>1, <1>2, <1>3, <2>1, <2>3, <2>4, GoOnStep
  <1>5. CASE ReplayDies(h)
    <2>1. UNCHANGED vars /\ request' = request
      BY <1>5 DEF ReplayDies, vars
    <2>2. \A d \in Deposits \ Overlapping : Onward(d)
      BY <2>1, StillOnward
    <2> QED
      BY <1>1, <1>2, <1>3, <2>1, <2>2, GoOnStep
  <1> QED
    BY <1>4, <1>5

(* Workers and customers leave the slots of replays alone.                  *)
LEMMA OthersStep ==
  ASSUME DepositInv, ReplayInv, Others
  PROVE  ReplayInv' /\ Next
  <1>1. Next
    BY DEF Others, Next
  <1>2. \A d \in Deposits \ Overlapping : Onward(d)
    BY <1>1, DepositStep
  <1>3. UNCHANGED <<replay, desk>>
    BY DEF Others
  <1>4. ASSUME NEW k \in desk, k.at = "wait"
        PROVE  request'[k.slot] = request[k.slot]
    <2>1. k.slot \in Slots /\ request[k.slot] # Idle /\ Held(k.slot)
      BY <1>4 DEF ReplayInv, DeskOK, Held
    <2>2. ASSUME NEW s \in Slots, ~Held(s), Commit(s) \/ Abort(s)
          PROVE  request'[k.slot] = request[k.slot]
      <3>1. Finish(s)
        BY <2>2, CommitStep, AbortStep
      <3> QED
        BY <2>1, <2>2, <3>1 DEF Finish, DepositInv, TypeInv, TypeOK
    <2>3. ASSUME NEW s \in Slots, NEW d \in Deposits, Read(s, d)
          PROVE  request'[k.slot] = request[k.slot]
      <3>1. request[s] = Idle /\ \E q : request' = [request EXCEPT ![s] = q]
        BY <2>3, ReadKnows DEF Begin
      <3> QED
        BY <2>1, <3>1 DEF DepositInv, TypeInv, TypeOK
    <2>4. ASSUME NEW d \in Deposits, CreateDepositIntent(d)
          PROVE  request' = request
      BY <2>4 DEF CreateDepositIntent
    <2>5. ASSUME NEW d \in Deposits, NEW n, CloseReviewCase(d, n)
          PROVE  request' = request
      BY <2>5 DEF CloseReviewCase
    <2> QED
      BY <2>2, <2>3, <2>4, <2>5 DEF Others
  <1>5. SlotsApart'
    BY <1>3 DEF ReplayInv, SlotsApart
  <1>6. replay' \in [Replays -> ReplayRows \cup {NoReplay}]
    BY <1>3 DEF ReplayInv
  <1>7. \A r \in Replays : ReplayOK(r)' /\ KeepsReplay(r)
    BY <1>2, <1>3, ReplayStays
  <1>8. ReplayInv'
    BY <1>2, <1>3, <1>4, <1>5, <1>6, <1>7, DeskStep
  <1> QED
    BY <1>1, <1>8

(* No replay is asked for at the start.                                     *)
LEMMA ReplayInitial == ReplayInit => DepositInv /\ ReplayInv
  <1> SUFFICES ASSUME ReplayInit PROVE DepositInv /\ ReplayInv
    OBVIOUS
  <1>1. DepositInv
    BY DepositInit DEF ReplayInit
  <1>2. ReplayInv
    BY DEF ReplayInit, ReplayInv, ReplayOK, SlotsApart
  <1> QED
    BY <1>1, <1>2

(* Every step with replays is a step of the deposits, or none, and keeps    *)
(* the invariant.                                                           *)
LEMMA ReplayStep ==
  ASSUME DepositInv, ReplayInv, [ReplayNext]_replayVars
  PROVE  ReplayInv' /\ [Next]_vars
  <1>1. CASE Others
    BY <1>1, OthersStep
  <1>2. ASSUME NEW r \in Replays, NEW p \in Operators,
               \/ \E d \in Deposits, action \in {"confirm", "settle"} :
                    BeginRequestReplay(r, d, action, p)
               \/ \E answer \in {"approved", "rejected"} : BeginAnswerReplay(r, p, answer)
               \/ BeginReplay(r, p)
        PROVE  ReplayInv' /\ UNCHANGED vars
    BY <1>2, BeginReplaySteps
  <1>3. ASSUME NEW h \in desk,
               \/ CommitRequestReplay(h) \/ CommitApproveReplay(h) \/ CommitRejectReplay(h)
               \/ AnswerHandler(h) \/ MarkReplayed(h)
        PROVE  ReplayInv' /\ UNCHANGED vars
    BY <1>3, CommitRequestReplayStep, AnswerReplayStep, AnswerHandlerStep, MarkReplayedStep
  <1>4. ASSUME NEW h \in desk,
               \/ \E s \in Slots : CallHandler(h, s)
               \/ HandlerCommits(h) \/ HandlerAborts(h) \/ ReplayDies(h)
        PROVE  ReplayInv' /\ [Next]_vars
    BY <1>4, CallHandlerStep, HandlerCommitsStep, ReplayEndsStep DEF Next
  <1>5. CASE UNCHANGED replayVars
    <2>1. UNCHANGED <<vars, replay, desk>> /\ request' = request
      BY <1>5 DEF replayVars, vars
    <2>2. \A d \in Deposits \ Overlapping : Onward(d)
      BY <2>1, StillOnward
    <2>3. \A r \in Replays : ReplayOK(r)' /\ KeepsReplay(r)
      BY <2>1, <2>2, ReplayStays
    <2>4. replay' \in [Replays -> ReplayRows \cup {NoReplay}] /\ SlotsApart'
      BY <2>1 DEF ReplayInv, SlotsApart
    <2>5. ReplayInv'
      BY <2>1, <2>2, <2>3, <2>4, DeskStep
    <2> QED
      BY <2>1, <2>5
  <1> QED
    BY <1>1, <1>2, <1>3, <1>4, <1>5 DEF ReplayNext

(* The invariants together are inductive.                                   *)
LEMMA ReplayInvariance == ReplaySpec => [](DepositInv /\ ReplayInv)
  <1>1. DepositInv /\ ReplayInv /\ [ReplayNext]_replayVars => (DepositInv /\ ReplayInv)'
    BY ReplayStep, DepositStep
  <1> QED
    BY <1>1, ReplayInitial, PTL DEF ReplaySpec

(* Replays add no behaviour of the deposits: deposit-settlement-            *)
(* reconciliation.service.ts reaches them through the handlers of           *)
(* transaction-intents.service.ts alone.                                    *)
THEOREM ReplayRefinesIntents == ReplaySpec => Spec
  <1>1. ReplayInit => Init
    BY DEF ReplayInit
  <1>2. DepositInv /\ ReplayInv /\ [ReplayNext]_replayVars => [Next]_vars
    BY ReplayStep
  <1> QED
    BY <1>1, <1>2, ReplayInvariance, PTL DEF ReplaySpec, Spec

(* A deposit is credited exactly when it is settled, with the proof of its  *)
(* confirmed transaction, while workers and replays race for it.            *)
THEOREM CreditCorrect == ReplaySpec => []CreditFollowsProof
  <1>1. DepositInv => CreditFollowsProof
    BY DepositFollows
  <1> QED
    BY <1>1, ReplayInvariance, PTL

(* A deposit with a recorded transaction is never funded again.             *)
THEOREM RequeueCorrect == ReplaySpec => []RecordedIsNeverRequeued
  <1>1. DepositInv => RecordedIsNeverRequeued
    BY DepositFollows
  <1> QED
    BY <1>1, ReplayInvariance, PTL

(* A case is open only for a deposit that waits for the decision.           *)
THEOREM ReviewCorrect == ReplaySpec => []ReviewFollowsStatus
  <1>1. DepositInv => ReviewFollowsStatus
    BY DepositFollows
  <1> QED
    BY <1>1, ReplayInvariance, PTL

(* What is marked executed was approved by another operator and took place, *)
(* whoever did it.                                                          *)
THEOREM ReplayCorrect == ReplaySpec => []ReplayTookEffect
  <1>1. ASSUME DepositInv, ReplayInv PROVE ReplayTookEffect
    <2> SUFFICES ASSUME NEW r \in Replays, replay[r].status = "executed"
                 PROVE  /\ replay[r].approver \in Operators \ {replay[r].by}
                        /\ replay[r].executor # replay[r].by
                        /\ replay[r].intent \notin Overlapping =>
                             Classify(replay[r].intent) \in
                               IF replay[r].action = "settle" THEN {"healthy_settled"}
                               ELSE {"settle", "healthy_settled"}
      BY DEF ReplayTookEffect
    <2>1. replay[r] # NoReplay
      BY DEF NoReplay
    <2>2. /\ replay[r].approver \in Operators \ {replay[r].by}
          /\ replay[r].executor # replay[r].by
          /\ TookEffect(replay[r].intent, replay[r].action)
          /\ replay[r].intent \in Deposits
      BY <1>1, <2>1, ReplayFields DEF ReplayInv, ReplayOK
    <2>3. replay[r].intent \notin Overlapping => RowOK(replay[r].intent)
      BY <1>1, <2>2 DEF DepositInv
    <2> QED
      BY <2>2, <2>3, Classified DEF TookEffect
  <1> QED
    BY <1>1, ReplayInvariance, PTL

-----------------------------------------------------------------------------
(* Execution by workers *)

(* The transaction h funds the deposit d; it was mined and succeeded.       *)
Funds(h, d) == h \in sent /\ Pays[h] = d
Succeeded(h) == h \in mined \ reverted

FundedTx(d) ==
  /\ LatestTx(d).hash # NoHash => Funds(LatestTx(d).hash, d)
  /\ LatestTx(d).status = "confirmed" => Succeeded(LatestTx(d).hash)

(* What a worker asks the API to record is what it has sent, or what it has *)
(* seen mined, and the request lives on when the worker dies.               *)
FundedRequest(r) ==
  /\ r.op = "broadcast" => Funds(r.hash, r.intent)
  /\ r.op = "fail" /\ r.hash # NoHash => Funds(r.hash, r.intent)
  /\ r.op = "confirm" => Succeeded(LatestTx(r.intent).hash)

FundedJob(j) ==
  /\ j.at = "record" => Funds(j.hash, j.intent)
  /\ j.at = "fail" /\ j.hash # NoHash /\ j.intent \notin Overlapping
       => Funds(j.hash, j.intent)
  /\ j.at = "confirm" => Succeeded(j.hash)

JobsOK ==
  /\ job \in [Workers -> Jobs \cup {NoJob}]
  /\ sent \subseteq Hashes /\ mined \subseteq sent
  /\ \A w \in Workers : job[w] # NoJob => FundedJob(job[w])

FundingInv ==
  /\ JobsOK
  /\ \A d \in Deposits \ Overlapping : FundedTx(d)
  /\ \A s \in Slots : request[s] # Idle /\ request[s].intent \notin Overlapping
       => FundedRequest(request[s])

(* A transaction that is mined stays so, with its outcome.                  *)
ChainGrows ==
  /\ sent \subseteq sent' /\ sent' \subseteq Hashes /\ mined' \subseteq sent'
  /\ \A h \in mined \ reverted : h \in mined' \ reverted'

(* The chain takes nothing back.                                            *)
LEMMA FundsStay ==
  ASSUME ChainGrows, NEW h
  PROVE  /\ \A d : Funds(h, d) => Funds(h, d)'
         /\ Succeeded(h) => Succeeded(h)'
  BY DEF ChainGrows, Funds, Succeeded

(* A worker's job has its fields.                                           *)
LEMMA JobFields ==
  ASSUME JobsOK, NEW w \in Workers, job[w] # NoJob
  PROVE  /\ job[w] \in Jobs /\ job[w].intent \in Deposits
         /\ job[w].hash \in Hashes \cup {NoHash}
         /\ job[w].slot \in Slots \cup {NoSlot}
         /\ job[w].at \in {"send", "record", "fail", "confirm", "settle"}
         /\ FundedJob(job[w])
         /\ job[w].at = "record" => job[w].hash \in Hashes
  BY DEF JobsOK, Jobs, FundedJob, Funds

(* A worker moves on, or drops its job.                                     *)
LEMMA JobStep ==
  ASSUME JobsOK, NEW w \in Workers, NEW j \in Jobs \cup {NoJob},
         job' = [job EXCEPT ![w] = j], ChainGrows,
         j # NoJob => FundedJob(j)'
  PROVE  JobsOK'
  <1>1. job \in [Workers -> Jobs \cup {NoJob}]
    BY DEF JobsOK
  <1>2. /\ job' \in [Workers -> Jobs \cup {NoJob}] /\ job'[w] = j
        /\ \A v \in Workers : v # w => job'[v] = job[v]
    BY <1>1
  <1>3. ASSUME NEW v \in Workers, job'[v] # NoJob PROVE FundedJob(job[v])'
    <2>1. PICK k \in Jobs : k = job'[v]
      BY <1>2, <1>3
    <2>2. CASE v = w
      BY <1>2, <1>3, <2>1, <2>2
    <2>3. CASE v # w
      <3>1. FundedJob(k)
        BY <1>2, <1>3, <2>1, <2>3 DEF JobsOK
      <3>2. FundedJob(k)'
        BY <3>1, FundsStay DEF FundedJob
      <3> QED
        BY <2>1, <3>2
    <2> QED
      BY <2>2, <2>3
  <1> QED
    BY <1>2, <1>3 DEF JobsOK, ChainGrows

(* Nobody works on another deposit.                                         *)
LEMMA JobsStay ==
  ASSUME JobsOK, job' = job, ChainGrows
  PROVE  JobsOK'
  <1>1. ASSUME NEW v \in Workers, job[v] # NoJob PROVE FundedJob(job[v])'
    <2>1. PICK k \in Jobs : k = job[v]
      BY <1>1, JobFields
    <2>2. FundedJob(k)'
      BY <1>1, <2>1, JobFields, FundsStay DEF FundedJob
    <2> QED
      BY <2>1, <2>2
  <1> QED
    BY <1>1 DEF JobsOK, ChainGrows

(* A job goes to its next step.                                             *)
LEMMA GotoJob ==
  ASSUME JobsOK, NEW w \in Workers, job[w] # NoJob, Goto(w, "settle"), ChainGrows
  PROVE  JobsOK'
  <1>1. PICK j : j = [job[w] EXCEPT !.at = "settle", !.slot = NoSlot]
    OBVIOUS
  <1>2. PICK k \in Jobs : k = job[w]
    BY JobFields
  <1>3. j \in Jobs /\ j.at = "settle"
    BY <1>1, <1>2 DEF Jobs
  <1>4. FundedJob(j)'
    BY <1>3 DEF FundedJob
  <1>5. job' = [job EXCEPT ![w] = j]
    BY <1>1 DEF Goto, JobsOK
  <1> QED
    BY <1>3, <1>4, <1>5, JobStep

(* A worker is done, or dies.                                               *)
LEMMA DoneJob ==
  ASSUME JobsOK, NEW w \in Workers, Done(w), ChainGrows
  PROVE  JobsOK'
  BY JobStep DEF Done

(* The chain does not move.                                                 *)
LEMMA ChainKept ==
  ASSUME JobsOK, UNCHANGED chainVars
  PROVE  ChainGrows
  BY DEF JobsOK, ChainGrows, chainVars

(* No request is served and no transaction written: the chain may grow.     *)
LEMMA FundingStays ==
  ASSUME DepositInv, FundingInv, UNCHANGED <<txs, request>>, ChainGrows, JobsOK'
  PROVE  FundingInv'
  <1>1. ASSUME NEW d \in Deposits \ Overlapping PROVE FundedTx(d)'
    <2>1. PICK tx : tx = LatestTx(d)
      OBVIOUS
    <2>2. LatestTx(d)' = tx
      BY <2>1 DEF LatestTx
    <2>3. /\ tx.hash # NoHash => Funds(tx.hash, d)'
          /\ tx.status = "confirmed" => Succeeded(tx.hash)'
      BY <2>1, FundsStay DEF FundingInv, FundedTx
    <2> QED
      BY <2>2, <2>3 DEF FundedTx, Funds, Succeeded
  <1>2. ASSUME NEW s \in Slots, request[s] # Idle, request[s].intent \notin Overlapping
        PROVE  FundedRequest(request[s])'
    <2>1. PICK r \in Requests : r = request[s]
      BY <1>2, ServedRequest DEF DepositInv
    <2>2. PICK tx : tx = LatestTx(r.intent)
      OBVIOUS
    <2>3. LatestTx(r.intent)' = tx /\ request'[s] = r
      BY <2>1, <2>2 DEF LatestTx
    <2>4. FundedRequest(r)
      BY <1>2, <2>1 DEF FundingInv
    <2>5. FundedRequest(r)'
      <3>1. /\ r.op = "broadcast" => Funds(r.hash, r.intent)'
            /\ r.op = "fail" /\ r.hash # NoHash => Funds(r.hash, r.intent)'
        BY <2>4, FundsStay DEF FundedRequest
      <3>2. r.op = "confirm" => Succeeded(tx.hash)'
        BY <2>2, <2>4, FundsStay DEF FundedRequest
      <3> QED
        BY <2>3, <3>1, <3>2 DEF FundedRequest, Succeeded
    <2> QED
      BY <2>3, <2>5
  <1> QED
    BY <1>1, <1>2 DEF FundingInv

(* A handler that has read: it knows what the worker knows.                 *)
LEMMA FundingBegins ==
  ASSUME DepositInv, FundingInv, NEW s \in Slots, NEW d \in Deposits,
         NEW op \in Operations, NEW h \in Hashes \cup {NoHash}, NEW b \in BOOLEAN,
         Begin(s, op, d, h, b), UNCHANGED chainVars, JobsOK',
         d \notin Overlapping =>
           /\ op = "broadcast" => Funds(h, d)
           /\ op = "fail" /\ h # NoHash => Funds(h, d)
           /\ op = "confirm" => Succeeded(LatestTx(d).hash)
  PROVE  FundingInv'
  <1>1. PICK r : r = [op |-> op, intent |-> d, hash |-> h, sound |-> b,
                      row |-> Len(txs[d]), tx |-> LatestTx(d),
                      reviewCase |-> Len(reviewCases[d])]
    OBVIOUS
  <1>2. /\ request' = [request EXCEPT ![s] = r]
        /\ request \in [Slots -> Requests \cup {Idle}]
        /\ txs' = txs /\ UNCHANGED <<sent, mined, reverted>>
    BY <1>1 DEF Begin, intentVars, chainVars, DepositInv, TypeInv, TypeOK
  <1>3. \A e \in Deposits \ Overlapping : FundedTx(e)'
    BY <1>2 DEF FundingInv, FundedTx, Funds, Succeeded, LatestTx
  <1>4. ASSUME NEW t \in Slots, request'[t] # Idle, request'[t].intent \notin Overlapping
        PROVE  FundedRequest(request[t])'
    <2>1. PICK q : q = request'[t]
      OBVIOUS
    <2>2. FundedRequest(q)
      <3>1. CASE t = s
        <4>1. q = r
          BY <1>2, <2>1, <3>1
        <4>2. q.op = op /\ q.intent = d /\ q.hash = h
          BY <1>1, <4>1
        <4> QED
          BY <1>4, <2>1, <4>2 DEF FundedRequest
      <3>2. CASE t # s
        <4>1. q = request[t]
          BY <1>2, <2>1, <3>2
        <4> QED
          BY <1>4, <2>1, <4>1 DEF FundingInv
      <3> QED
        BY <3>1, <3>2
    <2>3. FundedRequest(q)'
      BY <1>2, <2>2 DEF FundedRequest, Funds, Succeeded, LatestTx
    <2> QED
      BY <2>1, <2>3
  <1> QED
    BY <1>3, <1>4 DEF FundingInv

(* A commit records what the worker had sent, or seen mined.                *)
LEMMA FundingCommits ==
  ASSUME DepositInv, FundingInv, NEW s \in Slots, Commit(s), UNCHANGED chainVars,
         JobsOK'
  PROVE  FundingInv'
  <1>1. PICK r \in Requests : r = request[s] /\ r # Idle
    BY CommitStep
  <1>2. /\ r.intent \notin Overlapping => Moved(r)
        /\ \A e \in Deposits : e # r.intent => Untouched(e)
        /\ Finish(s) /\ r.intent \in Deposits
    BY <1>1, CommitStep DEF Requests
  <1>3. UNCHANGED <<sent, mined, reverted>>
    BY DEF chainVars
  <1>4. \A e \in Deposits : e # r.intent => LatestTx(e)' = LatestTx(e)
    BY <1>2 DEF Untouched, LatestTx
  <1>5. ASSUME NEW d \in Deposits \ Overlapping PROVE FundedTx(d)'
    <2>1. FundedTx(d)
      BY DEF FundingInv
    <2>2. CASE LatestTx(d)' = LatestTx(d)
      BY <1>3, <2>1, <2>2 DEF FundedTx, Funds, Succeeded
    <2>3. CASE d = r.intent
      <3>1. FundedRequest(r) /\ Moved(r)
        BY <1>1, <1>2, <2>3 DEF FundingInv
      <3>2. PICK old, new : old = LatestTx(d) /\ new = LatestTx(d)'
        OBVIOUS
      <3>3. /\ old.hash # NoHash => Funds(old.hash, d)
            /\ r.op = "broadcast" => Funds(r.hash, d)
            /\ r.op = "fail" /\ r.hash # NoHash => Funds(r.hash, d)
            /\ r.op = "confirm" => Succeeded(old.hash)
        BY <2>1, <2>3, <3>1, <3>2 DEF FundedTx, FundedRequest
      <3>4. \/ new = old
            \/ r.op = "broadcast" /\ new.hash = r.hash /\ new.status = "broadcast"
            \/ r.op = "fail" /\ new.status = "failed"
                 /\ new.hash = IF r.hash = NoHash THEN old.hash ELSE r.hash
            \/ r.op = "confirm" /\ new.hash = old.hash
        BY <2>3, <3>1, <3>2 DEF Moved
      <3>5. /\ new.hash # NoHash => Funds(new.hash, d)
            /\ new # old /\ new.status = "confirmed" => Succeeded(new.hash)
        BY <3>3, <3>4
      <3> QED
        BY <1>3, <2>2, <3>2, <3>5 DEF FundedTx, Funds, Succeeded
    <2> QED
      BY <1>4, <2>2, <2>3
  <1>6. ASSUME NEW t \in Slots, request'[t] # Idle, request'[t].intent \notin Overlapping
        PROVE  FundedRequest(request[t])'
    <2>1. t # s /\ request'[t] = request[t]
      BY <1>2, <1>6 DEF Finish, DepositInv, TypeInv, TypeOK
    <2>2. PICK q \in Requests : q = request[t]
      BY <1>6, <2>1, ServedRequest DEF DepositInv
    <2>3. FundedRequest(q) /\ q.intent # r.intent /\ q.intent \in Deposits
      BY <1>1, <1>6, <2>1, <2>2 DEF FundingInv, DepositInv, ServedAlone, Requests
    <2>4. LatestTx(q.intent)' = LatestTx(q.intent)
      BY <1>4, <2>3
    <2>5. FundedRequest(q)'
      BY <1>3, <2>3, <2>4 DEF FundedRequest, Funds, Succeeded
    <2> QED
      BY <2>1, <2>2, <2>5
  <1> QED
    BY <1>5, <1>6 DEF FundingInv

(* A transaction that rolls back records nothing.                           *)
LEMMA FundingAborts ==
  ASSUME DepositInv, FundingInv, NEW s \in Slots, Abort(s), UNCHANGED chainVars,
         JobsOK'
  PROVE  FundingInv'
  <1>1. Finish(s) /\ txs' = txs /\ UNCHANGED <<sent, mined, reverted>>
    BY AbortStep DEF intentVars, chainVars
  <1>2. \A d \in Deposits \ Overlapping : FundedTx(d)'
    BY <1>1 DEF FundingInv, FundedTx, Funds, Succeeded, LatestTx
  <1>3. ASSUME NEW t \in Slots, request'[t] # Idle, request'[t].intent \notin Overlapping
        PROVE  FundedRequest(request[t])'
    <2>1. PICK q : q = request[t] /\ request'[t] = q
      BY <1>1, <1>3 DEF Finish, DepositInv, TypeInv, TypeOK
    <2>2. FundedRequest(q)
      BY <1>3, <2>1 DEF FundingInv
    <2>3. FundedRequest(q)'
      BY <1>1, <2>2 DEF FundedRequest, Funds, Succeeded, LatestTx
    <2> QED
      BY <2>1, <2>3
  <1> QED
    BY <1>2, <1>3 DEF FundingInv

(* Mining a transaction.                                                    *)
LEMMA MineStep ==
  ASSUME DepositInv, FundingInv, NEW h \in Hashes, Mine(h)
  PROVE  FundingInv' /\ UNCHANGED vars
  <1>1. /\ mined' = mined \cup {h} /\ h \in sent \ mined /\ sent' = sent /\ job' = job
        /\ reverted' \in {reverted, reverted \cup {h}} /\ UNCHANGED vars
    BY DEF Mine
  <1>2. ChainGrows
    BY <1>1 DEF ChainGrows, FundingInv, JobsOK
  <1>3. JobsOK'
    BY <1>1, <1>2, JobsStay DEF FundingInv
  <1> QED
    BY <1>1, <1>2, <1>3, FundingStays DEF vars, intentVars

(* A worker takes a deposit from its lists.                                 *)
LEMMA PickUpStep ==
  ASSUME DepositInv, FundingInv, NEW w \in Workers, NEW d \in Deposits, PickUp(w, d)
  PROVE  FundingInv' /\ UNCHANGED vars
  <1>1. PICK step \in {"send", "fail", "confirm", "settle"}, h \in Hashes \cup {NoHash} :
          /\ TakeJob(w, d, step, h)
          /\ step = "fail" /\ h # NoHash => h = LatestTx(d).hash
          /\ step = "confirm" => h \in mined \ reverted
    <2>1. ASSUME PickUpQueued(w, d)
          PROVE  TakeJob(w, d, "fail", NoHash) \/ TakeJob(w, d, "send", NoHash)
      BY <2>1 DEF PickUpQueued
    <2>2. ASSUME PickUpBroadcast(w, d)
          PROVE  LET h == LatestTx(d).hash IN
                 /\ h \in mined
                 /\ \/ TakeJob(w, d, "fail", h)
                    \/ TakeJob(w, d, "confirm", h) /\ h \notin reverted
      BY <2>2 DEF PickUpBroadcast
    <2>3. ASSUME PickUpConfirmed(w, d) PROVE TakeJob(w, d, "settle", NoHash)
      BY <2>3 DEF PickUpConfirmed
    <2>4. LatestTx(d).hash \in mined => LatestTx(d).hash \in Hashes
      BY DEF FundingInv, JobsOK
    <2> QED
      BY <2>1, <2>2, <2>3, <2>4 DEF PickUp
  <1>2. PICK j : j = [at |-> step, intent |-> d, hash |-> h, slot |-> NoSlot]
    OBVIOUS
  <1>3. /\ job' = [job EXCEPT ![w] = j] /\ UNCHANGED <<vars, chainVars>>
    BY <1>1, <1>2 DEF TakeJob
  <1>4. j \in Jobs /\ j.at = step /\ j.intent = d /\ j.hash = h
    BY <1>2 DEF Jobs
  <1>5. d \notin Overlapping => (LatestTx(d).hash # NoHash => Funds(LatestTx(d).hash, d))
    BY DEF FundingInv, FundedTx
  <1>6. FundedJob(j)
    BY <1>1, <1>4, <1>5 DEF FundedJob, Succeeded
  <1>7. ChainGrows
    BY <1>3, ChainKept DEF FundingInv
  <1>8. FundedJob(j)'
    BY <1>3, <1>6 DEF FundedJob, Funds, Succeeded, chainVars
  <1>9. JobsOK'
    BY <1>3, <1>4, <1>7, <1>8, JobStep DEF FundingInv
  <1> QED
    BY <1>3, <1>7, <1>9, FundingStays DEF vars, intentVars

(* A worker sends a new transaction, and the node may fail.                 *)
LEMMA SendSteps ==
  ASSUME DepositInv, FundingInv, NEW w \in Workers, Send(w) \/ NodeFails(w)
  PROVE  FundingInv' /\ UNCHANGED vars
  <1>1. job[w] # NoJob /\ UNCHANGED <<vars, mined, reverted>> /\ JobsOK
    BY DEF Send, NodeFails, At, FundingInv
  <1>2. PICK k \in Jobs : k = job[w] /\ k.intent \in Deposits
    BY <1>1, JobFields
  <1>3. ASSUME Send(w) PROVE ChainGrows /\ JobsOK'
    <2>1. PICK h \in Fresh(k.intent) :
            /\ sent' = sent \cup {h}
            /\ job' = [job EXCEPT ![w].at = "record", ![w].hash = h]
      BY <1>2, <1>3 DEF Send
    <2>2. h \in Hashes /\ Pays[h] = k.intent
      BY <2>1 DEF Fresh
    <2>3. ChainGrows
      BY <1>1, <2>1, <2>2 DEF ChainGrows, JobsOK
    <2>4. PICK j : j = [k EXCEPT !.at = "record", !.hash = h]
      OBVIOUS
    <2>5. j \in Jobs /\ j.at = "record" /\ j.hash = h /\ j.intent = k.intent
      BY <1>2, <2>2, <2>4 DEF Jobs
    <2>6. job' = [job EXCEPT ![w] = j]
      BY <1>1, <1>2, <2>1, <2>4 DEF JobsOK
    <2>7. FundedJob(j)'
      BY <2>1, <2>2, <2>5 DEF FundedJob, Funds
    <2>8. JobsOK'
      BY <1>1, <2>3, <2>5, <2>6, <2>7, JobStep
    <2> QED
      BY <2>3, <2>8
  <1>4. ASSUME NodeFails(w) PROVE ChainGrows /\ JobsOK'
    <2>1. /\ sent' \in {sent} \cup {sent \cup {h} : h \in Fresh(k.intent)}
          /\ Done(w)
      BY <1>2, <1>4 DEF NodeFails
    <2>2. ChainGrows
      BY <1>1, <2>1 DEF ChainGrows, JobsOK, Fresh
    <2> QED
      BY <1>1, <2>1, <2>2, DoneJob
  <1>5. ChainGrows /\ JobsOK'
    BY <1>3, <1>4
  <1> QED
    BY <1>1, <1>5, FundingStays DEF vars, intentVars

(* A worker calls the API with what it has sent or seen mined.              *)
LEMMA CallStep ==
  ASSUME DepositInv, FundingInv, NEW w \in Workers, NEW s \in Slots, Call(w, s)
  PROVE  FundingInv' /\ \E d \in Deposits : Read(s, d)
  <1>1. /\ job[w] # NoJob /\ JobsOK /\ UNCHANGED chainVars
        /\ job' = [job EXCEPT ![w].slot = s]
    BY DEF Call, At, FundingInv
  <1>2. PICK k \in Jobs : /\ k = job[w] /\ k.intent \in Deposits /\ FundedJob(k)
                          /\ k.hash \in Hashes \cup {NoHash}
                          /\ k.at = "record" => k.hash \in Hashes
    BY <1>1, JobFields
  <1>3. PICK d \in Deposits : d = k.intent
    BY <1>2
  <1>4. \/ k.at = "record" /\ BeginBroadcast(s, d, k.hash, TRUE)
        \/ k.at = "fail" /\ BeginFail(s, d, k.hash, k.hash # NoHash)
        \/ k.at = "confirm" /\ LatestTx(d).hash = k.hash /\ BeginConfirm(s, d)
        \/ k.at = "settle" /\ BeginSettle(s, d)
    BY <1>2, <1>3 DEF Call, At
  <1>5. Read(s, d)
    BY <1>2, <1>4 DEF Read
  <1>6. PICK op \in Operations, h \in Hashes \cup {NoHash}, b \in BOOLEAN :
          /\ Begin(s, op, d, h, b)
          /\ \/ op = "broadcast" /\ k.at = "record" /\ h = k.hash
             \/ op = "fail" /\ k.at = "fail" /\ h = k.hash
             \/ op = "confirm" /\ k.at = "confirm" /\ LatestTx(d).hash = k.hash
             \/ op = "settle"
    BY <1>2, <1>4 DEF BeginBroadcast, BeginFail, BeginConfirm, BeginSettle, Operations
  <1>7. d \notin Overlapping =>
          /\ op = "broadcast" => Funds(h, d)
          /\ op = "fail" /\ h # NoHash => Funds(h, d)
          /\ op = "confirm" => Succeeded(LatestTx(d).hash)
    BY <1>2, <1>3, <1>6 DEF FundedJob
  <1>8. JobsOK'
    <2>1. PICK j : j = [k EXCEPT !.slot = s]
      OBVIOUS
    <2>2. j \in Jobs /\ j.at = k.at /\ j.hash = k.hash /\ j.intent = k.intent
      BY <2>1 DEF Jobs
    <2>3. job' = [job EXCEPT ![w] = j]
      BY <1>1, <1>2, <2>1 DEF JobsOK
    <2>4. FundedJob(j)'
      BY <1>1, <1>2, <2>2 DEF FundedJob, Funds, Succeeded, chainVars
    <2>5. ChainGrows
      BY <1>1, ChainKept
    <2> QED
      BY <1>1, <2>2, <2>3, <2>4, <2>5, JobStep
  <1>9. FundingInv'
    BY <1>1, <1>6, <1>7, <1>8, FundingBegins
  <1> QED
    BY <1>5, <1>9

(* The answers of the API, its failures, and the death of a worker.         *)
LEMMA AnswerSteps ==
  ASSUME DepositInv, FundingInv, NEW w \in Workers,
         Answer(w) \/ Reply(w) \/ CallFails(w) \/ GiveUp(w)
  PROVE  FundingInv' /\ [Next]_vars
  <1>1. job[w] # NoJob /\ JobsOK /\ UNCHANGED chainVars /\ ChainGrows
    BY ChainKept DEF Answer, Reply, CallFails, GiveUp, At, Waiting, FundingInv
  <1>2. Done(w) \/ Goto(w, "settle")
    BY DEF Answer, Reply, CallFails, GiveUp
  <1>3. JobsOK'
    BY <1>1, <1>2, DoneJob, GotoJob
  <1>4. CASE Answer(w) \/ GiveUp(w)
    <2>1. UNCHANGED vars
      BY <1>4 DEF Answer, GiveUp
    <2> QED
      BY <1>1, <1>3, <2>1, FundingStays DEF vars, intentVars
  <1>5. CASE Reply(w) \/ CallFails(w)
    <2>1. PICK s \in Slots : s = job[w].slot
      BY <1>1, <1>5, JobFields DEF Reply, CallFails, Waiting
    <2>2. Commit(s) \/ Abort(s)
      BY <1>5, <2>1 DEF Reply, CallFails
    <2>3. FundingInv'
      BY <1>1, <1>3, <2>2, FundingCommits, FundingAborts
    <2> QED
      BY <2>2, <2>3 DEF Next
  <1> QED
    BY <1>4, <1>5

(* Customers and operators, and the requests no worker waits for.           *)
LEMMA ApiSteps ==
  ASSUME DepositInv, FundingInv,
         \/ Customers
         \/ \E s \in Slots, d \in Deposits : Reviews(s, d)
         \/ \E s \in Slots : Serve(s)
  PROVE  FundingInv' /\ Next
  <1>1. job' = job /\ UNCHANGED chainVars /\ JobsOK /\ ChainGrows
    BY ChainKept DEF Customers, Reviews, Serve, FundingInv
  <1>2. JobsOK'
    BY <1>1, JobsStay
  <1>3. CASE Customers
    <2>1. PICK d \in Deposits : CreateDepositIntent(d)
      BY <1>3 DEF Customers
    <2>2. UNCHANGED <<txs, request>>
      BY <2>1 DEF CreateDepositIntent, PlaceUnderReview
    <2> QED
      BY <1>1, <1>2, <2>1, <2>2, FundingStays DEF Next
  <1>4. ASSUME NEW s \in Slots, NEW d \in Deposits, Reviews(s, d)
        PROVE  FundingInv' /\ Next
    <2>1. PICK op \in {"approve", "deny", "queue"} : Begin(s, op, d, NoHash, FALSE)
      BY <1>4 DEF Reviews, BeginDecide, BeginQueue
    <2>2. op \in Operations
      BY DEF Operations
    <2>3. FundingInv'
      BY <1>1, <1>2, <2>1, <2>2, FundingBegins
    <2>4. Read(s, d)
      BY <1>4 DEF Reviews, Read
    <2> QED
      BY <2>3, <2>4 DEF Next
  <1>5. ASSUME NEW s \in Slots, Serve(s)
        PROVE  FundingInv' /\ Next
    BY <1>1, <1>2, <1>5, FundingCommits DEF Serve, Next
  <1> QED
    BY <1>3, <1>4, <1>5

(* Every step of the workers is a step of the deposits, or none, and keeps  *)
(* the invariant.                                                           *)
LEMMA FundingStep ==
  ASSUME DepositInv, FundingInv, [ExecNext]_execVars
  PROVE  FundingInv' /\ [Next]_vars
  <1>1. CASE Customers \/ (\E s \in Slots, d \in Deposits : Reviews(s, d))
               \/ (\E s \in Slots : Serve(s))
    BY <1>1, ApiSteps
  <1>2. ASSUME NEW h \in Hashes, Mine(h) PROVE FundingInv' /\ [Next]_vars
    BY <1>2, MineStep
  <1>3. ASSUME NEW w \in Workers, Work(w) PROVE FundingInv' /\ [Next]_vars
    BY <1>3, SendSteps, CallStep, AnswerSteps DEF Work, Next
  <1>4. ASSUME NEW w \in Workers, NEW d \in Deposits, PickUp(w, d)
        PROVE  FundingInv' /\ [Next]_vars
    BY <1>4, PickUpStep
  <1>5. ASSUME NEW w \in Workers, NodeFails(w) \/ CallFails(w) \/ GiveUp(w)
        PROVE  FundingInv' /\ [Next]_vars
    BY <1>5, SendSteps, AnswerSteps
  <1>6. CASE UNCHANGED execVars
    <2>1. UNCHANGED <<vars, job, chainVars>>
      BY <1>6 DEF execVars
    <2>2. ChainGrows /\ JobsOK'
      BY <2>1, ChainKept, JobsStay DEF FundingInv
    <2> QED
      BY <2>1, <2>2, FundingStays DEF vars, intentVars
  <1> QED
    BY <1>1, <1>2, <1>3, <1>4, <1>5, <1>6 DEF ExecNext

(* Nothing is sent at the start.                                            *)
LEMMA FundingInitial == ExecInit => DepositInv /\ FundingInv
  <1> SUFFICES ASSUME ExecInit PROVE DepositInv /\ FundingInv
    OBVIOUS
  <1>1. DepositInv
    BY DepositInit DEF ExecInit
  <1>2. FundingInv
    BY DEF ExecInit, Init, FundingInv, JobsOK, FundedTx, LatestTx, NoTx
  <1> QED
    BY <1>1, <1>2

(* The invariants together are inductive.                                   *)
LEMMA FundingInvariance == ExecSpec => [](DepositInv /\ FundingInv)
  <1>1. DepositInv /\ FundingInv /\ [ExecNext]_execVars => (DepositInv /\ FundingInv)'
    BY FundingStep, DepositStep
  <1> QED
    BY <1>1, FundingInitial, PTL DEF ExecSpec

(* Workers, their crashes and the node add no behaviour of the deposits, so *)
(* what is proved of the deposits holds of their execution.                 *)
THEOREM ExecutionRefinesIntents == ExecSpec => Spec
  <1>1. ExecInit => Init
    BY DEF ExecInit
  <1>2. DepositInv /\ FundingInv /\ [ExecNext]_execVars => [Next]_vars
    BY FundingStep
  <1> QED
    BY <1>1, <1>2, FundingInvariance, PTL DEF ExecSpec, Spec

(* A deposit is credited only for a mined transaction that funds it and did *)
(* not revert, whatever workers and nodes do.                               *)
THEOREM FundingCorrect == ExecSpec => []CreditWasFunded
  <1>1. ASSUME DepositInv, FundingInv PROVE CreditWasFunded
    <2> SUFFICES ASSUME NEW d \in Deposits \ Overlapping, Credited(d)
                 PROVE  proof[d] \in mined \ reverted /\ Pays[proof[d]] = d
      BY DEF CreditWasFunded
    <2>1. /\ status[d] = "settled" /\ proof[d] = LatestTx(d).hash /\ proof[d] # NoHash
          /\ LatestTx(d).status = "confirmed"
      BY <1>1 DEF DepositInv, RowOK
    <2>2. FundedTx(d)
      BY <1>1 DEF FundingInv
    <2> QED
      BY <2>1, <2>2 DEF FundedTx, Funds, Succeeded
  <1> QED
    BY <1>1, FundingInvariance, PTL
=============================================================================
