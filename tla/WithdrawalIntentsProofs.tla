---------------------- MODULE WithdrawalIntentsProofs ----------------------
(***************************************************************************)
(* Safety of the withdrawal lifecycle for any number of accounts, intents, *)
(* workers and concurrent requests.                                        *)
(***************************************************************************)
EXTENDS WithdrawalIntents, LedgerProofs, SequenceTheorems

(* The row a handler will update exists: it creates one if it read none,    *)
(* except to confirm, and only workers claim.                               *)
RequestIsSound(r, t) ==
  /\ r.row <= Len(t[r.intent])
  /\ r.op = "confirm" => r.row # 0
  /\ r.op = "start" => r.actor \in Workers

RowsExist == \A s \in Slots : request[s] # Idle => RequestIsSound(request[s], txs)

TypeInv == TypeOK /\ RowsExist

-----------------------------------------------------------------------------
(* Sequences *)

(* An appended sequence is one longer.                                      *)
LEMMA AppendSeq ==
  ASSUME NEW S, NEW q \in Seq(S), NEW x \in S
  PROVE  Append(q, x) \in Seq(S) /\ Len(Append(q, x)) = Len(q) + 1
  OBVIOUS

(* Writing a blockchain transaction row keeps the rows typed and in place.  *)
LEMMA WriteTxStep ==
  ASSUME TypeOK, NEW r \in Requests, NEW tx \in TxRows, WriteTx(r, tx),
         r.row <= Len(txs[r.intent])
  PROVE  /\ txs' \in [Withdrawals -> Seq(TxRows)]
         /\ \A i \in Withdrawals : Len(txs'[i]) >= Len(txs[i])
  <1>1. r.intent \in Withdrawals /\ r.row \in Nat
    BY DEF Requests
  <1>2. txs[r.intent] \in Seq(TxRows)
    BY <1>1 DEF TypeOK
  <1> DEFINE q == IF r.row = 0 THEN Append(txs[r.intent], tx)
                  ELSE [txs[r.intent] EXCEPT ![r.row] = tx]
  <1>3. q \in Seq(TxRows) /\ Len(q) >= Len(txs[r.intent])
    BY <1>1, <1>2, ExceptSeq, AppendSeq
  <1>4. txs' = [txs EXCEPT ![r.intent] = q]
    BY DEF WriteTx
  <1> HIDE DEF q
  <1> QED
    BY <1>1, <1>3, <1>4 DEF TypeOK

-----------------------------------------------------------------------------
(* Types *)

(* The latest transaction of an intent is a row.                            *)
LEMMA LatestTxType ==
  ASSUME TypeOK, NEW i \in Withdrawals
  PROVE  LatestTx(i) \in TxRows /\ Len(txs[i]) \in Nat
  <1>1. txs[i] \in Seq(TxRows)
    BY DEF TypeOK
  <1>2. CASE txs[i] = <<>>
    BY <1>1, <1>2 DEF LatestTx, NoTx, TxRows
  <1>3. CASE txs[i] # <<>>
    BY <1>1, <1>3 DEF LatestTx
  <1> QED
    BY <1>1, <1>2, <1>3

(* A handler starts: it remembers a well-formed request for existing rows.  *)
LEMMA BeginTypes ==
  ASSUME TypeInv, NEW s \in Slots, NEW i \in Withdrawals, NEW op \in Operations,
         NEW actor \in Workers \cup {Operator}, NEW hash \in Hashes \cup {NoHash},
         NEW fail \in Failures, Begin(s, op, i, actor, hash, fail),
         op = "start" => actor \in Workers, op = "confirm" => txs[i] # <<>>
  PROVE  TypeInv'
  <1> DEFINE r == [op |-> op, intent |-> i, actor |-> actor, hash |-> hash,
                   failure |-> fail, status |-> status[i],
                   row |-> Len(txs[i]), tx |-> LatestTx(i)]
  <1>1. r \in Requests
    BY LatestTxType DEF TypeInv, TypeOK, Requests
  <1>2. request' = [request EXCEPT ![s] = r] /\ UNCHANGED <<ledgerVars, intentVars>>
    BY DEF Begin
  <1>3. TypeOK'
    BY <1>1, <1>2 DEF TypeInv, TypeOK, LedgerTypeOK, ledgerVars, intentVars
  <1>4. RowsExist'
    <2> SUFFICES ASSUME NEW t \in Slots, request'[t] # Idle
                 PROVE  RequestIsSound(request'[t], txs')
      BY DEF RowsExist
    <2>1. txs' = txs
      BY <1>2 DEF intentVars
    <2>2. CASE t = s
      <3>1. txs[i] \in Seq(TxRows) /\ request'[t] = r
        BY <1>2, <2>2 DEF TypeInv, TypeOK
      <3>2. op = "confirm" => Len(txs[i]) # 0
        BY <3>1
      <3> QED
        BY <2>1, <3>1, <3>2, LatestTxType DEF RequestIsSound, TypeInv
    <2>3. CASE t # s
      BY <1>2, <2>1, <2>3 DEF TypeInv, TypeOK, RowsExist
    <2> QED
      BY <2>2, <2>3
  <1> QED
    BY <1>3, <1>4 DEF TypeInv

(* A served slot holds a request for a withdrawal.                          *)
LEMMA ServedRequest ==
  ASSUME TypeInv, NEW s \in Slots, request[s] # Idle
  PROVE  /\ request[s] \in Requests
         /\ request[s].intent \in Withdrawals
         /\ request[s].intent \in Intents
         /\ request[s].row \in Nat
         /\ request[s].row <= Len(txs[request[s].intent])
         /\ RequestIsSound(request[s], txs)
         /\ txs[request[s].intent] \in Seq(TxRows)
  BY WithdrawalAssumption DEF TypeInv, TypeOK, RowsExist, RequestIsSound, Requests

(* A handler ends: rows are never deleted, so the rows of others remain.    *)
LEMMA FinishRows ==
  ASSUME TypeInv, NEW s \in Slots, Finish(s), txs' \in [Withdrawals -> Seq(TxRows)],
         \A i \in Withdrawals : Len(txs'[i]) >= Len(txs[i])
  PROVE  RowsExist' /\ request' \in [Slots -> Requests \cup {Idle}]
  <1>1. request' = [request EXCEPT ![s] = Idle]
    BY DEF Finish
  <1>2. request' \in [Slots -> Requests \cup {Idle}]
    BY <1>1 DEF TypeInv, TypeOK
  <1>3. RowsExist'
    <2> SUFFICES ASSUME NEW t \in Slots, request'[t] # Idle
                 PROVE  RequestIsSound(request'[t], txs')
      BY DEF RowsExist
    <2>1. t # s /\ request'[t] = request[t]
      BY <1>1 DEF TypeInv, TypeOK
    <2>2. /\ request[t].intent \in Withdrawals /\ request[t].row \in Nat
          /\ RequestIsSound(request[t], txs)
      BY <2>1, ServedRequest
    <2>3. /\ txs[request[t].intent] \in Seq(TxRows)
          /\ txs'[request[t].intent] \in Seq(TxRows)
      BY <2>2 DEF TypeInv, TypeOK
    <2>4. Len(txs'[request[t].intent]) >= Len(txs[request[t].intent])
      BY <2>2
    <2> QED
      BY <2>1, <2>2, <2>3, <2>4 DEF RequestIsSound
  <1> QED
    BY <1>2, <1>3

-----------------------------------------------------------------------------
(* The inductive invariant *)

Inv == /\ TypeInv
       /\ ProjectionMatchesLedger
       /\ EveryRequestIsFresh
       /\ EveryReservationFollowsStatus

(* The invariant holds initially.                                           *)
LEMMA InvInit == Init => Inv
  <1> SUFFICES ASSUME Init PROVE Inv
    OBVIOUS
  <1>1. LedgerInv
    BY LedgerInitial DEF Init
  <1>2. TypeOK
    <2>1. NoFailure \in Failures /\ "absent" \in Statuses /\ "pending" \in Decisions
      BY DEF NoFailure, Failures, Statuses, Decisions
    <2>2. txs \in [Withdrawals -> Seq(TxRows)]
      BY DEF Init
    <2> QED
      BY <1>1, <2>1, <2>2 DEF Init, TypeOK, LedgerInv
  <1>3. RowsExist /\ EveryRequestIsFresh
    BY DEF Init, RowsExist, EveryRequestIsFresh, RequestIsFresh
  <1>4. EveryReservationFollowsStatus
    BY DEF Init, LedgerInit, EveryReservationFollowsStatus,
           ReservationFollowsStatus, Reserved, Released, Settled
  <1> QED
    BY <1>1, <1>2, <1>3, <1>4 DEF Inv, TypeInv, LedgerInv

(* Reading the rows: the new request is fresh, and it is the only one for   *)
(* its intent unless requests for it may overlap.                           *)
LEMMA BeginStep ==
  ASSUME Inv, NEW s \in Slots, NEW i \in Withdrawals, NEW op \in Operations,
         NEW actor \in Workers \cup {Operator}, NEW hash \in Hashes \cup {NoHash},
         NEW fail \in Failures, Begin(s, op, i, actor, hash, fail),
         op = "start" => actor \in Workers, op = "confirm" => txs[i] # <<>>,
         status[i] \in ReadStatus[op]
  PROVE  Inv'
  <1> DEFINE r == [op |-> op, intent |-> i, actor |-> actor, hash |-> hash,
                   failure |-> fail, status |-> status[i],
                   row |-> Len(txs[i]), tx |-> LatestTx(i)]
  <1>1. /\ request[s] = Idle
        /\ \A t \in Slots : request[t] # Idle /\ request[t].intent = i
                              => i \in Overlapping
        /\ request' = [request EXCEPT ![s] = r]
        /\ UNCHANGED <<ledgerVars, intentVars>>
    BY DEF Begin
  <1>2. TypeInv'
    BY BeginTypes DEF Inv
  <1>3. ProjectionMatchesLedger' /\ EveryReservationFollowsStatus'
    BY <1>1 DEF Inv, ProjectionMatchesLedger, EveryReservationFollowsStatus,
       ReservationFollowsStatus, Reserved, Released, Settled, ledgerVars, intentVars
  <1>4. ASSUME NEW t \in Slots, request'[t] # Idle,
               request'[t].intent \notin Overlapping
        PROVE  /\ status'[request'[t].intent] = request'[t].status
               /\ request'[t].status \in ReadStatus[request'[t].op]
               /\ \A u \in Slots :
                    request'[u] # Idle /\ request'[u].intent = request'[t].intent
                      => u = t
    <2>1. request \in [Slots -> Requests \cup {Idle}] /\ status' = status
      BY <1>1 DEF Inv, TypeInv, TypeOK, intentVars
    <2>2. /\ request'[s] = r /\ r.intent = i /\ r.status = status[i] /\ r.op = op
          /\ \A u \in Slots \ {s} : request'[u] = request[u]
      BY <1>1, <2>1
    <2>3. CASE t = s
      BY <1>1, <1>4, <2>1, <2>2, <2>3
    <2>4. CASE t # s
      <3>1. RequestIsFresh(t) /\ request'[t] = request[t]
        BY <2>2, <2>4 DEF Inv, EveryRequestIsFresh
      <3>2. request[t].intent # i
        BY <1>1, <1>4, <2>2, <2>4, <3>1
      <3> QED
        BY <1>4, <2>1, <2>2, <2>4, <3>1, <3>2 DEF RequestIsFresh
    <2> QED
      BY <2>3, <2>4
  <1>5. EveryRequestIsFresh'
    BY <1>4 DEF EveryRequestIsFresh, RequestIsFresh
  <1> QED
    BY <1>2, <1>3, <1>5 DEF Inv

(* A handler has written the rows of its intent and ended.                  *)
LEMMA CommitStep ==
  ASSUME Inv, NEW s \in Slots, request[s] # Idle, NEW i \in Withdrawals,
         i = request[s].intent, Finish(s), TypeOK',
         ProjectionMatchesLedger',
         \A j \in Withdrawals : Len(txs'[j]) >= Len(txs[j]),
         \A j \in Withdrawals : j # i => status'[j] = status[j],
         \A j \in Withdrawals, type \in JournalTypes :
           j # i
             => (<<j, type>> \in journals' <=> <<j, type>> \in journals),
         i \notin Overlapping => ReservationFollowsStatus(i)'
  PROVE  Inv'
  <1>1. /\ request' = [request EXCEPT ![s] = Idle]
        /\ request \in [Slots -> Requests \cup {Idle}]
    BY DEF Finish, Inv, TypeInv, TypeOK
  <1>2. TypeInv'
    BY FinishRows DEF Inv, TypeInv, TypeOK
  <1>3. EveryRequestIsFresh'
    <2> SUFFICES ASSUME NEW t \in Slots, request'[t] # Idle,
                        request'[t].intent \notin Overlapping
                 PROVE  /\ status'[request'[t].intent] = request'[t].status
                        /\ request'[t].status \in ReadStatus[request'[t].op]
                        /\ \A u \in Slots :
                             request'[u] # Idle /\ request'[u].intent = request'[t].intent
                               => u = t
      BY DEF EveryRequestIsFresh, RequestIsFresh
    <2>1. /\ t # s /\ request'[t] = request[t]
          /\ \A u \in Slots : request'[u] # Idle => request'[u] = request[u]
      BY <1>1
    <2>2. RequestIsFresh(t) /\ request[t].intent \in Withdrawals
      BY <2>1, ServedRequest DEF Inv, EveryRequestIsFresh
    <2>3. request[t].intent # i
      BY <2>1, <2>2 DEF RequestIsFresh
    <2> QED
      BY <2>1, <2>2, <2>3 DEF RequestIsFresh
  <1>4. EveryReservationFollowsStatus'
    <2> SUFFICES ASSUME NEW j \in Withdrawals \ Overlapping
                 PROVE  ReservationFollowsStatus(j)'
      BY DEF EveryReservationFollowsStatus
    <2>1. CASE j = i
      BY <2>1
    <2>2. CASE j # i
      BY <2>2 DEF Inv, EveryReservationFollowsStatus, ReservationFollowsStatus,
                  Reserved, Released, Settled, JournalTypes
    <2> QED
      BY <2>1, <2>2
  <1> QED
    BY <1>2, <1>3, <1>4 DEF Inv

-----------------------------------------------------------------------------
(* One step of the specification *)

(* A handler that leaves the ledger tables alone.                           *)
LEMMA LedgerUnchanged ==
  ASSUME LedgerInv, UNCHANGED ledgerVars
  PROVE  LedgerInv' /\ journals' = journals
  BY DEF LedgerInv, LedgerTypeOK, ProjectionMatchesLedger, ledgerVars

(* What a handler knows when it commits: which withdrawal it serves, and,   *)
(* when requests do not overlap, the status it checked.                     *)
LEMMA CommitKnows ==
  ASSUME Inv, NEW s \in Slots, NEW op \in Operations, Serving(s, op)
  PROVE  /\ request[s] \in Requests /\ request[s] # Idle
         /\ request[s].intent \in Withdrawals /\ request[s].intent \in Intents
         /\ request[s].row \in Nat
         /\ request[s].row <= Len(txs[request[s].intent])
         /\ RequestIsSound(request[s], txs) /\ request[s].op = op
         /\ request[s].intent \notin Overlapping =>
              /\ status[request[s].intent] = request[s].status
              /\ status[request[s].intent] \in ReadStatus[op]
              /\ ReservationFollowsStatus(request[s].intent)
  <1>1. request[s] # Idle /\ request[s].op = op
    BY DEF Serving
  <1>2. RequestIsFresh(s)
    BY DEF Inv, EveryRequestIsFresh
  <1>3. /\ request[s] \in Requests
        /\ request[s].intent \in Withdrawals /\ request[s].intent \in Intents
        /\ request[s].row \in Nat
        /\ request[s].row <= Len(txs[request[s].intent])
        /\ RequestIsSound(request[s], txs)
    BY <1>1, ServedRequest DEF Inv
  <1> QED
    BY <1>1, <1>2, <1>3 DEF RequestIsFresh, Inv, EveryReservationFollowsStatus

(* Approval keeps the reservation of a requested withdrawal.                *)
LEMMA CommitApproveStep ==
  ASSUME Inv, NEW s \in Slots, CommitApprove(s)
  PROVE  Inv'
  <1>1. Serving(s, "approve") /\ Finish(s) /\ "approve" \in Operations
    BY DEF CommitApprove, Operations
  <1>2. PICK i \in Withdrawals : i = request[s].intent
    BY <1>1, CommitKnows
  <1>3. /\ request[s] \in Requests /\ request[s] # Idle /\ i \in Intents
        /\ i \notin Overlapping =>
             status[i] \in ReadStatus["approve"] /\ ReservationFollowsStatus(i)
    BY <1>1, <1>2, CommitKnows, Zenon
  <1>4. LedgerInv' /\ journals' = journals
    BY LedgerUnchanged DEF CommitApprove, Inv, TypeInv, TypeOK, LedgerInv
  <1>5. status' = [status EXCEPT ![i] = "approved"]
    BY <1>2 DEF CommitApprove
  <1>6. /\ txs' \in [Withdrawals -> Seq(TxRows)]
        /\ \A j \in Withdrawals : Len(txs'[j]) >= Len(txs[j])
    <2>1. txs' = txs /\ txs \in [Withdrawals -> Seq(TxRows)]
      BY DEF CommitApprove, Inv, TypeInv, TypeOK
    <2> QED
      BY <2>1
  <1>7. TypeOK'
    <2>1. status' \in [Withdrawals -> Statuses] /\ request' \in [Slots -> Requests \cup {Idle}]
      BY <1>1, <1>5 DEF Inv, TypeInv, TypeOK, Finish, Statuses, Live
    <2>2. /\ policyDecision' \in [Withdrawals -> Decisions]
          /\ failure' \in [Withdrawals -> Failures]
          /\ claim' \in [Withdrawals -> Workers \cup {NoWorker}]
          /\ stale' \subseteq Withdrawals
      BY <1>2, <1>3 DEF CommitApprove, Inv, TypeInv, TypeOK, Decisions, Failures, NoFailure
    <2> QED
      BY <1>4, <1>6, <2>1, <2>2 DEF TypeOK, LedgerInv
  <1>8. i \notin Overlapping => ReservationFollowsStatus(i)'
    BY <1>3, <1>4, <1>5 DEF ReservationFollowsStatus, Reserved, Released, Settled,
       ReadStatus, Inv, TypeInv, TypeOK
  <1>9. /\ \A j \in Withdrawals : j # i => status'[j] = status[j]
        /\ \A j \in Withdrawals, type \in JournalTypes :
             j # i => (<<j, type>> \in journals' <=> <<j, type>> \in journals)
    BY <1>4, <1>5 DEF Inv, TypeInv, TypeOK
  <1> QED
    BY <1>1, <1>2, <1>3, <1>4, <1>6, <1>7, <1>8, <1>9, CommitStep DEF LedgerInv

(* Denial releases it.                                                      *)
LEMMA CommitDenyStep ==
  ASSUME Inv, NEW s \in Slots, CommitDeny(s)
  PROVE  Inv'
  <1>1. Serving(s, "deny") /\ Finish(s) /\ "deny" \in Operations
    BY DEF CommitDeny, Operations
  <1>2. PICK i \in Withdrawals : i = request[s].intent
    BY <1>1, CommitKnows
  <1>3. /\ request[s] \in Requests /\ request[s] # Idle /\ i \in Intents
        /\ i \notin Overlapping =>
             status[i] \in ReadStatus["deny"] /\ ReservationFollowsStatus(i)
    BY <1>1, <1>2, CommitKnows, Zenon
  <1>4. /\ LedgerInv' /\ journals' = journals \cup {<<i, "withdrawal_reservation_release">>}
        /\ <<i, "withdrawal_reservation_release">> \notin journals
    BY <1>2, <1>3, ReleaseWithdrawalReservationStep DEF CommitDeny, Inv, TypeInv, TypeOK, LedgerInv
  <1>5. status' = [status EXCEPT ![i] = "failed"]
    BY <1>2 DEF CommitDeny
  <1>6. /\ txs' \in [Withdrawals -> Seq(TxRows)]
        /\ \A j \in Withdrawals : Len(txs'[j]) >= Len(txs[j])
    <2>1. txs' = txs /\ txs \in [Withdrawals -> Seq(TxRows)]
      BY DEF CommitDeny, Inv, TypeInv, TypeOK
    <2> QED
      BY <2>1
  <1>7. TypeOK'
    <2>1. status' \in [Withdrawals -> Statuses] /\ request' \in [Slots -> Requests \cup {Idle}]
      BY <1>1, <1>5 DEF Inv, TypeInv, TypeOK, Finish, Statuses, Live
    <2>2. /\ policyDecision' \in [Withdrawals -> Decisions]
          /\ failure' \in [Withdrawals -> Failures]
          /\ claim' \in [Withdrawals -> Workers \cup {NoWorker}]
          /\ stale' \subseteq Withdrawals
      BY <1>2, <1>3 DEF CommitDeny, Inv, TypeInv, TypeOK, Decisions, Failures, NoFailure
    <2> QED
      BY <1>4, <1>6, <2>1, <2>2 DEF TypeOK, LedgerInv
  <1>8. i \notin Overlapping => ReservationFollowsStatus(i)'
    BY <1>3, <1>4, <1>5 DEF ReservationFollowsStatus, Reserved, Released, Settled,
       ReadStatus, Inv, TypeInv, TypeOK
  <1>9. /\ \A j \in Withdrawals : j # i => status'[j] = status[j]
        /\ \A j \in Withdrawals, type \in JournalTypes :
             j # i => (<<j, type>> \in journals' <=> <<j, type>> \in journals)
    BY <1>4, <1>5 DEF Inv, TypeInv, TypeOK
  <1> QED
    BY <1>1, <1>2, <1>3, <1>4, <1>6, <1>7, <1>8, <1>9, CommitStep DEF LedgerInv

(* Queueing keeps it.                                                       *)
LEMMA CommitQueueStep ==
  ASSUME Inv, NEW s \in Slots, CommitQueue(s)
  PROVE  Inv'
  <1>1. Serving(s, "queue") /\ Finish(s) /\ "queue" \in Operations
    BY DEF CommitQueue, Operations
  <1>2. PICK i \in Withdrawals : i = request[s].intent
    BY <1>1, CommitKnows
  <1>3. /\ request[s] \in Requests /\ request[s] # Idle /\ i \in Intents
        /\ i \notin Overlapping =>
             status[i] \in ReadStatus["queue"] /\ ReservationFollowsStatus(i)
    BY <1>1, <1>2, CommitKnows, Zenon
  <1>4. LedgerInv' /\ journals' = journals
    BY LedgerUnchanged DEF CommitQueue, Inv, TypeInv, TypeOK, LedgerInv
  <1>5. status' = [status EXCEPT ![i] = "queued"]
    BY <1>2 DEF CommitQueue
  <1>6. /\ txs' \in [Withdrawals -> Seq(TxRows)]
        /\ \A j \in Withdrawals : Len(txs'[j]) >= Len(txs[j])
    <2>1. txs' = txs /\ txs \in [Withdrawals -> Seq(TxRows)]
      BY DEF CommitQueue, Inv, TypeInv, TypeOK
    <2> QED
      BY <2>1
  <1>7. TypeOK'
    <2>1. status' \in [Withdrawals -> Statuses] /\ request' \in [Slots -> Requests \cup {Idle}]
      BY <1>1, <1>5 DEF Inv, TypeInv, TypeOK, Finish, Statuses, Live
    <2>2. /\ policyDecision' \in [Withdrawals -> Decisions]
          /\ failure' \in [Withdrawals -> Failures]
          /\ claim' \in [Withdrawals -> Workers \cup {NoWorker}]
          /\ stale' \subseteq Withdrawals
      BY <1>2, <1>3 DEF CommitQueue, Inv, TypeInv, TypeOK, Failures, NoFailure
    <2> QED
      BY <1>4, <1>6, <2>1, <2>2 DEF TypeOK, LedgerInv
  <1>8. i \notin Overlapping => ReservationFollowsStatus(i)'
    BY <1>3, <1>4, <1>5 DEF ReservationFollowsStatus, Reserved, Released, Settled,
       ReadStatus, Inv, TypeInv, TypeOK
  <1>9. /\ \A j \in Withdrawals : j # i => status'[j] = status[j]
        /\ \A j \in Withdrawals, type \in JournalTypes :
             j # i => (<<j, type>> \in journals' <=> <<j, type>> \in journals)
    BY <1>4, <1>5 DEF Inv, TypeInv, TypeOK
  <1> QED
    BY <1>1, <1>2, <1>3, <1>4, <1>6, <1>7, <1>8, <1>9, CommitStep DEF LedgerInv

(* Claiming leaves status and money alone.                                  *)
LEMMA CommitStartStep ==
  ASSUME Inv, NEW s \in Slots, CommitStart(s)
  PROVE  Inv'
  <1>1. Serving(s, "start") /\ Finish(s) /\ "start" \in Operations
    BY DEF CommitStart, MayStart, Operations
  <1>2. PICK i \in Withdrawals : i = request[s].intent
    BY <1>1, CommitKnows
  <1>3. /\ request[s] \in Requests /\ request[s] # Idle /\ i \in Intents
        /\ i \notin Overlapping =>
             status[i] \in ReadStatus["start"] /\ ReservationFollowsStatus(i)
    BY <1>1, <1>2, CommitKnows, Zenon
  <1>4. LedgerInv' /\ journals' = journals
    BY LedgerUnchanged DEF CommitStart, MayStart, Inv, TypeInv, TypeOK, LedgerInv
  <1>5. status' = status
    BY <1>2 DEF CommitStart
  <1>6. /\ txs' \in [Withdrawals -> Seq(TxRows)]
        /\ \A j \in Withdrawals : Len(txs'[j]) >= Len(txs[j])
    <2> DEFINE tx == [status |-> "created", hash |-> NoHash]
    <2>1. CASE WriteTx(request[s], tx)
      <3>1. tx \in TxRows
        BY DEF TxRows, TxStatuses
      <3> QED
        BY <1>1, <1>3, <2>1, <3>1, CommitKnows, WriteTxStep DEF Inv, TypeInv
    <2>2. CASE txs' = txs
      <3>1. \A j \in Withdrawals : Len(txs[j]) \in Nat
        BY DEF Inv, TypeInv, TypeOK
      <3> QED
        BY <2>2, <3>1 DEF Inv, TypeInv, TypeOK
    <2> QED
      BY <2>1, <2>2 DEF CommitStart
  <1>7. TypeOK'
    <2>1. status' \in [Withdrawals -> Statuses] /\ request' \in [Slots -> Requests \cup {Idle}]
      BY <1>1, <1>5 DEF Inv, TypeInv, TypeOK, Finish, Statuses, Live
    <2>2. /\ policyDecision' \in [Withdrawals -> Decisions]
          /\ failure' \in [Withdrawals -> Failures]
          /\ claim' \in [Withdrawals -> Workers \cup {NoWorker}]
          /\ stale' \subseteq Withdrawals
      <3>1. request[s].actor \in Workers
        BY <1>1, CommitKnows DEF RequestIsSound
      <3> QED
        BY <1>2, <1>3, <3>1 DEF CommitStart, MayStart, Inv, TypeInv, TypeOK
    <2> QED
      BY <1>4, <1>6, <2>1, <2>2 DEF TypeOK, LedgerInv
  <1>8. i \notin Overlapping => ReservationFollowsStatus(i)'
    BY <1>3, <1>4, <1>5 DEF ReservationFollowsStatus, Reserved, Released, Settled,
       ReadStatus, Inv, TypeInv, TypeOK
  <1>9. /\ \A j \in Withdrawals : j # i => status'[j] = status[j]
        /\ \A j \in Withdrawals, type \in JournalTypes :
             j # i => (<<j, type>> \in journals' <=> <<j, type>> \in journals)
    BY <1>4, <1>5 DEF Inv, TypeInv, TypeOK
  <1> QED
    BY <1>1, <1>2, <1>3, <1>4, <1>6, <1>7, <1>8, <1>9, CommitStep DEF LedgerInv

(* Recording the signed transaction too.                                    *)
LEMMA CommitSignStep ==
  ASSUME Inv, NEW s \in Slots, CommitSign(s)
  PROVE  Inv'
  <1>1. Serving(s, "sign") /\ Finish(s) /\ "sign" \in Operations
    BY DEF CommitSign, Operations
  <1>2. PICK i \in Withdrawals : i = request[s].intent
    BY <1>1, CommitKnows
  <1>3. /\ request[s] \in Requests /\ request[s] # Idle /\ i \in Intents
        /\ i \notin Overlapping =>
             status[i] \in ReadStatus["sign"] /\ ReservationFollowsStatus(i)
    BY <1>1, <1>2, CommitKnows, Zenon
  <1>4. LedgerInv' /\ journals' = journals
    BY LedgerUnchanged DEF CommitSign, Inv, TypeInv, TypeOK, LedgerInv
  <1>5. status' = status
    BY <1>2 DEF CommitSign
  <1>6. /\ txs' \in [Withdrawals -> Seq(TxRows)]
        /\ \A j \in Withdrawals : Len(txs'[j]) >= Len(txs[j])
    <2>1. [status |-> "signed", hash |-> request[s].hash] \in TxRows
      BY <1>3 DEF Requests, TxRows, TxStatuses
    <2>2. WriteTx(request[s], [status |-> "signed", hash |-> request[s].hash])
      BY DEF CommitSign
    <2> QED
      BY <1>1, <1>3, <2>1, <2>2, CommitKnows, WriteTxStep DEF Inv, TypeInv
  <1>7. TypeOK'
    <2>1. status' \in [Withdrawals -> Statuses] /\ request' \in [Slots -> Requests \cup {Idle}]
      BY <1>1, <1>5 DEF Inv, TypeInv, TypeOK, Finish, Statuses, Live
    <2>2. /\ policyDecision' \in [Withdrawals -> Decisions]
          /\ failure' \in [Withdrawals -> Failures]
          /\ claim' \in [Withdrawals -> Workers \cup {NoWorker}]
          /\ stale' \subseteq Withdrawals
      BY <1>2, <1>3 DEF CommitSign, Inv, TypeInv, TypeOK
    <2> QED
      BY <1>4, <1>6, <2>1, <2>2 DEF TypeOK, LedgerInv
  <1>8. i \notin Overlapping => ReservationFollowsStatus(i)'
    BY <1>3, <1>4, <1>5 DEF ReservationFollowsStatus, Reserved, Released, Settled,
       ReadStatus, Inv, TypeInv, TypeOK
  <1>9. /\ \A j \in Withdrawals : j # i => status'[j] = status[j]
        /\ \A j \in Withdrawals, type \in JournalTypes :
             j # i => (<<j, type>> \in journals' <=> <<j, type>> \in journals)
    BY <1>4, <1>5 DEF Inv, TypeInv, TypeOK
  <1> QED
    BY <1>1, <1>2, <1>3, <1>4, <1>6, <1>7, <1>8, <1>9, CommitStep DEF LedgerInv

(* A recorded broadcast keeps the reservation.                              *)
LEMMA CommitBroadcastStep ==
  ASSUME Inv, NEW s \in Slots, CommitBroadcast(s)
  PROVE  Inv'
  <1>1. Serving(s, "broadcast") /\ Finish(s) /\ "broadcast" \in Operations
    BY DEF CommitBroadcast, Operations
  <1>2. PICK i \in Withdrawals : i = request[s].intent
    BY <1>1, CommitKnows
  <1>3. /\ request[s] \in Requests /\ request[s] # Idle /\ i \in Intents
        /\ i \notin Overlapping =>
             status[i] \in ReadStatus["broadcast"] /\ ReservationFollowsStatus(i)
    BY <1>1, <1>2, CommitKnows, Zenon
  <1>4. LedgerInv' /\ journals' = journals
    BY LedgerUnchanged DEF CommitBroadcast, Inv, TypeInv, TypeOK, LedgerInv
  <1>5. status' = [status EXCEPT ![i] = "broadcast"]
    BY <1>2 DEF CommitBroadcast
  <1>6. /\ txs' \in [Withdrawals -> Seq(TxRows)]
        /\ \A j \in Withdrawals : Len(txs'[j]) >= Len(txs[j])
    <2>1. [status |-> "broadcast", hash |-> request[s].hash] \in TxRows
      BY <1>3 DEF Requests, TxRows, TxStatuses
    <2>2. WriteTx(request[s], [status |-> "broadcast", hash |-> request[s].hash])
      BY DEF CommitBroadcast
    <2> QED
      BY <1>1, <1>3, <2>1, <2>2, CommitKnows, WriteTxStep DEF Inv, TypeInv
  <1>7. TypeOK'
    <2>1. status' \in [Withdrawals -> Statuses] /\ request' \in [Slots -> Requests \cup {Idle}]
      BY <1>1, <1>5 DEF Inv, TypeInv, TypeOK, Finish, Statuses, Live
    <2>2. /\ policyDecision' \in [Withdrawals -> Decisions]
          /\ failure' \in [Withdrawals -> Failures]
          /\ claim' \in [Withdrawals -> Workers \cup {NoWorker}]
          /\ stale' \subseteq Withdrawals
      BY <1>2, <1>3 DEF CommitBroadcast, Inv, TypeInv, TypeOK, Failures, NoFailure
    <2> QED
      BY <1>4, <1>6, <2>1, <2>2 DEF TypeOK, LedgerInv
  <1>8. i \notin Overlapping => ReservationFollowsStatus(i)'
    BY <1>3, <1>4, <1>5 DEF ReservationFollowsStatus, Reserved, Released, Settled,
       ReadStatus, Inv, TypeInv, TypeOK
  <1>9. /\ \A j \in Withdrawals : j # i => status'[j] = status[j]
        /\ \A j \in Withdrawals, type \in JournalTypes :
             j # i => (<<j, type>> \in journals' <=> <<j, type>> \in journals)
    BY <1>4, <1>5 DEF Inv, TypeInv, TypeOK
  <1> QED
    BY <1>1, <1>2, <1>3, <1>4, <1>6, <1>7, <1>8, <1>9, CommitStep DEF LedgerInv

(* So does a confirmation.                                                  *)
LEMMA CommitConfirmStep ==
  ASSUME Inv, NEW s \in Slots, CommitConfirm(s)
  PROVE  Inv'
  <1>1. Serving(s, "confirm") /\ Finish(s) /\ "confirm" \in Operations
    BY DEF CommitConfirm, Operations
  <1>2. PICK i \in Withdrawals : i = request[s].intent
    BY <1>1, CommitKnows
  <1>3. /\ request[s] \in Requests /\ request[s] # Idle /\ i \in Intents
        /\ i \notin Overlapping =>
             status[i] \in ReadStatus["confirm"] /\ ReservationFollowsStatus(i)
    BY <1>1, <1>2, CommitKnows, Zenon
  <1>4. LedgerInv' /\ journals' = journals
    BY LedgerUnchanged DEF CommitConfirm, Inv, TypeInv, TypeOK, LedgerInv
  <1>5. status' = [status EXCEPT ![i] = "confirmed"]
    BY <1>2 DEF CommitConfirm
  <1>6. /\ txs' \in [Withdrawals -> Seq(TxRows)]
        /\ \A j \in Withdrawals : Len(txs'[j]) >= Len(txs[j])
    <2> DEFINE n == request[s].row
               q == [txs[i] EXCEPT ![n].status = "confirmed"]
    <2>1. txs' = [txs EXCEPT ![i] = q]
      BY <1>2 DEF CommitConfirm
    <2>2. n \in 1 .. Len(txs[i]) /\ txs[i] \in Seq(TxRows)
      BY <1>1, <1>2, CommitKnows DEF RequestIsSound, Inv, TypeInv, TypeOK
    <2>3. q \in Seq(TxRows) /\ Len(q) >= Len(txs[i])
      <3>1. txs[i][n] \in TxRows
        BY <2>2
      <3>2. [txs[i][n] EXCEPT !.status = "confirmed"] \in TxRows
        BY <3>1 DEF TxRows, TxStatuses
      <3>3. q = [txs[i] EXCEPT ![n] = [txs[i][n] EXCEPT !.status = "confirmed"]]
        BY <2>2
      <3> QED
        BY <2>2, <3>2, <3>3, ExceptSeq
    <2> HIDE DEF q
    <2>4. \A j \in Withdrawals : Len(txs[j]) \in Nat
      BY DEF Inv, TypeInv, TypeOK
    <2> QED
      BY <2>1, <2>2, <2>3, <2>4 DEF Inv, TypeInv, TypeOK
  <1>7. TypeOK'
    <2>1. status' \in [Withdrawals -> Statuses] /\ request' \in [Slots -> Requests \cup {Idle}]
      BY <1>1, <1>5 DEF Inv, TypeInv, TypeOK, Finish, Statuses, Live
    <2>2. /\ policyDecision' \in [Withdrawals -> Decisions]
          /\ failure' \in [Withdrawals -> Failures]
          /\ claim' \in [Withdrawals -> Workers \cup {NoWorker}]
          /\ stale' \subseteq Withdrawals
      BY <1>2, <1>3 DEF CommitConfirm, Inv, TypeInv, TypeOK
    <2> QED
      BY <1>4, <1>6, <2>1, <2>2 DEF TypeOK, LedgerInv
  <1>8. i \notin Overlapping => ReservationFollowsStatus(i)'
    BY <1>3, <1>4, <1>5 DEF ReservationFollowsStatus, Reserved, Released, Settled,
       ReadStatus, Inv, TypeInv, TypeOK
  <1>9. /\ \A j \in Withdrawals : j # i => status'[j] = status[j]
        /\ \A j \in Withdrawals, type \in JournalTypes :
             j # i => (<<j, type>> \in journals' <=> <<j, type>> \in journals)
    BY <1>4, <1>5 DEF Inv, TypeInv, TypeOK
  <1> QED
    BY <1>1, <1>2, <1>3, <1>4, <1>6, <1>7, <1>8, <1>9, CommitStep DEF LedgerInv

(* Settlement pays it out.                                                  *)
LEMMA CommitSettleStep ==
  ASSUME Inv, NEW s \in Slots, CommitSettle(s)
  PROVE  Inv'
  <1>1. Serving(s, "settle") /\ Finish(s) /\ "settle" \in Operations
    BY DEF CommitSettle, Operations
  <1>2. PICK i \in Withdrawals : i = request[s].intent
    BY <1>1, CommitKnows
  <1>3. /\ request[s] \in Requests /\ request[s] # Idle /\ i \in Intents
        /\ i \notin Overlapping =>
             status[i] \in ReadStatus["settle"] /\ ReservationFollowsStatus(i)
    BY <1>1, <1>2, CommitKnows, Zenon
  <1>4. /\ LedgerInv' /\ journals' = journals \cup {<<i, "withdrawal_settlement">>}
        /\ <<i, "withdrawal_settlement">> \notin journals
    BY <1>2, <1>3, SettleConfirmedWithdrawalStep DEF CommitSettle, Inv, TypeInv, TypeOK, LedgerInv
  <1>5. status' = [status EXCEPT ![i] = "settled"]
    BY <1>2 DEF CommitSettle
  <1>6. /\ txs' \in [Withdrawals -> Seq(TxRows)]
        /\ \A j \in Withdrawals : Len(txs'[j]) >= Len(txs[j])
    <2>1. txs' = txs /\ txs \in [Withdrawals -> Seq(TxRows)]
      BY DEF CommitSettle, Inv, TypeInv, TypeOK
    <2> QED
      BY <2>1
  <1>7. TypeOK'
    <2>1. status' \in [Withdrawals -> Statuses] /\ request' \in [Slots -> Requests \cup {Idle}]
      BY <1>1, <1>5 DEF Inv, TypeInv, TypeOK, Finish, Statuses, Live
    <2>2. /\ policyDecision' \in [Withdrawals -> Decisions]
          /\ failure' \in [Withdrawals -> Failures]
          /\ claim' \in [Withdrawals -> Workers \cup {NoWorker}]
          /\ stale' \subseteq Withdrawals
      BY <1>2, <1>3 DEF CommitSettle, Inv, TypeInv, TypeOK, Failures, NoFailure
    <2> QED
      BY <1>4, <1>6, <2>1, <2>2 DEF TypeOK, LedgerInv
  <1>8. i \notin Overlapping => ReservationFollowsStatus(i)'
    BY <1>3, <1>4, <1>5 DEF ReservationFollowsStatus, Reserved, Released, Settled,
       ReadStatus, Inv, TypeInv, TypeOK
  <1>9. /\ \A j \in Withdrawals : j # i => status'[j] = status[j]
        /\ \A j \in Withdrawals, type \in JournalTypes :
             j # i => (<<j, type>> \in journals' <=> <<j, type>> \in journals)
    BY <1>4, <1>5 DEF Inv, TypeInv, TypeOK
  <1> QED
    BY <1>1, <1>2, <1>3, <1>4, <1>6, <1>7, <1>8, <1>9, CommitStep DEF LedgerInv

(* Manual resolution closes a withdrawal whose reservation is released.     *)
LEMMA CommitResolveStep ==
  ASSUME Inv, NEW s \in Slots, CommitResolve(s)
  PROVE  Inv'
  <1>1. Serving(s, "resolve") /\ Finish(s) /\ "resolve" \in Operations
    BY DEF CommitResolve, Operations
  <1>2. PICK i \in Withdrawals : i = request[s].intent
    BY <1>1, CommitKnows
  <1>3. /\ request[s] \in Requests /\ request[s] # Idle /\ i \in Intents
        /\ i \notin Overlapping =>
             status[i] \in ReadStatus["resolve"] /\ ReservationFollowsStatus(i)
    BY <1>1, <1>2, CommitKnows, Zenon
  <1>4. LedgerInv' /\ journals' = journals
    BY LedgerUnchanged DEF CommitResolve, Inv, TypeInv, TypeOK, LedgerInv
  <1>5. status' = [status EXCEPT ![i] = "manually_resolved"]
    BY <1>2 DEF CommitResolve
  <1>6. /\ txs' \in [Withdrawals -> Seq(TxRows)]
        /\ \A j \in Withdrawals : Len(txs'[j]) >= Len(txs[j])
    <2>1. txs' = txs /\ txs \in [Withdrawals -> Seq(TxRows)]
      BY DEF CommitResolve, Inv, TypeInv, TypeOK
    <2> QED
      BY <2>1
  <1>7. TypeOK'
    <2>1. status' \in [Withdrawals -> Statuses] /\ request' \in [Slots -> Requests \cup {Idle}]
      BY <1>1, <1>5 DEF Inv, TypeInv, TypeOK, Finish, Statuses, Live
    <2>2. /\ policyDecision' \in [Withdrawals -> Decisions]
          /\ failure' \in [Withdrawals -> Failures]
          /\ claim' \in [Withdrawals -> Workers \cup {NoWorker}]
          /\ stale' \subseteq Withdrawals
      BY <1>2, <1>3 DEF CommitResolve, Inv, TypeInv, TypeOK
    <2> QED
      BY <1>4, <1>6, <2>1, <2>2 DEF TypeOK, LedgerInv
  <1>8. i \notin Overlapping => ReservationFollowsStatus(i)'
    BY <1>3, <1>4, <1>5 DEF ReservationFollowsStatus, Reserved, Released, Settled,
       ReadStatus, Inv, TypeInv, TypeOK
  <1>9. /\ \A j \in Withdrawals : j # i => status'[j] = status[j]
        /\ \A j \in Withdrawals, type \in JournalTypes :
             j # i => (<<j, type>> \in journals' <=> <<j, type>> \in journals)
    BY <1>4, <1>5 DEF Inv, TypeInv, TypeOK
  <1> QED
    BY <1>1, <1>2, <1>3, <1>4, <1>6, <1>7, <1>8, <1>9, CommitStep DEF LedgerInv

(* A failure releases the reservation when it is permanent; otherwise it    *)
(* writes back the status it read.                                          *)
LEMMA CommitFailStep ==
  ASSUME Inv, NEW s \in Slots, CommitFail(s)
  PROVE  Inv'
  <1>1. Serving(s, "fail") /\ Finish(s) /\ "fail" \in Operations
    BY DEF CommitFail, Operations
  <1>2. PICK i \in Withdrawals : i = request[s].intent
    BY <1>1, CommitKnows
  <1>3. /\ request[s] \in Requests /\ request[s] # Idle /\ i \in Intents
        /\ i \notin Overlapping =>
             /\ status[i] \in ReadStatus["fail"] /\ ReservationFollowsStatus(i)
             /\ status[i] = request[s].status
    BY <1>1, <1>2, CommitKnows, Zenon
  <1> DEFINE permanent == request[s].failure.category = "permanent"
             released == <<i, "withdrawal_reservation_release">>
  <1>4. /\ LedgerInv'
        /\ permanent => journals' = journals \cup {released} /\ released \notin journals
        /\ ~permanent => journals' = journals
    <2>1. CASE permanent
      BY <1>2, <1>3, <2>1, ReleaseWithdrawalReservationStep
         DEF CommitFail, Inv, TypeInv, TypeOK, LedgerInv
    <2>2. CASE ~permanent
      BY <2>2, LedgerUnchanged DEF CommitFail, Inv, TypeInv, TypeOK, LedgerInv
    <2> QED
      BY <2>1, <2>2
  <1>5. status' = [status EXCEPT ![i] = IF permanent THEN "failed"
                                        ELSE request[s].status]
    BY <1>2 DEF CommitFail
  <1>6. /\ txs' \in [Withdrawals -> Seq(TxRows)]
        /\ \A j \in Withdrawals : Len(txs'[j]) >= Len(txs[j])
    <2>1. FailedTx(request[s]) \in TxRows
      BY <1>3 DEF FailedTx, Requests, TxRows, TxStatuses
    <2>2. WriteTx(request[s], FailedTx(request[s]))
      BY DEF CommitFail
    <2> QED
      BY <1>1, <1>3, <2>1, <2>2, CommitKnows, WriteTxStep DEF Inv, TypeInv
  <1>7. TypeOK'
    <2>1. status' \in [Withdrawals -> Statuses] /\ request' \in [Slots -> Requests \cup {Idle}]
      BY <1>1, <1>3, <1>5 DEF Inv, TypeInv, TypeOK, Finish, Statuses, Live, Requests
    <2>2. request[s].failure \in Failures
      BY <1>3 DEF Requests
    <2>3. /\ policyDecision' \in [Withdrawals -> Decisions]
          /\ failure' \in [Withdrawals -> Failures]
          /\ claim' \in [Withdrawals -> Workers \cup {NoWorker}]
          /\ stale' \subseteq Withdrawals
      BY <1>2, <2>2 DEF CommitFail, Inv, TypeInv, TypeOK
    <2> QED
      BY <1>4, <1>6, <2>1, <2>3 DEF TypeOK, LedgerInv
  <1>8. i \notin Overlapping => ReservationFollowsStatus(i)'
    <2>1. CASE permanent
      BY <1>3, <1>4, <1>5, <2>1 DEF ReservationFollowsStatus, Reserved, Released,
         Settled, ReadStatus, Inv, TypeInv, TypeOK
    <2>2. CASE ~permanent
      BY <1>3, <1>4, <1>5, <2>2 DEF ReservationFollowsStatus, Reserved, Released,
         Settled, Inv, TypeInv, TypeOK
    <2> QED
      BY <2>1, <2>2
  <1>9. /\ \A j \in Withdrawals : j # i => status'[j] = status[j]
        /\ \A j \in Withdrawals, type \in JournalTypes :
             j # i => (<<j, type>> \in journals' <=> <<j, type>> \in journals)
    BY <1>4, <1>5 DEF Inv, TypeInv, TypeOK
  <1> QED
    BY <1>1, <1>2, <1>3, <1>4, <1>6, <1>7, <1>8, <1>9, CommitStep DEF LedgerInv

(* A rolled-back transaction leaves every row as it was.                    *)
LEMMA AbortStep ==
  ASSUME Inv, NEW s \in Slots, Abort(s)
  PROVE  Inv'
  <1>1. /\ request[s] # Idle /\ Finish(s)
        /\ UNCHANGED <<status, policyDecision, failure, claim, stale, txs>>
        /\ UNCHANGED ledgerVars
    BY DEF Abort, intentVars
  <1>2. PICK i \in Withdrawals : i = request[s].intent
    BY <1>1, ServedRequest DEF Inv
  <1>3. LedgerInv' /\ journals' = journals
    BY <1>1, LedgerUnchanged DEF Inv, TypeInv, TypeOK, LedgerInv
  <1>4. TypeOK'
    BY <1>1, <1>3 DEF Inv, TypeInv, TypeOK, Finish, LedgerInv
  <1>5. \A j \in Withdrawals : Len(txs'[j]) >= Len(txs[j])
    <2>1. \A j \in Withdrawals : Len(txs[j]) \in Nat
      BY DEF Inv, TypeInv, TypeOK
    <2> QED
      BY <1>1, <2>1
  <1>6. i \notin Overlapping => ReservationFollowsStatus(i)'
    BY <1>1, <1>3 DEF Inv, EveryReservationFollowsStatus, ReservationFollowsStatus,
                      Reserved, Released, Settled
  <1> QED
    BY <1>1, <1>2, <1>3, <1>4, <1>5, <1>6, CommitStep DEF LedgerInv

(* Reading: each handler checks the status its commit relies on.            *)
LEMMA ReadStep ==
  ASSUME Inv, NEW s \in Slots, NEW i \in Withdrawals, Read(s, i)
  PROVE  Inv'
  <1> USE DEF ReadStatus, Operations
  <1>1. NoFailure \in Failures
    BY DEF NoFailure, Failures
  <1>2. ASSUME NEW op \in {"approve", "deny"}, BeginDecide(s, i, op) PROVE Inv'
    BY <1>1, <1>2, BeginStep DEF BeginDecide
  <1>3. ASSUME BeginQueue(s, i) PROVE Inv'
    BY <1>1, <1>3, BeginStep DEF BeginQueue, Approved
  <1>4. ASSUME NEW w \in Workers, BeginStart(s, i, w) PROVE Inv'
    BY <1>1, <1>4, BeginStep DEF BeginStart, MayStart, Approved
  <1>5. ASSUME NEW w \in Workers, NEW h \in Hashes, BeginSign(s, i, w, h) PROVE Inv'
    BY <1>1, <1>5, BeginStep DEF BeginSign, MaySign, Approved
  <1>6. ASSUME NEW a \in Workers \cup {Operator}, NEW h \in Hashes,
               BeginBroadcast(s, i, a, h)
        PROVE  Inv'
    BY <1>1, <1>6, BeginStep DEF BeginBroadcast, MayBroadcast, Approved
  <1>7. ASSUME NEW c \in FailureCodes, NEW k \in Categories,
               NEW h \in Hashes \cup {NoHash}, BeginFail(s, i, c, k, h)
        PROVE  Inv'
    <2> DEFINE fail == [code |-> c, category |-> k]
    <2>1. fail \in Failures
      BY DEF Failures
    <2>2. Begin(s, "fail", i, Operator, h, fail) /\ status[i] \in ReadStatus["fail"]
      BY <1>7 DEF BeginFail, MayFail, Approved
    <2> HIDE DEF fail
    <2> QED
      BY <2>1, <2>2, BeginStep
  <1>8. ASSUME BeginConfirm(s, i) PROVE Inv'
    BY <1>1, <1>8, BeginStep DEF BeginConfirm, Approved
  <1>9. ASSUME BeginSettle(s, i) PROVE Inv'
    BY <1>1, <1>9, BeginStep DEF BeginSettle, Approved
  <1>10. ASSUME BeginResolve(s, i) PROVE Inv'
    BY <1>1, <1>10, BeginStep DEF BeginResolve
  <1> QED
    BY <1>2, <1>3, <1>4, <1>5, <1>6, <1>7, <1>8, <1>9, <1>10 DEF Read

(* No slot changes and no row disappears: sound and fresh requests stay so. *)
LEMMA QuietStep ==
  ASSUME Inv, LedgerInv', TypeOK', UNCHANGED <<txs, request>>,
         \A s \in Slots : request[s] # Idle =>
           status'[request[s].intent] = status[request[s].intent],
         EveryReservationFollowsStatus'
  PROVE  Inv'
  <1>1. RowsExist'
    BY DEF Inv, TypeInv, RowsExist
  <1>2. EveryRequestIsFresh'
    BY DEF Inv, EveryRequestIsFresh, RequestIsFresh
  <1> QED
    BY <1>1, <1>2 DEF Inv, TypeInv, LedgerInv

(* A deposit adds a journal of another type.                                *)
LEMMA CreditDepositStep ==
  ASSUME Inv, NEW d \in Intents \ Withdrawals, CreditDeposit(d)
  PROVE  Inv'
  <1>1. LedgerInv' /\ journals' = journals \cup {<<d, "deposit_settlement">>}
    BY SettleConfirmedDepositStep DEF CreditDeposit, Inv, TypeInv, TypeOK, LedgerInv
  <1>2. UNCHANGED <<status, policyDecision, failure, claim, stale, txs, request>>
    BY DEF CreditDeposit, intentVars
  <1>3. TypeOK'
    BY <1>1, <1>2 DEF Inv, TypeInv, TypeOK, LedgerInv
  <1>4. EveryReservationFollowsStatus'
    BY <1>1, <1>2 DEF Inv, EveryReservationFollowsStatus, ReservationFollowsStatus,
                      Reserved, Released, Settled
  <1> QED
    BY <1>1, <1>2, <1>3, <1>4, QuietStep

(* Creation reserves the amount; no request was served for the new intent.  *)
LEMMA CreateStep ==
  ASSUME Inv, NEW i \in Withdrawals, CreateWithdrawalIntent(i)
  PROVE  Inv'
  <1>1. i \in Intents
    BY WithdrawalAssumption
  <1>2. LedgerInv' /\ journals' = journals \cup {<<i, "withdrawal_reservation">>}
    BY <1>1, ReserveWithdrawalBalanceStep
       DEF CreateWithdrawalIntent, Inv, TypeInv, TypeOK, LedgerInv
  <1>3. /\ status[i] = "absent" /\ status' = [status EXCEPT ![i] = "requested"]
        /\ UNCHANGED <<policyDecision, failure, claim, stale, txs, request>>
    BY DEF CreateWithdrawalIntent
  <1>4. TypeOK'
    BY <1>2, <1>3 DEF Inv, TypeInv, TypeOK, LedgerInv, Statuses, Live
  <1>5. EveryReservationFollowsStatus'
    BY <1>2, <1>3 DEF Inv, TypeInv, TypeOK, EveryReservationFollowsStatus,
       ReservationFollowsStatus, Reserved, Released, Settled
  <1>6. ASSUME NEW s \in Slots, request[s] # Idle, request[s].intent = i,
               i \notin Overlapping
        PROVE  FALSE
    <2>1. request[s].op \in Operations
      BY <1>6, ServedRequest DEF Inv, Requests
    <2>2. status[i] \in ReadStatus[request[s].op]
      BY <1>6 DEF Inv, EveryRequestIsFresh, RequestIsFresh
    <2> QED
      BY <1>3, <2>1, <2>2 DEF Operations, ReadStatus
  <1>7. EveryRequestIsFresh' /\ RowsExist'
    <2>1. RowsExist'
      BY <1>3 DEF Inv, TypeInv, RowsExist
    <2>2. \A s \in Slots : request[s] # Idle => request[s].intent \in Withdrawals
      BY ServedRequest DEF Inv
    <2>3. EveryRequestIsFresh'
      BY <1>3, <1>6, <2>2 DEF Inv, TypeInv, TypeOK, EveryRequestIsFresh, RequestIsFresh
    <2> QED
      BY <2>1, <2>3
  <1> QED
    BY <1>2, <1>4, <1>5, <1>7 DEF Inv, TypeInv, LedgerInv

(* A claim that times out changes neither status nor money.                 *)
LEMMA ClaimTimesOutStep ==
  ASSUME Inv, NEW i \in Withdrawals, ClaimTimesOut(i)
  PROVE  Inv'
  <1>1. /\ UNCHANGED ledgerVars /\ stale' = stale \cup {i}
        /\ UNCHANGED <<status, policyDecision, failure, claim, txs, request>>
    BY DEF ClaimTimesOut
  <1>2. LedgerInv' /\ journals' = journals
    BY <1>1, LedgerUnchanged DEF Inv, TypeInv, TypeOK, LedgerInv
  <1>3. TypeOK'
    BY <1>1, <1>2 DEF Inv, TypeInv, TypeOK, LedgerInv
  <1>4. EveryReservationFollowsStatus'
    BY <1>1, <1>2 DEF Inv, EveryReservationFollowsStatus, ReservationFollowsStatus,
                      Reserved, Released, Settled
  <1> QED
    BY <1>1, <1>2, <1>3, <1>4, QuietStep

(* A stuttering step changes nothing.                                       *)
LEMMA StutterStep ==
  ASSUME Inv, UNCHANGED vars
  PROVE  Inv'
  <1>1. /\ UNCHANGED <<status, policyDecision, failure, claim, stale, txs, request>>
        /\ UNCHANGED ledgerVars
    BY DEF vars, intentVars
  <1>2. LedgerInv' /\ journals' = journals
    BY <1>1, LedgerUnchanged DEF Inv, TypeInv, TypeOK, LedgerInv
  <1>3. TypeOK' /\ EveryReservationFollowsStatus'
    BY <1>1, <1>2 DEF Inv, TypeInv, TypeOK, LedgerInv, EveryReservationFollowsStatus,
                      ReservationFollowsStatus, Reserved, Released, Settled
  <1> QED
    BY <1>1, <1>2, <1>3, QuietStep

(* Every step of the specification preserves the invariant.                 *)
LEMMA InvStep == Inv /\ [Next]_vars => Inv'
  <1> SUFFICES ASSUME Inv, [Next]_vars PROVE Inv'
    OBVIOUS
  <1>1. ASSUME NEW d \in Intents \ Withdrawals, CreditDeposit(d) PROVE Inv'
    BY <1>1, CreditDepositStep
  <1>2. ASSUME NEW i \in Withdrawals, CreateWithdrawalIntent(i) PROVE Inv'
    BY <1>2, CreateStep
  <1>3. ASSUME NEW i \in Withdrawals, ClaimTimesOut(i) PROVE Inv'
    BY <1>3, ClaimTimesOutStep
  <1>4. ASSUME NEW s \in Slots, NEW i \in Withdrawals, Read(s, i) PROVE Inv'
    BY <1>4, ReadStep
  <1>5. ASSUME NEW s \in Slots, Commit(s) PROVE Inv'
    BY <1>5, CommitApproveStep, CommitDenyStep, CommitQueueStep, CommitStartStep,
       CommitSignStep, CommitBroadcastStep, CommitFailStep, CommitConfirmStep,
       CommitSettleStep, CommitResolveStep DEF Commit
  <1>6. ASSUME NEW s \in Slots, Abort(s) PROVE Inv'
    BY <1>6, AbortStep
  <1>7. CASE UNCHANGED vars
    BY <1>7, StutterStep
  <1> QED
    BY <1>1, <1>2, <1>3, <1>4, <1>5, <1>6, <1>7 DEF Next

-----------------------------------------------------------------------------
(* Theorems *)

(* The inductive invariant holds in every reachable state.                  *)
THEOREM Invariance == Spec => []Inv
  BY InvInit, InvStep, PTL DEF Spec

(* Types: no balance is ever negative, whatever requests overlap.           *)
THEOREM TypeCorrect == Spec => []TypeOK
  <1>1. Inv => TypeOK
    BY DEF Inv, TypeInv
  <1> QED
    BY <1>1, Invariance, PTL

(* The balance rows equal the ledger positions, whatever requests overlap:  *)
(* the conditional updates and the unique index of ledger.service.ts        *)
(* suffice without any lock or isolation beyond READ COMMITTED.             *)
THEOREM ProjectionCorrect == Spec => []ProjectionMatchesLedger
  <1>1. Inv => ProjectionMatchesLedger
    BY DEF Inv
  <1> QED
    BY <1>1, Invariance, PTL

(* A withdrawal whose own requests do not overlap holds its reservation     *)
(* exactly while it is live, whatever happens to the others, which share    *)
(* its balance row.                                                         *)
THEOREM ReservationCorrect == Spec => []EveryReservationFollowsStatus
  <1>1. Inv => EveryReservationFollowsStatus
    BY DEF Inv
  <1> QED
    BY <1>1, Invariance, PTL

-----------------------------------------------------------------------------
(* Moving forward *)

Forward(x, y) ==
  /\ Rank[x] <= Rank[y]
  /\ x = "settled" => y = "settled"
  /\ x = "failed" => y # "settled"

(* The transitions the commits make, and staying where one is.              *)
LEMMA ForwardMoves ==
  /\ \A x \in Statuses : Forward(x, x)
  /\ Forward("absent", "requested")
  /\ Forward("requested", "approved") /\ Forward("requested", "failed")
  /\ Forward("approved", "queued")
  /\ Forward("queued", "broadcast") /\ Forward("broadcast", "confirmed")
  /\ Forward("queued", "failed") /\ Forward("broadcast", "failed")
  /\ Forward("confirmed", "settled")
  /\ Forward("failed", "manually_resolved")
  BY DEF Forward, Rank, Statuses, Live

(* A commit moves the one withdrawal it serves forward, from the status its *)
(* handler read.                                                            *)
LEMMA CommitForward ==
  ASSUME Inv, NEW s \in Slots, Commit(s), NEW i \in Withdrawals \ Overlapping
  PROVE  Forward(status[i], status'[i])
  <1> DEFINE r == request[s]
  <1>1. status \in [Withdrawals -> Statuses] /\ Forward(status[i], status[i])
    BY ForwardMoves DEF Inv, TypeInv, TypeOK
  <1>2. PICK op \in Operations : Serving(s, op) /\ r.op = op
    BY DEF Commit, CommitApprove, CommitDeny, CommitQueue, CommitStart, CommitSign,
           CommitBroadcast, CommitFail, CommitConfirm, CommitSettle, CommitResolve,
           Serving, Operations
  <1>3. r \in Requests /\ r # Idle /\ r.intent \in Withdrawals
    BY <1>2, CommitKnows
  <1>4. r.intent = i => status[i] = r.status /\ r.status \in ReadStatus[op]
    BY <1>2, <1>3 DEF Inv, EveryRequestIsFresh, RequestIsFresh
  <1> USE DEF Serving, ReadStatus
  <1> HIDE DEF r
  <1>5. CASE CommitApprove(s)
    BY <1>1, <1>2, <1>3, <1>4, <1>5, ForwardMoves DEF CommitApprove, r
  <1>6. CASE CommitDeny(s)
    BY <1>1, <1>2, <1>3, <1>4, <1>6, ForwardMoves DEF CommitDeny, r
  <1>7. CASE CommitQueue(s)
    BY <1>1, <1>2, <1>3, <1>4, <1>7, ForwardMoves DEF CommitQueue, r
  <1>8. CASE CommitStart(s) \/ CommitSign(s)
    BY <1>1, <1>8 DEF CommitStart, CommitSign
  <1>9. CASE CommitBroadcast(s)
    BY <1>1, <1>2, <1>3, <1>4, <1>9, ForwardMoves DEF CommitBroadcast, r
  <1>10. CASE CommitFail(s)
    BY <1>1, <1>2, <1>3, <1>4, <1>10, ForwardMoves DEF CommitFail, r
  <1>11. CASE CommitConfirm(s)
    BY <1>1, <1>2, <1>3, <1>4, <1>11, ForwardMoves DEF CommitConfirm, r
  <1>12. CASE CommitSettle(s)
    BY <1>1, <1>2, <1>3, <1>4, <1>12, ForwardMoves DEF CommitSettle, r
  <1>13. CASE CommitResolve(s)
    BY <1>1, <1>2, <1>3, <1>4, <1>13, ForwardMoves DEF CommitResolve, r
  <1> QED
    BY <1>5, <1>6, <1>7, <1>8, <1>9, <1>10, <1>11, <1>12, <1>13 DEF Commit

(* Every step of the specification moves every withdrawal forward or not at *)
(* all.                                                                     *)
LEMMA ForwardStep ==
  ASSUME Inv, [Next]_vars, NEW i \in Withdrawals \ Overlapping
  PROVE  Forward(status[i], status'[i])
  <1>1. status \in [Withdrawals -> Statuses] /\ Forward(status[i], status[i])
    BY ForwardMoves DEF Inv, TypeInv, TypeOK
  <1>2. ASSUME NEW d \in Intents \ Withdrawals, CreditDeposit(d)
        PROVE  Forward(status[i], status'[i])
    BY <1>1, <1>2 DEF CreditDeposit, intentVars
  <1>3. ASSUME NEW j \in Withdrawals, CreateWithdrawalIntent(j)
        PROVE  Forward(status[i], status'[i])
    BY <1>1, <1>3, ForwardMoves DEF CreateWithdrawalIntent
  <1>4. ASSUME NEW j \in Withdrawals, ClaimTimesOut(j)
        PROVE  Forward(status[i], status'[i])
    BY <1>1, <1>4 DEF ClaimTimesOut
  <1>5. ASSUME NEW s \in Slots, NEW j \in Withdrawals, Read(s, j)
        PROVE  Forward(status[i], status'[i])
    <2>1. UNCHANGED intentVars
      BY <1>5 DEF Read, BeginDecide, BeginQueue, BeginStart, BeginSign, BeginBroadcast,
                  BeginFail, BeginConfirm, BeginSettle, BeginResolve, Begin
    <2> QED
      BY <1>1, <2>1 DEF intentVars
  <1>6. ASSUME NEW s \in Slots, Commit(s) PROVE Forward(status[i], status'[i])
    BY <1>6, CommitForward
  <1>7. ASSUME NEW s \in Slots, Abort(s) PROVE Forward(status[i], status'[i])
    BY <1>1, <1>7 DEF Abort, intentVars
  <1>8. CASE UNCHANGED vars
    BY <1>1, <1>8 DEF vars, intentVars
  <1> QED
    BY <1>2, <1>3, <1>4, <1>5, <1>6, <1>7, <1>8 DEF Next

(* A withdrawal moves forward only: no handler takes it back to a status it *)
(* has left, and money that was paid out or given back stays so.            *)
THEOREM ForwardCorrect == Spec => ForwardOnly
  <1>1. Inv /\ [Next]_vars =>
          [\A i \in Withdrawals \ Overlapping :
             /\ Rank[status[i]] <= Rank[status'[i]]
             /\ status[i] = "settled" => status'[i] = "settled"
             /\ status[i] = "failed" => status'[i] # "settled"]_vars
    BY ForwardStep DEF Forward
  <1> QED
    BY <1>1, Invariance, PTL DEF Spec, ForwardOnly

-----------------------------------------------------------------------------
(* Blockchain transactions *)

(* A row that says signed or broadcast names its transaction.               *)
RowIsHashed(tx) == tx.status \in {"signed", "broadcast"} => tx.hash # NoHash

RowsAreHashed(i) == \A n \in 1 .. Len(txs[i]) : RowIsHashed(txs[i][n])

(* A handler has read sound rows, its hash is the one they have if they     *)
(* have one, and unless requests for its intent may overlap the row it will *)
(* write is the latest one, as it was read.                                 *)
RequestSeesRows(s) ==
  LET r == request[s] IN
  r # Idle =>
    /\ r.op \in {"sign", "broadcast"} => r.hash # NoHash
    /\ r.hash # NoHash => r.tx.hash \in {NoHash, r.hash}
    /\ RowIsHashed(r.tx)
    /\ r.intent \notin Overlapping =>
         r.row = Len(txs[r.intent]) /\ r.tx = LatestTx(r.intent)

(* What TxFollowsStatus says of one withdrawal.                             *)
TxStory(i) ==
  /\ status[i] \in {"approved", "queued", "broadcast", "confirmed", "settled"}
       => policyDecision[i] = "approved"
  /\ status[i] \in {"absent", "requested", "approved"} => txs[i] = <<>>
  /\ status[i] = "queued" => LatestTx(i).status \in {"none", "created", "signed"}
  /\ status[i] = "broadcast" => LatestTx(i).status = "broadcast"
  /\ status[i] \in {"confirmed", "settled"}
       => LatestTx(i).status = "confirmed" /\ LatestTx(i).hash # NoHash
  /\ LatestTx(i).status = "signed" => LatestTx(i).hash # NoHash

RowInv ==
  /\ \A i \in Withdrawals : RowsAreHashed(i)
  /\ \A s \in Slots : RequestSeesRows(s)
  /\ TxFollowsStatus

(* Writing the row a handler read changes this row alone.                   *)
LEMMA WriteTxRows ==
  ASSUME TypeOK, NEW r \in Requests, NEW tx \in TxRows, WriteTx(r, tx),
         r.row <= Len(txs[r.intent])
  PROVE  /\ \A j \in Withdrawals : j # r.intent => txs'[j] = txs[j]
         /\ \A n \in 1 .. Len(txs'[r.intent]) :
              \/ txs'[r.intent][n] = tx
              \/ n \in 1 .. Len(txs[r.intent]) /\ txs'[r.intent][n] = txs[r.intent][n]
         /\ r.row = Len(txs[r.intent])
              => LatestTx(r.intent)' = tx /\ txs'[r.intent] # <<>>
  <1> DEFINE p == txs[r.intent]
             q == IF r.row = 0 THEN Append(p, tx) ELSE [p EXCEPT ![r.row] = tx]
  <1>1. r.intent \in Withdrawals /\ r.row \in Nat /\ txs \in [Withdrawals -> Seq(TxRows)]
    BY DEF Requests, TypeOK
  <1>2. p \in Seq(TxRows) /\ Len(p) \in Nat /\ r.row <= Len(p)
    BY <1>1
  <1>3. txs'[r.intent] = q /\ \A j \in Withdrawals : j # r.intent => txs'[j] = txs[j]
    BY <1>1 DEF WriteTx
  <1> HIDE DEF p
  <1>4. CASE r.row = 0
    <2>1. /\ q = Append(p, tx) /\ Len(q) = Len(p) + 1
          /\ \A n \in 1 .. Len(q) : q[n] = IF n = Len(p) + 1 THEN tx ELSE p[n]
      BY <1>2, <1>4
    <2>2. q # <<>> /\ q[Len(q)] = tx
      BY <1>2, <2>1
    <2> HIDE DEF q
    <2>3. \A n \in 1 .. Len(q) : q[n] = tx \/ (n \in 1 .. Len(p) /\ q[n] = p[n])
      BY <1>2, <2>1
    <2> QED
      BY <1>3, <2>2, <2>3 DEF LatestTx, p
  <1>5. CASE r.row # 0
    <2>1. /\ q = [p EXCEPT ![r.row] = tx] /\ q \in Seq(TxRows) /\ Len(q) = Len(p)
          /\ \A n \in 1 .. Len(q) : q[n] = IF n = r.row THEN tx ELSE p[n]
      BY <1>1, <1>2, <1>5, ExceptSeq
    <2> HIDE DEF q
    <2>2. q # <<>> /\ (r.row = Len(p) => q[Len(q)] = tx)
      BY <1>1, <1>2, <1>5, <2>1
    <2>3. \A n \in 1 .. Len(q) : q[n] = tx \/ (n \in 1 .. Len(p) /\ q[n] = p[n])
      BY <1>2, <2>1
    <2> QED
      BY <1>3, <2>2, <2>3 DEF LatestTx, p
  <1> QED
    BY <1>4, <1>5

(* A row that is read as the latest is sound, and so is none.               *)
LEMMA LatestTxIsHashed ==
  ASSUME TypeOK, NEW i \in Withdrawals, RowsAreHashed(i)
  PROVE  RowIsHashed(LatestTx(i))
  <1>1. txs[i] \in Seq(TxRows)
    BY DEF TypeOK
  <1>2. CASE txs[i] = <<>>
    BY <1>2 DEF LatestTx, NoTx, RowIsHashed
  <1>3. CASE txs[i] # <<>>
    <2>1. Len(txs[i]) \in 1 .. Len(txs[i]) /\ LatestTx(i) = txs[i][Len(txs[i])]
      BY <1>1, <1>3 DEF LatestTx
    <2> QED
      BY <2>1 DEF RowsAreHashed
  <1> QED
    BY <1>2, <1>3

(* No row exists and none is read before the first request.                 *)
LEMMA RowInit == Init => RowInv
  <1> SUFFICES ASSUME Init PROVE RowInv
    OBVIOUS
  <1>1. \A i \in Withdrawals : txs[i] = <<>> /\ status[i] = "absent" /\ LatestTx(i) = NoTx
    BY DEF Init, LatestTx
  <1>2. \A i \in Withdrawals : RowsAreHashed(i)
    BY <1>1 DEF RowsAreHashed
  <1>3. \A s \in Slots : RequestSeesRows(s)
    BY DEF Init, RequestSeesRows
  <1>4. TxFollowsStatus
    BY <1>1 DEF TxFollowsStatus, NoTx
  <1> QED
    BY <1>2, <1>3, <1>4 DEF RowInv

(* A handler has read: it saw the latest row of its intent.                 *)
LEMMA RowBeginStep ==
  ASSUME Inv, RowInv, NEW s \in Slots, NEW i \in Withdrawals, NEW op, NEW actor,
         NEW hash, NEW fail, Begin(s, op, i, actor, hash, fail),
         op \in {"sign", "broadcast"} => hash # NoHash,
         hash # NoHash => LatestTx(i).hash \in {NoHash, hash}
  PROVE  RowInv'
  <1> DEFINE r == [op |-> op, intent |-> i, actor |-> actor, hash |-> hash,
                   failure |-> fail, status |-> status[i],
                   row |-> Len(txs[i]), tx |-> LatestTx(i)]
  <1>1. /\ request \in [Slots -> Requests \cup {Idle}]
        /\ request' = [request EXCEPT ![s] = r]
        /\ UNCHANGED <<status, policyDecision, txs>>
    BY DEF Begin, Inv, TypeInv, TypeOK, intentVars
  <1>2. RowIsHashed(LatestTx(i))
    BY LatestTxIsHashed DEF Inv, TypeInv, RowInv
  <1>3. ASSUME NEW t \in Slots PROVE RequestSeesRows(t)'
    <2>1. CASE t = s
      <3>1. request'[t] = r
        BY <1>1, <2>1
      <3>2. r.op = op /\ r.intent = i /\ r.hash = hash /\ r.row = Len(txs[i]) /\ r.tx = LatestTx(i)
        OBVIOUS
      <3>3. LatestTx(i)' = LatestTx(i) /\ txs' = txs
        BY <1>1 DEF LatestTx
      <3> HIDE DEF r
      <3> QED
        BY <1>2, <3>1, <3>2, <3>3 DEF RequestSeesRows, RowIsHashed
    <2>2. CASE t # s
      <3>1. request'[t] = request[t]
        BY <1>1, <2>2
      <3> QED
        BY <1>1, <3>1 DEF RowInv, RequestSeesRows, RowIsHashed, LatestTx
    <2> QED
      BY <2>1, <2>2
  <1>4. (\A j \in Withdrawals : RowsAreHashed(j))' /\ TxFollowsStatus'
    BY <1>1 DEF RowInv, RowsAreHashed, RowIsHashed, TxFollowsStatus, LatestTx
  <1> QED
    BY <1>3, <1>4 DEF RowInv

(* What a handler knows of the rows when it commits.                        *)
LEMMA CommitSees ==
  ASSUME Inv, RowInv, NEW s \in Slots, NEW op \in Operations, Serving(s, op)
  PROVE  /\ request[s] \in Requests /\ request[s] # Idle /\ request[s].op = op
         /\ request[s].intent \in Withdrawals
         /\ request[s].row \in Nat
         /\ request[s].row <= Len(txs[request[s].intent])
         /\ RequestIsSound(request[s], txs)
         /\ RequestSeesRows(s)
         /\ RowsAreHashed(request[s].intent)
         /\ request[s].intent \notin Overlapping =>
              /\ status[request[s].intent] = request[s].status
              /\ status[request[s].intent] \in ReadStatus[op]
              /\ request[s].row = Len(txs[request[s].intent])
              /\ request[s].tx = LatestTx(request[s].intent)
              /\ TxStory(request[s].intent)
  <1>1. /\ request[s] \in Requests /\ request[s] # Idle /\ request[s].op = op
        /\ request[s].intent \in Withdrawals
        /\ request[s].row \in Nat
        /\ request[s].row <= Len(txs[request[s].intent])
        /\ RequestIsSound(request[s], txs)
        /\ request[s].intent \notin Overlapping =>
             /\ status[request[s].intent] = request[s].status
             /\ status[request[s].intent] \in ReadStatus[op]
    BY CommitKnows, Zenon
  <1>2. RequestSeesRows(s) /\ RowsAreHashed(request[s].intent)
    BY <1>1 DEF RowInv
  <1>3. request[s].intent \notin Overlapping => TxStory(request[s].intent)
    BY <1>1 DEF RowInv, TxFollowsStatus, TxStory
  <1> QED
    BY <1>1, <1>2, <1>3 DEF RequestSeesRows

(* A commit writes the rows of its intent only, and the handlers of others  *)
(* still see what they read.                                                *)
LEMMA RowCommitStep ==
  ASSUME Inv, RowInv, NEW s \in Slots, request[s] # Idle, NEW i \in Withdrawals,
         i = request[s].intent, Finish(s),
         \A j \in Withdrawals : j # i => /\ status'[j] = status[j]
                                         /\ policyDecision'[j] = policyDecision[j]
                                         /\ txs'[j] = txs[j],
         RowsAreHashed(i)', i \notin Overlapping => TxStory(i)'
  PROVE  RowInv'
  <1>1. /\ request' = [request EXCEPT ![s] = Idle]
        /\ request \in [Slots -> Requests \cup {Idle}]
    BY DEF Finish, Inv, TypeInv, TypeOK
  <1>2. \A j \in Withdrawals : RowsAreHashed(j)'
    BY DEF RowInv, RowsAreHashed
  <1>3. TxFollowsStatus'
    <2> SUFFICES ASSUME NEW j \in Withdrawals \ Overlapping PROVE TxStory(j)'
      BY DEF TxFollowsStatus, TxStory
    <2>1. CASE j = i
      BY <2>1
    <2>2. CASE j # i
      <3>1. TxStory(j)
        BY DEF RowInv, TxFollowsStatus, TxStory
      <3> QED
        BY <2>2, <3>1 DEF TxStory, LatestTx
    <2> QED
      BY <2>1, <2>2
  <1>4. ASSUME NEW t \in Slots PROVE RequestSeesRows(t)'
    <2>1. CASE t = s
      BY <1>1, <2>1 DEF RequestSeesRows
    <2>2. CASE t # s /\ request[t] # Idle
      <3>1. /\ request'[t] = request[t] /\ RequestSeesRows(t)
            /\ request[t].intent \in Withdrawals /\ RequestIsFresh(t)
        BY <1>1, <2>2, ServedRequest DEF RowInv, Inv, EveryRequestIsFresh
      <3>2. CASE request[t].intent \in Overlapping
        BY <3>1, <3>2 DEF RequestSeesRows, RowIsHashed
      <3>3. CASE request[t].intent \notin Overlapping
        <4>1. request[t].intent # i
          BY <2>2, <3>1, <3>3 DEF RequestIsFresh
        <4>2. txs'[request[t].intent] = txs[request[t].intent]
          BY <3>1, <4>1
        <4> QED
          BY <3>1, <4>2 DEF RequestSeesRows, RowIsHashed, LatestTx
      <3> QED
        BY <3>2, <3>3
    <2>3. CASE t # s /\ request[t] = Idle
      BY <1>1, <2>3 DEF RequestSeesRows
    <2> QED
      BY <2>1, <2>2, <2>3
  <1> QED
    BY <1>2, <1>3, <1>4 DEF RowInv

(* A commit that leaves the blockchain transactions alone.                  *)
LEMMA SameRows ==
  ASSUME RowInv, NEW i \in Withdrawals, txs' = txs
  PROVE  RowsAreHashed(i)' /\ LatestTx(i)' = LatestTx(i)
  BY DEF RowInv, RowsAreHashed, RowIsHashed, LatestTx

(* A commit that writes the row it read keeps every row sound.              *)
LEMMA WrittenRows ==
  ASSUME TypeOK, NEW r \in Requests, NEW tx \in TxRows, WriteTx(r, tx),
         r.row <= Len(txs[r.intent]), RowsAreHashed(r.intent), RowIsHashed(tx)
  PROVE  RowsAreHashed(r.intent)'
  BY WriteTxRows DEF RowsAreHashed, RowIsHashed

(* The transaction a failure writes back is a sound row.                    *)
LEMMA FailedTxRow ==
  ASSUME NEW r \in Requests, RowIsHashed(r.tx)
  PROVE  FailedTx(r) \in TxRows /\ RowIsHashed(FailedTx(r))
  <1> DEFINE st == IF r.failure.category = "permanent" THEN "failed"
                   ELSE IF r.row = 0 THEN "created" ELSE r.tx.status
             h == IF r.hash = NoHash THEN r.tx.hash ELSE r.hash
  <1>1. /\ r.tx \in TxRows /\ r.hash \in Hashes \cup {NoHash}
        /\ r.tx.status \in TxStatuses \cup {"none"} /\ r.tx.hash \in Hashes \cup {NoHash}
    BY DEF Requests, TxRows
  <1>2. FailedTx(r) = [status |-> st, hash |-> h]
    BY DEF FailedTx
  <1>3. st \in TxStatuses \cup {"none"} /\ h \in Hashes \cup {NoHash}
    BY <1>1 DEF TxStatuses
  <1>4. st \in {"signed", "broadcast"} => h # NoHash
    BY <1>1 DEF RowIsHashed
  <1> HIDE DEF st, h
  <1> QED
    BY <1>2, <1>3, <1>4 DEF TxRows, RowIsHashed

(* Each commit keeps the rows sound and the transaction in step with the    *)
(* status of its intent.                                                    *)
LEMMA RowCommitDecide ==
  ASSUME Inv, RowInv, NEW s \in Slots, CommitApprove(s) \/ CommitDeny(s)
  PROVE  RowInv'
  <1>1. PICK op \in {"approve", "deny"} : Serving(s, op)
    BY DEF CommitApprove, CommitDeny
  <1>2. PICK i \in Withdrawals : i = request[s].intent
    BY <1>1, CommitSees DEF Operations
  <1>3. /\ request[s] # Idle
        /\ i \notin Overlapping => status[i] = "requested" /\ TxStory(i)
    BY <1>1, <1>2, CommitSees DEF Operations, ReadStatus
  <1>4. /\ Finish(s) /\ txs' = txs
        /\ \/ /\ status' = [status EXCEPT ![i] = "approved"]
              /\ policyDecision' = [policyDecision EXCEPT ![i] = "approved"]
           \/ /\ status' = [status EXCEPT ![i] = "failed"]
              /\ policyDecision' = [policyDecision EXCEPT ![i] = "denied"]
    BY <1>2 DEF CommitApprove, CommitDeny
  <1>5. /\ status \in [Withdrawals -> Statuses] /\ policyDecision \in [Withdrawals -> Decisions]
    BY DEF Inv, TypeInv, TypeOK
  <1>6. \A j \in Withdrawals : j # i => /\ status'[j] = status[j]
                                         /\ policyDecision'[j] = policyDecision[j]
                                         /\ txs'[j] = txs[j]
    BY <1>4, <1>5
  <1>7. \/ status'[i] = "approved" /\ policyDecision'[i] = "approved"
        \/ status'[i] = "failed"
    BY <1>4, <1>5
  <1>8. RowsAreHashed(i)' /\ LatestTx(i)' = LatestTx(i)
    BY <1>4, SameRows
  <1>9. i \notin Overlapping => TxStory(i)'
    BY <1>3, <1>4, <1>7, <1>8 DEF TxStory
  <1> QED
    BY <1>2, <1>3, <1>4, <1>6, <1>8, <1>9, RowCommitStep

(* Queueing writes no blockchain row. *)
LEMMA RowCommitQueue ==
  ASSUME Inv, RowInv, NEW s \in Slots, CommitQueue(s)
  PROVE  RowInv'
  <1>1. Serving(s, "queue") /\ "queue" \in Operations
    BY DEF CommitQueue, Operations
  <1>2. PICK i \in Withdrawals : i = request[s].intent
    BY <1>1, CommitSees
  <1>3. /\ request[s] # Idle
        /\ i \notin Overlapping => status[i] = "approved" /\ TxStory(i)
    BY <1>1, <1>2, CommitSees DEF ReadStatus
  <1>4. /\ Finish(s) /\ txs' = txs /\ policyDecision' = policyDecision
        /\ status' = [status EXCEPT ![i] = "queued"]
    BY <1>2 DEF CommitQueue
  <1>5. status'[i] = "queued" /\ \A j \in Withdrawals : j # i => status'[j] = status[j]
    BY <1>4 DEF Inv, TypeInv, TypeOK
  <1>6. RowsAreHashed(i)' /\ LatestTx(i)' = LatestTx(i)
    BY <1>4, SameRows
  <1>7. i \notin Overlapping => TxStory(i)'
    BY <1>3, <1>4, <1>5, <1>6 DEF TxStory, LatestTx, NoTx
  <1> QED
    BY <1>2, <1>3, <1>4, <1>5, <1>6, <1>7, RowCommitStep

(* A claim opens the first row of a withdrawal, or leaves the rows as they are. *)
LEMMA RowCommitStart ==
  ASSUME Inv, RowInv, NEW s \in Slots, CommitStart(s)
  PROVE  RowInv'
  <1> DEFINE new == [status |-> "created", hash |-> NoHash]
  <1>1. Serving(s, "start") /\ "start" \in Operations
    BY DEF CommitStart, Operations
  <1>2. PICK i \in Withdrawals : i = request[s].intent
    BY <1>1, CommitSees
  <1>3. /\ request[s] \in Requests /\ request[s] # Idle
        /\ request[s].row <= Len(txs[i]) /\ RowsAreHashed(i)
        /\ i \notin Overlapping => /\ status[i] = "queued" /\ TxStory(i)
                                   /\ request[s].row = Len(txs[i])
    BY <1>1, <1>2, CommitSees DEF ReadStatus
  <1>4. /\ Finish(s) /\ status' = status /\ policyDecision' = policyDecision
        /\ \/ request[s].row = 0 /\ WriteTx(request[s], new)
           \/ txs' = txs
    BY DEF CommitStart
  <1>5. new \in TxRows /\ RowIsHashed(new) /\ new.status = "created" /\ new.hash = NoHash
    BY DEF TxRows, TxStatuses, RowIsHashed
  <1> HIDE DEF new
  <1>6. CASE txs' = txs
    <2>1. RowsAreHashed(i)' /\ LatestTx(i)' = LatestTx(i)
      BY <1>6, SameRows
    <2>2. i \notin Overlapping => TxStory(i)'
      BY <1>3, <1>4, <1>6, <2>1 DEF TxStory
    <2> QED
      BY <1>2, <1>3, <1>4, <1>6, <2>1, <2>2, RowCommitStep
  <1>7. CASE WriteTx(request[s], new)
    <2>1. /\ \A j \in Withdrawals : j # i => txs'[j] = txs[j]
          /\ request[s].row = Len(txs[i]) => LatestTx(i)' = new
      BY <1>2, <1>3, <1>5, <1>7, WriteTxRows DEF Inv, TypeInv
    <2>2. RowsAreHashed(i)'
      BY <1>2, <1>3, <1>5, <1>7, WrittenRows DEF Inv, TypeInv
    <2>3. i \notin Overlapping => TxStory(i)'
      BY <1>3, <1>4, <1>5, <2>1 DEF TxStory
    <2> QED
      BY <1>2, <1>3, <1>4, <2>1, <2>2, <2>3, RowCommitStep
  <1> QED
    BY <1>4, <1>6, <1>7

(* The record of a signed transaction writes its hash into the open row. *)
LEMMA RowCommitSign ==
  ASSUME Inv, RowInv, NEW s \in Slots, CommitSign(s)
  PROVE  RowInv'
  <1> DEFINE new == [status |-> "signed", hash |-> request[s].hash]
  <1>1. Serving(s, "sign") /\ "sign" \in Operations
    BY DEF CommitSign, Operations
  <1>2. PICK i \in Withdrawals : i = request[s].intent
    BY <1>1, CommitSees
  <1>3. /\ request[s] \in Requests /\ request[s] # Idle /\ request[s].op = "sign"
        /\ request[s].row <= Len(txs[i]) /\ RowsAreHashed(i) /\ RequestSeesRows(s)
        /\ i \notin Overlapping => /\ status[i] = "queued" /\ TxStory(i)
                                   /\ request[s].row = Len(txs[i])
    BY <1>1, <1>2, CommitSees DEF ReadStatus
  <1>4. /\ Finish(s) /\ status' = status /\ policyDecision' = policyDecision
        /\ WriteTx(request[s], new)
    BY DEF CommitSign
  <1>5. request[s].hash \in Hashes \cup {NoHash} /\ request[s].hash # NoHash
    BY <1>3 DEF RequestSeesRows, Requests
  <1>6. new \in TxRows /\ RowIsHashed(new) /\ new.status = "signed" /\ new.hash # NoHash
    BY <1>5 DEF TxRows, TxStatuses, RowIsHashed
  <1> HIDE DEF new
  <1>7. /\ \A j \in Withdrawals : j # i => txs'[j] = txs[j]
        /\ request[s].row = Len(txs[i]) => LatestTx(i)' = new
    BY <1>2, <1>3, <1>4, <1>6, WriteTxRows DEF Inv, TypeInv
  <1>8. RowsAreHashed(i)'
    BY <1>2, <1>3, <1>4, <1>6, WrittenRows DEF Inv, TypeInv
  <1>9. i \notin Overlapping => TxStory(i)'
    BY <1>3, <1>4, <1>6, <1>7 DEF TxStory
  <1> QED
    BY <1>2, <1>3, <1>4, <1>7, <1>8, <1>9, RowCommitStep

(* The record of a broadcast marks the signed row. *)
LEMMA RowCommitBroadcast ==
  ASSUME Inv, RowInv, NEW s \in Slots, CommitBroadcast(s)
  PROVE  RowInv'
  <1> DEFINE new == [status |-> "broadcast", hash |-> request[s].hash]
  <1>1. Serving(s, "broadcast") /\ "broadcast" \in Operations
    BY DEF CommitBroadcast, Operations
  <1>2. PICK i \in Withdrawals : i = request[s].intent
    BY <1>1, CommitSees
  <1>3. /\ request[s] \in Requests /\ request[s] # Idle /\ request[s].op = "broadcast"
        /\ request[s].row <= Len(txs[i]) /\ RowsAreHashed(i) /\ RequestSeesRows(s)
        /\ i \notin Overlapping => /\ status[i] = "queued" /\ TxStory(i)
                                   /\ request[s].row = Len(txs[i])
    BY <1>1, <1>2, CommitSees DEF ReadStatus
  <1>4. /\ Finish(s) /\ policyDecision' = policyDecision
        /\ status' = [status EXCEPT ![i] = "broadcast"]
        /\ WriteTx(request[s], new)
    BY <1>2 DEF CommitBroadcast
  <1>5. /\ request[s].hash \in Hashes \cup {NoHash} /\ request[s].hash # NoHash
        /\ status'[i] = "broadcast"
        /\ \A j \in Withdrawals : j # i => status'[j] = status[j]
    BY <1>3, <1>4 DEF RequestSeesRows, Requests, Inv, TypeInv, TypeOK
  <1>6. new \in TxRows /\ RowIsHashed(new) /\ new.status = "broadcast" /\ new.hash # NoHash
    BY <1>5 DEF TxRows, TxStatuses, RowIsHashed
  <1> HIDE DEF new
  <1>7. /\ \A j \in Withdrawals : j # i => txs'[j] = txs[j]
        /\ request[s].row = Len(txs[i]) => LatestTx(i)' = new
    BY <1>2, <1>3, <1>4, <1>6, WriteTxRows DEF Inv, TypeInv
  <1>8. RowsAreHashed(i)'
    BY <1>2, <1>3, <1>4, <1>6, WrittenRows DEF Inv, TypeInv
  <1>9. i \notin Overlapping => TxStory(i)'
    BY <1>3, <1>4, <1>5, <1>6, <1>7 DEF TxStory
  <1> QED
    BY <1>2, <1>3, <1>4, <1>5, <1>7, <1>8, <1>9, RowCommitStep

(* A failure writes one row, with the hash it read or was given. *)
LEMMA RowCommitFail ==
  ASSUME Inv, RowInv, NEW s \in Slots, CommitFail(s)
  PROVE  RowInv'
  <1> DEFINE r == request[s]
             new == FailedTx(r)
  <1>1. Serving(s, "fail") /\ "fail" \in Operations
    BY DEF CommitFail, Operations
  <1>2. PICK i \in Withdrawals : i = r.intent
    BY <1>1, CommitSees
  <1>3. /\ r \in Requests /\ r # Idle /\ r.row \in Nat
        /\ r.row <= Len(txs[i]) /\ RowsAreHashed(i) /\ RowIsHashed(r.tx)
        /\ i \notin Overlapping => /\ status[i] \in {"queued", "broadcast"} /\ TxStory(i)
                                   /\ r.row = Len(txs[i]) /\ r.tx = LatestTx(i)
                                   /\ r.status = status[i]
    BY <1>1, <1>2, CommitSees DEF ReadStatus, RequestSeesRows
  <1>4. /\ Finish(s) /\ policyDecision' = policyDecision
        /\ WriteTx(r, new)
        /\ \/ /\ r.failure.category = "permanent"
              /\ status' = [status EXCEPT ![i] = "failed"]
           \/ /\ r.failure.category # "permanent"
              /\ status' = [status EXCEPT ![i] = r.status]
    BY <1>2 DEF CommitFail
  <1>5. new \in TxRows /\ RowIsHashed(new)
    BY <1>3, FailedTxRow
  <1>6. /\ r.failure.category = "permanent" => new.status = "failed"
        /\ r.failure.category # "permanent" =>
             new.status = IF r.row = 0 THEN "created" ELSE r.tx.status
    BY DEF FailedTx
  <1>7. /\ \A j \in Withdrawals : j # i => status'[j] = status[j]
        /\ r.failure.category = "permanent" => status'[i] = "failed"
        /\ r.failure.category # "permanent" => status'[i] = r.status
    BY <1>4 DEF Inv, TypeInv, TypeOK
  <1> HIDE DEF new, r
  <1>8. /\ \A j \in Withdrawals : j # i => txs'[j] = txs[j]
        /\ r.row = Len(txs[i]) => LatestTx(i)' = new
    BY <1>2, <1>3, <1>4, <1>5, WriteTxRows DEF Inv, TypeInv
  <1>9. RowsAreHashed(i)'
    BY <1>2, <1>3, <1>4, <1>5, WrittenRows DEF Inv, TypeInv
  <1>10. i \notin Overlapping => TxStory(i)'
    <2> SUFFICES ASSUME i \notin Overlapping PROVE TxStory(i)'
      OBVIOUS
    <2>1. LatestTx(i)' = new /\ (new.status = "signed" => new.hash # NoHash)
      BY <1>3, <1>5, <1>8 DEF RowIsHashed
    <2>2. policyDecision'[i] = "approved"
      BY <1>3, <1>4 DEF TxStory
    <2>3. CASE r.failure.category = "permanent"
      BY <1>6, <1>7, <2>1, <2>2, <2>3 DEF TxStory
    <2>4. CASE r.failure.category # "permanent" /\ r.row = 0
      <3>1. txs[i] = <<>>
        BY <1>3, <2>4 DEF Inv, TypeInv, TypeOK
      <3>2. LatestTx(i) = NoTx
        BY <3>1 DEF LatestTx
      <3>3. status[i] = "queued"
        BY <1>3, <3>2 DEF TxStory, NoTx
      <3> QED
        BY <1>3, <1>6, <1>7, <2>1, <2>2, <2>4, <3>3 DEF TxStory
    <2>5. CASE r.failure.category # "permanent" /\ r.row # 0
      <3>1. new.status = LatestTx(i).status /\ status'[i] = status[i]
        BY <1>3, <1>6, <1>7, <2>5
      <3> QED
        BY <1>3, <2>1, <2>2, <3>1 DEF TxStory
    <2> QED
      BY <2>3, <2>4, <2>5
  <1> QED
    BY <1>2, <1>3, <1>4, <1>7, <1>8, <1>9, <1>10, RowCommitStep DEF r

(* A confirmation marks the broadcast row of the intent it confirms. *)
LEMMA RowCommitConfirm ==
  ASSUME Inv, RowInv, NEW s \in Slots, CommitConfirm(s)
  PROVE  RowInv'
  <1> DEFINE r == request[s]
  <1>1. Serving(s, "confirm") /\ "confirm" \in Operations
    BY DEF CommitConfirm, Operations
  <1>2. PICK i \in Withdrawals : i = r.intent
    BY <1>1, CommitSees
  <1>3. /\ r \in Requests /\ r # Idle /\ r.row \in 1 .. Len(txs[i])
        /\ RowsAreHashed(i)
        /\ i \notin Overlapping => /\ status[i] = "broadcast" /\ TxStory(i)
                                   /\ r.row = Len(txs[i]) /\ r.tx = LatestTx(i)
    <2>1. /\ r \in Requests /\ r # Idle /\ r.row \in Nat /\ r.op = "confirm"
          /\ r.row <= Len(txs[i]) /\ RowsAreHashed(i) /\ RequestIsSound(r, txs)
      BY <1>1, <1>2, CommitSees
    <2>2. txs[i] \in Seq(TxRows) /\ r.row # 0
      BY <2>1 DEF Inv, TypeInv, TypeOK, RequestIsSound
    <2>3. r.row \in 1 .. Len(txs[i])
      BY <2>1, <2>2
    <2> QED
      BY <1>1, <1>2, <2>1, <2>3, CommitSees DEF ReadStatus
  <1>4. /\ Finish(s) /\ policyDecision' = policyDecision
        /\ status' = [status EXCEPT ![i] = "confirmed"]
        /\ txs' = [txs EXCEPT ![i][r.row].status = "confirmed"]
    BY <1>2 DEF CommitConfirm
  <1> HIDE DEF r
  <1>5. /\ \A j \in Withdrawals : j # i => status'[j] = status[j] /\ txs'[j] = txs[j]
        /\ status'[i] = "confirmed"
    BY <1>4 DEF Inv, TypeInv, TypeOK
  <1>6. /\ Len(txs'[i]) = Len(txs[i]) /\ txs'[i] # <<>> /\ txs[i] # <<>>
        /\ \A n \in 1 .. Len(txs[i]) :
             IF n = r.row THEN /\ txs'[i][n].status = "confirmed"
                               /\ txs'[i][n].hash = txs[i][n].hash
                          ELSE txs'[i][n] = txs[i][n]
    <2>1. txs[i] \in Seq(TxRows) /\ txs[i][r.row] \in TxRows
      BY <1>3 DEF Inv, TypeInv, TypeOK
    <2>2. txs'[i] = [txs[i] EXCEPT ![r.row] = [txs[i][r.row] EXCEPT !.status = "confirmed"]]
      BY <1>4 DEF Inv, TypeInv, TypeOK
    <2> QED
      BY <1>3, <2>1, <2>2 DEF TxRows
  <1>7. RowsAreHashed(i)'
    BY <1>3, <1>6 DEF RowsAreHashed, RowIsHashed
  <1>8. i \notin Overlapping => TxStory(i)'
    <2> SUFFICES ASSUME i \notin Overlapping PROVE TxStory(i)'
      OBVIOUS
    <2>1. /\ LatestTx(i) = txs[i][r.row] /\ LatestTx(i)' = txs'[i][r.row]
      BY <1>3, <1>6 DEF LatestTx
    <2>2. LatestTx(i).status = "broadcast" /\ RowIsHashed(txs[i][r.row])
      BY <1>3 DEF TxStory, RowsAreHashed
    <2>3. LatestTx(i)'.status = "confirmed" /\ LatestTx(i)'.hash # NoHash
      BY <1>3, <1>6, <2>1, <2>2 DEF RowIsHashed
    <2> QED
      BY <1>3, <1>4, <1>5, <2>3 DEF TxStory
  <1> QED
    BY <1>2, <1>3, <1>4, <1>5, <1>7, <1>8, RowCommitStep DEF r

(* Settlement and manual resolution leave the rows as they are. *)
LEMMA RowCommitClose ==
  ASSUME Inv, RowInv, NEW s \in Slots, CommitSettle(s) \/ CommitResolve(s)
  PROVE  RowInv'
  <1>1. PICK op \in {"settle", "resolve"} : Serving(s, op) /\ (op = "settle" <=> CommitSettle(s))
    BY DEF CommitSettle, CommitResolve, Serving
  <1>2. PICK i \in Withdrawals : i = request[s].intent
    BY <1>1, CommitSees DEF Operations
  <1>3. /\ request[s] # Idle
        /\ i \notin Overlapping =>
             /\ TxStory(i) /\ status[i] = IF op = "settle" THEN "confirmed" ELSE "failed"
    BY <1>1, <1>2, CommitSees DEF Operations, ReadStatus
  <1>4. /\ Finish(s) /\ txs' = txs /\ policyDecision' = policyDecision
        /\ status' = [status EXCEPT ![i] = IF op = "settle" THEN "settled"
                                           ELSE "manually_resolved"]
    BY <1>1, <1>2 DEF CommitSettle, CommitResolve
  <1>5. /\ \A j \in Withdrawals : j # i => status'[j] = status[j]
        /\ status'[i] = IF op = "settle" THEN "settled" ELSE "manually_resolved"
    BY <1>4 DEF Inv, TypeInv, TypeOK
  <1>6. RowsAreHashed(i)' /\ LatestTx(i)' = LatestTx(i)
    BY <1>4, SameRows
  <1>7. i \notin Overlapping => TxStory(i)'
    BY <1>1, <1>3, <1>4, <1>5, <1>6 DEF TxStory
  <1> QED
    BY <1>2, <1>3, <1>4, <1>5, <1>6, <1>7, RowCommitStep

(* The slots and the rows that stories depend on stay as they are.          *)
LEMMA RowQuietStep ==
  ASSUME RowInv, UNCHANGED <<status, policyDecision, txs, request>>
  PROVE  RowInv'
  BY DEF RowInv, RowsAreHashed, RowIsHashed, RequestSeesRows, TxFollowsStatus, LatestTx

(* A created intent has no blockchain transaction.                          *)
LEMMA RowCreateStep ==
  ASSUME Inv, RowInv, NEW i \in Withdrawals, CreateWithdrawalIntent(i)
  PROVE  RowInv'
  <1>1. /\ status[i] = "absent" /\ status' = [status EXCEPT ![i] = "requested"]
        /\ UNCHANGED <<policyDecision, txs, request>>
    BY DEF CreateWithdrawalIntent
  <1>2. status'[i] = "requested" /\ \A j \in Withdrawals : j # i => status'[j] = status[j]
    BY <1>1 DEF Inv, TypeInv, TypeOK
  <1>3. /\ \A j \in Withdrawals : RowsAreHashed(j)'
        /\ \A s \in Slots : RequestSeesRows(s)'
    BY <1>1 DEF RowInv, RowsAreHashed, RowIsHashed, RequestSeesRows, LatestTx
  <1>4. TxFollowsStatus'
    BY <1>1, <1>2 DEF RowInv, TxFollowsStatus, LatestTx
  <1> QED
    BY <1>3, <1>4 DEF RowInv

(* A transaction that rolls back drops a request.                           *)
LEMMA RowAbortStep ==
  ASSUME Inv, RowInv, NEW s \in Slots, Abort(s)
  PROVE  RowInv'
  <1>1. /\ request' = [request EXCEPT ![s] = Idle]
        /\ UNCHANGED <<status, policyDecision, txs>>
    BY DEF Abort, Finish, intentVars
  <1>2. \A t \in Slots : request'[t] = Idle \/ request'[t] = request[t]
    BY <1>1 DEF Inv, TypeInv, TypeOK
  <1>3. \A t \in Slots : RequestSeesRows(t)'
    BY <1>1, <1>2 DEF RowInv, RequestSeesRows, RowIsHashed, LatestTx
  <1>4. (\A j \in Withdrawals : RowsAreHashed(j))' /\ TxFollowsStatus'
    BY <1>1 DEF RowInv, RowsAreHashed, RowIsHashed, TxFollowsStatus, LatestTx
  <1> QED
    BY <1>3, <1>4 DEF RowInv

(* Every read finds the latest row; a hash that is signed or broadcast is   *)
(* the hash of a transaction.                                               *)
LEMMA RowReadStep ==
  ASSUME Inv, RowInv, NEW s \in Slots, NEW i \in Withdrawals, Read(s, i)
  PROVE  RowInv'
  <1>1. ASSUME NEW op \in {"approve", "deny"}, BeginDecide(s, i, op) PROVE RowInv'
    BY <1>1, RowBeginStep DEF BeginDecide
  <1>2. ASSUME BeginQueue(s, i) PROVE RowInv'
    BY <1>2, RowBeginStep DEF BeginQueue
  <1>3. ASSUME NEW w \in Workers, BeginStart(s, i, w) PROVE RowInv'
    BY <1>3, RowBeginStep DEF BeginStart
  <1>4. ASSUME NEW w \in Workers, NEW h \in Hashes, BeginSign(s, i, w, h) PROVE RowInv'
    BY <1>4, RowBeginStep, WithdrawalAssumption DEF BeginSign, MaySign
  <1>5. ASSUME NEW a \in Workers \cup {Operator}, NEW h \in Hashes,
               BeginBroadcast(s, i, a, h)
        PROVE  RowInv'
    BY <1>5, RowBeginStep, WithdrawalAssumption DEF BeginBroadcast, MayBroadcast
  <1>6. ASSUME NEW c \in FailureCodes, NEW k \in Categories,
               NEW h \in Hashes \cup {NoHash}, BeginFail(s, i, c, k, h)
        PROVE  RowInv'
    <2> DEFINE fail == [code |-> c, category |-> k]
    <2>1. /\ Begin(s, "fail", i, Operator, h, fail)
          /\ h # NoHash => LatestTx(i).hash \in {NoHash, h}
      BY <1>6 DEF BeginFail, MayFail
    <2> HIDE DEF fail
    <2> QED
      BY <2>1, RowBeginStep
  <1>7. ASSUME BeginConfirm(s, i) PROVE RowInv'
    BY <1>7, RowBeginStep DEF BeginConfirm
  <1>8. ASSUME BeginSettle(s, i) PROVE RowInv'
    BY <1>8, RowBeginStep DEF BeginSettle
  <1>9. ASSUME BeginResolve(s, i) PROVE RowInv'
    BY <1>9, RowBeginStep DEF BeginResolve
  <1> QED
    BY <1>1, <1>2, <1>3, <1>4, <1>5, <1>6, <1>7, <1>8, <1>9 DEF Read

(* Every step keeps the rows in step with the statuses.                     *)
LEMMA RowStep == Inv /\ RowInv /\ [Next]_vars => RowInv'
  <1> SUFFICES ASSUME Inv, RowInv, [Next]_vars PROVE RowInv'
    OBVIOUS
  <1>1. ASSUME NEW d \in Intents \ Withdrawals, CreditDeposit(d) PROVE RowInv'
    BY <1>1, RowQuietStep DEF CreditDeposit, intentVars
  <1>2. ASSUME NEW i \in Withdrawals, CreateWithdrawalIntent(i) PROVE RowInv'
    BY <1>2, RowCreateStep
  <1>3. ASSUME NEW i \in Withdrawals, ClaimTimesOut(i) PROVE RowInv'
    BY <1>3, RowQuietStep DEF ClaimTimesOut
  <1>4. ASSUME NEW s \in Slots, NEW i \in Withdrawals, Read(s, i) PROVE RowInv'
    BY <1>4, RowReadStep
  <1>5. ASSUME NEW s \in Slots, Commit(s) PROVE RowInv'
    BY <1>5, RowCommitDecide, RowCommitQueue, RowCommitStart, RowCommitSign,
       RowCommitBroadcast, RowCommitFail, RowCommitConfirm, RowCommitClose DEF Commit
  <1>6. ASSUME NEW s \in Slots, Abort(s) PROVE RowInv'
    BY <1>6, RowAbortStep
  <1>7. CASE UNCHANGED vars
    BY <1>7, RowQuietStep DEF vars, intentVars
  <1> QED
    BY <1>1, <1>2, <1>3, <1>4, <1>5, <1>6, <1>7 DEF Next

(* A withdrawal in the hands of a worker or of a custody operator has been  *)
(* approved, and its blockchain transaction tells the same story as the     *)
(* intent, although approval, signing, broadcast, failure and confirmation  *)
(* write the two rows from what they read before.                           *)
THEOREM TransactionCorrect == Spec => []TxFollowsStatus
  <1>1. Spec => [](Inv /\ RowInv)
    BY InvInit, InvStep, RowInit, RowStep, PTL DEF Spec
  <1>2. RowInv => TxFollowsStatus
    BY DEF RowInv
  <1> QED
    BY <1>1, <1>2, PTL
=============================================================================
