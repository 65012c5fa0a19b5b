--------------------------- MODULE DepositIntents ---------------------------
(***************************************************************************)
(* TransactionIntentsService (apps/api/src/transaction-intents/            *)
(* transaction-intents.service.ts): the lifecycle of a deposit, from the   *)
(* customer's request to the credit of the ledger, with the operator       *)
(* review it may fall back to when the recorded transaction proves         *)
(* nothing.                                                                *)
(*                                                                         *)
(* Handlers read, check and write as in WithdrawalIntents: Begin... reads  *)
(* and checks, Commit... writes by id, and the database re-evaluates only  *)
(* its unique indexes.  A recorded transaction is sound when               *)
(* evaluateDepositChainProof accepts its addresses: it goes from somewhere *)
(* else to the managed wallet of the customer.  Failure codes decide       *)
(* nothing and are left out.                                               *)
(***************************************************************************)
EXTENDS Ledger, Sequences

CONSTANTS Deposits,      \* the intents of type deposit
          AutoApproved,  \* those within the automatic approval threshold
          Hashes,        \* transaction hashes
          Slots,         \* requests the API serves at a time (a bound)
          Overlapping,   \* intents whose requests may overlap in time
          MaxReviews     \* review cases opened for an intent (a bound)

NoHash == "no_hash"

ASSUME DepositAssumption ==
  /\ Deposits \subseteq Intents
  /\ AutoApproved \subseteq Deposits
  /\ Overlapping \subseteq Deposits
  /\ NoHash \notin Hashes
  /\ MaxReviews \in Nat \ {0}

VARIABLES status,          \* TransactionIntent.status, "absent" before creation
          policyDecision,  \* TransactionIntent.policyDecision
          txs,             \* BlockchainTransaction rows of an intent, oldest first
          reviewCases,     \* ReviewCase.status of its manual interventions
          proof,           \* txHash of its DepositSettlementProof
          request          \* what the handler running in a slot remembers

intentVars == <<status, policyDecision, txs, reviewCases, proof>>
vars == <<ledgerVars, intentVars, request>>

Statuses == {"absent", "review_required", "approved", "queued", "broadcast",
             "confirmed", "settled", "failed", "manually_resolved"}
Decisions == {"none", "review_required", "approved", "denied"}
TxStatuses == {"broadcast", "confirmed", "failed"}
TxRows == [status : TxStatuses \cup {"none"}, hash : Hashes \cup {NoHash},
           sound : BOOLEAN]
NoTx == [status |-> "none", hash |-> NoHash, sound |-> FALSE]

Operations == {"approve", "deny", "queue", "broadcast", "fail", "confirm",
               "settle", "resolve"}
Requests == [op : Operations, intent : Deposits, hash : Hashes \cup {NoHash},
             sound : BOOLEAN, row : Nat, tx : TxRows, reviewCase : Nat]
Idle == [op |-> "idle"]

TypeOK ==
  /\ LedgerTypeOK
  /\ status \in [Deposits -> Statuses]
  /\ policyDecision \in [Deposits -> Decisions]
  /\ txs \in [Deposits -> Seq(TxRows)]
  /\ reviewCases \in [Deposits -> Seq({"open", "closed"})]
  /\ proof \in [Deposits -> Hashes \cup {NoHash}]
  /\ request \in [Slots -> Requests \cup {Idle}]

Init ==
  /\ LedgerInit
  /\ status = [d \in Deposits |-> "absent"]
  /\ policyDecision = [d \in Deposits |-> "none"]
  /\ txs = [d \in Deposits |-> <<>>]
  /\ reviewCases = [d \in Deposits |-> <<>>]
  /\ proof = [d \in Deposits |-> NoHash]
  /\ request = [s \in Slots |-> Idle]

-----------------------------------------------------------------------------
(* Reading and writing rows *)

LatestTx(d) == IF txs[d] = <<>> THEN NoTx ELSE txs[d][Len(txs[d])]

WriteTx(r, tx) ==
  txs' = [txs EXCEPT ![r.intent] =
            IF r.row = 0 THEN Append(@, tx) ELSE [@ EXCEPT ![r.row] = tx]]

(* The unique index on BlockchainTransaction.txHash.                        *)
HashIsFree(r, h) ==
  \A d \in Deposits : \A n \in 1 .. Len(txs[d]) :
    txs[d][n].hash = h => d = r.intent /\ n = r.row

Approved(d, s) == status[d] = s /\ policyDecision[d] = "approved"

SetStatus(d, s) == status' = [status EXCEPT ![d] = s]

(* evaluateDepositChainProof on the transaction a handler read.             *)
ProofIsValid(tx) == tx.hash # NoHash /\ tx.sound

(* openOrReuseReviewCase: an open case of the intent is used again.         *)
OpenReviewCase(d) ==
  reviewCases' = [reviewCases EXCEPT ![d] =
    IF \E n \in 1 .. Len(@) : @[n] = "open" THEN @ ELSE Append(@, "open")]

(* placeDepositIntentUnderReview                                            *)
PlaceUnderReview(d) ==
  /\ Len(reviewCases[d]) < MaxReviews
  /\ OpenReviewCase(d)
  /\ SetStatus(d, "review_required")
  /\ policyDecision' = [policyDecision EXCEPT ![d] = "review_required"]
  /\ UNCHANGED <<ledgerVars, txs, proof>>

-----------------------------------------------------------------------------
(* Requests *)

Begin(s, op, d, hash, sound) ==
  /\ request[s] = Idle
  /\ \A t \in Slots : request[t] # Idle /\ request[t].intent = d
                        => d \in Overlapping
  /\ request' = [request EXCEPT ![s] =
                   [op |-> op, intent |-> d, hash |-> hash, sound |-> sound,
                    row |-> Len(txs[d]), tx |-> LatestTx(d),
                    reviewCase |-> Len(reviewCases[d])]]
  /\ UNCHANGED <<ledgerVars, intentVars>>

Serving(s, op) == request[s] # Idle /\ request[s].op = op

Finish(s) == request' = [request EXCEPT ![s] = Idle]

(* The transaction rolls back.                                              *)
Abort(s) ==
  /\ request[s] # Idle
  /\ Finish(s)
  /\ UNCHANGED <<ledgerVars, intentVars>>

-----------------------------------------------------------------------------
(* Request and review *)

(* The intent is approved at once or opens with a review case.              *)
CreateDepositIntent(d) ==
  /\ status[d] = "absent"
  /\ IF d \in AutoApproved
       THEN /\ SetStatus(d, "approved")
            /\ policyDecision' = [policyDecision EXCEPT ![d] = "approved"]
            /\ UNCHANGED <<ledgerVars, txs, reviewCases, proof>>
       ELSE PlaceUnderReview(d)
  /\ UNCHANGED request

BeginDecide(s, d, op) ==
  /\ status[d] = "review_required" /\ policyDecision[d] = "review_required"
  /\ op \in {"approve", "deny"}
  /\ Begin(s, op, d, NoHash, FALSE)

(* Mutant: an approval always sends the deposit back to the queue. *)
ApprovedStatusForgetsTx(tx) == "approved"

(* An approved deposit resumes where its recorded transaction left it.      *)
ApprovedStatus(tx) ==
  IF tx.status \in {"broadcast", "confirmed"} THEN tx.status ELSE "approved"

(* Mutant: the decision leaves the case open. *)
KeepLinkedCase(r) == UNCHANGED reviewCases

(* resolveLinkedDepositReviewCase: the case the handler read is closed.     *)
CloseLinkedCase(r) ==
  IF r.reviewCase = 0 THEN UNCHANGED reviewCases
  ELSE reviewCases' = [reviewCases EXCEPT ![r.intent][r.reviewCase] = "closed"]

CommitDecide(s) ==
  LET r == request[s] IN
  /\ \/ /\ Serving(s, "approve")
        /\ SetStatus(r.intent, ApprovedStatus(r.tx))
        /\ policyDecision' = [policyDecision EXCEPT ![r.intent] = "approved"]
     \/ /\ Serving(s, "deny")
        /\ SetStatus(r.intent, "failed")
        /\ policyDecision' = [policyDecision EXCEPT ![r.intent] = "denied"]
  /\ CloseLinkedCase(r)
  /\ Finish(s)
  /\ UNCHANGED <<ledgerVars, txs, proof>>

(* ReviewCasesService.resolveReviewCase and dismissReviewCase close a case  *)
(* on their own and leave the deposit under review.                         *)
CloseReviewCase(d, n) ==
  /\ n \in 1 .. Len(reviewCases[d])
  /\ reviewCases[d][n] = "open"
  /\ reviewCases' = [reviewCases EXCEPT ![d][n] = "closed"]
  /\ UNCHANGED <<ledgerVars, status, policyDecision, txs, proof, request>>

BeginQueue(s, d) ==
  /\ Approved(d, "approved")
  /\ Begin(s, "queue", d, NoHash, FALSE)

CommitQueue(s) ==
  /\ Serving(s, "queue")
  /\ SetStatus(request[s].intent, "queued")
  /\ Finish(s)
  /\ UNCHANGED <<ledgerVars, policyDecision, txs, reviewCases, proof>>

-----------------------------------------------------------------------------
(* Execution by workers and custody operators *)

(* No claim is taken.  The destination, when reported, must be the wallet;  *)
(* a transaction whose addresses are not reported is recorded all the same. *)
MayBroadcast(d, h) == Approved(d, "queued") /\ LatestTx(d).hash \in {NoHash, h}

BeginBroadcast(s, d, h, sound) ==
  /\ MayBroadcast(d, h)
  /\ Begin(s, "broadcast", d, h, sound)

CommitBroadcast(s) ==
  LET r == request[s] IN
  /\ Serving(s, "broadcast")
  /\ HashIsFree(r, r.hash)
  /\ WriteTx(r, [status |-> "broadcast", hash |-> r.hash, sound |-> r.sound])
  /\ SetStatus(r.intent, "broadcast")
  /\ Finish(s)
  /\ UNCHANGED <<ledgerVars, policyDecision, reviewCases, proof>>

MayFail(d, h) ==
  /\ \E st \in {"queued", "broadcast"} : Approved(d, st)
  /\ NoHash \in {h, LatestTx(d).hash} \/ h = LatestTx(d).hash

BeginFail(s, d, h, sound) ==
  /\ MayFail(d, h)
  /\ Begin(s, "fail", d, h, sound)

(* Every failure of a deposit is final.                                     *)
CommitFail(s) ==
  LET r == request[s] IN
  LET h == IF r.hash = NoHash THEN r.tx.hash ELSE r.hash IN
  /\ Serving(s, "fail")
  /\ h # NoHash => HashIsFree(r, h)
  /\ WriteTx(r, [status |-> "failed", hash |-> h, sound |-> r.sound])
  /\ SetStatus(r.intent, "failed")
  /\ Finish(s)
  /\ UNCHANGED <<ledgerVars, policyDecision, reviewCases, proof>>

-----------------------------------------------------------------------------
(* Confirmation, settlement and manual resolution *)

BeginConfirm(s, d) ==
  /\ Approved(d, "broadcast")
  /\ txs[d] # <<>>
  /\ Begin(s, "confirm", d, NoHash, FALSE)

(* Mutant: the chain proof is not evaluated. *)
ConfirmUnproven(r) ==
  /\ txs' = [txs EXCEPT ![r.intent][r.row].status = "confirmed"]
  /\ SetStatus(r.intent, "confirmed")
  /\ UNCHANGED <<ledgerVars, policyDecision, reviewCases, proof>>

(* A transaction that proves nothing sends the deposit to the operators.    *)
Confirm(r) ==
  IF ProofIsValid(r.tx)
    THEN /\ txs' = [txs EXCEPT ![r.intent][r.row].status = "confirmed"]
         /\ SetStatus(r.intent, "confirmed")
         /\ UNCHANGED <<ledgerVars, policyDecision, reviewCases, proof>>
    ELSE PlaceUnderReview(r.intent)

CommitConfirm(s) ==
  /\ Serving(s, "confirm")
  /\ Confirm(request[s])
  /\ Finish(s)

BeginSettle(s, d) ==
  /\ Approved(d, "confirmed")
  /\ LatestTx(d).status = "confirmed"
  /\ Begin(s, "settle", d, NoHash, FALSE)

(* One proof for an intent and one for a hash; the proof, the journal and   *)
(* the balance are written in one transaction.                              *)
Settle(r) ==
  IF ProofIsValid(r.tx)
    THEN /\ proof[r.intent] = NoHash
         /\ \A d \in Deposits : proof[d] # r.tx.hash
         /\ SettleConfirmedDeposit(r.intent)
         /\ proof' = [proof EXCEPT ![r.intent] = r.tx.hash]
         /\ SetStatus(r.intent, "settled")
         /\ UNCHANGED <<policyDecision, txs, reviewCases>>
    ELSE PlaceUnderReview(r.intent)

CommitSettle(s) ==
  /\ Serving(s, "settle")
  /\ Settle(request[s])
  /\ Finish(s)

(* ReviewCasesService.applyManualResolution                                 *)
BeginResolve(s, d) ==
  /\ status[d] = "failed"
  /\ Begin(s, "resolve", d, NoHash, FALSE)

CommitResolve(s) ==
  /\ Serving(s, "resolve")
  /\ SetStatus(request[s].intent, "manually_resolved")
  /\ Finish(s)
  /\ UNCHANGED <<ledgerVars, policyDecision, txs, reviewCases, proof>>

-----------------------------------------------------------------------------
Read(s, d) ==
  \/ \E op \in {"approve", "deny"} : BeginDecide(s, d, op)
  \/ BeginQueue(s, d)
  \/ \E h \in Hashes, b \in BOOLEAN : BeginBroadcast(s, d, h, b)
  \/ \E h \in Hashes \cup {NoHash}, b \in BOOLEAN : BeginFail(s, d, h, b)
  \/ BeginConfirm(s, d)
  \/ BeginSettle(s, d)
  \/ BeginResolve(s, d)

Commit(s) ==
  \/ CommitDecide(s) \/ CommitQueue(s) \/ CommitBroadcast(s) \/ CommitFail(s)
  \/ CommitConfirm(s) \/ CommitSettle(s) \/ CommitResolve(s)

Next ==
  \/ \E d \in Deposits : CreateDepositIntent(d)
  \/ \E d \in Deposits, n \in 1 .. MaxReviews : CloseReviewCase(d, n)
  \/ \E s \in Slots, d \in Deposits : Read(s, d)
  \/ \E s \in Slots : Commit(s) \/ Abort(s)

Spec == Init /\ [][Next]_vars

-----------------------------------------------------------------------------
(* Properties *)

Credited(d) == <<d, "deposit_settlement">> \in journals

(* A deposit is credited exactly when it is settled, and then its proof     *)
(* names a confirmed transaction that the chain proof accepts, which no     *)
(* report of a failure or review has touched since it was confirmed.        *)
CreditFollowsProof ==
  \A d \in Deposits \ Overlapping :
    /\ Credited(d) <=> status[d] = "settled"
    /\ proof[d] # NoHash <=> status[d] = "settled"
    /\ status[d] \in {"confirmed", "settled"}
         => LatestTx(d).status = "confirmed" /\ ProofIsValid(LatestTx(d))
    /\ status[d] = "settled" => proof[d] = LatestTx(d).hash

(* Once a transaction is recorded for a deposit it is never up for          *)
(* execution again, not even when operators send it through review and back *)
(* (decideDepositIntent resumes at the transaction), so that the worker     *)
(* does not fund it twice.                                                  *)
RecordedIsNeverRequeued ==
  \A d \in Deposits \ Overlapping :
    LatestTx(d).hash # NoHash => status[d] \notin {"approved", "queued"}

(* Status and policy decision tell of a review together, and a case is open *)
(* only for a deposit that waits for a decision: no decision leaves a case  *)
(* of its deposit behind in the operators' queue.                           *)
ReviewFollowsStatus ==
  \A d \in Deposits \ Overlapping :
    /\ status[d] = "review_required" <=> policyDecision[d] = "review_required"
    /\ \A n \in 1 .. Len(reviewCases[d]) :
         reviewCases[d][n] = "open"
           => status[d] = "review_required" /\ n = Len(reviewCases[d])
=============================================================================
