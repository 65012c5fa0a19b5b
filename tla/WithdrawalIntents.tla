-------------------------- MODULE WithdrawalIntents --------------------------
(***************************************************************************)
(* WithdrawalIntentsService (apps/api/src/transaction-intents/             *)
(* withdrawal-intents.service.ts) and the manual resolution of             *)
(* ReviewCasesService: the lifecycle of a withdrawal, from the customer's  *)
(* request to its settlement or failure, over the rows it keeps in         *)
(* Postgres.                                                               *)
(*                                                                         *)
(* A handler reads the intent with its latest blockchain transaction,      *)
(* checks what it read, and writes by id in a transaction that runs at     *)
(* READ COMMITTED with no row lock.  Two requests for one intent may       *)
(* therefore both read before either writes.  Each handler is two actions: *)
(* Begin... reads and checks, keeping in a slot what the handler remembers *)
(* of the row; Commit... writes, and re-evaluates only what the database   *)
(* enforces at the write (conditional updates, unique indexes).  A handler *)
(* that reads once before its transaction and once inside it is modelled   *)
(* by the second read, which repeats every check of the first.             *)
(*                                                                         *)
(* Review cases are not kept.  Some handlers open one for the operators    *)
(* (a denial, a failure that needs intervention); the only handler that    *)
(* asks for one is the manual resolution of a failed intent, and a         *)
(* reconciliation scan may have opened a case for any intent, so that      *)
(* having a case is an arbitrary choice here.                              *)
(***************************************************************************)
EXTENDS Ledger, Sequences, FiniteSetsExt

CONSTANTS Withdrawals,   \* the intents of type withdrawal
          Workers,       \* worker processes, by worker id
          Hashes,        \* transaction hashes
          FailureCodes,  \* failureCode values workers and operators report
          Slots,         \* requests the API serves at a time (a bound)
          Overlapping    \* intents whose requests may overlap in time

Operator == "operator"
NoWorker == "no_worker"
NoHash == "no_hash"

ASSUME WithdrawalAssumption ==
  /\ Withdrawals \subseteq Intents
  /\ Overlapping \subseteq Withdrawals
  /\ NoWorker \notin Workers
  /\ Operator \notin Workers
  /\ NoHash \notin Hashes

VARIABLES status,          \* TransactionIntent.status, "absent" before creation
          policyDecision,  \* TransactionIntent.policyDecision
          failure,         \* failureCode and executionFailureCategory
          claim,           \* executionClaimedByWorkerId
          stale,           \* intents whose executionClaimedAt has timed out
          txs,             \* BlockchainTransaction rows of an intent, oldest first
          request          \* what the handler running in a slot remembers

intentVars == <<status, policyDecision, failure, claim, stale, txs>>
vars == <<ledgerVars, intentVars, request>>

Live == {"requested", "approved", "queued", "broadcast", "confirmed"}
Statuses == Live \cup {"absent", "settled", "failed", "manually_resolved"}
Decisions == {"pending", "approved", "denied"}
Categories == {"retryable", "manual_intervention_required", "permanent"}
Failures == [code : FailureCodes \cup {"none", "policy_denied"},
             category : Categories \cup {"none"}]
NoFailure == [code |-> "none", category |-> "none"]
TxStatuses == {"created", "signed", "broadcast", "confirmed", "failed"}
TxRows == [status : TxStatuses \cup {"none"}, hash : Hashes \cup {NoHash}]
NoTx == [status |-> "none", hash |-> NoHash]

Operations == {"approve", "deny", "queue", "start", "sign", "broadcast",
               "fail", "confirm", "settle", "resolve"}
Requests == [op : Operations, intent : Withdrawals,
             actor : Workers \cup {Operator}, hash : Hashes \cup {NoHash},
             failure : Failures,
             status : Statuses, row : Nat, tx : TxRows]
Idle == [op |-> "idle"]

TypeOK ==
  /\ LedgerTypeOK
  /\ status \in [Withdrawals -> Statuses]
  /\ policyDecision \in [Withdrawals -> Decisions]
  /\ failure \in [Withdrawals -> Failures]
  /\ claim \in [Withdrawals -> Workers \cup {NoWorker}]
  /\ stale \subseteq Withdrawals
  /\ txs \in [Withdrawals -> Seq(TxRows)]
  /\ request \in [Slots -> Requests \cup {Idle}]

Init ==
  /\ LedgerInit
  /\ status = [i \in Withdrawals |-> "absent"]
  /\ policyDecision = [i \in Withdrawals |-> "pending"]
  /\ failure = [i \in Withdrawals |-> NoFailure]
  /\ claim = [i \in Withdrawals |-> NoWorker]
  /\ stale = {}
  /\ txs = [i \in Withdrawals |-> <<>>]
  /\ request = [s \in Slots |-> Idle]

-----------------------------------------------------------------------------
(* Reading and writing rows *)

(* blockchainTransactions[0] of the included, newest-first relation.        *)
LatestTx(i) == IF txs[i] = <<>> THEN NoTx ELSE txs[i][Len(txs[i])]

(* The latest row a handler read is updated; one is created if it read none.*)
WriteTx(r, tx) ==
  txs' = [txs EXCEPT ![r.intent] =
            IF r.row = 0 THEN Append(@, tx) ELSE [@ EXCEPT ![r.row] = tx]]

(* The unique index on BlockchainTransaction.txHash.                        *)
HashIsFree(r, h) ==
  \A j \in Withdrawals : \A n \in 1 .. Len(txs[j]) :
    txs[j][n].hash = h => j = r.intent /\ n = r.row

Approved(i, s) == status[i] = s /\ policyDecision[i] = "approved"

-----------------------------------------------------------------------------
(* Requests *)

(* A handler has read intent i and goes on to its transaction.  Requests    *)
(* for one intent overlap only where Overlapping allows it.                 *)
Begin(s, op, i, actor, hash, fail) ==
  /\ request[s] = Idle
  /\ \A t \in Slots : request[t] # Idle /\ request[t].intent = i
                        => i \in Overlapping
  /\ request' = [request EXCEPT ![s] =
                   [op |-> op, intent |-> i, actor |-> actor, hash |-> hash,
                    failure |-> fail, status |-> status[i],
                    row |-> Len(txs[i]), tx |-> LatestTx(i)]]
  /\ UNCHANGED <<ledgerVars, intentVars>>

Serving(s, op) == request[s] # Idle /\ request[s].op = op

Finish(s) == request' = [request EXCEPT ![s] = Idle]

(* The transaction rolls back: the process or the connection is lost, a     *)
(* ledger method throws, a unique index or a conditional update refuses.    *)
Abort(s) ==
  /\ request[s] # Idle
  /\ Finish(s)
  /\ UNCHANGED <<ledgerVars, intentVars>>

-----------------------------------------------------------------------------
(* Customers *)

(* A deposit of the same asset is settled by the deposit flow.              *)
CreditDeposit(d) ==
  /\ SettleConfirmedDeposit(d)
  /\ UNCHANGED <<intentVars, request>>

(* Creating the intent and reserving its amount is one transaction.  The    *)
(* unique idempotency key turns a repeated or concurrent request into a     *)
(* read of the intent that exists, so an intent is created once.            *)
CreateWithdrawalIntent(i) ==
  /\ status[i] = "absent"
  /\ ReserveWithdrawalBalance(i)
  /\ status' = [status EXCEPT ![i] = "requested"]
  /\ UNCHANGED <<policyDecision, failure, claim, stale, txs, request>>

-----------------------------------------------------------------------------
(* Operator review *)

BeginDecide(s, i, op) ==
  /\ status[i] = "requested" /\ policyDecision[i] = "pending"
  /\ op \in {"approve", "deny"}
  /\ Begin(s, op, i, Operator, NoHash, NoFailure)

CommitApprove(s) ==
  LET i == request[s].intent IN
  /\ Serving(s, "approve")
  /\ status' = [status EXCEPT ![i] = "approved"]
  /\ policyDecision' = [policyDecision EXCEPT ![i] = "approved"]
  /\ failure' = [failure EXCEPT ![i].code = "none"]
  /\ Finish(s)
  /\ UNCHANGED <<ledgerVars, claim, stale, txs>>

CommitDeny(s) ==
  LET i == request[s].intent IN
  /\ Serving(s, "deny")
  /\ ReleaseWithdrawalReservation(i)
  /\ status' = [status EXCEPT ![i] = "failed"]
  /\ policyDecision' = [policyDecision EXCEPT ![i] = "denied"]
  /\ failure' = [failure EXCEPT ![i].code = "policy_denied"]
  /\ Finish(s)
  /\ UNCHANGED <<claim, stale, txs>>

(* Mutant: an approved intent is queued whatever its status has become. *)
BeginQueueByDecision(s, i) ==
  /\ policyDecision[i] = "approved"
  /\ Begin(s, "queue", i, Operator, NoHash, NoFailure)

BeginQueue(s, i) ==
  /\ Approved(i, "approved")
  /\ Begin(s, "queue", i, Operator, NoHash, NoFailure)

CommitQueue(s) ==
  LET i == request[s].intent IN
  /\ Serving(s, "queue")
  /\ status' = [status EXCEPT ![i] = "queued"]
  /\ failure' = [failure EXCEPT ![i] = NoFailure]
  /\ claim' = [claim EXCEPT ![i] = NoWorker]
  /\ stale' = stale \ {i}
  /\ Finish(s)
  /\ UNCHANGED <<ledgerVars, policyDecision, txs>>

-----------------------------------------------------------------------------
(* Execution by workers and custody operators *)

ClaimIsReusable(i, w) == claim[i] \in {NoWorker, w} \/ i \in stale

(* executionClaimedAt falls behind the staleBefore of the workers.  A start *)
(* computes its staleBefore when it begins, so it never sees this happen.   *)
ClaimTimesOut(i) ==
  /\ claim[i] # NoWorker
  /\ i \notin stale
  /\ \A s \in Slots : Serving(s, "start") => request[s].intent # i
  /\ stale' = stale \cup {i}
  /\ UNCHANGED <<ledgerVars, status, policyDecision, failure, claim, txs, request>>

MayStart(i, w) == Approved(i, "queued") /\ ClaimIsReusable(i, w)

BeginStart(s, i, w) ==
  /\ MayStart(i, w)
  /\ Begin(s, "start", i, w, NoHash, NoFailure)

(* The claim is a conditional update: the database re-checks it.            *)
CommitStart(s) ==
  LET r == request[s] IN
  LET i == r.intent IN
  /\ Serving(s, "start")
  /\ MayStart(i, r.actor)
  /\ claim' = [claim EXCEPT ![i] = r.actor]
  /\ stale' = stale \ {i}
  /\ IF r.row = 0 THEN WriteTx(r, [status |-> "created", hash |-> NoHash])
                  ELSE UNCHANGED txs
  /\ Finish(s)
  /\ UNCHANGED <<ledgerVars, status, policyDecision, failure>>

MaySign(i, w, h) ==
  /\ Approved(i, "queued")
  /\ claim[i] = w
  /\ LatestTx(i).status \in {"created", "signed"}
  /\ LatestTx(i).hash \in {NoHash, h}

(* The same signed transaction is answered without a write.                 *)
BeginSign(s, i, w, h) ==
  /\ MaySign(i, w, h)
  /\ LatestTx(i) # [status |-> "signed", hash |-> h]
  /\ Begin(s, "sign", i, w, h, NoFailure)

CommitSign(s) ==
  LET r == request[s] IN
  /\ Serving(s, "sign")
  /\ HashIsFree(r, r.hash)
  /\ WriteTx(r, [status |-> "signed", hash |-> r.hash])
  /\ Finish(s)
  /\ UNCHANGED <<ledgerVars, status, policyDecision, failure, claim, stale>>

(* A claim keeps other workers out; an operator needs none.                 *)
MayBroadcast(i, actor, h) ==
  /\ Approved(i, "queued")
  /\ actor = Operator \/ claim[i] \in {NoWorker, actor}
  /\ LatestTx(i).hash \in {NoHash, h}

BeginBroadcast(s, i, actor, h) ==
  /\ MayBroadcast(i, actor, h)
  /\ Begin(s, "broadcast", i, actor, h, NoFailure)

CommitBroadcast(s) ==
  LET r == request[s] IN
  LET i == r.intent IN
  /\ Serving(s, "broadcast")
  /\ HashIsFree(r, r.hash)
  /\ WriteTx(r, [status |-> "broadcast", hash |-> r.hash])
  /\ status' = [status EXCEPT ![i] = "broadcast"]
  /\ failure' = [failure EXCEPT ![i] = NoFailure]
  /\ claim' = [claim EXCEPT ![i] = NoWorker]
  /\ stale' = stale \ {i}
  /\ Finish(s)
  /\ UNCHANGED <<ledgerVars, policyDecision>>

(* Mutant: a failure may be reported whatever has become of the intent. *)
MayFailAnyStatus(i, fail, h) ==
  /\ policyDecision[i] = "approved"
  /\ ~ (failure[i] = fail /\ h \in {NoHash, LatestTx(i).hash})
  /\ NoHash \in {h, LatestTx(i).hash} \/ h = LatestTx(i).hash

(* Any worker or operator may report a failure, whoever holds the claim.    *)
(* The hash is optional; an identical failure is answered without a write.  *)
MayFail(i, fail, h) ==
  /\ \E st \in {"queued", "broadcast"} : Approved(i, st)
  /\ ~ (failure[i] = fail /\ h \in {NoHash, LatestTx(i).hash})
  /\ fail.category = "retryable" => status[i] = "queued"
  /\ NoHash \in {h, LatestTx(i).hash} \/ h = LatestTx(i).hash

BeginFail(s, i, code, category, h) ==
  LET fail == [code |-> code, category |-> category] IN
  /\ MayFail(i, fail, h)
  /\ Begin(s, "fail", i, Operator, h, fail)

(* Mutant: every reported failure fails the blockchain transaction. *)
FailedTxAlways(r) ==
  [status |-> "failed", hash |-> IF r.hash = NoHash THEN r.tx.hash ELSE r.hash]

(* Mutant: a report without a hash clears the recorded one. *)
FailedTxForgetsHash(r) ==
  [status |-> IF r.failure.category = "permanent" THEN "failed"
              ELSE IF r.row = 0 THEN "created" ELSE r.tx.status,
   hash |-> r.hash]

(* What the handler writes back is what it read: the status of the intent   *)
(* and the status and the hash of the blockchain transaction.               *)
FailedTx(r) ==
  [status |-> IF r.failure.category = "permanent" THEN "failed"
              ELSE IF r.row = 0 THEN "created" ELSE r.tx.status,
   hash |-> IF r.hash = NoHash THEN r.tx.hash ELSE r.hash]

CommitFail(s) ==
  LET r == request[s] IN
  LET i == r.intent IN
  /\ Serving(s, "fail")
  /\ FailedTx(r).hash # NoHash => HashIsFree(r, FailedTx(r).hash)
  /\ WriteTx(r, FailedTx(r))
  /\ IF r.failure.category = "permanent"
       THEN /\ ReleaseWithdrawalReservation(i)
            /\ status' = [status EXCEPT ![i] = "failed"]
       ELSE /\ status' = [status EXCEPT ![i] = r.status]
            /\ UNCHANGED ledgerVars
  /\ failure' = [failure EXCEPT ![i] = r.failure]
  /\ claim' = [claim EXCEPT ![i] = NoWorker]
  /\ stale' = stale \ {i}
  /\ Finish(s)
  /\ UNCHANGED policyDecision

-----------------------------------------------------------------------------
(* Confirmation, settlement and manual resolution *)

BeginConfirm(s, i) ==
  /\ Approved(i, "broadcast")
  /\ txs[i] # <<>>
  /\ Begin(s, "confirm", i, Operator, NoHash, NoFailure)

CommitConfirm(s) ==
  LET r == request[s] IN
  /\ Serving(s, "confirm")
  /\ txs' = [txs EXCEPT ![r.intent][r.row].status = "confirmed"]
  /\ status' = [status EXCEPT ![r.intent] = "confirmed"]
  /\ Finish(s)
  /\ UNCHANGED <<ledgerVars, policyDecision, failure, claim, stale>>

BeginSettle(s, i) ==
  /\ Approved(i, "confirmed")
  /\ LatestTx(i).status = "confirmed"
  /\ Begin(s, "settle", i, Operator, NoHash, NoFailure)

CommitSettle(s) ==
  LET i == request[s].intent IN
  /\ Serving(s, "settle")
  /\ SettleConfirmedWithdrawal(i)
  /\ status' = [status EXCEPT ![i] = "settled"]
  /\ failure' = [failure EXCEPT ![i].category = "none"]
  /\ Finish(s)
  /\ UNCHANGED <<policyDecision, claim, stale, txs>>

(* Mutant: an intent awaiting manual intervention may be resolved too. *)
BeginResolveAwaitingIntervention(s, i) ==
  /\ status[i] = "failed" \/ failure[i].category = "manual_intervention_required"
  /\ Begin(s, "resolve", i, Operator, NoHash, NoFailure)

(* ReviewCasesService.applyManualResolution closes a failed intent.         *)
BeginResolve(s, i) ==
  /\ status[i] = "failed"
  /\ Begin(s, "resolve", i, Operator, NoHash, NoFailure)

CommitResolve(s) ==
  /\ Serving(s, "resolve")
  /\ status' = [status EXCEPT ![request[s].intent] = "manually_resolved"]
  /\ Finish(s)
  /\ UNCHANGED <<ledgerVars, policyDecision, failure, claim, stale, txs>>

-----------------------------------------------------------------------------
Read(s, i) ==
  \/ \E op \in {"approve", "deny"} : BeginDecide(s, i, op)
  \/ BeginQueue(s, i)
  \/ \E w \in Workers : BeginStart(s, i, w)
  \/ \E w \in Workers, h \in Hashes : BeginSign(s, i, w, h)
  \/ \E a \in Workers \cup {Operator}, h \in Hashes : BeginBroadcast(s, i, a, h)
  \/ \E c \in FailureCodes, k \in Categories, h \in Hashes \cup {NoHash} :
       BeginFail(s, i, c, k, h)
  \/ BeginConfirm(s, i)
  \/ BeginSettle(s, i)
  \/ BeginResolve(s, i)

Commit(s) ==
  \/ CommitApprove(s) \/ CommitDeny(s) \/ CommitQueue(s)
  \/ CommitStart(s) \/ CommitSign(s) \/ CommitBroadcast(s) \/ CommitFail(s)
  \/ CommitConfirm(s) \/ CommitSettle(s) \/ CommitResolve(s)

Next ==
  \/ \E d \in Intents \ Withdrawals : CreditDeposit(d)
  \/ \E i \in Withdrawals : CreateWithdrawalIntent(i) \/ ClaimTimesOut(i)
  \/ \E s \in Slots, i \in Withdrawals : Read(s, i)
  \/ \E s \in Slots : Commit(s) \/ Abort(s)

Spec == Init /\ [][Next]_vars

-----------------------------------------------------------------------------
(* Properties *)

(* The status of a withdrawal says what became of the customer's money: a   *)
(* live withdrawal holds its reservation, a failed or manually resolved one *)
(* has given it back and never paid it out, a settled one has paid it out   *)
(* and never given it back.  (decide, fail and settle move the balance and  *)
(* the status in separate writes of their transactions.)                    *)
ReservationFollowsStatus(i) ==
  /\ Reserved(i) <=> status[i] # "absent"
  /\ Released(i) <=> status[i] \in {"failed", "manually_resolved"}
  /\ Settled(i) <=> status[i] = "settled"

EveryReservationFollowsStatus ==
  \A i \in Withdrawals \ Overlapping : ReservationFollowsStatus(i)

(* What a handler remembers is still true of the rows it will write, unless *)
(* requests for the intent may overlap: no other request is served for it,  *)
(* and its status is the one the handler checked.                           *)
ReadStatus == [approve |-> {"requested"}, deny |-> {"requested"},
               queue |-> {"approved"}, start |-> {"queued"}, sign |-> {"queued"},
               broadcast |-> {"queued"}, fail |-> {"queued", "broadcast"},
               confirm |-> {"broadcast"}, settle |-> {"confirmed"},
               resolve |-> {"failed"}]

RequestIsFresh(s) ==
  LET r == request[s] IN
  r # Idle /\ r.intent \notin Overlapping =>
    /\ status[r.intent] = r.status
    /\ r.status \in ReadStatus[r.op]
    /\ \A t \in Slots :
         request[t] # Idle /\ request[t].intent = r.intent => t = s

EveryRequestIsFresh == \A s \in Slots : RequestIsFresh(s)

(* The withdrawals of an account whose amount is held for them.             *)
Outstanding(a) ==
  {i \in Withdrawals : Owner[i] = a /\ Reserved(i) /\ ~Released(i) /\ ~Settled(i)}

(* A withdrawal in the hands of a worker or of a custody operator has been  *)
(* approved, and its blockchain transaction tells the same story as the     *)
(* intent: what is settled was broadcast under one hash and confirmed.      *)
TxFollowsStatus ==
  \A i \in Withdrawals \ Overlapping :
    /\ status[i] \in {"approved", "queued", "broadcast", "confirmed", "settled"}
         => policyDecision[i] = "approved"
    /\ status[i] \in {"absent", "requested", "approved"} => txs[i] = <<>>
    /\ status[i] = "queued" => LatestTx(i).status \in {"none", "created", "signed"}
    /\ status[i] = "broadcast" => LatestTx(i).status = "broadcast"
    /\ status[i] \in {"confirmed", "settled"}
         => LatestTx(i).status = "confirmed" /\ LatestTx(i).hash # NoHash
    /\ LatestTx(i).status = "signed" => LatestTx(i).hash # NoHash

(* A withdrawal moves forward only.  The one exception the code makes is    *)
(* manual resolution, which closes a failed withdrawal; nothing ever leaves *)
(* settled or manually_resolved.                                            *)
Rank == [absent |-> 0, requested |-> 1, approved |-> 2, queued |-> 3,
         broadcast |-> 4, confirmed |-> 5, settled |-> 6, failed |-> 6,
         manually_resolved |-> 7]

ForwardOnly ==
  [][\A i \in Withdrawals \ Overlapping :
       /\ Rank[status[i]] <= Rank[status'[i]]
       /\ status[i] = "settled" => status'[i] = "settled"
       /\ status[i] = "failed" => status'[i] # "settled"]_vars

(* The whole service keeps the promise of WithdrawalPromise: however the    *)
(* handlers of the withdrawals interleave, fail and repeat, each amount is  *)
(* taken once from availableBalance and then paid out once or given back    *)
(* once, never both.  (Stated for requests that do not overlap.)            *)
Whereabouts(i) ==
  IF Settled(i) THEN "paid"
  ELSE IF Released(i) THEN "returned"
  ELSE IF Reserved(i) THEN "held" ELSE "customer"

Promise == INSTANCE WithdrawalPromise
             WITH balance <- availableBalance,
                  money <- [i \in Withdrawals |-> Whereabouts(i)]

PromiseKept == Promise!PromiseSpec
=============================================================================
