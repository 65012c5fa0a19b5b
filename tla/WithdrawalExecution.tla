------------------------- MODULE WithdrawalExecution -------------------------
(***************************************************************************)
(* The worker in managed mode (apps/worker/src/runtime/worker-             *)
(* orchestrator.ts, withdrawal-broadcaster.ts) executing withdrawals       *)
(* through the internal API of WithdrawalIntents and an Ethereum node.     *)
(*                                                                         *)
(* A worker lists an intent, claims it, prepares and signs a transaction   *)
(* with the pending nonce of the source wallet, records it, sends it and   *)
(* records the broadcast; it watches the receipt of a broadcast intent,    *)
(* confirms and settles it.  Between any two of these calls the worker may *)
(* crash, a call may time out (its request still runs in its slot), the    *)
(* node may fail, the claim may grow stale and another worker take over.   *)
(*                                                                         *)
(* A transaction hash is a digest: it commits to the intent that is paid,  *)
(* to the nonce and to the addresses of the transaction.  The customer's   *)
(* account stands for its wallet.  The manual custody path of operators is *)
(* in WithdrawalIntents only: here operators review and queue.             *)
(***************************************************************************)
EXTENDS WithdrawalIntents

CONSTANTS Pays,          \* the intent a transaction hash pays
          NonceOf,       \* the nonce it was signed with
          Direct,        \* hashes sent from the source wallet to externalAddress
          PrepareError,  \* how preparing a withdrawal fails, "none" if it works
          MaxFaults      \* crashes, timeouts and node failures (a bound)

NoSlot == "no_slot"

ASSUME ExecutionAssumption ==
  /\ Pays \in [Hashes -> Withdrawals]
  /\ NonceOf \in [Hashes -> Nat]
  /\ Direct \subseteq Hashes
  /\ PrepareError \in
       [Withdrawals -> {"none", "manual_intervention_required", "permanent"}]
  /\ MaxFaults \in Nat
  /\ NoSlot \notin Slots

VARIABLES job,       \* the intent a worker works on and the step it is at
          mempool,   \* hashes the node holds
          mined,     \* hashes in a block
          reverted,  \* the mined ones whose execution reverted
          faults     \* faults so far

chainVars == <<mempool, mined, reverted>>
execVars == <<vars, job, chainVars, faults>>

NoJob == [at |-> "idle"]
Steps == {"start", "prepare", "sign", "send", "record", "fail", "confirm", "settle"}
Jobs == [at : Steps, intent : Withdrawals, hash : Hashes \cup {NoHash},
         category : Categories \cup {"none"}, slot : Slots \cup {NoSlot}]

ExecTypeOK ==
  /\ TypeOK
  /\ job \in [Workers -> Jobs \cup {NoJob}]
  /\ mempool \subseteq Hashes
  /\ mined \subseteq Hashes
  /\ reverted \subseteq mined
  /\ faults \in 0 .. MaxFaults

ExecInit ==
  /\ Init
  /\ job = [w \in Workers |-> NoJob]
  /\ mempool = {}
  /\ mined = {}
  /\ reverted = {}
  /\ faults = 0

-----------------------------------------------------------------------------
(* The chain, as its node answers *)

Wallet(h) == Owner[Pays[h]]
NextNonce(a) == Cardinality({h \in mined : Wallet(h) = a})

(* getTransactionCount("pending"): the first nonce nothing occupies.        *)
PendingNonce(a) ==
  Min({n \in NextNonce(a) .. NextNonce(a) + Cardinality(mempool) :
         \A h \in mempool : Wallet(h) = a => NonceOf[h] # n})

NonceTooLow(h) == NonceOf[h] < NextNonce(Wallet(h))
Rivals(h) ==
  {g \in mempool \ {h} : Wallet(g) = Wallet(h) /\ NonceOf[g] = NonceOf[h]}

Mine(h) ==
  /\ h \in mempool
  /\ NonceOf[h] = NextNonce(Wallet(h))
  /\ mined' = mined \cup {h}
  /\ mempool' = mempool \ {h}
  /\ reverted' \in {reverted, reverted \cup {h}}
  /\ UNCHANGED <<vars, job, faults>>

-----------------------------------------------------------------------------
(* Steps of a worker *)

Fault == faults < MaxFaults /\ faults' = faults + 1

(* Worker w is at a step and no request of its own is being served.         *)
At(w, step) == job[w] # NoJob /\ job[w].at = step /\ job[w].slot = NoSlot

Goto(w, step) == job' = [job EXCEPT ![w].at = step, ![w].slot = NoSlot]
Done(w) == job' = [job EXCEPT ![w] = NoJob]
ReportFailure(w, category) ==
  job' = [job EXCEPT ![w].at = "fail", ![w].hash = NoHash,
                     ![w].category = category, ![w].slot = NoSlot]

(* Mutant: the catch block reports every error as permanent. *)
OnErrorPermanently(w) ==
  IF job[w].at \in {"fail", "confirm", "settle"}
    THEN Done(w) ELSE ReportFailure(w, "permanent")

(* The catch block reports whatever failed before it as retryable; an error *)
(* of the report itself, or of the monitor, leaves runOnce.                 *)
OnError(w) ==
  IF job[w].at \in {"fail", "confirm", "settle"}
    THEN Done(w) ELSE ReportFailure(w, "retryable")

TakeJob(w, i, step, hash, category) ==
  /\ job[w] = NoJob
  /\ job' = [job EXCEPT ![w] = [at |-> step, intent |-> i, hash |-> hash,
                                category |-> category, slot |-> NoSlot]]
  /\ UNCHANGED <<vars, chainVars, faults>>

(* listQueuedWithdrawalIntents: a signed transaction is sent again as it    *)
(* was listed; without a managed signer the intent goes to the operators.   *)
PickUpQueued(w, i) ==
  /\ Approved(i, "queued")
  /\ failure[i].category # "manual_intervention_required"
  /\ IF PrepareError[i] = "manual_intervention_required"
       THEN TakeJob(w, i, "fail", NoHash, PrepareError[i])
       ELSE IF LatestTx(i).status = "signed"
              THEN TakeJob(w, i, "send", LatestTx(i).hash, "none")
              ELSE TakeJob(w, i, "start", NoHash, "none")

(* Mutant: a reverted receipt is left for later. *)
PickUpBroadcastSucceeded(w, i) ==
  LET h == LatestTx(i).hash IN
  /\ Approved(i, "broadcast")
  /\ h \in mined \ reverted
  /\ TakeJob(w, i, "confirm", h, "none")

(* listBroadcastWithdrawalIntents: a receipt with enough confirmations.     *)
PickUpBroadcast(w, i) ==
  LET h == LatestTx(i).hash IN
  /\ Approved(i, "broadcast")
  /\ h \in mined
  /\ IF h \in reverted THEN TakeJob(w, i, "fail", h, "permanent")
                       ELSE TakeJob(w, i, "confirm", h, "none")

(* Mutant: the backlog lists the intents that have the settlement journal. *)
PickUpJournalled(w, i) ==
  /\ Approved(i, "confirmed")
  /\ Settled(i)
  /\ TakeJob(w, i, "settle", NoHash, "none")

(* listConfirmedWithdrawalIntentsReadyToSettle: the recovery backlog.       *)
PickUpConfirmed(w, i) ==
  /\ Approved(i, "confirmed")
  /\ ~Settled(i)
  /\ TakeJob(w, i, "settle", NoHash, "none")

(* Mutant: the signed transaction is sent before it is recorded. *)
PrepareAndSend(w) ==
  LET i == job[w].intent IN
  /\ At(w, "prepare")
  /\ \/ /\ PrepareError[i] = "none"
        /\ \E h \in Hashes :
             /\ Pays[h] = i
             /\ NonceOf[h] = PendingNonce(Owner[i])
             /\ job' = [job EXCEPT ![w].at = "send", ![w].hash = h]
     \/ /\ PrepareError[i] # "none"
        /\ ReportFailure(w, PrepareError[i])
  /\ UNCHANGED <<vars, chainVars, faults>>

(* prepare() signs with the pending nonce, or rejects the intent.           *)
Prepare(w) ==
  LET i == job[w].intent IN
  /\ At(w, "prepare")
  /\ \/ /\ PrepareError[i] = "none"
        /\ \E h \in Hashes :
             /\ Pays[h] = i
             /\ NonceOf[h] = PendingNonce(Owner[i])
             /\ job' = [job EXCEPT ![w].at = "sign", ![w].hash = h]
     \/ /\ PrepareError[i] # "none"
        /\ ReportFailure(w, PrepareError[i])
  /\ UNCHANGED <<vars, chainVars, faults>>

(* sendTransaction: a transaction the node holds is "already known", which  *)
(* counts as success; a rival for the nonce is replaced or prevails.        *)
Send(w) ==
  LET h == job[w].hash IN
  /\ At(w, "send")
  /\ ~NonceTooLow(h)
  /\ mempool' = (mempool \ Rivals(h)) \cup {h}
  /\ Goto(w, "record")
  /\ UNCHANGED <<vars, mined, reverted, faults>>

SendRefused(w) ==
  LET h == job[w].hash IN
  /\ At(w, "send")
  /\ NonceTooLow(h) \/ (h \notin mempool /\ Rivals(h) # {})
  /\ OnError(w)
  /\ UNCHANGED <<vars, chainVars, faults>>

(* The connection to the node fails, before or after it took the hash.      *)
NodeFails(w) ==
  LET h == job[w].hash IN
  /\ Fault
  /\ \/ At(w, "prepare") /\ UNCHANGED mempool
     \/ At(w, "send") /\ mempool' \in {mempool} \cup
          (IF NonceTooLow(h) \/ Rivals(h) # {} THEN {} ELSE {mempool \cup {h}})
  /\ OnError(w)
  /\ UNCHANGED <<vars, mined, reverted>>

-----------------------------------------------------------------------------
(* Calls of the internal API *)

(* The request is accepted and served in slot s.                            *)
Call(w, s) ==
  LET j == job[w] IN
  /\ \/ At(w, "start") /\ BeginStart(s, j.intent, w)
     \/ At(w, "sign") /\ j.hash \in Direct /\ BeginSign(s, j.intent, w, j.hash)
     \/ At(w, "record") /\ j.hash \in Direct
          /\ BeginBroadcast(s, j.intent, w, j.hash)
     \/ At(w, "fail") /\ j.hash \in Direct \cup {NoHash}
          /\ \E c \in FailureCodes : BeginFail(s, j.intent, c, j.category, j.hash)
     \/ At(w, "confirm") /\ LatestTx(j.intent).hash = j.hash
          /\ BeginConfirm(s, j.intent)
     \/ At(w, "settle") /\ BeginSettle(s, j.intent)
  /\ job' = [job EXCEPT ![w].slot = s]
  /\ UNCHANGED <<chainVars, faults>>

(* The request is answered at once: not claimed, already done, or refused.  *)
Answer(w) ==
  LET j == job[w] IN
  LET i == j.intent IN
  /\ \/ At(w, "start") /\ ~MayStart(i, w) /\ Done(w)
     \/ /\ At(w, "sign") /\ MaySign(i, w, j.hash) /\ j.hash \in Direct
        /\ LatestTx(i) = [status |-> "signed", hash |-> j.hash]
        /\ Goto(w, "send")
     \/ /\ At(w, "sign")
        /\ ~MaySign(i, w, j.hash) \/ j.hash \notin Direct
        /\ OnError(w)
     \/ /\ At(w, "record") /\ status[i] = "broadcast"
        /\ LatestTx(i) = [status |-> "broadcast", hash |-> j.hash]
        /\ Done(w)
     \/ /\ At(w, "record")
        /\ status[i] # "broadcast" \/ LatestTx(i) # [status |-> "broadcast", hash |-> j.hash]
        /\ ~MayBroadcast(i, w, j.hash) \/ j.hash \notin Direct
        /\ OnError(w)
     \/ /\ At(w, "fail")
        /\ \/ j.hash \notin Direct \cup {NoHash}
           \/ \E c \in FailureCodes :
                ~MayFail(i, [code |-> c, category |-> j.category], j.hash)
        /\ Done(w)
     \/ /\ At(w, "confirm") /\ LatestTx(i).hash = j.hash
        /\ status[i] = "confirmed" /\ LatestTx(i).status = "confirmed"
        /\ Goto(w, "settle")
     \/ /\ At(w, "confirm")
        /\ LatestTx(i).hash # j.hash \/ status[i] \notin {"broadcast", "confirmed"}
        /\ Done(w)
     \/ At(w, "settle") /\ status[i] # "confirmed" /\ Done(w)
  /\ UNCHANGED <<vars, chainVars, faults>>

(* The transaction of the request commits and the worker goes on.           *)
Reply(w) ==
  LET j == job[w] IN
  /\ j # NoJob /\ j.slot # NoSlot
  /\ Commit(j.slot)
  /\ CASE j.at = "start" ->
            IF LatestTx(j.intent).status = "signed"
              THEN job' = [job EXCEPT ![w].at = "send", ![w].slot = NoSlot,
                                      ![w].hash = LatestTx(j.intent).hash]
              ELSE Goto(w, "prepare")
       [] j.at = "sign" -> Goto(w, "send")
       [] j.at = "confirm" -> Goto(w, "settle")
       [] OTHER -> Done(w)
  /\ UNCHANGED <<chainVars, faults>>

(* The transaction rolls back and the call throws.                          *)
CallFails(w) ==
  /\ job[w] # NoJob /\ job[w].slot # NoSlot
  /\ Fault
  /\ Abort(job[w].slot)
  /\ OnError(w)
  /\ UNCHANGED chainVars

(* requestTimeoutMs elapses: the call throws, the request goes on.          *)
CallTimesOut(w) ==
  /\ job[w] # NoJob /\ job[w].slot # NoSlot
  /\ Fault
  /\ OnError(w)
  /\ UNCHANGED <<vars, chainVars>>

(* The worker process dies and starts again with nothing in memory.         *)
Crash(w) ==
  /\ job[w] # NoJob
  /\ Fault
  /\ Done(w)
  /\ UNCHANGED <<vars, chainVars>>

(* Requests nobody waits for any more, and those of operators.              *)
Unattended(s) == \A w \in Workers : job[w] # NoJob => job[w].slot # s

-----------------------------------------------------------------------------
Customers ==
  /\ \/ \E d \in Intents \ Withdrawals : CreditDeposit(d)
     \/ \E i \in Withdrawals : CreateWithdrawalIntent(i)
  /\ UNCHANGED <<job, chainVars, faults>>

Operators(s, i) ==
  /\ (\E op \in {"approve", "deny"} : BeginDecide(s, i, op)) \/ BeginQueue(s, i)
  /\ UNCHANGED <<job, chainVars, faults>>

Serve(s) ==
  /\ Unattended(s)
  /\ Commit(s)
  /\ UNCHANGED <<job, chainVars, faults>>

TimePasses(i) == ClaimTimesOut(i) /\ UNCHANGED <<job, chainVars, faults>>

Work(w) ==
  \/ Prepare(w) \/ Send(w) \/ SendRefused(w)
  \/ (\E s \in Slots : Call(w, s)) \/ Answer(w) \/ Reply(w)

PickUp(w, i) == PickUpQueued(w, i) \/ PickUpBroadcast(w, i) \/ PickUpConfirmed(w, i)

ExecNext ==
  \/ Customers
  \/ \E s \in Slots, i \in Withdrawals : Operators(s, i)
  \/ \E s \in Slots : Serve(s)
  \/ \E i \in Withdrawals : TimePasses(i)
  \/ \E h \in Hashes : Mine(h)
  \/ \E w \in Workers : Work(w)
  \/ \E w \in Workers, i \in Withdrawals : PickUp(w, i)
  \/ \E w \in Workers :
       NodeFails(w) \/ CallFails(w) \/ CallTimesOut(w) \/ Crash(w)

(* The API serves what it has begun, the node mines what it holds, time     *)
(* passes, and the loop of a worker runs for ever and comes to every intent *)
(* its lists return.                                                        *)
Fairness ==
  /\ \A s \in Slots : WF_execVars(Serve(s))
  /\ \A h \in Hashes : WF_execVars(Mine(h))
  /\ \A i \in Withdrawals : WF_execVars(TimePasses(i))
  /\ \A w \in Workers : WF_execVars(Work(w))
  /\ \A w \in Workers, i \in Withdrawals : SF_execVars(PickUp(w, i))

ExecSpec == ExecInit /\ [][ExecNext]_execVars
FairSpec == ExecSpec /\ Fairness

-----------------------------------------------------------------------------
(* Properties *)

Succeeded == mined \ reverted

(* A withdrawal is paid at most once on chain, whatever crashes, timeouts,  *)
(* node failures, stale claims and second workers come between the calls of *)
(* processQueuedWithdrawalWithBroadcaster.                                  *)
PaidAtMostOnce ==
  \A g, h \in Succeeded : Pays[g] = Pays[h] => g = h

(* Whatever reached the node is recorded as the transaction of its intent,  *)
(* so a worker that starts again finds it: recordSignedWithdrawalExecution  *)
(* comes before broadcastSignedTransaction, and no later report drops it.   *)
SentIsRecorded ==
  \A h \in mempool \cup mined :
    Pays[h] \in Withdrawals \ Overlapping => LatestTx(Pays[h]).hash = h

(* The ledger and the chain agree: no payment is under way or made for a    *)
(* withdrawal whose reservation went back to the customer, and a settled    *)
(* withdrawal has been paid.                                                *)
LedgerAgreesWithChain ==
  /\ \A h \in mempool \cup Succeeded :
       Pays[h] \in Withdrawals \ Overlapping => Reserved(Pays[h]) /\ ~Released(Pays[h])
  /\ \A i \in Withdrawals \ Overlapping :
       Settled(i) => \E h \in Succeeded : Pays[h] = i

(* A queued withdrawal is executed: it is settled, fails for good, or waits *)
(* for an operator.                                                         *)
Concluded(i) ==
  \/ status[i] \in {"settled", "failed"}
  \/ failure[i].category = "manual_intervention_required"

(* Without faults a queued withdrawal is always concluded, whatever becomes *)
(* of its signing, its preparation and its receipt.                         *)
ConcludedUnlessFault ==
  \A i \in Withdrawals : status[i] = "queued" ~> (Concluded(i) \/ faults > 0)

(* A broadcast withdrawal is settled or failed, although the worker that    *)
(* confirmed it may die before it settles it: the confirmed backlog is      *)
(* listed again (processConfirmedWithdrawalsReadyToSettle).                 *)
BroadcastIsConcluded ==
  \A i \in Withdrawals :
    status[i] \in {"broadcast", "confirmed"} ~> status[i] \in {"settled", "failed"}
=============================================================================
