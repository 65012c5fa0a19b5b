-------------------------- MODULE DepositExecution --------------------------
(***************************************************************************)
(* The worker in managed mode (apps/worker/src/runtime/worker-             *)
(* orchestrator.ts, deposit-broadcaster.ts) executing deposits: it funds   *)
(* the managed wallet of the customer from the deposit signer, records the *)
(* transaction, watches its receipt, confirms and settles.                 *)
(*                                                                         *)
(* Unlike a withdrawal, a deposit is neither claimed nor recorded before   *)
(* it is sent: the signer signs and sends in one call, and every call      *)
(* makes a new transaction.  Operators review and queue; their manual      *)
(* custody path is in DepositIntents only.                                 *)
(***************************************************************************)
EXTENDS DepositIntents

CONSTANTS Workers,    \* worker processes
          Pays,       \* the deposit a transaction hash funds
          Native,     \* deposits of the native asset; the others are ERC-20
          Malformed,  \* deposits buildManagedDepositTransferPlan rejects
          MaxFaults   \* crashes, timeouts and node failures (a bound)

ASSUME ExecutionAssumption ==
  /\ Pays \in [Hashes -> Deposits]
  /\ Native \subseteq Deposits
  /\ Malformed \subseteq Deposits
  /\ MaxFaults \in Nat

VARIABLES job,       \* the deposit a worker works on and the step it is at
          sent,      \* hashes the node has taken
          mined,     \* hashes in a block
          reverted,  \* the mined ones whose execution reverted
          faults     \* faults so far

chainVars == <<sent, mined, reverted>>
execVars == <<vars, job, chainVars, faults>>

NoSlot == "no_slot"
NoJob == [at |-> "idle"]
Jobs == [at : {"send", "record", "fail", "confirm", "settle"}, intent : Deposits,
         hash : Hashes \cup {NoHash}, slot : Slots \cup {NoSlot}]

ExecTypeOK ==
  /\ TypeOK
  /\ job \in [Workers -> Jobs \cup {NoJob}]
  /\ sent \subseteq Hashes
  /\ mined \subseteq sent
  /\ reverted \subseteq mined
  /\ faults \in 0 .. MaxFaults

ExecInit ==
  /\ Init
  /\ job = [w \in Workers |-> NoJob]
  /\ sent = {}
  /\ mined = {}
  /\ reverted = {}
  /\ faults = 0

-----------------------------------------------------------------------------
(* The chain, as its node answers *)

Mine(h) ==
  /\ h \in sent \ mined
  /\ mined' = mined \cup {h}
  /\ reverted' \in {reverted, reverted \cup {h}}
  /\ UNCHANGED <<vars, job, sent, faults>>

Fresh(d) == {h \in Hashes \ sent : Pays[h] = d}

-----------------------------------------------------------------------------
(* Steps of a worker *)

Fault == faults < MaxFaults /\ faults' = faults + 1

At(w, step) == job[w] # NoJob /\ job[w].at = step /\ job[w].slot = NoSlot
Waiting(w) == job[w] # NoJob /\ job[w].slot # NoSlot

Goto(w, step) == job' = [job EXCEPT ![w].at = step, ![w].slot = NoSlot]
Done(w) == job' = [job EXCEPT ![w] = NoJob]

TakeJob(w, d, step, hash) ==
  /\ job[w] = NoJob
  /\ job' = [job EXCEPT ![w] =
               [at |-> step, intent |-> d, hash |-> hash, slot |-> NoSlot]]
  /\ UNCHANGED <<vars, chainVars, faults>>

(* listQueuedDepositIntents: a malformed deposit fails for good.            *)
PickUpQueued(w, d) ==
  /\ Approved(d, "queued")
  /\ TakeJob(w, d, IF d \in Malformed THEN "fail" ELSE "send", NoHash)

(* Mutant: any receipt counts as a success. *)
PickUpAnyReceipt(w, d) ==
  LET h == LatestTx(d).hash IN
  /\ Approved(d, "broadcast")
  /\ h \in mined
  /\ TakeJob(w, d, "confirm", h)

(* listBroadcastDepositIntents: a receipt with enough confirmations.        *)
PickUpBroadcast(w, d) ==
  LET h == LatestTx(d).hash IN
  /\ Approved(d, "broadcast")
  /\ h \in mined
  /\ TakeJob(w, d, IF h \in reverted THEN "fail" ELSE "confirm", h)

(* Mutant: the backlog lists the deposits that have a settlement journal. *)
PickUpJournalled(w, d) ==
  /\ Approved(d, "confirmed")
  /\ Credited(d)
  /\ TakeJob(w, d, "settle", NoHash)

(* listConfirmedDepositIntentsReadyToSettle: the recovery backlog.          *)
PickUpConfirmed(w, d) ==
  /\ Approved(d, "confirmed")
  /\ ~Credited(d)
  /\ \E n \in 1 .. Len(txs[d]) : txs[d][n].status = "confirmed"
  /\ ProofIsValid(LatestTx(d))
  /\ TakeJob(w, d, "settle", NoHash)

(* broadcast(): the signer signs a new transaction and the node takes it.   *)
Send(w) ==
  /\ At(w, "send")
  /\ \E h \in Fresh(job[w].intent) :
       /\ sent' = sent \cup {h}
       /\ job' = [job EXCEPT ![w].at = "record", ![w].hash = h]
  /\ UNCHANGED <<vars, mined, reverted, faults>>

(* The connection to the node fails, before or after it took the hash.      *)
(* Nothing is reported: the deposit stays queued for the next iteration.    *)
NodeFails(w) ==
  /\ At(w, "send")
  /\ Fault
  /\ sent' \in {sent} \cup {sent \cup {h} : h \in Fresh(job[w].intent)}
  /\ Done(w)
  /\ UNCHANGED <<vars, mined, reverted>>

-----------------------------------------------------------------------------
(* Calls of the internal API *)

(* The reported toAddress of an ERC-20 transfer is the token contract, not  *)
(* the managed wallet.                                                      *)
Call(w, s) ==
  LET j == job[w] IN
  /\ \/ At(w, "record") /\ j.intent \in Native
          /\ BeginBroadcast(s, j.intent, j.hash, TRUE)
     \/ At(w, "fail") /\ BeginFail(s, j.intent, j.hash, j.hash # NoHash)
     \/ At(w, "confirm") /\ LatestTx(j.intent).hash = j.hash
          /\ BeginConfirm(s, j.intent)
     \/ At(w, "settle") /\ BeginSettle(s, j.intent)
  /\ job' = [job EXCEPT ![w].slot = s]
  /\ UNCHANGED <<chainVars, faults>>

(* The request is answered at once: already done, or refused.               *)
Answer(w) ==
  LET j == job[w] IN
  LET d == j.intent IN
  /\ \/ At(w, "record") /\ (d \notin Native \/ ~MayBroadcast(d, j.hash)) /\ Done(w)
     \/ At(w, "fail") /\ ~MayFail(d, j.hash) /\ Done(w)
     \/ At(w, "confirm") /\ LatestTx(d).hash = j.hash
          /\ status[d] = "confirmed" /\ Goto(w, "settle")
     \/ /\ At(w, "confirm")
        /\ LatestTx(d).hash # j.hash \/ status[d] \notin {"broadcast", "confirmed"}
        /\ Done(w)
     \/ At(w, "settle") /\ status[d] # "confirmed" /\ Done(w)
  /\ UNCHANGED <<vars, chainVars, faults>>

(* The transaction of the request commits and the worker goes on.           *)
Reply(w) ==
  /\ Waiting(w)
  /\ Commit(job[w].slot)
  /\ IF job[w].at = "confirm" THEN Goto(w, "settle") ELSE Done(w)
  /\ UNCHANGED <<chainVars, faults>>

(* The transaction rolls back; the error is logged or leaves runOnce.       *)
CallFails(w) ==
  /\ Waiting(w)
  /\ Fault
  /\ Abort(job[w].slot)
  /\ Done(w)
  /\ UNCHANGED chainVars

(* The worker dies, or the call times out and its request goes on.          *)
GiveUp(w) ==
  /\ job[w] # NoJob
  /\ Fault
  /\ Done(w)
  /\ UNCHANGED <<vars, chainVars>>

Unattended(s) == \A w \in Workers : job[w] # NoJob => job[w].slot # s

-----------------------------------------------------------------------------
Customers ==
  /\ \E d \in Deposits : CreateDepositIntent(d)
  /\ UNCHANGED <<job, chainVars, faults>>

Reviews(s, d) ==
  /\ (\E op \in {"approve", "deny"} : BeginDecide(s, d, op)) \/ BeginQueue(s, d)
  /\ UNCHANGED <<job, chainVars, faults>>

Serve(s) ==
  /\ Unattended(s)
  /\ Commit(s)
  /\ UNCHANGED <<job, chainVars, faults>>

Work(w) ==
  \/ Send(w) \/ (\E s \in Slots : Call(w, s)) \/ Answer(w) \/ Reply(w)

PickUp(w, d) == PickUpQueued(w, d) \/ PickUpBroadcast(w, d) \/ PickUpConfirmed(w, d)

ExecNext ==
  \/ Customers
  \/ \E s \in Slots, d \in Deposits : Reviews(s, d)
  \/ \E s \in Slots : Serve(s)
  \/ \E h \in Hashes : Mine(h)
  \/ \E w \in Workers : Work(w)
  \/ \E w \in Workers, d \in Deposits : PickUp(w, d)
  \/ \E w \in Workers : NodeFails(w) \/ CallFails(w) \/ GiveUp(w)

(* As in WithdrawalExecution: the API serves, the node mines, and the loop  *)
(* of a worker comes to every intent its lists return.                      *)
Fairness ==
  /\ \A s \in Slots : WF_execVars(Serve(s))
  /\ \A h \in Hashes : WF_execVars(Mine(h))
  /\ \A w \in Workers : WF_execVars(Work(w))
  /\ \A w \in Workers, d \in Deposits : SF_execVars(PickUp(w, d))

ExecSpec == ExecInit /\ [][ExecNext]_execVars
FairSpec == ExecSpec /\ Fairness

-----------------------------------------------------------------------------
(* Properties *)

(* A deposit is credited only for money that reached the customer's wallet: *)
(* its proof is a transaction that funds this very deposit and succeeded.   *)
CreditWasFunded ==
  \A d \in Deposits \ Overlapping :
    Credited(d) => proof[d] \in mined \ reverted /\ Pays[proof[d]] = d

(* A deposit whose transaction is recorded is credited or fails, although   *)
(* workers may die between confirming and settling it.                      *)
RecordedIsConcluded ==
  \A d \in Deposits :
    status[d] \in {"broadcast", "confirmed"} ~> status[d] \in {"settled", "failed"}
=============================================================================
