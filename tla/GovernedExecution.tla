-------------------------- MODULE GovernedExecution --------------------------
(***************************************************************************)
(* GovernedExecutionService (apps/api/src/governed-execution/              *)
(* governed-execution.service.ts), the worker's processGovernedExecution-  *)
(* Requests and the external executor they hand requests to.               *)
(*                                                                         *)
(* An operator publishes the signed package of a request; a worker claims  *)
(* it for the time of a lease, dispatches it and pushes it to the executor,*)
(* which may also fetch it; the executor acts on chain and calls back.  A  *)
(* dispatch carries a fresh reference.  Claiming reads the row and then    *)
(* updates it by id, so that two workers may both claim.                   *)
(*                                                                         *)
(* The executor is external.  It is taken to act once for a reference,     *)
(* whichever way and however often the request reached it.                 *)
(***************************************************************************)
EXTENDS Integers

CONSTANTS Requests,      \* GovernedTreasuryExecutionRequest rows
          Target,        \* the agreement or the pool request a row is about
          Workers, Executors,
          MaxDispatches  \* dispatches of a request (a bound)

ASSUME GovernedAssumption ==
  /\ Requests \subseteq DOMAIN Target
  /\ MaxDispatches \in Nat \ {0}

VARIABLES request,    \* the rows
          creating,   \* requests whose creator found no live one
          task,       \* where a worker is in its loop
          jobs,       \* what the executor did, by request and reference
          activated   \* targets whose agreement or pool was recorded created

governedVars == <<request, creating, task, jobs, activated>>

NoRequest == [status |-> "absent", package |-> FALSE, dispatch |-> "not_dispatched",
              delivery |-> "not_delivered", worker |-> "none", leased |-> FALSE,
              executor |-> "none", executorLeased |-> FALSE,
              ref |-> <<"none", 0, FALSE>>, dispatches |-> 0, recordedBy |-> "none"]
Idle == [phase |-> "idle"]
Open == {"pending_execution", "execution_failed"}
(* A reference names the worker and the instant; recorded or not.           *)
References ==
  (Workers \X (1 .. MaxDispatches) \X BOOLEAN) \cup {<<"none", 0, FALSE>>}

GovernedTypeOK ==
  /\ request \in [Requests ->
       [status : Open \cup {"absent", "executed"}, package : BOOLEAN,
        dispatch : {"not_dispatched", "dispatched", "dispatch_failed"},
        delivery : {"not_delivered", "accepted_by_executor", "delivery_failed"},
        worker : Workers \cup {"none"}, leased : BOOLEAN,
        executor : Executors \cup {"none"}, executorLeased : BOOLEAN,
        ref : References, dispatches : 0 .. MaxDispatches,
        recordedBy : {"none", "operator", "executor"}]]
  /\ creating \subseteq Requests
  /\ \A w \in Workers : task[w].phase \in {"idle", "claiming", "claimed",
                                         "dispatched", "delivered"}
  /\ jobs \subseteq [request : Requests, ref : References,
                     outcome : {"received", "executed", "failed"}]
  /\ activated \subseteq {Target[r] : r \in Requests}

GovernedInit ==
  /\ request = [r \in Requests |-> NoRequest]
  /\ creating = {}
  /\ task = [w \in Workers |-> Idle]
  /\ jobs = {}
  /\ activated = {}

-----------------------------------------------------------------------------
(* Requests and packages *)

(* requestLoanContractCreation and requestStakingPoolCreation reuse a       *)
(* request that is pending or executed; a failed one they leave alone.      *)
BeginRequest(r) ==
  /\ request[r].status = "absent" /\ r \notin creating
  /\ \A q \in Requests :
       Target[q] = Target[r] => request[q].status \notin {"pending_execution", "executed"}
  /\ creating' = creating \cup {r}
  /\ UNCHANGED <<request, task, jobs, activated>>

CommitRequest(r) ==
  /\ r \in creating
  /\ creating' = creating \ {r}
  /\ request' = [request EXCEPT ![r] = [NoRequest EXCEPT !.status = "pending_execution"]]
  /\ UNCHANGED <<task, jobs, activated>>

(* A package that is there is returned as it is.                            *)
PublishExecutionPackage(r) ==
  /\ request[r].status # "absent" /\ ~request[r].package
  /\ request' = [request EXCEPT ![r].package = TRUE]
  /\ UNCHANGED <<creating, task, jobs, activated>>

-----------------------------------------------------------------------------
(* The worker *)

Claimable(row) ==
  /\ row.package /\ row.status \in Open /\ row.dispatch # "dispatched"
  /\ ~row.leased

(* The list the worker fetches, and the read of its claim.                  *)
BeginClaim(w, r) ==
  /\ task[w] = Idle
  /\ Claimable(request[r])
  /\ task' = [task EXCEPT ![w] = [phase |-> "claiming", request |-> r]]
  /\ UNCHANGED <<request, creating, jobs, activated>>

(* Mutant: the claim is written without its lease. *)
ClaimWithoutLease(w) ==
  /\ task[w].phase = "claiming"
  /\ request' = [request EXCEPT ![task[w].request].worker = w]
  /\ task' = [task EXCEPT ![w].phase = "claimed"]
  /\ UNCHANGED <<creating, jobs, activated>>

CommitClaim(w) ==
  LET r == task[w].request IN
  /\ task[w].phase = "claiming"
  /\ request' = [request EXCEPT ![r].worker = w, ![r].leased = TRUE]
  /\ task' = [task EXCEPT ![w].phase = "claimed"]
  /\ UNCHANGED <<creating, jobs, activated>>

(* The package is verified against its signature; it may have been signed   *)
(* by a key that is no longer configured.                                   *)
DispatchExecutionRequest(w, verified) ==
  LET r == task[w].request
      row == request[r]
      ref == <<w, row.dispatches + 1, TRUE>> IN
  /\ task[w].phase = "claimed"
  /\ row.status \in Open /\ row.dispatch # "dispatched"
  /\ row.worker = w /\ row.leased
  /\ row.dispatches < MaxDispatches
  /\ request' = [request EXCEPT ![r] =
       [row EXCEPT !.dispatch = IF verified THEN "dispatched" ELSE "dispatch_failed",
                   !.delivery = IF verified THEN "not_delivered" ELSE "delivery_failed",
                   !.ref = ref, !.dispatches = @ + 1,
                   !.worker = "none", !.leased = FALSE]]
  /\ task' = [task EXCEPT ![w] =
       IF verified THEN [phase |-> "dispatched", request |-> r, ref |-> ref] ELSE Idle]
  /\ UNCHANGED <<creating, jobs, activated>>

(* Another worker dispatched meanwhile: nothing is recorded, and the worker *)
(* goes on to push the request with a reference of its own.                 *)
DispatchReused(w) ==
  LET r == task[w].request IN
  /\ task[w].phase = "claimed"
  /\ request[r].status \in Open /\ request[r].dispatch = "dispatched"
  /\ request[r].dispatches < MaxDispatches
  /\ task' = [task EXCEPT ![w] = [phase |-> "dispatched", request |-> r,
                                  ref |-> <<w, request[r].dispatches + 1, FALSE>>]]
  /\ UNCHANGED <<request, creating, jobs, activated>>

(* The claim expired or was taken, or the request is closed: the error is   *)
(* logged and the worker goes on.                                           *)
DispatchRefused(w) ==
  LET row == request[task[w].request] IN
  /\ task[w].phase = "claimed"
  /\ row.status \in Open =>
       row.dispatch # "dispatched" /\ ~(row.worker = w /\ row.leased)
  /\ task' = [task EXCEPT ![w] = Idle]
  /\ UNCHANGED <<request, creating, jobs, activated>>

(* The push reaches the executor or not, and the worker learns it or not.   *)
DeliverExecutionRequest(w, received, answered) ==
  LET t == task[w] IN
  /\ t.phase = "dispatched"
  /\ answered => received
  /\ jobs' = IF received /\ ~\E j \in jobs : j.request = t.request /\ j.ref = t.ref
               THEN jobs \cup {[request |-> t.request, ref |-> t.ref, outcome |-> "received"]}
               ELSE jobs
  /\ task' = [task EXCEPT ![w] = [phase |-> "delivered", request |-> t.request,
                                  ref |-> t.ref, answered |-> answered]]
  /\ UNCHANGED <<request, creating, activated>>

(* Mutant: the reference of the delivery is not compared. *)
AnyDeliveryRecordable(row, w, ref) == row.dispatch = "dispatched"

DeliveryRecordable(row, w, ref) == row.dispatch = "dispatched" /\ row.ref = ref

RecordExecutionDelivery(w, answered, outcome) ==
  LET t == task[w] IN
  /\ t.phase = "delivered" /\ t.answered = answered
  /\ DeliveryRecordable(request[t.request], w, t.ref)
  /\ request' = [request EXCEPT ![t.request].delivery = outcome]
  /\ task' = [task EXCEPT ![w] = Idle]
  /\ UNCHANGED <<creating, jobs, activated>>

RecordExecutionDeliveryAccepted(w) ==
  RecordExecutionDelivery(w, TRUE, "accepted_by_executor")

RecordExecutionDeliveryFailed(w) ==
  RecordExecutionDelivery(w, FALSE, "delivery_failed")

(* A refusal of the record is one more failed delivery, which is refused    *)
(* as well; the outer handler logs it.                                      *)
DeliveryRefused(w) ==
  /\ task[w].phase = "delivered"
  /\ ~DeliveryRecordable(request[task[w].request], w, task[w].ref)
  /\ task' = [task EXCEPT ![w] = Idle]
  /\ UNCHANGED <<request, creating, jobs, activated>>

WorkerDies(w) ==
  /\ task[w] # Idle
  /\ task' = [task EXCEPT ![w] = Idle]
  /\ UNCHANGED <<request, creating, jobs, activated>>

LeaseExpires(r) ==
  /\ \/ /\ request[r].leased
        /\ request' = [request EXCEPT ![r].leased = FALSE]
     \/ /\ request[r].executorLeased
        /\ request' = [request EXCEPT ![r].executorLeased = FALSE]
  /\ UNCHANGED <<creating, task, jobs, activated>>

-----------------------------------------------------------------------------
(* The executor *)

ClaimExecutionForExecutor(e, r) ==
  LET row == request[r] IN
  /\ row.dispatch = "dispatched" /\ row.delivery # "accepted_by_executor"
  /\ row.status \in Open
  /\ ~row.executorLeased
  /\ request' = [request EXCEPT ![r].executor = e, ![r].executorLeased = TRUE]
  /\ jobs' = IF \E j \in jobs : j.request = r /\ j.ref = row.ref THEN jobs
             ELSE jobs \cup {[request |-> r, ref |-> row.ref, outcome |-> "received"]}
  /\ UNCHANGED <<creating, task, activated>>

ExecutorActs(j, outcome) ==
  /\ j \in jobs /\ j.outcome = "received"
  /\ jobs' = (jobs \ {j}) \cup {[j EXCEPT !.outcome = outcome]}
  /\ UNCHANGED <<request, creating, task, activated>>

CallbackAuthorized(row, e) ==
  (row.executor = e /\ row.executorLeased) \/ row.delivery = "accepted_by_executor"

(* Mutant: the reference of the callback is not compared. *)
AnyReceiptMatches(row, j) == TRUE

(* assertExecutorReceiptMatchesRequest; the receipt's signature and the     *)
(* transaction on chain are what the job stands for.                        *)
ReceiptMatches(row, j) == j.ref = row.ref

Recorded(row, status, dispatch, by) ==
  [row EXCEPT !.status = status, !.dispatch = dispatch, !.worker = "none",
              !.leased = FALSE, !.executor = "none", !.executorLeased = FALSE,
              !.recordedBy = by]

(* The status of the request is not looked at.  Callbacks may be repeated   *)
(* and come late, so a job stays.                                           *)
RecordExecutionSuccessFromExecutor(e, j) ==
  LET r == j.request IN
  /\ j \in jobs /\ j.outcome = "executed"
  /\ CallbackAuthorized(request[r], e) /\ ReceiptMatches(request[r], j)
  /\ request' = [request EXCEPT ![r] = Recorded(@, "executed", "dispatched", "executor")]
  /\ activated' = activated \cup {Target[r]}
  /\ UNCHANGED <<creating, task, jobs>>

RecordExecutionFailureFromExecutor(e, j) ==
  LET r == j.request IN
  /\ j \in jobs /\ j.outcome = "failed"
  /\ CallbackAuthorized(request[r], e) /\ ReceiptMatches(request[r], j)
  /\ request' = [request EXCEPT ![r] =
                   Recorded(@, "execution_failed", "dispatch_failed", "executor")]
  /\ UNCHANGED <<creating, task, jobs, activated>>

(* An operator records what happened outside.                               *)
RecordExecutionSuccess(r) ==
  /\ request[r].status \in Open
  /\ request' = [request EXCEPT ![r] = Recorded(@, "executed", "dispatched", "operator")]
  /\ activated' = activated \cup {Target[r]}
  /\ UNCHANGED <<creating, task, jobs>>

RecordExecutionFailure(r) ==
  /\ request[r].status \in Open
  /\ request' = [request EXCEPT ![r] =
                   Recorded(@, "execution_failed", "dispatch_failed", "operator")]
  /\ UNCHANGED <<creating, task, jobs, activated>>

-----------------------------------------------------------------------------
WorkerLoop(w) ==
  \/ \E r \in Requests : BeginClaim(w, r)
  \/ CommitClaim(w)
  \/ \E verified \in BOOLEAN : DispatchExecutionRequest(w, verified)
  \/ DispatchReused(w) \/ DispatchRefused(w)
  \/ \E received, answered \in BOOLEAN : DeliverExecutionRequest(w, received, answered)
  \/ RecordExecutionDeliveryAccepted(w) \/ RecordExecutionDeliveryFailed(w)
  \/ DeliveryRefused(w)

ExecutorStep ==
  \/ \E e \in Executors, r \in Requests : ClaimExecutionForExecutor(e, r)
  \/ \E j \in jobs :
       \/ \E outcome \in {"executed", "failed"} : ExecutorActs(j, outcome)
       \/ \E e \in Executors : \/ RecordExecutionSuccessFromExecutor(e, j)
                               \/ RecordExecutionFailureFromExecutor(e, j)

GovernedNext ==
  \/ \E r \in Requests :
       \/ BeginRequest(r) \/ CommitRequest(r) \/ PublishExecutionPackage(r)
       \/ LeaseExpires(r) \/ RecordExecutionSuccess(r) \/ RecordExecutionFailure(r)
  \/ \E w \in Workers : WorkerLoop(w) \/ WorkerDies(w)
  \/ ExecutorStep

GovernedSpec == GovernedInit /\ [][GovernedNext]_governedVars

(* Workers loop for ever and do not die for ever: a claim is taken up again *)
(* and again, and every step a worker is in ends.  Leases run out.          *)
GovernedFairSpec ==
  /\ GovernedSpec
  /\ \A w \in Workers :
       /\ WF_governedVars(\E r \in Requests : BeginClaim(w, r))
       /\ SF_governedVars(CommitClaim(w))
       /\ SF_governedVars(\E verified \in BOOLEAN : DispatchExecutionRequest(w, verified))
       /\ WF_governedVars(WorkerLoop(w))
  /\ \A r \in Requests : WF_governedVars(LeaseExpires(r))

-----------------------------------------------------------------------------
(* Properties *)

(* What a row says of the executor is true of the dispatch it names: one    *)
(* that is accepted_by_executor, which lets the executor call back without a *)
(* claim, was received, and one reported executed was executed on chain; a  *)
(* late answer or report of an earlier dispatch is not taken for it.        *)
DispatchIsTruthful ==
  \A r \in Requests :
    /\ request[r].delivery = "accepted_by_executor" /\ request[r].dispatch = "dispatched"
         /\ request[r].status # "executed" =>
           \E j \in jobs : j.request = r /\ j.ref = request[r].ref
    /\ request[r].status = "executed" /\ request[r].recordedBy = "executor" =>
         [request |-> r, ref |-> request[r].ref, outcome |-> "executed"] \in jobs

(* What the executor reported executed is not reopened, or it would be      *)
(* dispatched and executed again: not by a late or repeated callback, not   *)
(* by an operator, not by a worker that holds an old claim.  (What an       *)
(* operator recorded, a failure reported by the executor does reopen.)      *)
ExecutedIsFinal ==
  [][\A r \in Requests :
       request[r].status = "executed" /\ request[r].recordedBy = "executor" =>
         request'[r].status = "executed"]_governedVars

(* A published request reaches the executor's queue, or is closed, although *)
(* workers die with claims; it runs out of the dispatches the model has.    *)
PublishedIsDispatched ==
  \A r \in Requests :
    request[r].package /\ request[r].status = "pending_execution" ~>
      \/ request[r].dispatch = "dispatched" \/ request[r].status # "pending_execution"
      \/ request[r].dispatches = MaxDispatches
=============================================================================
