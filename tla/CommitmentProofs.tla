-------------------------- MODULE CommitmentProofs --------------------------
(***************************************************************************)
(* Proofs about what takes days rather than one call: requests executed by *)
(* governance, the money and the rules of retirement vaults, and loans.    *)
(***************************************************************************)
EXTENDS GovernedExecution, RetirementVault, Loans, LedgerProofs, SumProofs,
        WellFoundedInduction

-----------------------------------------------------------------------------
(* Governed execution.  A reference is answered by one job; what a worker   *)
(* was told of a push stays true of its reference, and the row names the    *)
(* reference of its last dispatch.                                          *)

GovernedRows ==
  [status : Open \cup {"absent", "executed"}, package : BOOLEAN,
   dispatch : {"not_dispatched", "dispatched", "dispatch_failed"},
   delivery : {"not_delivered", "accepted_by_executor", "delivery_failed"},
   worker : Workers \cup {"none"}, leased : BOOLEAN,
   executor : Executors \cup {"none"}, executorLeased : BOOLEAN,
   ref : References, dispatches : 0 .. MaxDispatches,
   recordedBy : {"none", "operator", "executor"}]

TaskRows ==
  {Idle}
    \cup [phase : {"claiming", "claimed"}, request : Requests]
    \cup [phase : {"dispatched"}, request : Requests, ref : References]
    \cup [phase : {"delivered"}, request : Requests, ref : References, answered : BOOLEAN]

JobRows == [request : Requests, ref : References, outcome : {"received", "executed", "failed"}]

Received(r, ref) == \E j \in jobs : j.request = r /\ j.ref = ref

(* What DispatchIsTruthful says of a row of the request r.                  *)
Truthful(r, row) ==
  /\ row.delivery = "accepted_by_executor" /\ row.dispatch = "dispatched"
       /\ row.status # "executed" => Received(r, row.ref)
  /\ row.status = "executed" /\ row.recordedBy = "executor" =>
       [request |-> r, ref |-> row.ref, outcome |-> "executed"] \in jobs

RowsOK ==
  /\ request \in [Requests -> GovernedRows]
  /\ \A r \in creating : r \in Requests /\ request[r].status = "absent"
  /\ \A r \in Requests : /\ request[r].status = "absent" => request[r] = NoRequest
                         /\ Truthful(r, request[r])

TaskOK(t) ==
  /\ t # Idle => request[t.request].status # "absent"
  /\ t.phase = "delivered" /\ t.answered => Received(t.request, t.ref)

TasksOK == task \in [Workers -> TaskRows] /\ \A w \in Workers : TaskOK(task[w])

JobsOK ==
  /\ jobs \subseteq JobRows
  /\ \A j, k \in jobs : j.request = k.request /\ j.ref = k.ref => j = k

GovernedInv == RowsOK /\ TasksOK /\ JobsOK

(* What a step may do to the jobs and to the requests.                      *)
JobsGrow ==
  /\ \A r, ref : Received(r, ref) => Received(r, ref)'
  /\ \A j \in jobs : j.outcome # "received" => j \in jobs'
RequestsStay ==
  \A r \in Requests : request[r].status # "absent" => request'[r].status # "absent"

(* What was true of a row or a task is true of it when jobs are added.      *)
LEMMA StaysTrue ==
  ASSUME JobsGrow, NEW r, NEW row, Truthful(r, row)
  PROVE  Truthful(r, row)'
  <1> DEFINE done == [request |-> r, ref |-> row.ref, outcome |-> "executed"]
  <1>1. done.outcome # "received"
    OBVIOUS
  <1>2. row.status = "executed" /\ row.recordedBy = "executor" => done \in jobs'
    <2> HIDE DEF done
    <2>1. row.status = "executed" /\ row.recordedBy = "executor" => done \in jobs
      BY DEF Truthful, done
    <2> QED
      BY <1>1, <2>1 DEF JobsGrow
  <1> QED
    BY <1>2 DEF Truthful, JobsGrow

(* A reference that arrives again finds its job.                            *)
LEMMA JobAdded ==
  ASSUME JobsOK, NEW r \in Requests, NEW ref \in References,
         jobs' = IF \E j \in jobs : j.request = r /\ j.ref = ref THEN jobs
                 ELSE jobs \cup {[request |-> r, ref |-> ref, outcome |-> "received"]}
  PROVE  JobsOK' /\ JobsGrow /\ Received(r, ref)'
  <1> DEFINE new == [request |-> r, ref |-> ref, outcome |-> "received"]
  <1>1. new \in JobRows /\ new.request = r /\ new.ref = ref
    BY DEF JobRows
  <1>2. jobs' = IF Received(r, ref) THEN jobs ELSE jobs \cup {new}
    BY DEF Received
  <1> HIDE DEF new
  <1>3. CASE Received(r, ref)
    BY <1>2, <1>3 DEF JobsOK, JobsGrow, Received
  <1>4. CASE ~Received(r, ref)
    BY <1>1, <1>2, <1>4 DEF JobsOK, JobsGrow, Received
  <1> QED
    BY <1>3, <1>4

(* The executor acts on a job it received, once.                            *)
LEMMA JobActs ==
  ASSUME JobsOK, NEW j \in jobs, NEW outcome \in {"executed", "failed"}, ExecutorActs(j, outcome)
  PROVE  JobsOK' /\ JobsGrow
  <1> DEFINE new == [j EXCEPT !.outcome = outcome]
  <1>1. new \in JobRows /\ new.request = j.request /\ new.ref = j.ref
    BY DEF JobsOK, JobRows
  <1>2. jobs' = (jobs \ {j}) \cup {new} /\ j.outcome = "received"
    BY DEF ExecutorActs
  <1> HIDE DEF new
  <1>3. JobsOK'
    BY <1>1, <1>2 DEF JobsOK
  <1>4. \A r, ref : Received(r, ref) => Received(r, ref)'
    BY <1>1, <1>2 DEF Received
  <1> QED
    BY <1>2, <1>3, <1>4 DEF JobsGrow

(* A step that writes one row.                                              *)
LEMMA GovernedRowWritten ==
  ASSUME GovernedInv, JobsGrow, NEW r \in Requests, NEW row \in GovernedRows,
         request' = [request EXCEPT ![r] = row], row.status # "absent", Truthful(r, row)',
         creating' \subseteq creating, r \notin creating'
  PROVE  RowsOK' /\ RequestsStay
  <1>1. /\ request' \in [Requests -> GovernedRows] /\ request'[r] = row
        /\ \A q \in Requests : q # r => request'[q] = request[q]
    BY DEF GovernedInv, RowsOK
  <1>2. ASSUME NEW q \in Requests, q # r PROVE Truthful(q, request[q])'
    <2>1. PICK old : old = request[q] /\ Truthful(q, old)
      BY DEF GovernedInv, RowsOK
    <2>2. Truthful(q, old)' /\ request'[q] = old
      BY <1>1, <1>2, <2>1, StaysTrue
    <2> QED
      BY <2>2 DEF Truthful
  <1>3. \A q \in Requests : Truthful(q, request[q])'
    BY <1>1, <1>2 DEF Truthful
  <1> QED
    BY <1>1, <1>3 DEF GovernedInv, RowsOK, RequestsStay

(* A step that writes none.                                                 *)
LEMMA GovernedRowsKept ==
  ASSUME GovernedInv, JobsGrow, UNCHANGED <<request, creating>>
  PROVE  RowsOK' /\ RequestsStay
  <1>1. ASSUME NEW q \in Requests PROVE Truthful(q, request[q])'
    <2>1. PICK old : old = request[q] /\ Truthful(q, old)
      BY DEF GovernedInv, RowsOK
    <2>2. Truthful(q, old)' /\ request'[q] = old
      BY <2>1, StaysTrue
    <2> QED
      BY <2>2 DEF Truthful
  <1> QED
    BY <1>1 DEF GovernedInv, RowsOK, RequestsStay

(* What a worker remembers stays true.                                      *)
LEMMA TasksKept ==
  ASSUME GovernedInv, JobsGrow, RequestsStay, UNCHANGED task
  PROVE  TasksOK'
  <1>1. ASSUME NEW w \in Workers PROVE TaskOK(task[w])'
    <2>1. task[w] # Idle => task[w].request \in Requests
      BY DEF GovernedInv, TasksOK, TaskRows
    <2> QED
      BY <2>1 DEF GovernedInv, TasksOK, TaskOK, JobsGrow, RequestsStay
  <1> QED
    BY <1>1 DEF GovernedInv, TasksOK

(* A worker goes on to another step of its loop.                            *)
LEMMA TaskWritten ==
  ASSUME GovernedInv, JobsGrow, RequestsStay, NEW w \in Workers, NEW t \in TaskRows,
         task' = [task EXCEPT ![w] = t], TaskOK(t)'
  PROVE  TasksOK'
  <1>1. /\ task' \in [Workers -> TaskRows] /\ task'[w] = t
        /\ \A v \in Workers : v # w => task'[v] = task[v]
    BY DEF GovernedInv, TasksOK
  <1>2. ASSUME NEW v \in Workers, v # w PROVE TaskOK(task[v])'
    <2>1. task[v] # Idle => task[v].request \in Requests
      BY DEF GovernedInv, TasksOK, TaskRows
    <2>2. task'[v] = task[v] /\ TaskOK(task[v])
      BY <1>1, <1>2 DEF GovernedInv, TasksOK
    <2> QED
      BY <2>1, <2>2 DEF TaskOK, JobsGrow, RequestsStay
  <1>3. TaskOK(task[w])'
    BY <1>1 DEF TaskOK
  <1> QED
    BY <1>1, <1>2, <1>3 DEF TasksOK

(* A step of a worker that writes neither a row nor a job.                  *)
LEMMA WorkerAlone ==
  ASSUME GovernedInv, NEW w \in Workers, NEW t \in TaskRows,
         task' = [task EXCEPT ![w] = t], TaskOK(t)', UNCHANGED <<request, creating, jobs>>
  PROVE  GovernedInv'
  <1>1. JobsGrow /\ JobsOK'
    BY DEF JobsGrow, Received, JobsOK, GovernedInv
  <1>2. RowsOK' /\ RequestsStay
    BY <1>1, GovernedRowsKept
  <1> QED
    BY <1>1, <1>2, TaskWritten DEF GovernedInv

(* A step that writes one row and nothing else.                             *)
LEMMA RowAlone ==
  ASSUME GovernedInv, NEW r \in Requests, NEW row \in GovernedRows,
         request' = [request EXCEPT ![r] = row], row.status # "absent", Truthful(r, row),
         creating' \subseteq creating, r \notin creating', UNCHANGED <<task, jobs>>
  PROVE  GovernedInv'
  <1>1. JobsGrow /\ JobsOK'
    BY DEF JobsGrow, Received, JobsOK, GovernedInv
  <1>2. RowsOK' /\ RequestsStay
    BY <1>1, StaysTrue, GovernedRowWritten
  <1> QED
    BY <1>1, <1>2, TasksKept DEF GovernedInv

(* What is known of a request that a worker works on.                       *)
LEMMA WorkedOn ==
  ASSUME GovernedInv, NEW w \in Workers, task[w] # Idle
  PROVE  /\ task[w].request \in Requests /\ task[w].request \notin creating
         /\ request[task[w].request].status # "absent"
         /\ request[task[w].request] \in GovernedRows
         /\ Truthful(task[w].request, request[task[w].request])
  <1>1. task[w].request \in Requests
    BY DEF GovernedInv, TasksOK, TaskRows
  <1>2. request[task[w].request].status # "absent"
    BY DEF GovernedInv, TasksOK, TaskOK
  <1> QED
    BY <1>1, <1>2 DEF GovernedInv, RowsOK

(* Who records an outcome changes it, the dispatch and the claims.           *)
LEMMA RecordedRow ==
  ASSUME NEW row \in GovernedRows, NEW by \in {"operator", "executor"},
         NEW status \in {"executed", "execution_failed"},
         NEW dispatch \in {"dispatched", "dispatch_failed"}
  PROVE  LET new == Recorded(row, status, dispatch, by) IN
         /\ new \in GovernedRows
         /\ new.status = status /\ new.dispatch = dispatch /\ new.recordedBy = by
         /\ new.ref = row.ref
  <1> DEFINE new == Recorded(row, status, dispatch, by)
  <1>1. /\ new.status = status /\ new.dispatch = dispatch /\ new.recordedBy = by
        /\ new.ref = row.ref
    BY DEF Recorded, GovernedRows
  <1>2. status \in Open \cup {"absent", "executed"}
    BY DEF Open
  <1>3. new \in GovernedRows
    BY <1>2 DEF Recorded, GovernedRows
  <1> QED
    BY <1>1, <1>3

(* Requests, their packages, leases and what operators record.              *)
LEMMA RequestStep ==
  ASSUME GovernedInv, NEW r \in Requests,
         \/ BeginRequest(r) \/ CommitRequest(r) \/ PublishExecutionPackage(r)
         \/ LeaseExpires(r) \/ RecordExecutionSuccess(r) \/ RecordExecutionFailure(r)
  PROVE  GovernedInv'
  <1>1. PICK old \in GovernedRows : old = request[r] /\ Truthful(r, old)
    BY DEF GovernedInv, RowsOK
  <1>2. old.status # "absent" => r \notin creating
    BY <1>1 DEF GovernedInv, RowsOK
  <1>3. CASE BeginRequest(r)
    <2>1. JobsGrow /\ JobsOK'
      BY <1>3 DEF BeginRequest, JobsGrow, Received, JobsOK, GovernedInv
    <2>2. /\ request' = request /\ task' = task
          /\ \A q \in creating' : q \in Requests /\ request[q].status = "absent"
      BY <1>3 DEF BeginRequest, GovernedInv, RowsOK
    <2>3. ASSUME NEW q \in Requests PROVE Truthful(q, request[q])'
      BY <2>2, <1>3 DEF BeginRequest, GovernedInv, RowsOK, Truthful, Received
    <2>4. RowsOK' /\ RequestsStay
      BY <2>2, <2>3 DEF GovernedInv, RowsOK, RequestsStay
    <2> QED
      BY <2>1, <2>2, <2>4, TasksKept DEF GovernedInv
  <1>4. CASE CommitRequest(r)
    <2> DEFINE row == [NoRequest EXCEPT !.status = "pending_execution"]
    <2>1. row \in GovernedRows /\ row.status # "absent" /\ Truthful(r, row)
      <3>1. NoRequest \in GovernedRows
        BY GovernedAssumption DEF NoRequest, GovernedRows, References, GovernedAssumption
      <3>2. /\ row.status = "pending_execution" /\ row.dispatch = "not_dispatched"
            /\ row \in GovernedRows
        BY <3>1 DEF GovernedRows, NoRequest, Open
      <3> HIDE DEF row
      <3> QED
        BY <3>2 DEF Truthful
    <2> QED
      BY <1>4, <2>1, RowAlone DEF CommitRequest
  <1>5. CASE PublishExecutionPackage(r)
    <2> DEFINE row == [old EXCEPT !.package = TRUE]
    <2>1. row \in GovernedRows /\ row.status = old.status /\ Truthful(r, row)
      BY <1>1 DEF GovernedRows, Truthful
    <2>2. request' = [request EXCEPT ![r] = row] /\ old.status # "absent"
      BY <1>1, <1>5 DEF PublishExecutionPackage
    <2> HIDE DEF row
    <2> QED
      BY <1>2, <1>5, <2>1, <2>2, RowAlone DEF PublishExecutionPackage
  <1>6. CASE LeaseExpires(r)
    <2> DEFINE free == [old EXCEPT !.leased = FALSE]
               freed == [old EXCEPT !.executorLeased = FALSE]
    <2>1. /\ free \in GovernedRows /\ free.status = old.status /\ Truthful(r, free)
          /\ freed \in GovernedRows /\ freed.status = old.status /\ Truthful(r, freed)
      BY <1>1 DEF GovernedRows, Truthful
    <2>2. /\ \/ request' = [request EXCEPT ![r] = free]
             \/ request' = [request EXCEPT ![r] = freed]
          /\ UNCHANGED <<creating, task, jobs>>
      BY <1>1, <1>6 DEF LeaseExpires
    <2>3. old.status # "absent"
      <3>1. NoRequest.leased = FALSE /\ NoRequest.executorLeased = FALSE
        BY DEF NoRequest
      <3>2. old.leased \/ old.executorLeased
        BY <1>1, <1>6 DEF LeaseExpires
      <3> QED
        BY <1>1, <3>1, <3>2 DEF GovernedInv, RowsOK
    <2> HIDE DEF free, freed
    <2> QED
      BY <1>2, <2>1, <2>2, <2>3, RowAlone
  <1>7. CASE RecordExecutionSuccess(r)
    <2> DEFINE row == Recorded(old, "executed", "dispatched", "operator")
    <2>1. row \in GovernedRows /\ row.status = "executed" /\ Truthful(r, row)
      <3>1. /\ row \in GovernedRows /\ row.status = "executed"
            /\ row.recordedBy = "operator"
        BY RecordedRow
      <3> HIDE DEF row
      <3> QED
        BY <3>1 DEF Truthful
    <2>2. request' = [request EXCEPT ![r] = row] /\ old.status # "absent"
      BY <1>1, <1>7 DEF RecordExecutionSuccess, Open
    <2> HIDE DEF row
    <2> QED
      BY <1>2, <1>7, <2>1, <2>2, RowAlone DEF RecordExecutionSuccess
  <1>8. CASE RecordExecutionFailure(r)
    <2> DEFINE row == Recorded(old, "execution_failed", "dispatch_failed", "operator")
    <2>1. row \in GovernedRows /\ row.status = "execution_failed" /\ Truthful(r, row)
      <3>1. /\ row \in GovernedRows /\ row.status = "execution_failed"
            /\ row.dispatch = "dispatch_failed"
        BY RecordedRow
      <3> HIDE DEF row
      <3> QED
        BY <3>1 DEF Truthful
    <2>2. request' = [request EXCEPT ![r] = row] /\ old.status # "absent"
      BY <1>1, <1>8 DEF RecordExecutionFailure, Open
    <2> HIDE DEF row
    <2> QED
      BY <1>2, <1>8, <2>1, <2>2, RowAlone DEF RecordExecutionFailure
  <1> QED
    BY <1>3, <1>4, <1>5, <1>6, <1>7, <1>8

(* The steps of a worker's loop.                                            *)
LEMMA WorkerLoopStep ==
  ASSUME GovernedInv, NEW w \in Workers, WorkerLoop(w) \/ WorkerDies(w)
  PROVE  GovernedInv'
  <1>r. PICK r, old : r = task[w].request /\ old = request[r]
    OBVIOUS
  <1>0. Idle \in TaskRows /\ Idle.phase = "idle" /\ TaskOK(Idle)'
    BY DEF TaskRows, Idle, TaskOK
  <1>1. ASSUME task[w].phase # "idle"
        PROVE  /\ task[w] # Idle /\ r \in Requests /\ r \notin creating
               /\ old.status # "absent" /\ old \in GovernedRows /\ Truthful(r, old)
    <2>1. task[w] # Idle
      BY <1>1 DEF Idle
    <2> QED
      BY <1>r, <2>1, WorkedOn
  <1>2. ASSUME task' = [task EXCEPT ![w] = Idle], UNCHANGED <<request, creating, jobs>>
        PROVE  GovernedInv'
    BY <1>0, <1>2, WorkerAlone
  <1>3. ASSUME NEW q \in Requests, BeginClaim(w, q) PROVE GovernedInv'
    <2> DEFINE t == [phase |-> "claiming", request |-> q]
    <2>1. request[q].status # "absent" /\ request' = request
      BY <1>3 DEF BeginClaim, Claimable, Open
    <2>2. t \in TaskRows /\ TaskOK(t)'
      BY <2>1 DEF TaskRows, TaskOK
    <2> HIDE DEF t
    <2> QED
      BY <1>3, <2>2, WorkerAlone DEF BeginClaim, t
  <1>4. CASE CommitClaim(w)
    <2>1. task[w].phase = "claiming"
      BY <1>4 DEF CommitClaim
    <2> DEFINE row == [old EXCEPT !.worker = w, !.leased = TRUE]
               t == [phase |-> "claimed", request |-> r]
    <2>2. task[w] = [phase |-> "claiming", request |-> r]
      BY <1>r, <2>1 DEF GovernedInv, TasksOK, TaskRows, Idle
    <2>3. task' = [task EXCEPT ![w] = t] /\ request' = [request EXCEPT ![r] = row]
      <3>1. [task[w] EXCEPT !.phase = "claimed"] = t
        BY <2>2
      <3> HIDE DEF t
      <3> QED
        BY <1>4, <1>r, <3>1 DEF CommitClaim
    <2>4. row \in GovernedRows /\ row.status = old.status /\ Truthful(r, row)
      BY <1>1, <2>1 DEF GovernedRows, Truthful
    <2>5. JobsGrow /\ JobsOK'
      BY <1>4 DEF CommitClaim, JobsGrow, Received, JobsOK, GovernedInv
    <2>6. creating' = creating
      BY <1>4 DEF CommitClaim
    <2> HIDE DEF row
    <2>7. RowsOK' /\ RequestsStay
      BY <1>1, <2>1, <2>3, <2>4, <2>5, <2>6, StaysTrue, GovernedRowWritten
    <2>8. t \in TaskRows /\ TaskOK(t)'
      BY <1>1, <1>r, <2>1, <2>7 DEF TaskRows, TaskOK, RequestsStay
    <2> HIDE DEF t
    <2> QED
      BY <2>3, <2>5, <2>7, <2>8, TaskWritten DEF GovernedInv
  <1>5. ASSUME NEW verified \in BOOLEAN, DispatchExecutionRequest(w, verified)
        PROVE  GovernedInv'
    <2>1. task[w].phase = "claimed" /\ old.status \in Open
      BY <1>5, <1>r DEF DispatchExecutionRequest
    <2> DEFINE ref == <<w, old.dispatches + 1, TRUE>>
               row == [old EXCEPT
                   !.dispatch = IF verified THEN "dispatched" ELSE "dispatch_failed",
                   !.delivery = IF verified THEN "not_delivered" ELSE "delivery_failed",
                   !.ref = ref, !.dispatches = @ + 1, !.worker = "none", !.leased = FALSE]
               t == IF verified THEN [phase |-> "dispatched", request |-> r, ref |-> ref]
                    ELSE Idle
    <2>2. ref \in References /\ old.dispatches + 1 \in 0 .. MaxDispatches
      <3>1. old.dispatches < MaxDispatches
        BY <1>5, <1>r DEF DispatchExecutionRequest
      <3>2. old.dispatches \in 0 .. MaxDispatches /\ MaxDispatches \in Nat
        BY <1>1, <2>1, GovernedAssumption DEF GovernedRows, GovernedAssumption
      <3>3. old.dispatches + 1 \in 1 .. MaxDispatches
        BY <3>1, <3>2
      <3>4. ref \in References
        BY <3>3 DEF References
      <3> QED
        BY <3>2, <3>3, <3>4
    <2>3. /\ task' = [task EXCEPT ![w] = t] /\ request' = [request EXCEPT ![r] = row]
          /\ UNCHANGED <<creating, jobs>>
      BY <1>5, <1>r DEF DispatchExecutionRequest
    <2> HIDE DEF ref
    <2>4. row \in GovernedRows /\ row.status = old.status
          /\ row.delivery # "accepted_by_executor"
      BY <1>1, <2>1, <2>2 DEF GovernedRows
    <2>5. Truthful(r, row)
      BY <2>1, <2>4 DEF Truthful, Open
    <2>6. JobsGrow /\ JobsOK'
      BY <2>3 DEF JobsGrow, Received, JobsOK, GovernedInv
    <2> HIDE DEF row
    <2>7. RowsOK' /\ RequestsStay
      BY <1>1, <2>1, <2>3, <2>4, <2>5, <2>6, StaysTrue, GovernedRowWritten
    <2>8. t \in TaskRows /\ TaskOK(t)'
      <3>1. CASE verified
        BY <1>1, <1>r, <2>1, <2>2, <2>7, <3>1 DEF TaskRows, TaskOK, RequestsStay
      <3>2. CASE ~verified
        BY <1>0, <3>2
      <3> QED
        BY <3>1, <3>2
    <2> HIDE DEF t
    <2> QED
      BY <2>3, <2>6, <2>7, <2>8, TaskWritten DEF GovernedInv
  <1>6. CASE DispatchReused(w)
    <2>1. task[w].phase = "claimed" /\ old.dispatches < MaxDispatches
      BY <1>6, <1>r DEF DispatchReused
    <2> DEFINE ref == <<w, old.dispatches + 1, FALSE>>
               t == [phase |-> "dispatched", request |-> r, ref |-> ref]
    <2>2. ref \in References
      <3>1. old.dispatches \in 0 .. MaxDispatches /\ MaxDispatches \in Nat
        BY <1>1, <2>1, GovernedAssumption DEF GovernedRows, GovernedAssumption
      <3>2. old.dispatches + 1 \in 1 .. MaxDispatches
        BY <2>1, <3>1
      <3> QED
        BY <3>2 DEF References
    <2>3. task' = [task EXCEPT ![w] = t] /\ UNCHANGED <<request, creating, jobs>>
      BY <1>6, <1>r DEF DispatchReused
    <2> HIDE DEF ref
    <2>4. t \in TaskRows /\ TaskOK(t)'
      BY <1>1, <1>r, <2>1, <2>2, <2>3 DEF TaskRows, TaskOK
    <2> HIDE DEF t
    <2> QED
      BY <2>3, <2>4, WorkerAlone
  <1>7. ASSUME NEW received \in BOOLEAN, NEW answered \in BOOLEAN,
               DeliverExecutionRequest(w, received, answered)
        PROVE  GovernedInv'
    <2>1. task[w].phase = "dispatched" /\ (answered => received)
      BY <1>7 DEF DeliverExecutionRequest
    <2>r. PICK ref : ref = task[w].ref
      OBVIOUS
    <2> DEFINE t == [phase |-> "delivered", request |-> r, ref |-> ref, answered |-> answered]
    <2>2. ref \in References
      BY <2>1, <2>r DEF GovernedInv, TasksOK, TaskRows, Idle
    <2>3. task' = [task EXCEPT ![w] = t] /\ UNCHANGED <<request, creating>>
      BY <1>7, <1>r, <2>r DEF DeliverExecutionRequest
    <2>4. JobsOK' /\ JobsGrow /\ (answered => Received(r, ref)')
      <3>1. CASE received
        <4>1. jobs' = IF \E j \in jobs : j.request = r /\ j.ref = ref THEN jobs
                      ELSE jobs \cup {[request |-> r, ref |-> ref, outcome |-> "received"]}
          BY <1>7, <1>r, <2>r, <3>1 DEF DeliverExecutionRequest
        <4> QED
          BY <1>1, <2>1, <2>2, <4>1, JobAdded DEF GovernedInv
      <3>2. CASE ~received
        <4>1. jobs' = jobs
          BY <1>7, <3>2 DEF DeliverExecutionRequest
        <4> QED
          BY <2>1, <3>2, <4>1 DEF JobsGrow, Received, JobsOK, GovernedInv
      <3> QED
        BY <3>1, <3>2
    <2>5. RowsOK' /\ RequestsStay
      BY <2>3, <2>4, GovernedRowsKept
    <2>6. t \in TaskRows /\ TaskOK(t)'
      BY <1>1, <1>r, <2>1, <2>2, <2>3, <2>4 DEF TaskRows, TaskOK
    <2> HIDE DEF t
    <2> QED
      BY <2>3, <2>4, <2>5, <2>6, TaskWritten DEF GovernedInv
  <1>8. ASSUME NEW answered \in BOOLEAN, NEW outcome,
               \/ answered = TRUE /\ outcome = "accepted_by_executor"
               \/ answered = FALSE /\ outcome = "delivery_failed",
               RecordExecutionDelivery(w, answered, outcome)
        PROVE  GovernedInv'
    <2>1. /\ task[w].phase = "delivered" /\ task[w].answered = answered
          /\ old.ref = task[w].ref
      BY <1>8, <1>r DEF RecordExecutionDelivery, DeliveryRecordable
    <2> DEFINE row == [old EXCEPT !.delivery = outcome]
    <2>2. /\ task' = [task EXCEPT ![w] = Idle] /\ request' = [request EXCEPT ![r] = row]
          /\ UNCHANGED <<creating, jobs>>
      BY <1>8, <1>r DEF RecordExecutionDelivery
    <2>3. answered => Received(r, old.ref)
      BY <1>1, <1>r, <2>1 DEF GovernedInv, TasksOK, TaskOK
    <2>4. /\ row \in GovernedRows /\ row.status = old.status /\ row.ref = old.ref
          /\ row.recordedBy = old.recordedBy /\ row.delivery = outcome
      BY <1>1, <1>8, <2>1 DEF GovernedRows
    <2>5. Truthful(r, row)
      BY <1>1, <1>8, <2>1, <2>3, <2>4 DEF Truthful
    <2>6. JobsGrow /\ JobsOK'
      BY <2>2 DEF JobsGrow, Received, JobsOK, GovernedInv
    <2> HIDE DEF row
    <2>7. RowsOK' /\ RequestsStay
      BY <1>1, <2>1, <2>2, <2>4, <2>5, <2>6, StaysTrue, GovernedRowWritten
    <2> QED
      BY <1>0, <2>2, <2>6, <2>7, TaskWritten DEF GovernedInv
  <1>9. CASE DispatchRefused(w) \/ DeliveryRefused(w) \/ WorkerDies(w)
    BY <1>2, <1>9 DEF DispatchRefused, DeliveryRefused, WorkerDies
  <1> QED
    BY <1>3, <1>4, <1>5, <1>6, <1>7, <1>8, <1>9
       DEF WorkerLoop, RecordExecutionDeliveryAccepted, RecordExecutionDeliveryFailed

(* The executor claims, acts and calls back.                                *)
LEMMA ExecutorMoves ==
  ASSUME GovernedInv, ExecutorStep
  PROVE  GovernedInv'
  <1>1. ASSUME NEW e \in Executors, NEW r \in Requests, ClaimExecutionForExecutor(e, r)
        PROVE  GovernedInv'
    <2>1. PICK old \in GovernedRows : old = request[r] /\ Truthful(r, old)
      BY DEF GovernedInv, RowsOK
    <2> DEFINE row == [old EXCEPT !.executor = e, !.executorLeased = TRUE]
    <2>2. /\ request' = [request EXCEPT ![r] = row] /\ old.status # "absent"
          /\ jobs' = IF \E j \in jobs : j.request = r /\ j.ref = old.ref THEN jobs
                ELSE jobs \cup {[request |-> r, ref |-> old.ref, outcome |-> "received"]}
          /\ UNCHANGED <<creating, task>>
      BY <1>1, <2>1 DEF ClaimExecutionForExecutor, Open
    <2>3. row \in GovernedRows /\ row.status = old.status /\ Truthful(r, row)
      BY <2>1 DEF GovernedRows, Truthful
    <2>4. JobsOK' /\ JobsGrow
      BY <2>1, <2>2, JobAdded DEF GovernedInv, GovernedRows
    <2>5. r \notin creating
      BY <2>1, <2>2 DEF GovernedInv, RowsOK
    <2> HIDE DEF row
    <2>6. RowsOK' /\ RequestsStay
      BY <2>2, <2>3, <2>4, <2>5, StaysTrue, GovernedRowWritten
    <2> QED
      BY <2>2, <2>4, <2>6, TasksKept DEF GovernedInv
  <1>2. ASSUME NEW j \in jobs, NEW outcome \in {"executed", "failed"}, ExecutorActs(j, outcome)
        PROVE  GovernedInv'
    <2>1. JobsOK' /\ JobsGrow /\ UNCHANGED <<request, creating, task>>
      BY <1>2, JobActs DEF GovernedInv, ExecutorActs
    <2> QED
      BY <2>1, GovernedRowsKept, TasksKept DEF GovernedInv
  <1>3. ASSUME NEW j \in jobs, NEW e \in Executors,
               \/ RecordExecutionSuccessFromExecutor(e, j)
               \/ RecordExecutionFailureFromExecutor(e, j)
        PROVE  GovernedInv'
    <2>1. PICK r \in Requests : r = j.request
      BY DEF GovernedInv, JobsOK, JobRows
    <2>2. PICK old \in GovernedRows : old = request[r] /\ Truthful(r, old)
      BY DEF GovernedInv, RowsOK
    <2>3. CallbackAuthorized(old, e) /\ j.ref = old.ref /\ UNCHANGED <<creating, task, jobs>>
      BY <1>3, <2>1, <2>2 DEF RecordExecutionSuccessFromExecutor,
                              RecordExecutionFailureFromExecutor, ReceiptMatches
    <2>4. old.status # "absent" /\ r \notin creating
      <3>1. ~CallbackAuthorized(NoRequest, e)
        BY DEF CallbackAuthorized, NoRequest
      <3> QED
        BY <2>2, <2>3, <3>1 DEF GovernedInv, RowsOK
    <2> DEFINE done == Recorded(old, "executed", "dispatched", "executor")
               failed == Recorded(old, "execution_failed", "dispatch_failed", "executor")
    <2>5. CASE RecordExecutionSuccessFromExecutor(e, j)
      <3>1. request' = [request EXCEPT ![r] = done] /\ j.outcome = "executed"
        BY <2>1, <2>2, <2>5 DEF RecordExecutionSuccessFromExecutor
      <3>2. done \in GovernedRows /\ done.status = "executed" /\ done.ref = old.ref
        BY <2>2, RecordedRow
      <3>3. [request |-> r, ref |-> old.ref, outcome |-> "executed"] \in jobs
        <4>1. j = [request |-> r, ref |-> old.ref, outcome |-> "executed"]
          BY <2>1, <2>3, <3>1 DEF GovernedInv, JobsOK, JobRows
        <4> QED
          BY <4>1
      <3> HIDE DEF done
      <3>4. Truthful(r, done)
        BY <3>2, <3>3 DEF Truthful
      <3> QED
        BY <2>3, <2>4, <3>1, <3>2, <3>4, RowAlone
    <2>6. CASE RecordExecutionFailureFromExecutor(e, j)
      <3>1. request' = [request EXCEPT ![r] = failed]
        BY <2>1, <2>2, <2>6 DEF RecordExecutionFailureFromExecutor
      <3>2. /\ failed \in GovernedRows /\ failed.status = "execution_failed"
            /\ failed.dispatch = "dispatch_failed"
        BY <2>2, RecordedRow
      <3> HIDE DEF failed
      <3>3. Truthful(r, failed)
        BY <3>2 DEF Truthful
      <3> QED
        BY <2>3, <2>4, <3>1, <3>2, <3>3, RowAlone
    <2> QED
      BY <1>3, <2>5, <2>6
  <1> QED
    BY <1>1, <1>2, <1>3 DEF ExecutorStep

(* The inductive invariant of governed execution.                           *)
LEMMA GovernedInvariance == GovernedSpec => []GovernedInv
  <1>1. GovernedInit => GovernedInv
    <2> SUFFICES ASSUME GovernedInit PROVE GovernedInv
      OBVIOUS
    <2>1. NoRequest \in GovernedRows
      BY GovernedAssumption DEF NoRequest, GovernedRows, References, GovernedAssumption
    <2>2. \A r \in Requests : Truthful(r, NoRequest)
      BY DEF Truthful, NoRequest
    <2>3. RowsOK
      BY <2>1, <2>2 DEF GovernedInit, RowsOK
    <2>4. TasksOK /\ JobsOK
      BY DEF GovernedInit, TasksOK, TaskOK, TaskRows, JobsOK, Idle
    <2> QED
      BY <2>3, <2>4 DEF GovernedInv
  <1>2. GovernedInv /\ [GovernedNext]_governedVars => GovernedInv'
    <2> SUFFICES ASSUME GovernedInv, [GovernedNext]_governedVars PROVE GovernedInv'
      OBVIOUS
    <2>1. CASE UNCHANGED governedVars
      <3>1. JobsGrow /\ JobsOK' /\ UNCHANGED <<request, creating, task>>
        BY <2>1 DEF governedVars, JobsGrow, Received, JobsOK, GovernedInv
      <3> QED
        BY <3>1, GovernedRowsKept, TasksKept DEF GovernedInv
    <2> QED
      BY <2>1, RequestStep, WorkerLoopStep, ExecutorMoves DEF GovernedNext
  <1> QED
    BY <1>1, <1>2, PTL DEF GovernedSpec

(* What a row says of the executor is true of the dispatch it names: an     *)
(* accepted delivery was received, and what the executor reported executed  *)
(* was executed.                                                            *)
THEOREM DispatchCorrect == GovernedSpec => []DispatchIsTruthful
  <1>1. GovernedInv => DispatchIsTruthful
    BY DEF GovernedInv, RowsOK, Truthful, Received, DispatchIsTruthful
  <1> QED
    BY <1>1, GovernedInvariance, PTL

(* What the executor reported executed is not reopened: a failure it could  *)
(* report would be of the same reference, and so of the same job.           *)
THEOREM FinalityCorrect == GovernedSpec => ExecutedIsFinal
  <1> DEFINE Final == \A r \in Requests :
       request[r].status = "executed" /\ request[r].recordedBy = "executor" =>
         request'[r].status = "executed"
  <1>1. GovernedInv /\ [GovernedNext]_governedVars => [Final]_governedVars
    <2> SUFFICES ASSUME GovernedInv, GovernedNext, NEW r \in Requests,
                        request[r].status = "executed", request[r].recordedBy = "executor"
                 PROVE  request'[r].status = "executed"
      BY DEF Final
    <2>1. PICK old \in GovernedRows :
            /\ old = request[r] /\ old.status = "executed"
            /\ [request |-> r, ref |-> old.ref, outcome |-> "executed"] \in jobs
      BY DEF GovernedInv, RowsOK, Truthful
    <2>2. ASSUME NEW q, NEW row, request' = [request EXCEPT ![q] = row],
                 q = r => row.status = "executed"
          PROVE  request'[r].status = "executed"
      BY <2>1, <2>2 DEF GovernedInv, RowsOK
    <2>3. ASSUME request' = request PROVE request'[r].status = "executed"
      BY <2>3
    <2>4. r \notin creating
      BY <2>1 DEF GovernedInv, RowsOK
    <2>5. ASSUME NEW q \in Requests,
                 \/ BeginRequest(q) \/ CommitRequest(q) \/ PublishExecutionPackage(q)
                 \/ LeaseExpires(q) \/ RecordExecutionSuccess(q) \/ RecordExecutionFailure(q)
          PROVE  request'[r].status = "executed"
      <3>1. CASE BeginRequest(q)
        BY <2>3, <3>1 DEF BeginRequest
      <3>2. CASE CommitRequest(q)
        BY <2>2, <2>4, <3>2 DEF CommitRequest
      <3>3. CASE PublishExecutionPackage(q)
        <4>1. [old EXCEPT !.package = TRUE].status = "executed"
          BY <2>1 DEF GovernedRows
        <4> QED
          BY <2>1, <2>2, <3>3, <4>1 DEF PublishExecutionPackage
      <3>4. CASE LeaseExpires(q)
        <4>1. /\ [old EXCEPT !.leased = FALSE].status = "executed"
              /\ [old EXCEPT !.executorLeased = FALSE].status = "executed"
          BY <2>1 DEF GovernedRows
        <4>2. \/ request' = [request EXCEPT ![q] = [request[q] EXCEPT !.leased = FALSE]]
              \/ request' = [request EXCEPT ![q] = [request[q] EXCEPT !.executorLeased = FALSE]]
          BY <3>4 DEF LeaseExpires
        <4>3. CASE request' = [request EXCEPT ![q] = [request[q] EXCEPT !.leased = FALSE]]
          <5>1. q = r => [request[q] EXCEPT !.leased = FALSE].status = "executed"
            BY <2>1, <4>1
          <5> QED
            BY <2>2, <4>3, <5>1
        <4>4. CASE request' = [request EXCEPT ![q] = [request[q] EXCEPT !.executorLeased = FALSE]]
          <5>1. q = r => [request[q] EXCEPT !.executorLeased = FALSE].status = "executed"
            BY <2>1, <4>1
          <5> QED
            BY <2>2, <4>4, <5>1
        <4> QED
          BY <4>2, <4>3, <4>4
      <3>5. CASE RecordExecutionSuccess(q) \/ RecordExecutionFailure(q)
        <4>1. q # r
          BY <2>1, <3>5 DEF RecordExecutionSuccess, RecordExecutionFailure, Open
        <4> QED
          BY <2>2, <3>5, <4>1 DEF RecordExecutionSuccess, RecordExecutionFailure
      <3> QED
        BY <2>5, <3>1, <3>2, <3>3, <3>4, <3>5
    <2>6. ASSUME NEW w \in Workers, WorkerLoop(w) \/ WorkerDies(w)
          PROVE  request'[r].status = "executed"
      <3>1. CASE CommitClaim(w)
        <4>1. [old EXCEPT !.worker = w, !.leased = TRUE].status = "executed"
          BY <2>1 DEF GovernedRows
        <4>2. PICK q : request' = [request EXCEPT ![q] =
                                     [request[q] EXCEPT !.worker = w, !.leased = TRUE]]
          BY <3>1 DEF CommitClaim
        <4> QED
          BY <2>1, <2>2, <4>1, <4>2
      <3>2. ASSUME NEW verified \in BOOLEAN, DispatchExecutionRequest(w, verified)
            PROVE  request'[r].status = "executed"
        <4>1. task[w].request # r
          BY <2>1, <3>2 DEF DispatchExecutionRequest, Open
        <4> QED
          BY <2>2, <3>2, <4>1 DEF DispatchExecutionRequest
      <3>3. ASSUME NEW answered, NEW outcome, RecordExecutionDelivery(w, answered, outcome)
            PROVE  request'[r].status = "executed"
        <4>1. [old EXCEPT !.delivery = outcome].status = "executed"
          BY <2>1 DEF GovernedRows
        <4> QED
          BY <2>1, <2>2, <3>3, <4>1 DEF RecordExecutionDelivery
      <3> QED
        BY <2>3, <2>6, <3>1, <3>2, <3>3
           DEF WorkerLoop, BeginClaim, DispatchReused, DispatchRefused,
               DeliverExecutionRequest, RecordExecutionDeliveryAccepted,
               RecordExecutionDeliveryFailed, DeliveryRefused, WorkerDies
    <2>7. CASE ExecutorStep
      <3>1. ASSUME NEW e \in Executors, NEW q \in Requests, ClaimExecutionForExecutor(e, q)
            PROVE  request'[r].status = "executed"
        <4>1. q # r
          BY <2>1, <3>1 DEF ClaimExecutionForExecutor, Open
        <4>2. request' = [request EXCEPT ![q] = [request[q] EXCEPT !.executor = e,
                                                                   !.executorLeased = TRUE]]
          BY <3>1 DEF ClaimExecutionForExecutor
        <4> QED
          BY <2>2, <4>1, <4>2
      <3>2. ASSUME NEW j \in jobs, NEW outcome, ExecutorActs(j, outcome)
            PROVE  request'[r].status = "executed"
        BY <2>3, <3>2 DEF ExecutorActs
      <3>3. ASSUME NEW j \in jobs, NEW e \in Executors, RecordExecutionSuccessFromExecutor(e, j)
            PROVE  request'[r].status = "executed"
        <4> DEFINE row == Recorded(old, "executed", "dispatched", "executor")
        <4>1. row.status = "executed"
          BY DEF Recorded, GovernedRows
        <4> HIDE DEF row
        <4>2. CASE j.request = r
          <5>1. request' = [request EXCEPT ![r] = row]
            BY <2>1, <3>3, <4>2 DEF RecordExecutionSuccessFromExecutor, row
          <5> QED
            BY <2>2, <4>1, <5>1
        <4>3. CASE j.request # r
          BY <2>2, <3>3, <4>3 DEF RecordExecutionSuccessFromExecutor
        <4> QED
          BY <4>2, <4>3
      <3>4. ASSUME NEW j \in jobs, NEW e \in Executors, RecordExecutionFailureFromExecutor(e, j)
            PROVE  request'[r].status = "executed"
        <4>1. j.request # r
          <5>1. SUFFICES ASSUME j.request = r PROVE FALSE
            OBVIOUS
          <5>2. j.ref = old.ref /\ j.outcome = "failed"
            BY <2>1, <3>4, <5>1 DEF RecordExecutionFailureFromExecutor, ReceiptMatches
          <5> DEFINE done == [request |-> r, ref |-> old.ref, outcome |-> "executed"]
          <5>3. done \in jobs /\ done.request = r /\ done.ref = old.ref
                /\ done.outcome = "executed"
            BY <2>1
          <5> HIDE DEF done
          <5> QED
            BY <5>1, <5>2, <5>3 DEF GovernedInv, JobsOK
        <4> QED
          BY <2>2, <3>4, <4>1 DEF RecordExecutionFailureFromExecutor
      <3> QED
        BY <2>7, <3>1, <3>2, <3>3, <3>4 DEF ExecutorStep
    <2> QED
      BY <2>5, <2>6, <2>7 DEF GovernedNext
  <1> QED
    BY <1>1, GovernedInvariance, PTL DEF GovernedSpec, ExecutedIsFinal

-----------------------------------------------------------------------------
(* Retirement vaults.  On an account whose handlers do not overlap, what a   *)
(* running handler has read still holds when it commits, except for a sweep *)
(* that moves a request it wants to cancel; a vault has one request under    *)
(* way at a time; and a request that is being carried out has been approved, *)
(* or needed no approval, and has waited.                                    *)

VaultRequests == Releases \cup RuleChanges
LockRows == [status : {"absent", "active", "released"} \cup Blocked,
             unlockAt : Days, strict : BOOLEAN]
ReleaseRows == [status : RequestStatuses, kind : {"none", "scheduled_unlock", "early_unlock"},
                cooldownEndsAt : Nat, approved : BOOLEAN]
RuleRows == [status : RequestStatuses, unlockAt : Days, strict : BOOLEAN,
             cooldownEndsAt : Nat, approved : BOOLEAN, currentStrict : BOOLEAN]
HandlingRows ==
  [op : VaultOps, id : Fundings \cup VaultRequests \cup Accounts,
   account : Accounts, unlockAt : Days, strict : BOOLEAN,
   target : Blocked \cup {"active"}, at : Days, vault : LockRows]
SweepRows == {NoSweep} \cup [phase : {"listed", "claimed"}, id : VaultRequests]

VaultRowsOK ==
  /\ day \in Days /\ vault \in [Accounts -> LockRows] /\ lockedBalance \in [Accounts -> Nat]
  /\ release \in [Releases -> ReleaseRows] /\ rule \in [RuleChanges -> RuleRows]
HandlingOK == handling \in [VaultHandlers -> HandlingRows \cup {NoVaultRequest}]
SweepOK == sweep \in [Sweepers -> SweepRows]
LockedOK == \A a \in Accounts : lockedBalance[a] = ledger[VaultLiability(a)]

(* What a handler works on belongs to its account.                           *)
HandlerFits(r) ==
  r # NoVaultRequest =>
    /\ r.at <= day
    /\ r.op = "fund" => r.id \in Fundings /\ r.account = Owner[r.id]
    /\ r.op \in {"request_release", "cancel_release", "approve_release", "reject_release"} =>
         r.id \in Releases /\ r.account = Owner[r.id]
    /\ r.op \in {"request_rule", "cancel_rule", "approve_rule", "reject_rule"} =>
         r.id \in RuleChanges /\ r.account = RuleOwner[r.id]

(* The vault is as the handler read it, without a request under way.         *)
AsRead(r) ==
  /\ vault[r.account].status # "absent"
  /\ vault[r.account].unlockAt = r.vault.unlockAt
  /\ vault[r.account].strict = r.vault.strict
  /\ NoActiveRequest(r.account)

HandlerFresh(h, r) ==
  r # NoVaultRequest /\ r.account \notin Racing =>
    /\ \A g \in VaultHandlers :
         handling[g] # NoVaultRequest /\ handling[g].account = r.account => g = h
    /\ r.op = "request_release" => release[r.id].status = "absent" /\ AsRead(r)
    /\ r.op = "request_rule" => rule[r.id].status = "absent" /\ AsRead(r)
    /\ r.op \in {"approve_release", "reject_release"} =>
         release[r.id].status = "review_required"
    /\ r.op \in {"approve_rule", "reject_rule"} => rule[r.id].status = "review_required"

HandlersOK ==
  \A h \in VaultHandlers : HandlerFits(handling[h]) /\ HandlerFresh(h, handling[h])

Paid(r) == <<r, "retirement_vault_release">> \in journals
UnderWay == {"cooldown_active", "ready", "executing"}

ReleaseRowOK(r, row) ==
  /\ row.status \in ActiveRequest => vault[Owner[r]].status # "absent"
  /\ row.status \in UnderWay => row.approved \/ vault[Owner[r]].unlockAt <= day
  /\ row.status \in {"ready", "executing"} => row.cooldownEndsAt <= day
  /\ row.status = "done" => Paid(r)
  /\ Paid(r) => row.status \in {"done", "cancelled"}
ReleaseOK(r) == ReleaseRowOK(r, release[r])
ReleasesOK == \A r \in Releases : Owner[r] \notin Racing => ReleaseOK(r)

RuleRowOK(row) ==
  /\ row.status \in UnderWay => row.approved
  /\ row.status \in {"ready", "executing"} => row.cooldownEndsAt <= day
RuleOK(c) == RuleRowOK(rule[c])
RulesOK == \A c \in RuleChanges : RuleOwner[c] \notin Racing => RuleOK(c)

OneActive ==
  \A x, y \in VaultRequests :
    /\ Subject(x) = Subject(y) /\ Subject(x) \notin Racing
    /\ Row(x).status \in ActiveRequest /\ Row(y).status \in ActiveRequest
    => x = y

(* A claimed request is nobody else's, and only a late cancellation can have *)
(* changed it.                                                               *)
ClaimOK(s, x) ==
  Subject(x) \notin Racing =>
    /\ Row(x).status \in {"executing", "cancelled"}
    /\ x \in Releases => ~Paid(x)
    /\ \A u \in Sweepers : sweep[u].phase = "claimed" /\ sweep[u].id = x => u = s
ClaimsOK == \A s \in Sweepers : sweep[s].phase = "claimed" => ClaimOK(s, sweep[s].id)

VaultInv ==
  /\ LedgerInv /\ VaultRowsOK /\ HandlingOK /\ SweepOK /\ LockedOK
  /\ HandlersOK /\ ReleasesOK /\ RulesOK /\ OneActive /\ ClaimsOK

Calm(a) ==
  /\ vault[a].status # "absent" => vault'[a].status # "absent"
  /\ NoActiveRequest(a) /\ vault[a].status # "absent" =>
       /\ NoActiveRequest(a)'
       /\ vault'[a].unlockAt = vault[a].unlockAt /\ vault'[a].strict = vault[a].strict
  /\ \A r \in Releases :
       Owner[r] = a /\ release[r].status \in {"absent", "review_required"} =>
         release'[r].status = release[r].status
  /\ \A c \in RuleChanges :
       RuleOwner[c] = a /\ rule[c].status \in {"absent", "review_required"} =>
         rule'[c].status = rule[c].status

(* Releases and rule changes have rows of their own, and an account.         *)
LEMMA VaultSubjects ==
  /\ \A r \in Releases :
       /\ r \in Intents /\ r \notin RuleChanges
       /\ Subject(r) = Owner[r] /\ Owner[r] \in Accounts /\ Amount[r] \in Nat \ {0}
       /\ Row(r) = release[r] /\ Row(r)' = release'[r]
  /\ \A c \in RuleChanges :
       /\ Subject(c) = RuleOwner[c] /\ RuleOwner[c] \in Accounts
       /\ Row(c) = rule[c] /\ Row(c)' = rule'[c]
  BY VaultAssumption, LedgerAssumption DEF VaultAssumption, LedgerAssumption, Subject, Row

(* What a handler has read stays true while its account is calm.             *)
LEMMA HandlerStaysFresh ==
  ASSUME NEW h \in VaultHandlers, NEW r \in HandlingRows \cup {NoVaultRequest},
         day \in Nat, day' \in Nat, day <= day',
         HandlerFits(r), HandlerFresh(h, r),
         \A g \in VaultHandlers : handling'[g] \in {handling[g], NoVaultRequest},
         r # NoVaultRequest /\ r.account \notin Racing => Calm(r.account)
  PROVE  HandlerFits(r)' /\ HandlerFresh(h, r)'
  <1>1. HandlerFits(r)'
    <2> SUFFICES ASSUME r # NoVaultRequest PROVE r.at <= day'
      BY DEF HandlerFits
    <2>1. r.at \in Nat /\ r.at <= day
      BY VaultAssumption DEF HandlerFits, HandlingRows, VaultAssumption
    <2> QED
      BY <2>1
  <1>2. ASSUME r # NoVaultRequest, r.account \notin Racing
        PROVE  HandlerFresh(h, r)'
    <2>1. Calm(r.account)
      BY <1>2
    <2>2. \A g \in VaultHandlers :
            handling'[g] # NoVaultRequest /\ handling'[g].account = r.account => g = h
      BY <1>2 DEF HandlerFresh
    <2>3. AsRead(r) => AsRead(r)'
      BY <2>1 DEF Calm, AsRead
    <2>4. /\ r.op = "request_release" => release'[r.id].status = "absent"
          /\ r.op \in {"approve_release", "reject_release"} =>
               release'[r.id].status = "review_required"
      BY <1>2, <2>1 DEF Calm, HandlerFresh, HandlerFits
    <2>5. /\ r.op = "request_rule" => rule'[r.id].status = "absent"
          /\ r.op \in {"approve_rule", "reject_rule"} => rule'[r.id].status = "review_required"
      BY <1>2, <2>1 DEF Calm, HandlerFresh, HandlerFits
    <2>6. r.op \in {"request_release", "request_rule"} => AsRead(r)'
      BY <1>2, <2>3 DEF HandlerFresh
    <2> QED
      BY <2>2, <2>4, <2>5, <2>6 DEF HandlerFresh
  <1> QED
    BY <1>1, <1>2 DEF HandlerFresh

(* A step that starts no handler.                                            *)
LEMMA HandlersFollow ==
  ASSUME VaultInv, VaultRowsOK', day <= day',
         \A g \in VaultHandlers : handling'[g] \in {handling[g], NoVaultRequest},
         \A h \in VaultHandlers :
           handling'[h] # NoVaultRequest /\ handling[h].account \notin Racing =>
             Calm(handling[h].account)
  PROVE  HandlersOK'
  <1> SUFFICES ASSUME NEW h \in VaultHandlers
               PROVE  HandlerFits(handling[h])' /\ HandlerFresh(h, handling[h])'
    BY DEF HandlersOK
  <1>1. day \in Nat /\ day' \in Nat
    BY VaultAssumption DEF VaultAssumption, VaultInv, VaultRowsOK
  <1>2. CASE handling'[h] = NoVaultRequest
    BY <1>2 DEF HandlerFits, HandlerFresh
  <1>3. CASE handling'[h] # NoVaultRequest
    <2>1. PICK r \in HandlingRows \cup {NoVaultRequest} : r = handling[h]
      BY DEF VaultInv, HandlingOK
    <2>2. handling'[h] = r
      BY <1>3, <2>1
    <2>3. HandlerFits(r) /\ HandlerFresh(h, r)
      BY <2>1 DEF VaultInv, HandlersOK
    <2>4. r # NoVaultRequest /\ r.account \notin Racing => Calm(r.account)
      BY <1>3, <2>1
    <2>5. HandlerFits(r)' /\ HandlerFresh(h, r)'
      BY <1>1, <2>3, <2>4, HandlerStaysFresh
    <2> QED
      BY <2>2, <2>5 DEF HandlerFits, HandlerFresh, AsRead
  <1> QED
    BY <1>2, <1>3

(* What happens to one account does not disturb the handlers of another.     *)
LEMMA CalmElsewhere ==
  ASSUME NEW a \in Accounts,
         vault'[a] = vault[a],
         \A r \in Releases : Owner[r] = a => release'[r] = release[r],
         \A c \in RuleChanges : RuleOwner[c] = a => rule'[c] = rule[c]
  PROVE  Calm(a)
  BY DEF Calm, NoActiveRequest

(* A release request stays in order when its row and its vault's date stay.  *)
LEMMA ReleasesFollow ==
  ASSUME VaultInv, VaultRowsOK', day <= day',
         \A a \in Accounts : vault[a].status # "absent" => vault'[a].status # "absent",
         \A r \in Releases : Owner[r] \notin Racing =>
           \/ /\ release'[r] = release[r] /\ (Paid(r)' <=> Paid(r))
              /\ release[r].status \in UnderWay =>
                   vault'[Owner[r]].unlockAt = vault[Owner[r]].unlockAt
           \/ ReleaseOK(r)'
  PROVE  ReleasesOK'
  <1> SUFFICES ASSUME NEW r \in Releases, Owner[r] \notin Racing, release'[r] = release[r],
                      Paid(r)' <=> Paid(r),
                      release[r].status \in UnderWay =>
                        vault'[Owner[r]].unlockAt = vault[Owner[r]].unlockAt
               PROVE  ReleaseOK(r)'
    BY DEF ReleasesOK
  <1>1. Owner[r] \in Accounts
    BY VaultSubjects
  <1>2. /\ day \in Nat /\ day' \in Nat /\ release[r].cooldownEndsAt \in Nat
        /\ vault[Owner[r]].unlockAt \in Nat
    BY <1>1, VaultAssumption DEF VaultAssumption, VaultInv, VaultRowsOK, ReleaseRows, LockRows
  <1>3. ReleaseOK(r)
    BY DEF VaultInv, ReleasesOK
  <1>4. release[r].status \in ActiveRequest => vault'[Owner[r]].status # "absent"
    BY <1>1, <1>3 DEF ReleaseOK, ReleaseRowOK
  <1>5. release[r].status \in UnderWay =>
          release[r].approved \/ vault'[Owner[r]].unlockAt <= day'
    BY <1>2, <1>3 DEF ReleaseOK, ReleaseRowOK
  <1>6. release[r].status \in {"ready", "executing"} => release[r].cooldownEndsAt <= day'
    BY <1>2, <1>3 DEF ReleaseOK, ReleaseRowOK
  <1> QED
    BY <1>3, <1>4, <1>5, <1>6 DEF ReleaseOK, ReleaseRowOK

(* A rule change stays in order when its row stays.                          *)
LEMMA RulesFollow ==
  ASSUME VaultInv, VaultRowsOK', day <= day',
         \A c \in RuleChanges : RuleOwner[c] \notin Racing =>
           rule'[c] = rule[c] \/ RuleOK(c)'
  PROVE  RulesOK'
  <1> SUFFICES ASSUME NEW c \in RuleChanges, RuleOwner[c] \notin Racing, rule'[c] = rule[c]
               PROVE  RuleOK(c)'
    BY DEF RulesOK
  <1>1. /\ day \in Nat /\ day' \in Nat /\ rule[c].cooldownEndsAt \in Nat
    BY VaultAssumption DEF VaultAssumption, VaultInv, VaultRowsOK, RuleRows
  <1>2. RuleOK(c)
    BY DEF VaultInv, RulesOK
  <1> QED
    BY <1>1, <1>2 DEF RuleOK, RuleRowOK

(* A request is opened only where none is under way.                         *)
LEMMA OneActiveFollows ==
  ASSUME VaultInv,
         \A x \in VaultRequests : Subject(x) \notin Racing /\ Row(x)'.status \in ActiveRequest =>
           \/ Row(x).status \in ActiveRequest
           \/ /\ NoActiveRequest(Subject(x))
              /\ \A y \in VaultRequests : y # x => Row(y)' = Row(y)
  PROVE  OneActive'
  <1> SUFFICES ASSUME NEW x \in VaultRequests, NEW y \in VaultRequests,
                      Subject(x) = Subject(y), Subject(x) \notin Racing,
                      Row(x)'.status \in ActiveRequest, Row(y)'.status \in ActiveRequest
               PROVE  x = y
    BY DEF OneActive, Subject
  <1>1. \A z \in VaultRequests :
          NoActiveRequest(Subject(z)) => Row(z).status \notin ActiveRequest
    BY VaultSubjects DEF NoActiveRequest, VaultRequests
  <1>2. CASE Row(x).status \in ActiveRequest /\ Row(y).status \in ActiveRequest
    BY <1>2 DEF VaultInv, OneActive
  <1>3. CASE Row(x).status \notin ActiveRequest
    BY <1>1, <1>3
  <1>4. CASE Row(y).status \notin ActiveRequest
    BY <1>1, <1>4
  <1> QED
    BY <1>2, <1>3, <1>4

(* A sweep that goes on has its claim for itself, whatever another step does.*)
LEMMA ClaimsFollow ==
  ASSUME VaultInv,
         \A s \in Sweepers : sweep'[s].phase = "claimed" => sweep'[s] = sweep[s],
         \A s \in Sweepers, x \in VaultRequests :
           /\ sweep[s] = sweep'[s] /\ sweep[s].phase = "claimed" /\ sweep[s].id = x
           /\ Subject(x) \notin Racing
           => /\ Row(x)'.status \in {"executing", "cancelled"}
              /\ x \in Releases /\ Paid(x)' => Paid(x)
  PROVE  ClaimsOK'
  <1> SUFFICES ASSUME NEW s \in Sweepers, sweep'[s].phase = "claimed"
               PROVE  ClaimOK(s, sweep[s].id)'
    BY DEF ClaimsOK
  <1>1. sweep'[s] = sweep[s] /\ sweep[s] \in SweepRows
    BY DEF VaultInv, SweepOK
  <1>2. PICK x \in VaultRequests : x = sweep[s].id
    BY <1>1 DEF SweepRows, NoSweep
  <1>3. ClaimOK(s, x)
    BY <1>1, <1>2 DEF VaultInv, ClaimsOK
  <1>4. ClaimOK(s, x)'
    <2> SUFFICES ASSUME Subject(x) \notin Racing
                 PROVE  /\ Row(x)'.status \in {"executing", "cancelled"}
                        /\ x \in Releases => ~Paid(x)'
                        /\ \A u \in Sweepers :
                             sweep'[u].phase = "claimed" /\ sweep'[u].id = x => u = s
      BY DEF ClaimOK, Subject
    <2>1. /\ Row(x)'.status \in {"executing", "cancelled"}
          /\ x \in Releases /\ Paid(x)' => Paid(x)
      BY <1>1, <1>2
    <2>2. \A u \in Sweepers : sweep'[u].phase = "claimed" /\ sweep'[u].id = x => u = s
      BY <1>3 DEF ClaimOK
    <2> QED
      BY <1>3, <2>1, <2>2 DEF ClaimOK
  <1> QED
    BY <1>1, <1>2, <1>4 DEF ClaimOK

(* Rows that stay keep the claims of the sweeps that go on.                  *)
LEMMA ClaimsUntouched ==
  ASSUME VaultInv, UNCHANGED <<release, rule>>, \A r \in Releases : Paid(r)' <=> Paid(r),
         \A s \in Sweepers : sweep'[s].phase = "claimed" => sweep'[s] = sweep[s]
  PROVE  ClaimsOK'
  <1>1. \A s \in Sweepers, x \in VaultRequests :
           /\ sweep[s] = sweep'[s] /\ sweep[s].phase = "claimed" /\ sweep[s].id = x
           /\ Subject(x) \notin Racing
           => /\ Row(x)'.status \in {"executing", "cancelled"}
              /\ x \in Releases /\ Paid(x)' => Paid(x)
    <2> SUFFICES ASSUME NEW s \in Sweepers, NEW x \in VaultRequests,
                        sweep[s].phase = "claimed", sweep[s].id = x, Subject(x) \notin Racing
                 PROVE  Row(x)'.status \in {"executing", "cancelled"}
      OBVIOUS
    <2>1. ClaimOK(s, x)
      BY DEF VaultInv, ClaimsOK
    <2> QED
      BY <2>1 DEF ClaimOK, Row
  <1> QED
    BY <1>1, ClaimsFollow

(* Some day comes next while there are days left.                            *)
LEMMA NextDay ==
  ASSUME Days \subseteq Nat, day \in Days, day # Max(Days), day' = Min({d \in Days : d > day})
  PROVE  day' \in Days /\ day <= day'
  <1> DEFINE Later == {d \in Days : d > day}
  <1>1. Later # {}
    <2> SUFFICES ASSUME Later = {} PROVE FALSE
      OBVIOUS
    <2>1. \A d \in Days : day >= d
      OBVIOUS
    <2>2. Max(Days) \in Days /\ \A d \in Days : Max(Days) >= d
      <3> DEFINE P(x) == \A d \in Days : x >= d
      <3>1. \E x \in Days : P(x)
        BY <2>1
      <3>2. Max(Days) = CHOOSE x \in Days : P(x)
        BY DEF Max
      <3> HIDE DEF P
      <3>3. Max(Days) \in Days /\ P(Max(Days))
        BY <3>1, <3>2, Zenon
      <3> QED
        BY <3>3 DEF P
    <2>3. Max(Days) >= day /\ day >= Max(Days) /\ Max(Days) \in Nat /\ day \in Nat
      BY <2>1, <2>2
    <2> QED
      BY <2>3
  <1>2. \E x \in Later : \A y \in Later : x <= y
    <2>1. \E x \in Later : \A y \in Later : ~ (<<y, x>> \in OpToRel(<, Nat))
      <3>1. Later \subseteq Nat
        OBVIOUS
      <3> HIDE DEF Later
      <3> QED
        BY <1>1, <3>1, NatLessThanWellFounded, WFMin, Zenon
    <2>2. \A x, y \in Nat : <<y, x>> \in OpToRel(<, Nat) <=> y < x
      BY DEF OpToRel
    <2>3. \A x \in Later : x \in Nat
      OBVIOUS
    <2> HIDE DEF Later
    <2>4. PICK x \in Later : \A y \in Later : ~ (<<y, x>> \in OpToRel(<, Nat))
      BY <2>1
    <2>5. \A y \in Later : ~ (y < x)
      BY <2>2, <2>3, <2>4
    <2>6. \A y \in Later : x <= y
      BY <2>3, <2>5
    <2> QED
      BY <2>6
  <1>3. Min(Later) \in Later
    <2> DEFINE P(x) == \A y \in Later : x =< y
    <2>1. \E x \in Later : P(x)
      BY <1>2
    <2>2. Min(Later) = CHOOSE x \in Later : P(x)
      BY DEF Min
    <2> HIDE DEF P, Later
    <2> QED
      BY <2>1, <2>2, Zenon
  <1>4. day' \in Later
    BY <1>3
  <1>5. \A d \in Later : d \in Days /\ d > day /\ d \in Nat /\ day \in Nat
    OBVIOUS
  <1>6. day' \in Days /\ day' > day /\ day' \in Nat /\ day \in Nat
    <2> HIDE DEF Later
    <2> QED
      BY <1>4, <1>5
  <1> QED
    BY <1>6

-----------------------------------------------------------------------------
(* A step that writes no row of the service.                                 *)
LEMMA RowsUntouched ==
  ASSUME VaultInv, UNCHANGED vaultRows, LedgerInv', day' \in Days, day <= day',
         \A a \in Accounts : ledger'[VaultLiability(a)] = ledger[VaultLiability(a)],
         \A r \in Releases : Paid(r)' <=> Paid(r)
  PROVE  /\ VaultRowsOK' /\ LockedOK' /\ ReleasesOK' /\ RulesOK' /\ OneActive'
         /\ \A a \in Accounts : Calm(a)
  <1>1. UNCHANGED <<vault, lockedBalance, release, rule>>
    BY DEF vaultRows
  <1>2. VaultRowsOK' /\ LockedOK'
    BY <1>1 DEF VaultInv, VaultRowsOK, LockedOK
  <1>3. ReleasesOK'
    BY <1>1, <1>2, ReleasesFollow
  <1>4. RulesOK'
    BY <1>1, <1>2, RulesFollow
  <1>5. OneActive'
    BY <1>1 DEF VaultInv, OneActive, Row
  <1>6. \A a \in Accounts : Calm(a)
    BY <1>1 DEF Calm, NoActiveRequest
  <1> QED
    BY <1>2, <1>3, <1>4, <1>5, <1>6

(* The same when the ledger stands still as well.                            *)
LEMMA LedgerUntouched ==
  ASSUME VaultInv, UNCHANGED ledgerVars
  PROVE  /\ LedgerInv'
         /\ \A a \in Accounts : ledger'[VaultLiability(a)] = ledger[VaultLiability(a)]
         /\ \A r \in Releases : Paid(r)' <=> Paid(r)
  BY DEF VaultInv, ledgerVars, LedgerInv, LedgerTypeOK, ProjectionMatchesLedger, Paid

(* Deposits of the customer, holds, the passage of days.                     *)
LEMMA VaultEnvironment ==
  ASSUME VaultInv,
         \/ \E d \in Intents \ (Fundings \cup Releases) : CreditVaultCustomer(d)
         \/ \E a \in Accounts : ChangeAccountHold(a)
         \/ PassDays
  PROVE  VaultInv'
  <1>1. /\ UNCHANGED <<vaultRows, handling, sweep>>
        /\ LedgerInv'
        /\ \A a \in Accounts : ledger'[VaultLiability(a)] = ledger[VaultLiability(a)]
        /\ \A r \in Releases : Paid(r)' <=> Paid(r)
    <2>1. CASE \E d \in Intents \ (Fundings \cup Releases) : CreditVaultCustomer(d)
      <3>1. PICK d \in Intents : CreditVaultCustomer(d)
        BY <2>1
      <3>2. LedgerInv /\ SettleConfirmedDeposit(d)
        BY <3>1 DEF CreditVaultCustomer, VaultInv
      <3>3. LedgerInv' /\ journals' = journals \cup {<<d, "deposit_settlement">>}
        BY <3>2, SettleConfirmedDepositStep
      <3>4. \A a \in Accounts : ledger'[VaultLiability(a)] = ledger[VaultLiability(a)]
        BY <3>2, SettleConfirmedDepositKeepsVaults
      <3>5. \A r \in Releases : Paid(r)' <=> Paid(r)
        BY <3>3 DEF Paid
      <3> QED
        BY <3>1, <3>3, <3>4, <3>5 DEF CreditVaultCustomer, vaultVars
    <2>2. CASE (\E a \in Accounts : ChangeAccountHold(a)) \/ PassDays
      <3>1. UNCHANGED <<ledgerVars, vaultRows, handling, sweep>>
        BY <2>2 DEF ChangeAccountHold, PassDays
      <3> QED
        BY <3>1, LedgerUntouched
    <2> QED
      BY <2>1, <2>2
  <1>2. day' \in Days /\ day <= day'
    <2>1. day \in Days /\ Days \subseteq Nat
      BY VaultAssumption DEF VaultAssumption, VaultInv, VaultRowsOK
    <2>2. CASE PassDays
      BY <2>1, <2>2, NextDay DEF PassDays
    <2>3. CASE ~PassDays
      <3>1. day' = day
        BY <2>3 DEF CreditVaultCustomer, ChangeAccountHold, vaultVars
      <3> QED
        BY <2>1, <3>1
    <2> QED
      BY <2>2, <2>3
  <1>3. /\ VaultRowsOK' /\ LockedOK' /\ ReleasesOK' /\ RulesOK' /\ OneActive'
        /\ \A a \in Accounts : Calm(a)
    BY <1>1, <1>2, RowsUntouched
  <1>4. HandlersOK'
    <2>1. \A h \in VaultHandlers :
            handling'[h] # NoVaultRequest => Calm(handling[h].account)
      BY <1>1, <1>3 DEF VaultInv, HandlingOK, HandlingRows
    <2> QED
      BY <1>1, <1>2, <1>3, <2>1, HandlersFollow
  <1>5. ClaimsOK'
    BY <1>1, ClaimsUntouched DEF vaultRows
  <1>6. HandlingOK' /\ SweepOK'
    BY <1>1 DEF VaultInv, HandlingOK, SweepOK
  <1> QED
    BY <1>1, <1>3, <1>4, <1>5, <1>6 DEF VaultInv

(* A step that changes only what handlers and sweeps remember.               *)
LEMMA OnlyMemory ==
  ASSUME VaultInv, UNCHANGED <<ledgerVars, day, vaultRows>>
  PROVE  /\ LedgerInv' /\ VaultRowsOK' /\ LockedOK' /\ ReleasesOK' /\ RulesOK' /\ OneActive'
         /\ \A a \in Accounts : Calm(a)
         /\ \A r \in Releases : Paid(r)' <=> Paid(r)
  <1>1. day' \in Days /\ day <= day'
    BY VaultAssumption DEF VaultAssumption, VaultInv, VaultRowsOK
  <1> QED
    BY <1>1, LedgerUntouched, RowsUntouched

(* A handler gives up; a sweep dies, or picks a request from its list.       *)
LEMMA MemoryStep ==
  ASSUME VaultInv,
         \/ \E h \in VaultHandlers : AbortVaultRequest(h)
         \/ \E s \in Sweepers : \/ CrashSweep(s)
                                \/ \E x \in Releases \cup RuleChanges : ListReady(s, x)
  PROVE  VaultInv'
  <1>1. /\ UNCHANGED <<ledgerVars, day, vaultRows>>
        /\ \A g \in VaultHandlers : handling'[g] \in {handling[g], NoVaultRequest}
        /\ \A s \in Sweepers : sweep'[s].phase = "claimed" => sweep'[s] = sweep[s]
        /\ HandlingOK' /\ SweepOK'
    <2>1. CASE \E h \in VaultHandlers : AbortVaultRequest(h)
      BY <2>1 DEF AbortVaultRequest, VaultInv, HandlingOK, SweepOK
    <2>2. CASE \E s \in Sweepers : CrashSweep(s)
      <3>1. PICK s \in Sweepers : CrashSweep(s)
        BY <2>2
      <3>2. /\ sweep' = [sweep EXCEPT ![s] = NoSweep] /\ NoSweep.phase # "claimed"
            /\ UNCHANGED <<ledgerVars, day, vaultRows, handling>>
        BY <3>1 DEF CrashSweep, NoSweep
      <3> QED
        BY <3>2 DEF VaultInv, HandlingOK, SweepOK, SweepRows
    <2>3. CASE \E s \in Sweepers : \E x \in Releases \cup RuleChanges : ListReady(s, x)
      <3>1. PICK s \in Sweepers, x \in VaultRequests : ListReady(s, x)
        BY <2>3 DEF VaultRequests
      <3>2. /\ sweep' = [sweep EXCEPT ![s] = [phase |-> "listed", id |-> x]]
            /\ UNCHANGED <<ledgerVars, day, vaultRows, handling>>
        BY <3>1 DEF ListReady
      <3>3. SweepOK'
        BY <3>2 DEF VaultInv, SweepOK, SweepRows
      <3>4. \A u \in Sweepers : sweep'[u].phase = "claimed" => sweep'[u] = sweep[u]
        BY <3>2 DEF VaultInv, SweepOK
      <3> QED
        BY <3>2, <3>3, <3>4 DEF VaultInv, HandlingOK
    <2> QED
      BY <2>1, <2>2, <2>3
  <1>2. /\ LedgerInv' /\ VaultRowsOK' /\ LockedOK' /\ ReleasesOK' /\ RulesOK' /\ OneActive'
        /\ \A a \in Accounts : Calm(a)
        /\ \A r \in Releases : Paid(r)' <=> Paid(r)
    BY <1>1, OnlyMemory
  <1>3. HandlersOK'
    <2>1. \A h \in VaultHandlers :
            handling'[h] # NoVaultRequest => Calm(handling[h].account)
      BY <1>1, <1>2 DEF VaultInv, HandlingOK, HandlingRows
    <2>2. day <= day'
      BY <1>1, VaultAssumption DEF VaultAssumption, VaultInv, VaultRowsOK
    <2> QED
      BY <1>1, <1>2, <2>1, <2>2, HandlersFollow
  <1>4. ClaimsOK'
    BY <1>1, <1>2, ClaimsUntouched DEF vaultRows
  <1> QED
    BY <1>1, <1>2, <1>3, <1>4 DEF VaultInv

(* A handler reads and checks; on an account without races it is alone.      *)
LEMMA BeginStep ==
  ASSUME VaultInv, NEW h \in VaultHandlers, NEW op \in VaultOps,
         NEW x \in Fundings \cup VaultRequests \cup Accounts, NEW a \in Accounts,
         NEW unlockAt \in Days, NEW strict \in BOOLEAN, NEW target \in Blocked \cup {"active"},
         op = "fund" => x \in Fundings /\ a = Owner[x],
         op \in {"request_release", "cancel_release", "approve_release", "reject_release"} =>
           x \in Releases /\ a = Owner[x],
         op \in {"request_rule", "cancel_rule", "approve_rule", "reject_rule"} =>
           x \in RuleChanges /\ a = RuleOwner[x],
         BeginVaultRequest(h, op, x, a, unlockAt, strict, target)
  PROVE  VaultInv'
  <1> DEFINE new == [op |-> op, id |-> x, account |-> a, unlockAt |-> unlockAt,
                     strict |-> strict, target |-> target, at |-> day, vault |-> vault[a]]
  <1>1. PICK r : r = new
    OBVIOUS
  <1>2. /\ r.op = op /\ r.id = x /\ r.account = a /\ r.at = day /\ r.vault = vault[a]
        /\ r \in HandlingRows
    BY <1>1 DEF VaultInv, VaultRowsOK, HandlingRows
  <1>3. r # NoVaultRequest
    BY <1>2 DEF NoVaultRequest, HandlingRows, VaultOps
  <1>4. /\ UNCHANGED <<ledgerVars, day, vaultRows, sweep>>
        /\ handling' = [handling EXCEPT ![h] = r]
    BY <1>1 DEF BeginVaultRequest
  <1> HIDE DEF new
  <1>5. /\ HandlingOK' /\ SweepOK'
        /\ \A g \in VaultHandlers : handling'[g] = IF g = h THEN r ELSE handling[g]
    BY <1>2, <1>4 DEF VaultInv, HandlingOK, SweepOK
  <1>6. /\ LedgerInv' /\ VaultRowsOK' /\ LockedOK' /\ ReleasesOK' /\ RulesOK' /\ OneActive'
        /\ \A b \in Accounts : Calm(b)
        /\ \A q \in Releases : Paid(q)' <=> Paid(q)
    BY <1>4, OnlyMemory
  <1>7. ClaimsOK'
    BY <1>4, <1>6, ClaimsUntouched DEF vaultRows
  <1>8. HandlerFits(r)'
    BY <1>2, <1>4, VaultAssumption DEF VaultAssumption, VaultInv, VaultRowsOK, HandlerFits
  <1>9. \A g \in VaultHandlers :
          handling[g] # NoVaultRequest /\ handling[g].account = a => a \in Racing
    BY DEF BeginVaultRequest
  <1>10. HandlerFresh(h, r)'
    <2> SUFFICES ASSUME a \notin Racing PROVE HandlerFresh(h, r)'
      BY <1>2 DEF HandlerFresh
    <2>1. \A g \in VaultHandlers :
            handling'[g] # NoVaultRequest /\ handling'[g].account = a => g = h
      BY <1>5, <1>9
    <2>2. MayHandle(op, x, unlockAt, strict, target)
      BY DEF BeginVaultRequest
    <2>3. op = "request_release" => release[x].status = "absent" /\ AsRead(r)
      <3> SUFFICES ASSUME op = "request_release" PROVE release[x].status = "absent" /\ AsRead(r)
        OBVIOUS
      <3>1. MayRequestRelease(x) /\ a = Owner[x]
        BY <2>2 DEF MayHandle
      <3> QED
        BY <1>2, <3>1 DEF MayRequestRelease, CustomerMay, AsRead
    <2>4. op = "request_rule" => rule[x].status = "absent" /\ AsRead(r)
      <3> SUFFICES ASSUME op = "request_rule" PROVE rule[x].status = "absent" /\ AsRead(r)
        OBVIOUS
      <3>1. MayRequestRule(x, unlockAt, strict) /\ a = RuleOwner[x]
        BY <2>2 DEF MayHandle
      <3> QED
        BY <1>2, <3>1 DEF MayRequestRule, CustomerMay, AsRead
    <2>5. /\ op \in {"approve_release", "reject_release"} =>
               release[x].status = "review_required"
          /\ op \in {"approve_rule", "reject_rule"} => rule[x].status = "review_required"
      BY <2>2 DEF MayHandle
    <2>6. AsRead(r) => AsRead(r)'
      BY <1>4 DEF AsRead, NoActiveRequest, vaultRows
    <2> QED
      BY <1>2, <1>4, <2>1, <2>3, <2>4, <2>5, <2>6 DEF HandlerFresh, vaultRows
  <1>11. ASSUME NEW g \in VaultHandlers
         PROVE  HandlerFits(handling[g])' /\ HandlerFresh(g, handling[g])'
    <2>1. CASE g = h
      <3>1. handling'[g] = r
        BY <1>5, <2>1
      <3> QED
        BY <1>8, <1>10, <2>1, <3>1 DEF HandlerFits, HandlerFresh, AsRead
    <2>2. CASE g # h
      <3>1. PICK q \in HandlingRows \cup {NoVaultRequest} : q = handling[g]
        BY DEF VaultInv, HandlingOK
      <3>2. HandlerFits(q) /\ HandlerFresh(g, q)
        BY <3>1 DEF VaultInv, HandlersOK
      <3>3. HandlerFits(q)'
        BY <1>4, <3>2 DEF HandlerFits
      <3>4. HandlerFresh(g, q)'
        <4> SUFFICES ASSUME q # NoVaultRequest, q.account \notin Racing
                     PROVE  HandlerFresh(g, q)'
          BY DEF HandlerFresh
        <4>1. q.account # a
          BY <1>9, <3>1
        <4>2. \A k \in VaultHandlers :
                handling'[k] # NoVaultRequest /\ handling'[k].account = q.account => k = g
          BY <1>2, <1>5, <3>2, <4>1 DEF HandlerFresh
        <4>3. AsRead(q) => AsRead(q)'
          BY <1>4 DEF AsRead, NoActiveRequest, vaultRows
        <4> QED
          BY <1>4, <3>2, <4>2, <4>3 DEF HandlerFresh, vaultRows
      <3>5. handling'[g] = q
        BY <1>5, <2>2, <3>1
      <3> QED
        BY <3>3, <3>4, <3>5 DEF HandlerFits, HandlerFresh, AsRead
    <2> QED
      BY <2>1, <2>2
  <1>12. HandlersOK'
    BY <1>11 DEF HandlersOK
  <1> QED
    BY <1>5, <1>6, <1>7, <1>12 DEF VaultInv

(* A step that writes one request row.                                       *)
LEMMA RequestRowWritten ==
  ASSUME VaultInv, NEW x \in VaultRequests, NEW row,
         \/ /\ x \in Releases /\ row \in ReleaseRows
            /\ release' = [release EXCEPT ![x] = row] /\ rule' = rule
         \/ /\ x \in RuleChanges /\ row \in RuleRows
            /\ rule' = [rule EXCEPT ![x] = row] /\ release' = release,
         UNCHANGED <<ledgerVars, day, vault, lockedBalance>>,
         Subject(x) \notin Racing =>
           /\ x \in Releases => ReleaseRowOK(x, row)
           /\ x \in RuleChanges => RuleRowOK(row)
           /\ row.status \in ActiveRequest =>
                Row(x).status \in ActiveRequest \/ NoActiveRequest(Subject(x))
  PROVE  /\ LedgerInv' /\ VaultRowsOK' /\ LockedOK' /\ ReleasesOK' /\ RulesOK' /\ OneActive'
         /\ \A y \in VaultRequests : Row(y)' = IF y = x THEN row ELSE Row(y)
         /\ \A r \in Releases : release'[r] = IF r = x THEN row ELSE release[r]
         /\ \A c \in RuleChanges : rule'[c] = IF c = x THEN row ELSE rule[c]
  <1>1. /\ LedgerInv'
        /\ \A r \in Releases : Paid(r)' <=> Paid(r)
    BY LedgerUntouched
  <1>2. VaultRowsOK'
    BY DEF VaultInv, VaultRowsOK
  <1>3. LockedOK'
    BY DEF VaultInv, LockedOK, ledgerVars
  <1>4. /\ \A r \in Releases : release'[r] = IF r = x THEN row ELSE release[r]
        /\ \A c \in RuleChanges : rule'[c] = IF c = x THEN row ELSE rule[c]
    BY VaultSubjects, VaultAssumption DEF VaultInv, VaultRowsOK, VaultAssumption
  <1>5. \A y \in VaultRequests : Row(y)' = IF y = x THEN row ELSE Row(y)
    BY <1>4, VaultSubjects DEF VaultRequests
  <1>6. day <= day'
    BY VaultAssumption DEF VaultInv, VaultRowsOK, VaultAssumption
  <1>7. ReleasesOK'
    <2>1. ASSUME NEW r \in Releases, Owner[r] \notin Racing
          PROVE  \/ /\ release'[r] = release[r] /\ (Paid(r)' <=> Paid(r))
                    /\ release[r].status \in UnderWay =>
                         vault'[Owner[r]].unlockAt = vault[Owner[r]].unlockAt
                 \/ ReleaseOK(r)'
      <3>1. CASE r = x
        <4>1. ReleaseRowOK(r, row) /\ release'[r] = row
          BY <1>4, <2>1, <3>1, VaultSubjects
        <4>2. ReleaseRowOK(r, row)'
          BY <1>1, <4>1 DEF ReleaseRowOK
        <4> QED
          BY <4>1, <4>2 DEF ReleaseOK, ReleaseRowOK
      <3>2. CASE r # x
        BY <1>1, <1>4, <3>2
      <3> QED
        BY <3>1, <3>2
    <2> QED
      BY <1>2, <1>6, <2>1, ReleasesFollow
  <1>8. RulesOK'
    <2>1. ASSUME NEW c \in RuleChanges, RuleOwner[c] \notin Racing
          PROVE  rule'[c] = rule[c] \/ RuleOK(c)'
      <3>1. CASE c = x
        <4>1. RuleRowOK(row) /\ rule'[c] = row
          BY <1>4, <2>1, <3>1, VaultSubjects
        <4> QED
          BY <4>1 DEF RuleOK, RuleRowOK
      <3>2. CASE c # x
        BY <1>4, <3>2
      <3> QED
        BY <3>1, <3>2
    <2> QED
      BY <1>2, <1>6, <2>1, RulesFollow
  <1>9. OneActive'
    BY <1>5, OneActiveFollows
  <1> QED
    BY <1>1, <1>2, <1>3, <1>4, <1>5, <1>7, <1>8, <1>9

(* The handler that commits was alone on its account, or races are allowed.  *)
LEMMA CommittingHandler ==
  ASSUME VaultInv, NEW h \in VaultHandlers, NEW op \in VaultOps, Committing(h, op),
         VaultRowsOK',
         \A b \in Accounts : b # handling[h].account =>
           /\ vault'[b] = vault[b]
           /\ \A r \in Releases : Owner[r] = b => release'[r] = release[r]
           /\ \A c \in RuleChanges : RuleOwner[c] = b => rule'[c] = rule[c]
  PROVE  HandlersOK' /\ HandlingOK' /\ SweepOK'
  <1>1. /\ handling' = [handling EXCEPT ![h] = NoVaultRequest]
        /\ UNCHANGED <<day, sweep>> /\ handling[h] # NoVaultRequest
    BY DEF Committing, NoVaultRequest, VaultOps
  <1>2. HandlingOK' /\ SweepOK'
    BY <1>1 DEF VaultInv, HandlingOK, SweepOK
  <1>3. \A g \in VaultHandlers :
          handling'[g] = IF g = h THEN NoVaultRequest ELSE handling[g]
    BY <1>1 DEF VaultInv, HandlingOK
  <1>4. ASSUME NEW g \in VaultHandlers, handling'[g] # NoVaultRequest,
               handling[g].account \notin Racing
        PROVE  Calm(handling[g].account)
    <2>1. g # h /\ handling[g] # NoVaultRequest
      BY <1>3, <1>4
    <2>2. PICK b \in Accounts : b = handling[g].account
      BY <2>1 DEF VaultInv, HandlingOK, HandlingRows
    <2>3. HandlerFresh(g, handling[g])
      BY DEF VaultInv, HandlersOK
    <2>4. b # handling[h].account
      BY <1>1, <1>4, <2>1, <2>2, <2>3 DEF HandlerFresh
    <2>5. Calm(b)
      BY <2>4, CalmElsewhere
    <2> QED
      BY <2>2, <2>5
  <1>5. day <= day'
    BY <1>1, VaultAssumption DEF VaultInv, VaultRowsOK, VaultAssumption
  <1>6. \A g \in VaultHandlers : handling'[g] \in {handling[g], NoVaultRequest}
    BY <1>3
  <1>7. HandlersOK'
    BY <1>4, <1>5, <1>6, HandlersFollow
  <1> QED
    BY <1>2, <1>7

(* A handler that writes the row of its request.                             *)
LEMMA HandlerWritesRow ==
  ASSUME VaultInv, NEW h \in VaultHandlers, NEW op \in VaultOps, Committing(h, op),
         NEW x \in VaultRequests, Subject(x) = handling[h].account, NEW row,
         \/ /\ x \in Releases /\ row \in ReleaseRows
            /\ release' = [release EXCEPT ![x] = row] /\ rule' = rule
         \/ /\ x \in RuleChanges /\ row \in RuleRows
            /\ rule' = [rule EXCEPT ![x] = row] /\ release' = release,
         UNCHANGED <<ledgerVars, vault, lockedBalance>>,
         Subject(x) \notin Racing =>
           /\ x \in Releases => ReleaseRowOK(x, row)
           /\ x \in RuleChanges => RuleRowOK(row)
           /\ row.status \in ActiveRequest =>
                Row(x).status \in ActiveRequest \/ NoActiveRequest(Subject(x))
           /\ Row(x).status \in {"executing", "cancelled"} => row.status = "cancelled"
  PROVE  VaultInv'
  <1>1. UNCHANGED <<day, sweep>>
    BY DEF Committing
  <1>2. /\ LedgerInv' /\ VaultRowsOK' /\ LockedOK' /\ ReleasesOK' /\ RulesOK' /\ OneActive'
        /\ \A y \in VaultRequests : Row(y)' = IF y = x THEN row ELSE Row(y)
        /\ \A r \in Releases : release'[r] = IF r = x THEN row ELSE release[r]
        /\ \A c \in RuleChanges : rule'[c] = IF c = x THEN row ELSE rule[c]
    BY <1>1, RequestRowWritten
  <1>3. HandlersOK' /\ HandlingOK' /\ SweepOK'
    <2>1. /\ \A r \in Releases : Owner[r] # handling[h].account => release'[r] = release[r]
          /\ \A c \in RuleChanges : RuleOwner[c] # handling[h].account => rule'[c] = rule[c]
      BY <1>2, VaultSubjects
    <2>2. \A b \in Accounts : b # handling[h].account =>
           /\ vault'[b] = vault[b]
           /\ \A r \in Releases : Owner[r] = b => release'[r] = release[r]
           /\ \A c \in RuleChanges : RuleOwner[c] = b => rule'[c] = rule[c]
      BY <2>1
    <2> QED
      BY <1>2, <2>2, CommittingHandler
  <1>4. ClaimsOK'
    <2>1. \A r \in Releases : Paid(r)' <=> Paid(r)
      BY LedgerUntouched
    <2>2. ASSUME NEW s \in Sweepers, NEW y \in VaultRequests,
                 sweep[s].phase = "claimed", sweep[s].id = y, Subject(y) \notin Racing
          PROVE  Row(y)'.status \in {"executing", "cancelled"}
      <3>1. Row(y).status \in {"executing", "cancelled"}
        BY <2>2 DEF VaultInv, ClaimsOK, ClaimOK
      <3>2. CASE y = x
        BY <1>2, <2>2, <3>1, <3>2
      <3>3. CASE y # x
        BY <1>2, <3>1, <3>3
      <3> QED
        BY <3>2, <3>3
    <2> QED
      BY <1>1, <2>1, <2>2, ClaimsFollow
  <1> QED
    BY <1>2, <1>3, <1>4 DEF VaultInv

(* The handlers that write the row of a release request or of a rule change, *)
(* except for a change of the rules that takes effect at once.               *)
LEMMA CommitRowStep ==
  ASSUME VaultInv, NEW h \in VaultHandlers,
         \/ CommitRequestRelease(h) \/ CommitCancelRelease(h) \/ CommitApproveRelease(h)
         \/ CommitRejectRelease(h) \/ CommitCancelRule(h) \/ CommitApproveRule(h)
         \/ CommitRejectRule(h)
         \/ /\ CommitRequestRule(h)
            /\ Weakens(handling[h].vault, handling[h].unlockAt, handling[h].strict)
  PROVE  VaultInv'
  <1>1. PICK r \in HandlingRows \cup {NoVaultRequest} : r = handling[h]
    BY DEF VaultInv, HandlingOK
  <1>2. HandlerFits(r) /\ HandlerFresh(h, r)
    BY <1>1 DEF VaultInv, HandlersOK
  <1>3. r # NoVaultRequest
    BY <1>1 DEF CommitRequestRelease, CommitCancelRelease, CommitApproveRelease,
                CommitRejectRelease, CommitCancelRule, CommitApproveRule, CommitRejectRule,
                CommitRequestRule, SetRelease, SetRule, Committing, NoVaultRequest
  <1>4. /\ r \in HandlingRows /\ r.at \in Nat /\ day \in Nat /\ r.at <= day
        /\ r.vault.strict \in BOOLEAN /\ r.vault.unlockAt \in Nat
        /\ r.account \in Accounts
    BY <1>1, <1>2, <1>3, VaultAssumption
       DEF VaultInv, VaultRowsOK, VaultAssumption, HandlerFits, HandlingRows, LockRows
  <1>5. /\ {"review_required", "cooldown_active"} \subseteq RequestStatuses \cap ActiveRequest
        /\ {"cancelled", "rejected"} \subseteq RequestStatuses
        /\ {"cancelled", "rejected"} \cap ActiveRequest = {}
    BY DEF RequestStatuses, ActiveRequest
  <1>6. \A k, strict : ReleaseCooldown(strict, k) \in Nat /\ RuleChangeCooldown(strict) \in Nat
    BY DEF ReleaseCooldown, RuleChangeCooldown
  <1>7. VaultRequests = Releases \cup RuleChanges
    BY DEF VaultRequests
  <1>10. CASE CommitRequestRelease(h)
    <2>1. /\ Committing(h, "request_release") /\ r.op = "request_release"
          /\ UNCHANGED <<ledgerVars, vault, lockedBalance, rule>>
      BY <1>1, <1>10 DEF CommitRequestRelease, Committing
    <2>2. r.id \in Releases /\ r.account = Owner[r.id]
      BY <1>2, <1>3, <2>1 DEF HandlerFits
    <2> DEFINE kind == ReleaseKind(r.vault, r.at)
    <2>3. PICK row : row = IF kind = "early_unlock"
         THEN [NoRow EXCEPT !.status = "review_required", !.kind = kind]
         ELSE [status |-> "cooldown_active", kind |-> kind,
               cooldownEndsAt |-> r.at + ReleaseCooldown(r.vault.strict, kind),
               approved |-> FALSE]
      OBVIOUS
    <2>4. release' = [release EXCEPT ![r.id] = row]
      BY <1>1, <1>10, <2>3 DEF CommitRequestRelease
    <2>5. kind \in {"scheduled_unlock", "early_unlock"}
          /\ (kind # "early_unlock" => r.vault.unlockAt <= r.at)
      BY DEF ReleaseKind
    <2> HIDE DEF kind
    <2>10. PICK ends \in Nat : ends = r.at + ReleaseCooldown(r.vault.strict, kind)
      BY <1>4, <1>6
    <2>11. NoRow \in ReleaseRows
      BY DEF NoRow, ReleaseRows, RequestStatuses
    <2>6. /\ row \in ReleaseRows /\ row.status \in {"review_required", "cooldown_active"}
          /\ row.status = "cooldown_active" => kind # "early_unlock"
      <3>1. CASE kind = "early_unlock"
        <4>1. row = [NoRow EXCEPT !.status = "review_required", !.kind = kind]
          BY <2>3, <3>1
        <4> QED
          BY <1>5, <2>11, <3>1, <4>1 DEF ReleaseRows
      <3>2. CASE kind # "early_unlock"
        <4>1. row = [status |-> "cooldown_active", kind |-> kind, cooldownEndsAt |-> ends,
                     approved |-> FALSE]
          BY <2>3, <2>10, <3>2
        <4> QED
          BY <1>5, <2>5, <3>2, <4>1 DEF ReleaseRows
      <3> QED
        BY <3>1, <3>2
    <2>7. ASSUME Subject(r.id) \notin Racing
          PROVE  ReleaseRowOK(r.id, row) /\ NoActiveRequest(Subject(r.id))
                   /\ Row(r.id).status = "absent"
      <3>1. release[r.id].status = "absent" /\ AsRead(r) /\ Subject(r.id) = r.account
        BY <1>2, <1>3, <2>1, <2>2, <2>7, VaultSubjects DEF HandlerFresh
      <3>2. ~Paid(r.id)
        BY <2>2, <2>7, <3>1, VaultSubjects DEF VaultInv, ReleasesOK, ReleaseOK, ReleaseRowOK
      <3>3. row.status = "cooldown_active" => vault[Owner[r.id]].unlockAt <= day
        BY <1>4, <2>2, <2>5, <2>6, <3>1 DEF AsRead
      <3>4. ReleaseRowOK(r.id, row)
        BY <2>2, <2>6, <3>1, <3>2, <3>3 DEF ReleaseRowOK, AsRead, UnderWay
      <3> QED
        BY <2>2, <3>1, <3>4, VaultSubjects DEF AsRead
    <2>8. /\ "request_release" \in VaultOps /\ r.id \in VaultRequests /\ r.id \notin RuleChanges
          /\ Subject(r.id) = handling[h].account
      BY <1>1, <1>7, <2>2, VaultSubjects DEF VaultOps
    <2> QED
      BY <2>1, <2>2, <2>4, <2>6, <2>7, <2>8, HandlerWritesRow
  <1>11. CASE CommitCancelRelease(h)
    <2>1. /\ Committing(h, "cancel_release") /\ r.op = "cancel_release"
          /\ UNCHANGED <<ledgerVars, vault, lockedBalance, rule>>
      BY <1>1, <1>11 DEF CommitCancelRelease, SetRelease, Committing
    <2>2. r.id \in Releases /\ r.account = Owner[r.id]
      BY <1>2, <1>3, <2>1 DEF HandlerFits
    <2>3. PICK row : row = [release[r.id] EXCEPT !.status = "cancelled"]
      OBVIOUS
    <2>4. release' = [release EXCEPT ![r.id] = row]
      BY <1>1, <1>11, <2>3 DEF CommitCancelRelease, SetRelease
    <2>5. release[r.id] \in ReleaseRows
      BY <2>2 DEF VaultInv, VaultRowsOK
    <2>6. row \in ReleaseRows /\ row.status = "cancelled"
      BY <1>5, <2>3, <2>5 DEF ReleaseRows
    <2>7. ReleaseRowOK(r.id, row)
      BY <1>5, <2>6 DEF ReleaseRowOK, UnderWay
    <2>8. /\ "cancel_release" \in VaultOps /\ r.id \in VaultRequests /\ r.id \notin RuleChanges
          /\ Subject(r.id) = handling[h].account
      BY <1>1, <1>7, <2>2, VaultSubjects DEF VaultOps
    <2> QED
      BY <1>5, <2>1, <2>2, <2>4, <2>6, <2>7, <2>8, HandlerWritesRow
  <1>12. CASE CommitApproveRelease(h)
    <2>1. /\ Committing(h, "approve_release") /\ r.op = "approve_release"
          /\ UNCHANGED <<ledgerVars, vault, lockedBalance, rule>>
      BY <1>1, <1>12 DEF CommitApproveRelease, SetRelease, Committing
    <2>2. r.id \in Releases /\ r.account = Owner[r.id]
      BY <1>2, <1>3, <2>1 DEF HandlerFits
    <2>3. PICK row : row =
            [release[r.id] EXCEPT !.status = "cooldown_active", !.approved = TRUE,
               !.cooldownEndsAt = r.at + ReleaseCooldown(r.vault.strict, release[r.id].kind)]
      OBVIOUS
    <2>4. release' = [release EXCEPT ![r.id] = row]
      BY <1>1, <1>12, <2>3 DEF CommitApproveRelease, SetRelease
    <2>5. release[r.id] \in ReleaseRows
      BY <2>2 DEF VaultInv, VaultRowsOK
    <2>10. PICK ends \in Nat :
             ends = r.at + ReleaseCooldown(r.vault.strict, release[r.id].kind)
      BY <1>4, <1>6
    <2>11. row = [release[r.id] EXCEPT !.status = "cooldown_active", !.approved = TRUE,
                                       !.cooldownEndsAt = ends]
      BY <2>3, <2>10
    <2>6. row \in ReleaseRows /\ row.status = "cooldown_active" /\ row.approved
      BY <1>5, <2>5, <2>11 DEF ReleaseRows
    <2>7. ASSUME Subject(r.id) \notin Racing
          PROVE  ReleaseRowOK(r.id, row) /\ Row(r.id).status = "review_required"
      <3>1. release[r.id].status = "review_required"
        BY <1>2, <1>3, <2>1, <2>2, <2>7, VaultSubjects DEF HandlerFresh
      <3>2. ReleaseOK(r.id)
        BY <2>2, <2>7, VaultSubjects DEF VaultInv, ReleasesOK
      <3>3. ~Paid(r.id) /\ vault[Owner[r.id]].status # "absent"
        BY <1>5, <3>1, <3>2 DEF ReleaseOK, ReleaseRowOK
      <3> QED
        BY <2>2, <2>6, <3>1, <3>3, VaultSubjects DEF ReleaseRowOK
    <2>8. /\ "approve_release" \in VaultOps /\ r.id \in VaultRequests /\ r.id \notin RuleChanges
          /\ Subject(r.id) = handling[h].account
      BY <1>1, <1>7, <2>2, VaultSubjects DEF VaultOps
    <2> QED
      BY <1>5, <2>1, <2>2, <2>4, <2>6, <2>7, <2>8, HandlerWritesRow
  <1>13. CASE CommitRejectRelease(h)
    <2>1. /\ Committing(h, "reject_release") /\ r.op = "reject_release"
          /\ UNCHANGED <<ledgerVars, vault, lockedBalance, rule>>
      BY <1>1, <1>13 DEF CommitRejectRelease, SetRelease, Committing
    <2>2. r.id \in Releases /\ r.account = Owner[r.id]
      BY <1>2, <1>3, <2>1 DEF HandlerFits
    <2>3. PICK row : row = [release[r.id] EXCEPT !.status = "rejected"]
      OBVIOUS
    <2>4. release' = [release EXCEPT ![r.id] = row]
      BY <1>1, <1>13, <2>3 DEF CommitRejectRelease, SetRelease
    <2>5. release[r.id] \in ReleaseRows
      BY <2>2 DEF VaultInv, VaultRowsOK
    <2>6. row \in ReleaseRows /\ row.status = "rejected"
      BY <1>5, <2>3, <2>5 DEF ReleaseRows
    <2>7. ASSUME Subject(r.id) \notin Racing
          PROVE  ReleaseRowOK(r.id, row) /\ Row(r.id).status = "review_required"
      <3>1. release[r.id].status = "review_required"
        BY <1>2, <1>3, <2>1, <2>2, <2>7, VaultSubjects DEF HandlerFresh
      <3>2. ReleaseOK(r.id)
        BY <2>2, <2>7, VaultSubjects DEF VaultInv, ReleasesOK
      <3>3. ~Paid(r.id)
        BY <3>1, <3>2 DEF ReleaseOK, ReleaseRowOK
      <3> QED
        BY <1>5, <2>2, <2>6, <3>1, <3>3, VaultSubjects DEF ReleaseRowOK, UnderWay
    <2>8. /\ "reject_release" \in VaultOps /\ r.id \in VaultRequests /\ r.id \notin RuleChanges
          /\ Subject(r.id) = handling[h].account
      BY <1>1, <1>7, <2>2, VaultSubjects DEF VaultOps
    <2> QED
      BY <1>5, <2>1, <2>2, <2>4, <2>6, <2>7, <2>8, HandlerWritesRow
  <1>14. CASE CommitCancelRule(h)
    <2>1. /\ Committing(h, "cancel_rule") /\ r.op = "cancel_rule"
          /\ UNCHANGED <<ledgerVars, vault, lockedBalance, release>>
      BY <1>1, <1>14 DEF CommitCancelRule, SetRule, Committing
    <2>2. r.id \in RuleChanges /\ r.account = RuleOwner[r.id]
      BY <1>2, <1>3, <2>1 DEF HandlerFits
    <2>3. PICK row : row = [rule[r.id] EXCEPT !.status = "cancelled"]
      OBVIOUS
    <2>4. rule' = [rule EXCEPT ![r.id] = row]
      BY <1>1, <1>14, <2>3 DEF CommitCancelRule, SetRule
    <2>5. rule[r.id] \in RuleRows
      BY <2>2 DEF VaultInv, VaultRowsOK
    <2>6. row \in RuleRows /\ row.status = "cancelled"
      BY <1>5, <2>3, <2>5 DEF RuleRows
    <2>7. RuleRowOK(row)
      BY <2>6 DEF RuleRowOK, UnderWay
    <2>8. /\ "cancel_rule" \in VaultOps /\ r.id \in VaultRequests /\ r.id \notin Releases
          /\ Subject(r.id) = handling[h].account
      BY <1>1, <1>7, <2>2, VaultSubjects DEF VaultOps
    <2> QED
      BY <1>5, <2>1, <2>2, <2>4, <2>6, <2>7, <2>8, HandlerWritesRow
  <1>15. CASE CommitApproveRule(h)
    <2>1. /\ Committing(h, "approve_rule") /\ r.op = "approve_rule"
          /\ UNCHANGED <<ledgerVars, vault, lockedBalance, release>>
      BY <1>1, <1>15 DEF CommitApproveRule, SetRule, Committing
    <2>2. r.id \in RuleChanges /\ r.account = RuleOwner[r.id]
      BY <1>2, <1>3, <2>1 DEF HandlerFits
    <2>3. PICK row : row =
            [rule[r.id] EXCEPT !.status = "cooldown_active", !.approved = TRUE,
               !.cooldownEndsAt = r.at + RuleChangeCooldown(rule[r.id].currentStrict)]
      OBVIOUS
    <2>4. rule' = [rule EXCEPT ![r.id] = row]
      BY <1>1, <1>15, <2>3 DEF CommitApproveRule, SetRule
    <2>5. rule[r.id] \in RuleRows
      BY <2>2 DEF VaultInv, VaultRowsOK
    <2>10. PICK ends \in Nat : ends = r.at + RuleChangeCooldown(rule[r.id].currentStrict)
      BY <1>4, <1>6
    <2>11. row = [rule[r.id] EXCEPT !.status = "cooldown_active", !.approved = TRUE,
                                    !.cooldownEndsAt = ends]
      BY <2>3, <2>10
    <2>6. row \in RuleRows /\ row.status = "cooldown_active" /\ row.approved
      BY <1>5, <2>5, <2>11 DEF RuleRows
    <2>7. RuleRowOK(row)
      BY <2>6 DEF RuleRowOK
    <2>8. /\ "approve_rule" \in VaultOps /\ r.id \in VaultRequests /\ r.id \notin Releases
          /\ Subject(r.id) = handling[h].account
      BY <1>1, <1>7, <2>2, VaultSubjects DEF VaultOps
    <2>9. Subject(r.id) \notin Racing => Row(r.id).status = "review_required"
      BY <1>2, <1>3, <2>1, <2>2, VaultSubjects DEF HandlerFresh
    <2> QED
      BY <1>5, <2>1, <2>2, <2>4, <2>6, <2>7, <2>8, <2>9, HandlerWritesRow
  <1>16. CASE CommitRejectRule(h)
    <2>1. /\ Committing(h, "reject_rule") /\ r.op = "reject_rule"
          /\ UNCHANGED <<ledgerVars, vault, lockedBalance, release>>
      BY <1>1, <1>16 DEF CommitRejectRule, SetRule, Committing
    <2>2. r.id \in RuleChanges /\ r.account = RuleOwner[r.id]
      BY <1>2, <1>3, <2>1 DEF HandlerFits
    <2>3. PICK row : row = [rule[r.id] EXCEPT !.status = "rejected"]
      OBVIOUS
    <2>4. rule' = [rule EXCEPT ![r.id] = row]
      BY <1>1, <1>16, <2>3 DEF CommitRejectRule, SetRule
    <2>5. rule[r.id] \in RuleRows
      BY <2>2 DEF VaultInv, VaultRowsOK
    <2>6. row \in RuleRows /\ row.status = "rejected"
      BY <1>5, <2>3, <2>5 DEF RuleRows
    <2>7. RuleRowOK(row)
      BY <2>6 DEF RuleRowOK, UnderWay
    <2>8. /\ "reject_rule" \in VaultOps /\ r.id \in VaultRequests /\ r.id \notin Releases
          /\ Subject(r.id) = handling[h].account
      BY <1>1, <1>7, <2>2, VaultSubjects DEF VaultOps
    <2>9. Subject(r.id) \notin Racing => Row(r.id).status = "review_required"
      BY <1>2, <1>3, <2>1, <2>2, VaultSubjects DEF HandlerFresh
    <2> QED
      BY <1>5, <2>1, <2>2, <2>4, <2>6, <2>7, <2>8, <2>9, HandlerWritesRow
  <1>17. CASE CommitRequestRule(h) /\ Weakens(r.vault, r.unlockAt, r.strict)
    <2>1. /\ Committing(h, "request_rule") /\ r.op = "request_rule"
          /\ UNCHANGED <<ledgerVars, lockedBalance, release>>
      BY <1>1, <1>17 DEF CommitRequestRule, Committing
    <2>2. r.id \in RuleChanges /\ r.account = RuleOwner[r.id]
      BY <1>2, <1>3, <2>1 DEF HandlerFits
    <2>3. PICK row : row =
            [[NoRule EXCEPT !.unlockAt = r.unlockAt, !.strict = r.strict,
                            !.currentStrict = r.vault.strict]
               EXCEPT !.status = "review_required"]
      OBVIOUS
    <2>4. rule' = [rule EXCEPT ![r.id] = row] /\ UNCHANGED vault
      BY <1>1, <1>17, <2>3 DEF CommitRequestRule
    <2>5. r.unlockAt \in Days /\ r.strict \in BOOLEAN /\ r.vault.strict \in BOOLEAN
      BY <1>4 DEF HandlingRows
    <2>6. row \in RuleRows /\ row.status = "review_required"
      BY <1>5, <2>3, <2>5 DEF RuleRows, NoRule
    <2>7. RuleRowOK(row)
      BY <2>6 DEF RuleRowOK, UnderWay
    <2>8. /\ "request_rule" \in VaultOps /\ r.id \in VaultRequests /\ r.id \notin Releases
          /\ Subject(r.id) = handling[h].account
      BY <1>1, <1>7, <2>2, VaultSubjects DEF VaultOps
    <2>9. Subject(r.id) \notin Racing =>
            Row(r.id).status = "absent" /\ NoActiveRequest(Subject(r.id))
      BY <1>2, <1>3, <2>1, <2>2, VaultSubjects DEF HandlerFresh, AsRead
    <2> QED
      BY <1>5, <2>1, <2>2, <2>4, <2>6, <2>7, <2>8, <2>9, HandlerWritesRow
  <1> QED
    BY <1>1, <1>10, <1>11, <1>12, <1>13, <1>14, <1>15, <1>16, <1>17

(* A step that writes a vault and no request.                                *)
LEMMA LockWritten ==
  ASSUME VaultInv, NEW a \in Accounts, NEW v \in LockRows, v.status # "absent",
         vault' = [vault EXCEPT ![a] = v],
         UNCHANGED <<ledgerVars, day, lockedBalance, release, rule>>,
         v.unlockAt = vault[a].unlockAt \/ vault[a].status = "absent"
  PROVE  /\ LedgerInv' /\ VaultRowsOK' /\ LockedOK' /\ ReleasesOK' /\ RulesOK' /\ OneActive'
         /\ \A b \in Accounts : vault'[b] = IF b = a THEN v ELSE vault[b]
         /\ \A r \in Releases : Paid(r)' <=> Paid(r)
         /\ day <= day'
  <1>1. /\ LedgerInv'
        /\ \A r \in Releases : Paid(r)' <=> Paid(r)
    BY LedgerUntouched
  <1>2. /\ VaultRowsOK'
        /\ \A b \in Accounts : vault'[b] = IF b = a THEN v ELSE vault[b]
    BY DEF VaultInv, VaultRowsOK
  <1>3. LockedOK'
    BY DEF VaultInv, LockedOK, ledgerVars
  <1>4. day <= day'
    BY VaultAssumption DEF VaultInv, VaultRowsOK, VaultAssumption
  <1>5. \A b \in Accounts : vault[b].status # "absent" => vault'[b].status # "absent"
    BY <1>2
  <1>6. ASSUME NEW r \in Releases, Owner[r] \notin Racing, release[r].status \in UnderWay
        PROVE  vault'[Owner[r]].unlockAt = vault[Owner[r]].unlockAt
    <2>1. vault[Owner[r]].status # "absent"
      BY <1>6 DEF VaultInv, ReleasesOK, ReleaseOK, ReleaseRowOK, UnderWay, ActiveRequest
    <2> QED
      BY <1>2, <2>1, VaultSubjects
  <1>7. ReleasesOK'
    BY <1>1, <1>2, <1>4, <1>5, <1>6, ReleasesFollow
  <1>8. RulesOK'
    BY <1>2, <1>4, RulesFollow
  <1>9. OneActive'
    BY DEF VaultInv, OneActive, Row
  <1> QED
    BY <1>1, <1>2, <1>3, <1>4, <1>7, <1>8, <1>9

(* The vault is opened, restricted, or its restriction lifted.               *)
LEMMA LockStep ==
  ASSUME VaultInv,
         \/ \E a \in Accounts, u \in Days, k \in BOOLEAN : CreateRetirementVault(a, u, k)
         \/ \E h \in VaultHandlers : CommitRestrict(h) \/ CommitUnrestrict(h)
  PROVE  VaultInv'
  <1>1. CASE \E a \in Accounts, u \in Days, k \in BOOLEAN : CreateRetirementVault(a, u, k)
    <2>1. PICK a \in Accounts, u \in Days, k \in BOOLEAN : CreateRetirementVault(a, u, k)
      BY <1>1
    <2>2. PICK v : v = [status |-> "active", unlockAt |-> u, strict |-> k]
      OBVIOUS
    <2>3. v \in LockRows /\ v.status # "absent"
      BY <2>2 DEF LockRows
    <2>4. /\ vault[a].status = "absent" /\ vault' = [vault EXCEPT ![a] = v]
          /\ UNCHANGED <<ledgerVars, day, lockedBalance, release, rule, handling, sweep>>
      BY <2>1, <2>2 DEF CreateRetirementVault
    <2>5. /\ LedgerInv' /\ VaultRowsOK' /\ LockedOK' /\ ReleasesOK' /\ RulesOK' /\ OneActive'
          /\ \A b \in Accounts : vault'[b] = IF b = a THEN v ELSE vault[b]
          /\ \A r \in Releases : Paid(r)' <=> Paid(r)
          /\ day <= day'
      BY <2>3, <2>4, LockWritten
    <2>6. \A b \in Accounts : Calm(b)
      BY <2>3, <2>4, <2>5 DEF Calm, NoActiveRequest
    <2>7. \A h \in VaultHandlers : handling'[h] # NoVaultRequest => Calm(handling[h].account)
      BY <2>4, <2>6 DEF VaultInv, HandlingOK, HandlingRows
    <2>8. HandlersOK'
      BY <2>4, <2>5, <2>7, HandlersFollow
    <2>9. ClaimsOK'
      BY <2>4, <2>5, ClaimsUntouched
    <2> QED
      BY <2>4, <2>5, <2>8, <2>9 DEF VaultInv, HandlingOK, SweepOK
  <1>2. CASE \E h \in VaultHandlers : CommitRestrict(h) \/ CommitUnrestrict(h)
    <2>1. PICK h \in VaultHandlers : CommitRestrict(h) \/ CommitUnrestrict(h)
      BY <1>2
    <2>2. PICK r \in HandlingRows \cup {NoVaultRequest} : r = handling[h]
      BY DEF VaultInv, HandlingOK
    <2>3. r.op \in {"restrict", "unrestrict"} /\ Committing(h, r.op) /\ r.op \in VaultOps
      BY <2>1, <2>2 DEF CommitRestrict, CommitUnrestrict, Committing, VaultOps
    <2>4. r \in HandlingRows
      BY <2>3 DEF NoVaultRequest
    <2>5. r.account \in Accounts /\ r.target \in Blocked \cup {"active"}
      BY <2>4 DEF HandlingRows
    <2>6. PICK t \in Blocked \cup {"active"} :
            vault' = [vault EXCEPT ![r.account] = [vault[r.account] EXCEPT !.status = t]]
      BY <2>1, <2>2, <2>5 DEF CommitRestrict, CommitUnrestrict
    <2>7. PICK v : v = [vault[r.account] EXCEPT !.status = t]
      OBVIOUS
    <2>8. vault[r.account] \in LockRows
      BY <2>5 DEF VaultInv, VaultRowsOK
    <2>9. v \in LockRows /\ v.status # "absent" /\ v.unlockAt = vault[r.account].unlockAt
      BY <2>7, <2>8 DEF LockRows, Blocked
    <2>10. UNCHANGED <<ledgerVars, day, lockedBalance, release, rule, sweep>>
      BY <2>1 DEF CommitRestrict, CommitUnrestrict, Committing
    <2>11. /\ LedgerInv' /\ VaultRowsOK' /\ LockedOK' /\ ReleasesOK' /\ RulesOK' /\ OneActive'
           /\ \A b \in Accounts : vault'[b] = IF b = r.account THEN v ELSE vault[b]
           /\ \A q \in Releases : Paid(q)' <=> Paid(q)
      BY <2>5, <2>6, <2>7, <2>9, <2>10, LockWritten
    <2>12. HandlersOK' /\ HandlingOK' /\ SweepOK'
      <3>1. \A b \in Accounts : b # handling[h].account =>
           /\ vault'[b] = vault[b]
           /\ \A q \in Releases : Owner[q] = b => release'[q] = release[q]
           /\ \A c \in RuleChanges : RuleOwner[c] = b => rule'[c] = rule[c]
        BY <2>2, <2>10, <2>11
      <3> QED
        BY <2>3, <2>11, <3>1, CommittingHandler
    <2>13. ClaimsOK'
      BY <2>10, <2>11, ClaimsUntouched
    <2> QED
      BY <2>11, <2>12, <2>13 DEF VaultInv
  <1> QED
    BY <1>1, <1>2

(* Money goes into the vault, in one transaction with its ledger entries.    *)
LEMMA FundStep ==
  ASSUME VaultInv, NEW h \in VaultHandlers, CommitFund(h)
  PROVE  VaultInv'
  <1>1. PICK r \in HandlingRows \cup {NoVaultRequest} : r = handling[h]
    BY DEF VaultInv, HandlingOK
  <1>2. r.op = "fund" /\ Committing(h, "fund") /\ HandlerFits(r) /\ "fund" \in VaultOps
    BY <1>1 DEF CommitFund, Committing, VaultInv, HandlersOK, VaultOps
  <1>3. r.id \in Fundings /\ r.id \in Intents /\ r.account = Owner[r.id]
        /\ r.account \in Accounts /\ Amount[r.id] \in Nat
    BY <1>2, VaultAssumption, LedgerAssumption
       DEF HandlerFits, NoVaultRequest, VaultAssumption, LedgerAssumption
  <1>4. FundRetirementVaultBalance(r.id) /\ LedgerInv
    BY <1>1 DEF CommitFund, VaultInv
  <1>5. /\ LedgerInv'
        /\ journals' = journals \cup {<<r.id, "retirement_vault_funding">>}
        /\ \A a \in Accounts :
              ledger'[VaultLiability(a)] =
                IF a = r.account THEN ledger[VaultLiability(a)] + Amount[r.id]
                                 ELSE ledger[VaultLiability(a)]
    BY <1>3, <1>4, FundRetirementVaultBalanceStep
  <1>6. /\ lockedBalance' = [lockedBalance EXCEPT ![r.account] = @ + Amount[r.id]]
        /\ UNCHANGED <<day, vault, release, rule, sweep>>
    BY <1>1 DEF CommitFund, Committing
  <1>7. VaultRowsOK'
    BY <1>3, <1>6 DEF VaultInv, VaultRowsOK
  <1>8. LockedOK'
    BY <1>3, <1>5, <1>6 DEF VaultInv, VaultRowsOK, LockedOK
  <1>9. \A q \in Releases : Paid(q)' <=> Paid(q)
    BY <1>5 DEF Paid
  <1>10. day <= day'
    BY <1>6, VaultAssumption DEF VaultInv, VaultRowsOK, VaultAssumption
  <1>11. ReleasesOK'
    BY <1>6, <1>7, <1>9, <1>10, ReleasesFollow
  <1>12. RulesOK'
    BY <1>6, <1>7, <1>10, RulesFollow
  <1>13. OneActive'
    BY <1>6 DEF VaultInv, OneActive, Row
  <1>14. HandlersOK' /\ HandlingOK' /\ SweepOK'
    BY <1>2, <1>6, <1>7, CommittingHandler
  <1>15. ClaimsOK'
    BY <1>6, <1>9, ClaimsUntouched
  <1> QED
    BY <1>5, <1>7, <1>8, <1>11, <1>12, <1>13, <1>14, <1>15 DEF VaultInv

VaultBecomes(a, v) == vault' = [vault EXCEPT ![a] = v]
RuleBecomes(x, row) == rule' = [rule EXCEPT ![x] = row]

(* New rules of a vault on which no release is under way.                    *)
LEMMA RulesApplied ==
  ASSUME VaultInv, NEW x \in RuleChanges, NEW a \in Accounts, a = RuleOwner[x],
         NEW v \in LockRows, v.status = vault[a].status, VaultBecomes(a, v),
         NEW row \in RuleRows, row.status = "done",
         RuleBecomes(x, row),
         UNCHANGED <<ledgerVars, day, lockedBalance, release>>,
         a \notin Racing => \A r \in Releases : Owner[r] = a => release[r].status \notin UnderWay
  PROVE  /\ LedgerInv' /\ VaultRowsOK' /\ LockedOK' /\ ReleasesOK' /\ RulesOK' /\ OneActive'
         /\ \A b \in Accounts : vault'[b] = IF b = a THEN v ELSE vault[b]
         /\ \A c \in RuleChanges : rule'[c] = IF c = x THEN row ELSE rule[c]
         /\ \A r \in Releases : Paid(r)' <=> Paid(r)
         /\ day <= day'
  <1>1. /\ LedgerInv'
        /\ \A r \in Releases : Paid(r)' <=> Paid(r)
    BY LedgerUntouched
  <1>2. /\ vault \in [Accounts -> LockRows] /\ rule \in [RuleChanges -> RuleRows]
        /\ vault[a] \in LockRows
    BY DEF VaultInv, VaultRowsOK
  <1>6. /\ \A b \in Accounts : vault'[b] = IF b = a THEN v ELSE vault[b]
        /\ \A c \in RuleChanges : rule'[c] = IF c = x THEN row ELSE rule[c]
        /\ vault' \in [Accounts -> LockRows] /\ rule' \in [RuleChanges -> RuleRows]
    BY <1>2 DEF VaultBecomes, RuleBecomes
  <1>7. VaultRowsOK'
    BY <1>6 DEF VaultInv, VaultRowsOK
  <1>8. LockedOK'
    BY DEF VaultInv, LockedOK, ledgerVars
  <1>9. day <= day'
    BY VaultAssumption DEF VaultInv, VaultRowsOK, VaultAssumption
  <1>10. \A b \in Accounts : vault[b].status # "absent" => vault'[b].status # "absent"
    BY <1>6
  <1>11. ReleasesOK'
    <2>1. ASSUME NEW r \in Releases, Owner[r] \notin Racing, release[r].status \in UnderWay
          PROVE  vault'[Owner[r]].unlockAt = vault[Owner[r]].unlockAt
      BY <1>6, <2>1, VaultSubjects
    <2> QED
      BY <1>1, <1>7, <1>9, <1>10, <2>1, ReleasesFollow
  <1>12. RulesOK'
    <2>1. ASSUME NEW c \in RuleChanges PROVE rule'[c] = rule[c] \/ RuleOK(c)'
      BY <1>6 DEF RuleOK, RuleRowOK, UnderWay
    <2> QED
      BY <1>7, <1>9, <2>1, RulesFollow
  <1>13. OneActive'
    <2>1. ASSUME NEW y \in VaultRequests, Row(y)'.status \in ActiveRequest
          PROVE  Row(y).status \in ActiveRequest
      BY <1>6, <2>1, VaultSubjects DEF VaultRequests, ActiveRequest
    <2> QED
      BY <2>1, OneActiveFollows
  <1> QED
    BY <1>1, <1>6, <1>7, <1>8, <1>9, <1>11, <1>12, <1>13

(* A change that does not weaken the lock is applied at once.                *)
LEMMA DirectRuleStep ==
  ASSUME VaultInv, NEW h \in VaultHandlers, CommitRequestRule(h),
         ~Weakens(handling[h].vault, handling[h].unlockAt, handling[h].strict)
  PROVE  VaultInv'
  <1>1. PICK r \in HandlingRows \cup {NoVaultRequest} : r = handling[h]
    BY DEF VaultInv, HandlingOK
  <1>2. /\ r.op = "request_rule" /\ Committing(h, "request_rule")
        /\ HandlerFits(r) /\ HandlerFresh(h, r) /\ "request_rule" \in VaultOps
    BY <1>1 DEF CommitRequestRule, Committing, VaultInv, HandlersOK, VaultOps
  <1>3. r # NoVaultRequest /\ r \in HandlingRows
    BY <1>1, <1>2 DEF NoVaultRequest
  <1>4. /\ r.id \in RuleChanges /\ r.account = RuleOwner[r.id] /\ r.account \in Accounts
        /\ r.unlockAt \in Days /\ r.strict \in BOOLEAN /\ r.vault.strict \in BOOLEAN
    BY <1>2, <1>3 DEF HandlerFits, HandlingRows, LockRows
  <1>5. PICK row : row = [[NoRule EXCEPT !.unlockAt = r.unlockAt, !.strict = r.strict,
                                         !.currentStrict = r.vault.strict]
                            EXCEPT !.status = "done"]
    OBVIOUS
  <1>6. /\ rule' = [rule EXCEPT ![r.id] = row]
        /\ vault' = [vault EXCEPT ![r.account].unlockAt = r.unlockAt,
                                  ![r.account].strict = r.strict]
        /\ UNCHANGED <<ledgerVars, day, lockedBalance, release, sweep>>
    BY <1>1, <1>5 DEF CommitRequestRule, Committing
  <1>7. row \in RuleRows /\ row.status = "done"
    BY <1>4, <1>5 DEF RuleRows, NoRule, RequestStatuses
  <1>8. r.account \notin Racing =>
          /\ \A q \in Releases : Owner[q] = r.account => release[q].status \notin UnderWay
          /\ rule[r.id].status = "absent"
    BY <1>2, <1>3 DEF HandlerFresh, AsRead, NoActiveRequest, UnderWay, ActiveRequest
  <1>9. /\ LedgerInv' /\ VaultRowsOK' /\ LockedOK' /\ ReleasesOK' /\ RulesOK' /\ OneActive'
        /\ \A b \in Accounts : b # r.account => vault'[b] = vault[b]
        /\ \A c \in RuleChanges : rule'[c] = IF c = r.id THEN row ELSE rule[c]
        /\ \A q \in Releases : Paid(q)' <=> Paid(q)
    <2>1. vault \in [Accounts -> LockRows] /\ vault[r.account] \in LockRows
      BY <1>4 DEF VaultInv, VaultRowsOK
    <2>2. PICK v : v = [vault[r.account] EXCEPT !.unlockAt = r.unlockAt, !.strict = r.strict]
      OBVIOUS
    <2>3. v \in LockRows /\ v.status = vault[r.account].status
      BY <1>4, <2>1, <2>2 DEF LockRows
    <2>4. vault' = [vault EXCEPT ![r.account] = v]
      BY <1>6, <2>1, <2>2
    <2>5. VaultBecomes(r.account, v) /\ RuleBecomes(r.id, row)
      BY <1>6, <2>4 DEF VaultBecomes, RuleBecomes
    <2>6. UNCHANGED <<ledgerVars, day, lockedBalance, release>>
      BY <1>6
    <2> QED
      BY <1>4, <1>7, <1>8, <2>3, <2>5, <2>6, RulesApplied
  <1>10. HandlersOK' /\ HandlingOK' /\ SweepOK'
    <2>1. \A b \in Accounts : b # handling[h].account =>
           /\ vault'[b] = vault[b]
           /\ \A q \in Releases : Owner[q] = b => release'[q] = release[q]
           /\ \A c \in RuleChanges : RuleOwner[c] = b => rule'[c] = rule[c]
      BY <1>1, <1>4, <1>6, <1>9
    <2> QED
      BY <1>2, <1>9, <2>1, CommittingHandler
  <1>11. ClaimsOK'
    <2>1. ASSUME NEW s \in Sweepers, NEW y \in VaultRequests,
                 sweep[s].phase = "claimed", sweep[s].id = y, Subject(y) \notin Racing
          PROVE  Row(y)'.status \in {"executing", "cancelled"}
      <3>1. Row(y).status \in {"executing", "cancelled"}
        BY <2>1 DEF VaultInv, ClaimsOK, ClaimOK
      <3>2. y # r.id
        BY <1>4, <1>8, <2>1, <3>1, VaultSubjects
      <3>3. Row(y)' = Row(y)
        BY <1>6, <1>9, <3>2, VaultSubjects DEF VaultRequests
      <3> QED
        BY <3>1, <3>3
    <2> QED
      BY <1>6, <1>9, <2>1, ClaimsFollow
  <1> QED
    BY <1>9, <1>10, <1>11 DEF VaultInv

-----------------------------------------------------------------------------
(* The sweep of requests *)

(* The sweep moves only requests that are under way, or that were cancelled  *)
(* under its hands.                                                          *)
LEMMA SweepLeavesCalm ==
  ASSUME VaultInv, NEW x \in VaultRequests, Row(x).status \in UnderWay \cup {"cancelled"},
         NEW row, Row(x).status = "cancelled" => row.status \notin ActiveRequest,
         \A r \in Releases : release'[r] = IF r = x THEN row ELSE release[r],
         \A c \in RuleChanges : rule'[c] = IF c = x THEN row ELSE rule[c],
         \A b \in Accounts :
           /\ vault[b].status # "absent" => vault'[b].status # "absent"
           /\ \/ b = Subject(x) /\ Row(x).status \in UnderWay
              \/ vault'[b].unlockAt = vault[b].unlockAt /\ vault'[b].strict = vault[b].strict,
         NEW a \in Accounts
  PROVE  Calm(a)
  <1>1. Subject(x) = a /\ NoActiveRequest(a) => Row(x).status = "cancelled"
    BY VaultSubjects DEF VaultRequests, NoActiveRequest, UnderWay, ActiveRequest
  <1>2. NoActiveRequest(a) => NoActiveRequest(a)'
    BY <1>1, VaultSubjects DEF NoActiveRequest, VaultRequests
  <1>3. NoActiveRequest(a) =>
          vault'[a].unlockAt = vault[a].unlockAt /\ vault'[a].strict = vault[a].strict
    BY <1>1 DEF UnderWay
  <1>4. \A r \in Releases : release[r].status \in {"absent", "review_required"} => r # x
    BY VaultSubjects DEF UnderWay
  <1>5. \A c \in RuleChanges : rule[c].status \in {"absent", "review_required"} => c # x
    BY VaultSubjects DEF UnderWay
  <1> QED
    BY <1>2, <1>3, <1>4, <1>5 DEF Calm

(* Steps that move the status of one request only.                           *)
LEMMA SweepStatusStep ==
  ASSUME VaultInv, NEW x \in VaultRequests, NEW status \in RequestStatuses,
         SetStatus(x, status), UNCHANGED <<ledgerVars, day, vault, lockedBalance, handling>>,
         SweepOK',
         Subject(x) \notin Racing =>
           \/ Row(x).status \in UnderWay /\ status \in {"ready", "executing"}
                /\ Row(x).cooldownEndsAt <= day
           \/ Row(x).status \in UnderWay \cup {"cancelled"} /\ status = "failed"
                /\ (x \in Releases => ~Paid(x))
  PROVE  /\ LedgerInv' /\ VaultRowsOK' /\ LockedOK' /\ ReleasesOK' /\ RulesOK' /\ OneActive'
         /\ HandlersOK' /\ HandlingOK'
         /\ \A y \in VaultRequests : y # x => Row(y)' = Row(y)
         /\ Row(x)'.status = status
         /\ \A r \in Releases : Paid(r)' <=> Paid(r)
  <1>1. PICK row : row = [Row(x) EXCEPT !.status = status]
    OBVIOUS
  <1>2. \/ /\ x \in Releases /\ row \in ReleaseRows /\ x \notin RuleChanges
           /\ release' = [release EXCEPT ![x] = row] /\ rule' = rule
           /\ Row(x) \in ReleaseRows
        \/ /\ x \in RuleChanges /\ row \in RuleRows /\ x \notin Releases
           /\ rule' = [rule EXCEPT ![x] = row] /\ release' = release
           /\ Row(x) \in RuleRows
    <2>1. CASE x \in Releases
      <3>1. Row(x) = release[x] /\ release[x] \in ReleaseRows /\ x \notin RuleChanges
        BY <2>1, VaultSubjects DEF VaultInv, VaultRowsOK
      <3>2. row \in ReleaseRows
        BY <1>1, <3>1 DEF ReleaseRows
      <3>3. release' = [release EXCEPT ![x] = row] /\ rule' = rule
        BY <1>1, <3>1 DEF SetStatus
      <3> QED
        BY <2>1, <3>1, <3>2, <3>3
    <2>2. CASE x \in RuleChanges
      <3>1. Row(x) = rule[x] /\ rule[x] \in RuleRows /\ x \notin Releases
        BY <2>2, VaultSubjects DEF VaultInv, VaultRowsOK
      <3>2. row \in RuleRows
        BY <1>1, <3>1 DEF RuleRows
      <3>3. rule' = [rule EXCEPT ![x] = row] /\ release' = release
        BY <1>1, <2>2, <3>1 DEF SetStatus
      <3> QED
        BY <2>2, <3>1, <3>2, <3>3
    <2> QED
      BY <2>1, <2>2 DEF VaultRequests
  <1>3. /\ row.status = status /\ row.cooldownEndsAt = Row(x).cooldownEndsAt
        /\ row.approved = Row(x).approved
    BY <1>1, <1>2 DEF ReleaseRows, RuleRows
  <1>4. ASSUME Subject(x) \notin Racing, x \in Releases
        PROVE  ReleaseRowOK(x, row)
    <2>1. ReleaseRowOK(x, Row(x))
      BY <1>4, VaultSubjects DEF VaultInv, ReleasesOK, ReleaseOK
    <2> QED
      BY <1>3, <1>4, <2>1 DEF ReleaseRowOK, UnderWay, ActiveRequest
  <1>5. ASSUME Subject(x) \notin Racing, x \in RuleChanges
        PROVE  RuleRowOK(row)
    <2>1. RuleRowOK(Row(x))
      BY <1>5, VaultSubjects DEF VaultInv, RulesOK, RuleOK
    <2> QED
      BY <1>3, <1>5, <2>1 DEF RuleRowOK, UnderWay
  <1>6. Subject(x) \notin Racing /\ row.status \in ActiveRequest => Row(x).status \in ActiveRequest
    BY <1>3 DEF ActiveRequest, UnderWay
  <1>7. /\ LedgerInv' /\ VaultRowsOK' /\ LockedOK' /\ ReleasesOK' /\ RulesOK' /\ OneActive'
        /\ \A y \in VaultRequests : Row(y)' = IF y = x THEN row ELSE Row(y)
        /\ \A r \in Releases : release'[r] = IF r = x THEN row ELSE release[r]
        /\ \A c \in RuleChanges : rule'[c] = IF c = x THEN row ELSE rule[c]
    BY <1>2, <1>4, <1>5, <1>6, RequestRowWritten
  <1>8. HandlersOK'
    <2>1. ASSUME NEW h \in VaultHandlers, handling[h] # NoVaultRequest,
                 handling[h].account \notin Racing
          PROVE  Calm(handling[h].account)
      <3>1. PICK a \in Accounts : a = handling[h].account
        BY <2>1 DEF VaultInv, HandlingOK, HandlingRows
      <3>2. CASE a = Subject(x)
        <4>1. /\ Row(x).status \in UnderWay \cup {"cancelled"}
              /\ Row(x).status = "cancelled" => row.status \notin ActiveRequest
          BY <1>3, <2>1, <3>1, <3>2 DEF UnderWay, ActiveRequest
        <4>2. Calm(a)
          BY <1>7, <4>1, SweepLeavesCalm
        <4> QED
          BY <3>1, <4>2
      <3>3. CASE a # Subject(x)
        <4>1. Calm(a)
          BY <1>7, <3>3, VaultSubjects, CalmElsewhere
        <4> QED
          BY <3>1, <4>1
      <3> QED
        BY <3>2, <3>3
    <2>2. day <= day'
      BY VaultAssumption DEF VaultInv, VaultRowsOK, VaultAssumption
    <2> QED
      BY <1>7, <2>1, <2>2, HandlersFollow
  <1>9. \A r \in Releases : Paid(r)' <=> Paid(r)
    BY LedgerUntouched
  <1> QED
    BY <1>3, <1>7, <1>8, <1>9 DEF VaultInv, HandlingOK

(* A cooldown ends.                                                          *)
LEMMA CooldownStep ==
  ASSUME VaultInv, NEW x \in Releases \cup RuleChanges, CompleteCooldown(x)
  PROVE  VaultInv'
  <1>1. /\ Row(x).status = "cooldown_active" /\ Row(x).cooldownEndsAt <= day
        /\ SetStatus(x, "ready") /\ x \in VaultRequests
        /\ UNCHANGED <<ledgerVars, day, vault, lockedBalance, handling, sweep>>
    BY DEF CompleteCooldown, VaultRequests
  <1>2. SweepOK'
    BY <1>1 DEF VaultInv, SweepOK
  <1>3. "ready" \in RequestStatuses /\ "cooldown_active" \in UnderWay
    BY DEF RequestStatuses, ActiveRequest, UnderWay
  <1>4. /\ LedgerInv' /\ VaultRowsOK' /\ LockedOK' /\ ReleasesOK' /\ RulesOK' /\ OneActive'
        /\ HandlersOK' /\ HandlingOK'
        /\ \A y \in VaultRequests : y # x => Row(y)' = Row(y)
        /\ \A r \in Releases : Paid(r)' <=> Paid(r)
    BY <1>1, <1>2, <1>3, SweepStatusStep
  <1>5. ClaimsOK'
    <2>1. ASSUME NEW s \in Sweepers, NEW y \in VaultRequests,
                 sweep[s].phase = "claimed", sweep[s].id = y, Subject(y) \notin Racing
          PROVE  Row(y)'.status \in {"executing", "cancelled"}
      BY <1>1, <1>4, <2>1 DEF VaultInv, ClaimsOK, ClaimOK
    <2> QED
      BY <1>1, <1>4, <2>1, ClaimsFollow
  <1> QED
    BY <1>2, <1>4, <1>5 DEF VaultInv

(* Of the sweeps that listed a request, the one that finds it ready gets it. *)
LEMMA ClaimStep ==
  ASSUME VaultInv, NEW s \in Sweepers, ClaimReady(s)
  PROVE  VaultInv'
  <1>1. sweep[s] \in SweepRows /\ sweep[s].phase = "listed" /\ sweep \in [Sweepers -> SweepRows]
    BY DEF ClaimReady, VaultInv, SweepOK
  <1>2. PICK x \in VaultRequests : x = sweep[s].id
    BY <1>1 DEF SweepRows, NoSweep
  <1>3. UNCHANGED <<ledgerVars, day, vault, lockedBalance, handling>>
    BY DEF ClaimReady
  <1>4. CASE Row(x).status # "ready"
    <2>1. sweep' = [sweep EXCEPT ![s] = NoSweep] /\ UNCHANGED <<release, rule>>
      BY <1>2, <1>4 DEF ClaimReady
    <2>2. UNCHANGED vaultRows
      BY <1>3, <2>1 DEF vaultRows
    <2>3. SweepOK' /\ NoSweep.phase # "claimed"
      BY <1>1, <2>1 DEF SweepOK, SweepRows, NoSweep
    <2>4. \A u \in Sweepers : sweep'[u].phase = "claimed" => sweep'[u] = sweep[u]
      BY <1>1, <2>1, <2>3
    <2>5. /\ LedgerInv' /\ VaultRowsOK' /\ LockedOK' /\ ReleasesOK' /\ RulesOK' /\ OneActive'
          /\ \A a \in Accounts : Calm(a)
          /\ \A r \in Releases : Paid(r)' <=> Paid(r)
      BY <1>3, <2>2, OnlyMemory
    <2>6. HandlersOK'
      <3>1. \A h \in VaultHandlers :
              handling'[h] # NoVaultRequest => Calm(handling[h].account)
        BY <1>3, <2>5 DEF VaultInv, HandlingOK, HandlingRows
      <3>2. day <= day'
        BY <1>3, VaultAssumption DEF VaultInv, VaultRowsOK, VaultAssumption
      <3> QED
        BY <1>3, <2>5, <3>1, <3>2, HandlersFollow
    <2>7. ClaimsOK'
      BY <2>1, <2>4, <2>5, ClaimsUntouched
    <2> QED
      BY <1>3, <2>3, <2>5, <2>6, <2>7 DEF VaultInv, HandlingOK
  <1>5. CASE Row(x).status = "ready"
    <2>1. SetStatus(x, "executing") /\ sweep' = [sweep EXCEPT ![s].phase = "claimed"]
      BY <1>2, <1>5 DEF ClaimReady
    <2>2. PICK t : t = [sweep[s] EXCEPT !.phase = "claimed"]
      OBVIOUS
    <2>3. t \in SweepRows /\ t.phase = "claimed" /\ t.id = x
      BY <1>1, <1>2, <2>2 DEF SweepRows, NoSweep
    <2>4. /\ \A u \in Sweepers : sweep'[u] = IF u = s THEN t ELSE sweep[u]
          /\ SweepOK'
      BY <1>1, <2>1, <2>2, <2>3 DEF SweepOK
    <2>5. "executing" \in RequestStatuses /\ "ready" \in UnderWay
      BY DEF RequestStatuses, ActiveRequest, UnderWay
    <2>6. Subject(x) \notin Racing =>
            Row(x).cooldownEndsAt <= day /\ (x \in Releases => ~Paid(x))
      BY <1>5, VaultSubjects DEF VaultRequests, VaultInv, ReleasesOK, ReleaseOK, ReleaseRowOK,
                                 RulesOK, RuleOK, RuleRowOK
    <2>7. /\ LedgerInv' /\ VaultRowsOK' /\ LockedOK' /\ ReleasesOK' /\ RulesOK' /\ OneActive'
          /\ HandlersOK' /\ HandlingOK'
          /\ \A y \in VaultRequests : y # x => Row(y)' = Row(y)
          /\ Row(x)'.status = "executing"
          /\ \A r \in Releases : Paid(r)' <=> Paid(r)
      BY <1>3, <1>5, <2>1, <2>4, <2>5, <2>6, SweepStatusStep
    <2>8. ASSUME NEW u \in Sweepers, u # s, NEW y \in VaultRequests,
                 sweep[u].phase = "claimed", sweep[u].id = y, Subject(y) \notin Racing
          PROVE  y # x /\ ClaimOK(u, y)
      BY <1>5, <2>8 DEF VaultInv, ClaimsOK, ClaimOK
    <2>9. ASSUME NEW u \in Sweepers, sweep'[u].phase = "claimed"
          PROVE  ClaimOK(u, sweep[u].id)'
      <3>1. CASE u = s
        <4>1. sweep'[u] = t
          BY <2>4, <3>1
        <4>2. ASSUME Subject(x) \notin Racing
              PROVE  /\ x \in Releases => ~Paid(x)'
                     /\ \A k \in Sweepers : sweep'[k].phase = "claimed" /\ sweep'[k].id = x => k = s
          BY <2>4, <2>6, <2>7, <2>8, <4>2
        <4>3. ClaimOK(u, x)'
          BY <2>7, <3>1, <4>2 DEF ClaimOK, Subject
        <4> QED
          BY <2>3, <4>1, <4>3 DEF ClaimOK
      <3>2. CASE u # s
        <4>1. sweep'[u] = sweep[u] /\ sweep[u] \in SweepRows
          BY <1>1, <2>4, <3>2
        <4>2. PICK y \in VaultRequests : y = sweep[u].id
          BY <2>9, <4>1 DEF SweepRows, NoSweep
        <4>3. ASSUME Subject(y) \notin Racing
              PROVE  /\ Row(y)'.status \in {"executing", "cancelled"}
                     /\ y \in Releases => ~Paid(y)'
                     /\ \A k \in Sweepers : sweep'[k].phase = "claimed" /\ sweep'[k].id = y => k = u
          <5>1. y # x /\ ClaimOK(u, y)
            BY <2>8, <2>9, <3>2, <4>1, <4>2, <4>3
          <5> QED
            BY <2>3, <2>4, <2>7, <4>3, <5>1 DEF ClaimOK
        <4>4. ClaimOK(u, y)'
          BY <4>3 DEF ClaimOK, Subject
        <4> QED
          BY <4>1, <4>2, <4>4 DEF ClaimOK
      <3> QED
        BY <3>1, <3>2
    <2>10. ClaimsOK'
      BY <2>9 DEF ClaimsOK
    <2> QED
      BY <2>4, <2>7, <2>10 DEF VaultInv
  <1> QED
    BY <1>4, <1>5

(* What the sweep of a claim knows about its request.                        *)
LEMMA Claimed ==
  ASSUME VaultInv, NEW s \in Sweepers, sweep[s].phase = "claimed"
  PROVE  \E x \in VaultRequests : x = sweep[s].id /\ ClaimOK(s, x)
  <1>1. sweep[s] \in SweepRows
    BY DEF VaultInv, SweepOK
  <1> QED
    BY <1>1 DEF SweepRows, NoSweep, VaultInv, ClaimsOK

(* A sweep that has finished leaves the other claims as they are.            *)
LEMMA ClaimReturned ==
  ASSUME VaultInv, NEW s \in Sweepers, NEW x \in VaultRequests, x = sweep[s].id,
         ClaimOK(s, x), sweep[s].phase = "claimed",
         sweep' = [sweep EXCEPT ![s] = NoSweep],
         \A y \in VaultRequests : y # x => Row(y)' = Row(y),
         \A r \in Releases : r # x => (Paid(r)' <=> Paid(r))
  PROVE  SweepOK' /\ ClaimsOK'
  <1>1. sweep \in [Sweepers -> SweepRows] /\ NoSweep \in SweepRows /\ NoSweep.phase # "claimed"
    BY DEF VaultInv, SweepOK, SweepRows, NoSweep
  <1>2. SweepOK' /\ \A u \in Sweepers : sweep'[u] = IF u = s THEN NoSweep ELSE sweep[u]
    BY <1>1 DEF SweepOK
  <1>3. \A u \in Sweepers : sweep'[u].phase = "claimed" => sweep'[u] = sweep[u]
    BY <1>1, <1>2
  <1>4. ASSUME NEW u \in Sweepers, NEW y \in VaultRequests,
               sweep[u] = sweep'[u], sweep[u].phase = "claimed", sweep[u].id = y,
               Subject(y) \notin Racing
        PROVE  /\ Row(y)'.status \in {"executing", "cancelled"}
               /\ y \in Releases /\ Paid(y)' => Paid(y)
    <2>1. u # s
      BY <1>1, <1>2, <1>4
    <2>2. y # x
      BY <1>4, <2>1 DEF ClaimOK
    <2>3. Row(y).status \in {"executing", "cancelled"}
      BY <1>4 DEF VaultInv, ClaimsOK, ClaimOK
    <2> QED
      BY <2>2, <2>3
  <1>5. ClaimsOK'
    BY <1>3, <1>4, ClaimsFollow
  <1> QED
    BY <1>2, <1>5

(* The execution fails and says so.                                          *)
LEMMA FailureStep ==
  ASSUME VaultInv, NEW s \in Sweepers, ExecutionFails(s)
  PROVE  VaultInv'
  <1>1. sweep[s].phase = "claimed"
    BY DEF ExecutionFails
  <1>2. PICK x \in VaultRequests : x = sweep[s].id /\ ClaimOK(s, x)
    BY <1>1, Claimed
  <1>3. /\ SetStatus(x, "failed") /\ sweep' = [sweep EXCEPT ![s] = NoSweep]
        /\ UNCHANGED <<ledgerVars, day, vault, lockedBalance, handling>>
    BY <1>2 DEF ExecutionFails
  <1>4. SweepOK'
    BY <1>3 DEF VaultInv, SweepOK, SweepRows
  <1>5. Subject(x) \notin Racing =>
          /\ Row(x).status \in UnderWay \cup {"cancelled"}
          /\ x \in Releases => ~Paid(x)
    BY <1>2 DEF ClaimOK, UnderWay
  <1>6. "failed" \in RequestStatuses
    BY DEF RequestStatuses
  <1>7. /\ LedgerInv' /\ VaultRowsOK' /\ LockedOK' /\ ReleasesOK' /\ RulesOK' /\ OneActive'
        /\ HandlersOK' /\ HandlingOK'
        /\ \A y \in VaultRequests : y # x => Row(y)' = Row(y)
        /\ \A r \in Releases : Paid(r)' <=> Paid(r)
    BY <1>3, <1>4, <1>5, <1>6, SweepStatusStep
  <1>8. ClaimsOK'
    BY <1>1, <1>2, <1>3, <1>7, ClaimReturned
  <1> QED
    BY <1>4, <1>7, <1>8 DEF VaultInv

(* While a request is under way, no other one is, on an account without races.*)
LEMMA NoOther ==
  ASSUME VaultInv, NEW x \in VaultRequests, Row(x).status \in UnderWay, Subject(x) \notin Racing,
         NEW r \in Releases, Owner[r] = Subject(x), r # x
  PROVE  release[r].status \notin UnderWay
  BY VaultSubjects DEF VaultRequests, VaultInv, OneActive, UnderWay, ActiveRequest

(* An approved change of the rules takes effect.                             *)
LEMMA RuleChangeStep ==
  ASSUME VaultInv, NEW s \in Sweepers, ExecuteRuleChange(s)
  PROVE  VaultInv'
  <1>1. sweep[s].phase = "claimed"
    BY DEF ExecuteRuleChange
  <1>2. PICK x \in VaultRequests : x = sweep[s].id /\ ClaimOK(s, x)
    BY <1>1, Claimed
  <1>3. PICK a : a = Subject(x)
    OBVIOUS
  <1>4. /\ x \in RuleChanges /\ x \notin Releases /\ rule[x].status = "executing"
        /\ vault' = [vault EXCEPT ![a].unlockAt = rule[x].unlockAt, ![a].strict = rule[x].strict]
        /\ rule' = [rule EXCEPT ![x].status = "done"]
        /\ sweep' = [sweep EXCEPT ![s] = NoSweep]
        /\ UNCHANGED <<ledgerVars, day, lockedBalance, release, handling>>
    BY <1>2, <1>3, VaultSubjects DEF ExecuteRuleChange
  <1>5. a \in Accounts /\ a = RuleOwner[x] /\ Row(x) = rule[x]
    BY <1>3, <1>4, VaultSubjects
  <1>6. /\ vault \in [Accounts -> LockRows] /\ rule \in [RuleChanges -> RuleRows]
        /\ vault[a] \in LockRows /\ rule[x] \in RuleRows
    BY <1>4, <1>5 DEF VaultInv, VaultRowsOK
  <1>7. PICK v : v = [vault[a] EXCEPT !.unlockAt = rule[x].unlockAt, !.strict = rule[x].strict]
    OBVIOUS
  <1>8. PICK row : row = [rule[x] EXCEPT !.status = "done"]
    OBVIOUS
  <1>9. v \in LockRows /\ v.status = vault[a].status
    BY <1>6, <1>7 DEF LockRows, RuleRows
  <1>10. row \in RuleRows /\ row.status = "done"
    BY <1>6, <1>8 DEF RuleRows, RequestStatuses
  <1>11. VaultBecomes(a, v) /\ RuleBecomes(x, row)
    BY <1>4, <1>6, <1>7, <1>8 DEF VaultBecomes, RuleBecomes
  <1>12. a \notin Racing => \A r \in Releases : Owner[r] = a => release[r].status \notin UnderWay
    BY <1>3, <1>4, <1>5, NoOther DEF UnderWay
  <1>13. x \in RuleChanges /\ UNCHANGED <<ledgerVars, day, lockedBalance, release>>
    BY <1>4
  <1>14. /\ LedgerInv' /\ VaultRowsOK' /\ LockedOK' /\ ReleasesOK' /\ RulesOK' /\ OneActive'
         /\ \A b \in Accounts : vault'[b] = IF b = a THEN v ELSE vault[b]
         /\ \A c \in RuleChanges : rule'[c] = IF c = x THEN row ELSE rule[c]
         /\ \A r \in Releases : Paid(r)' <=> Paid(r)
         /\ day <= day'
    BY <1>5, <1>9, <1>10, <1>11, <1>12, <1>13, RulesApplied
  <1>15. HandlersOK'
    <2>1. Row(x).status \in UnderWay /\ Row(x).status # "cancelled"
      BY <1>4, <1>5 DEF UnderWay
    <2>2. \A r \in Releases : release'[r] = IF r = x THEN row ELSE release[r]
      BY <1>4
    <2>3. \A b \in Accounts :
           /\ vault[b].status # "absent" => vault'[b].status # "absent"
           /\ \/ b = Subject(x) /\ Row(x).status \in UnderWay
              \/ vault'[b].unlockAt = vault[b].unlockAt /\ vault'[b].strict = vault[b].strict
      BY <1>3, <1>9, <1>14, <2>1
    <2>4. \A b \in Accounts : Calm(b)
      BY <1>14, <2>1, <2>2, <2>3, SweepLeavesCalm
    <2>5. \A h \in VaultHandlers : handling'[h] # NoVaultRequest => Calm(handling[h].account)
      BY <1>4, <2>4 DEF VaultInv, HandlingOK, HandlingRows
    <2> QED
      BY <1>4, <1>14, <2>5, HandlersFollow
  <1>16. SweepOK' /\ ClaimsOK'
    <2>1. \A y \in VaultRequests : y # x => Row(y)' = Row(y)
      BY <1>4, <1>14, VaultSubjects DEF VaultRequests
    <2> QED
      BY <1>1, <1>2, <1>4, <1>14, <2>1, ClaimReturned
  <1> QED
    BY <1>4, <1>14, <1>15, <1>16 DEF VaultInv, HandlingOK

(* Money leaves the vault, in one transaction with its ledger entries.       *)
LEMMA ReleaseStep ==
  ASSUME VaultInv, NEW s \in Sweepers, ExecuteRelease(s)
  PROVE  VaultInv'
  <1>1. sweep[s].phase = "claimed"
    BY DEF ExecuteRelease
  <1>2. PICK x \in VaultRequests : x = sweep[s].id /\ ClaimOK(s, x)
    BY <1>1, Claimed
  <1>3. PICK a : a = Subject(x)
    OBVIOUS
  <1>4. PICK left : left = lockedBalance[a] - Amount[x]
    OBVIOUS
  <1>5. PICK t \in {"released", "active"} :
          vault' = [vault EXCEPT ![a].status = t]
    BY <1>2, <1>3, <1>4 DEF ExecuteRelease
  <1>6. /\ x \in Releases /\ x \notin RuleChanges /\ release[x].status = "executing" /\ left >= 0
        /\ ReleaseRetirementVaultBalance(x)
        /\ lockedBalance' = [lockedBalance EXCEPT ![a] = left]
        /\ release' = [release EXCEPT ![x].status = "done"]
        /\ sweep' = [sweep EXCEPT ![s] = NoSweep]
        /\ UNCHANGED <<day, rule, handling>>
    BY <1>2, <1>3, <1>4, VaultSubjects DEF ExecuteRelease
  <1>7. /\ a \in Accounts /\ a = Owner[x] /\ x \in Intents /\ Amount[x] \in Nat
        /\ Row(x) = release[x]
    BY <1>3, <1>6, VaultSubjects
  <1>8. /\ vault \in [Accounts -> LockRows] /\ release \in [Releases -> ReleaseRows]
        /\ vault[a] \in LockRows /\ release[x] \in ReleaseRows
        /\ lockedBalance \in [Accounts -> Nat]
    BY <1>6, <1>7 DEF VaultInv, VaultRowsOK
  <1>9. left \in Nat
    BY <1>4, <1>6, <1>7, <1>8
  <1>10. PICK v : v = [vault[a] EXCEPT !.status = t]
    OBVIOUS
  <1>11. PICK row : row = [release[x] EXCEPT !.status = "done"]
    OBVIOUS
  <1>12. /\ v \in LockRows /\ v.status # "absent"
         /\ v.unlockAt = vault[a].unlockAt /\ v.strict = vault[a].strict
    BY <1>8, <1>10 DEF LockRows
  <1>13. row \in ReleaseRows /\ row.status = "done"
    BY <1>8, <1>11 DEF ReleaseRows, RequestStatuses
  <1>14. /\ \A b \in Accounts : vault'[b] = IF b = a THEN v ELSE vault[b]
         /\ vault' \in [Accounts -> LockRows]
    BY <1>5, <1>8, <1>10, <1>12
  <1>15. /\ \A r \in Releases : release'[r] = IF r = x THEN row ELSE release[r]
         /\ release' \in [Releases -> ReleaseRows]
    BY <1>6, <1>8, <1>11, <1>13
  <1>16. VaultRowsOK'
    BY <1>6, <1>9, <1>14, <1>15 DEF VaultInv, VaultRowsOK
  <1>17. /\ LedgerInv'
         /\ journals' = journals \cup {<<x, "retirement_vault_release">>}
         /\ \A b \in Accounts :
              ledger'[VaultLiability(b)] =
                IF b = a THEN ledger[VaultLiability(b)] - Amount[x]
                         ELSE ledger[VaultLiability(b)]
    BY <1>6, <1>7, ReleaseRetirementVaultBalanceStep DEF VaultInv
  <1>18. LockedOK'
    BY <1>4, <1>6, <1>7, <1>8, <1>17 DEF VaultInv, LockedOK
  <1>19. Paid(x)' /\ \A r \in Releases : r # x => (Paid(r)' <=> Paid(r))
    BY <1>17 DEF Paid
  <1>20. day <= day'
    BY <1>6, VaultAssumption DEF VaultInv, VaultRowsOK, VaultAssumption
  <1>21. ReleasesOK'
    <2>1. release'[x] = row
      BY <1>6, <1>15
    <2>2. ReleaseOK(x)'
      BY <1>13, <1>19, <2>1 DEF ReleaseOK, ReleaseRowOK, UnderWay, ActiveRequest
    <2>3. ASSUME NEW r \in Releases, r # x
          PROVE  /\ release'[r] = release[r] /\ (Paid(r)' <=> Paid(r))
                 /\ vault'[Owner[r]].unlockAt = vault[Owner[r]].unlockAt
      BY <1>12, <1>14, <1>15, <1>19, <2>3, VaultSubjects
    <2>4. \A b \in Accounts : vault[b].status # "absent" => vault'[b].status # "absent"
      BY <1>12, <1>14
    <2> QED
      BY <1>16, <1>20, <2>2, <2>3, <2>4, ReleasesFollow
  <1>22. RulesOK'
    BY <1>6, <1>16, <1>20, RulesFollow
  <1>23. \A y \in VaultRequests : Row(y)' = IF y = x THEN row ELSE Row(y)
    BY <1>6, <1>15, VaultSubjects DEF VaultRequests
  <1>24. OneActive'
    <2>1. row.status \notin ActiveRequest
      BY <1>13 DEF ActiveRequest
    <2> QED
      BY <1>23, <2>1, OneActiveFollows
  <1>25. HandlersOK'
    <2>1. Row(x).status \in UnderWay /\ Row(x).status # "cancelled"
      BY <1>6, <1>7 DEF UnderWay
    <2>2. \A c \in RuleChanges : rule'[c] = IF c = x THEN row ELSE rule[c]
      BY <1>6
    <2>3. \A b \in Accounts :
           /\ vault[b].status # "absent" => vault'[b].status # "absent"
           /\ vault'[b].unlockAt = vault[b].unlockAt /\ vault'[b].strict = vault[b].strict
      BY <1>12, <1>14
    <2>4. \A b \in Accounts : Calm(b)
      BY <1>15, <2>1, <2>2, <2>3, SweepLeavesCalm
    <2>5. \A h \in VaultHandlers : handling'[h] # NoVaultRequest => Calm(handling[h].account)
      BY <1>6, <2>4 DEF VaultInv, HandlingOK, HandlingRows
    <2> QED
      BY <1>6, <1>16, <1>20, <2>5, HandlersFollow
  <1>26. SweepOK' /\ ClaimsOK'
    BY <1>1, <1>2, <1>6, <1>19, <1>23, ClaimReturned
  <1> QED
    BY <1>6, <1>16, <1>17, <1>18, <1>21, <1>22, <1>24, <1>25, <1>26 DEF VaultInv, HandlingOK

-----------------------------------------------------------------------------
(* Every step of the service is one of the steps above.                      *)
LEMMA VaultNextCases ==
  ASSUME VaultInv, VaultNext
  PROVE  VaultInv'
  <1>1. CASE \/ \E d \in Intents \ (Fundings \cup Releases) : CreditVaultCustomer(d)
             \/ \E a \in Accounts : ChangeAccountHold(a)
             \/ PassDays
    BY <1>1, VaultEnvironment
  <1>2. CASE \E a \in Accounts, u \in Days, k \in BOOLEAN : CreateRetirementVault(a, u, k)
    BY <1>2, LockStep
  <1>3. ASSUME NEW h \in VaultHandlers,
               HandleFunding(h) \/ HandleReleaseRequest(h)
                 \/ HandleRuleChange(h) \/ HandleRestriction(h)
        PROVE  VaultInv'
    <2>1. 0 \in Days /\ FALSE \in BOOLEAN /\ "active" \in Blocked \cup {"active"}
      BY VaultAssumption DEF VaultAssumption
    <2>2. CASE HandleFunding(h)
      <3>1. PICK f \in Fundings : BeginVaultRequest(h, "fund", f, Owner[f], 0, FALSE, "active")
        BY <2>2 DEF HandleFunding
      <3>2. "fund" \in VaultOps /\ Owner[f] \in Accounts
        BY VaultAssumption, LedgerAssumption DEF VaultOps, VaultAssumption, LedgerAssumption
      <3> QED
        BY <2>1, <3>1, <3>2, BeginStep
    <2>3. CASE HandleReleaseRequest(h)
      <3>1. PICK r \in Releases,
                 op \in {"request_release", "cancel_release", "approve_release", "reject_release"} :
              BeginVaultRequest(h, op, r, Owner[r], 0, FALSE, "active")
        BY <2>3 DEF HandleReleaseRequest
      <3>2. /\ op \in VaultOps /\ Owner[r] \in Accounts /\ r \in VaultRequests
            /\ op \notin {"fund", "request_rule", "cancel_rule", "approve_rule", "reject_rule"}
        BY <3>1, VaultSubjects DEF VaultOps, VaultRequests
      <3> QED
        BY <2>1, <3>1, <3>2, BeginStep
    <2>4. CASE HandleRuleChange(h)
      <3>1. PICK c \in RuleChanges, u \in Days, k \in BOOLEAN,
                 op \in {"request_rule", "cancel_rule", "approve_rule", "reject_rule"} :
              BeginVaultRequest(h, op, c, RuleOwner[c], u, k, "active")
        BY <2>1, <2>4 DEF HandleRuleChange
      <3>2. /\ op \in VaultOps /\ RuleOwner[c] \in Accounts /\ c \in VaultRequests
            /\ op \notin {"fund", "request_release", "cancel_release", "approve_release",
                          "reject_release"}
        BY <3>1, VaultSubjects DEF VaultOps, VaultRequests
      <3> QED
        BY <2>1, <3>1, <3>2, BeginStep
    <2>5. CASE HandleRestriction(h)
      <3>1. PICK a \in Accounts, op \in {"restrict", "unrestrict"},
                 t \in Blocked \cup {"active"} :
              BeginVaultRequest(h, op, a, a, 0, FALSE, t)
        BY <2>1, <2>5 DEF HandleRestriction
      <3>2. /\ op \in VaultOps
            /\ op \notin {"fund", "request_release", "cancel_release", "approve_release",
                          "reject_release", "request_rule", "cancel_rule", "approve_rule",
                          "reject_rule"}
        BY <3>1 DEF VaultOps
      <3> QED
        BY <2>1, <3>1, <3>2, BeginStep
    <2> QED
      BY <1>3, <2>2, <2>3, <2>4, <2>5
  <1>4. ASSUME NEW h \in VaultHandlers, CommitVaultRequest(h)
        PROVE  VaultInv'
    <2>1. CASE CommitFund(h)
      BY <2>1, FundStep
    <2>2. CASE CommitRestrict(h) \/ CommitUnrestrict(h)
      BY <2>2, LockStep
    <2>3. CASE CommitRequestRule(h)
                 /\ ~Weakens(handling[h].vault, handling[h].unlockAt, handling[h].strict)
      BY <2>3, DirectRuleStep
    <2>4. CASE \/ CommitRequestRelease(h) \/ CommitCancelRelease(h) \/ CommitApproveRelease(h)
               \/ CommitRejectRelease(h) \/ CommitCancelRule(h) \/ CommitApproveRule(h)
               \/ CommitRejectRule(h)
               \/ /\ CommitRequestRule(h)
                  /\ Weakens(handling[h].vault, handling[h].unlockAt, handling[h].strict)
      BY <2>4, CommitRowStep
    <2> QED
      BY <1>4, <2>1, <2>2, <2>3, <2>4 DEF CommitVaultRequest
  <1>5. CASE \/ \E h \in VaultHandlers : AbortVaultRequest(h)
             \/ \E s \in Sweepers : \/ CrashSweep(s)
                                    \/ \E x \in Releases \cup RuleChanges : ListReady(s, x)
    BY <1>5, MemoryStep
  <1>6. CASE \E x \in Releases \cup RuleChanges : CompleteCooldown(x)
    BY <1>6, CooldownStep
  <1>7. ASSUME NEW s \in Sweepers, RunSweep(s) \/ ExecutionFails(s)
        PROVE  VaultInv'
    BY <1>7, ClaimStep, ReleaseStep, RuleChangeStep, FailureStep DEF RunSweep
  <1> QED
    BY <1>1, <1>2, <1>3, <1>4, <1>5, <1>6, <1>7 DEF VaultNext

(* The inductive invariant of the retirement vaults.                         *)
LEMMA VaultInvariance == VaultSpec => []VaultInv
  <1>1. VaultInit => VaultInv
    <2> SUFFICES ASSUME VaultInit PROVE VaultInv
      OBVIOUS
    <2>1. LedgerInv /\ ledger = [k \in LedgerAccounts |-> 0] /\ journals = {}
      BY LedgerInitial DEF VaultInit, LedgerInit
    <2>2. VaultRowsOK
      BY VaultAssumption
         DEF VaultInit, VaultAssumption, VaultRowsOK, LockRows, ReleaseRows, RuleRows,
             NoRow, NoRule, RequestStatuses
    <2>3. HandlingOK /\ SweepOK /\ HandlersOK /\ ClaimsOK
      BY DEF VaultInit, HandlingOK, SweepOK, SweepRows, HandlersOK, HandlerFits, HandlerFresh,
             ClaimsOK, NoSweep
    <2>4. LockedOK
      BY <2>1, DistinctVaultAccounts DEF VaultInit, LockedOK
    <2>5. \A r \in Releases : release[r].status = "absent" /\ ~Paid(r)
      BY <2>1 DEF VaultInit, NoRow, Paid
    <2>6. \A c \in RuleChanges : rule[c].status = "absent"
      BY DEF VaultInit, NoRule
    <2>7. ReleasesOK
      BY <2>5 DEF ReleasesOK, ReleaseOK, ReleaseRowOK, UnderWay, ActiveRequest
    <2>8. RulesOK
      BY <2>6 DEF RulesOK, RuleOK, RuleRowOK, UnderWay
    <2>9. OneActive
      BY <2>5, <2>6, VaultSubjects DEF OneActive, VaultRequests, ActiveRequest
    <2> QED
      BY <2>1, <2>2, <2>3, <2>4, <2>7, <2>8, <2>9 DEF VaultInv
  <1>2. VaultInv /\ UNCHANGED <<ledgerVars, vaultVars>> => VaultInv'
    <2> SUFFICES ASSUME VaultInv, UNCHANGED <<ledgerVars, vaultVars>> PROVE VaultInv'
      OBVIOUS
    <2>1. UNCHANGED <<ledgerVars, day, vaultRows, handling, sweep>>
      BY DEF vaultVars
    <2>2. /\ LedgerInv' /\ VaultRowsOK' /\ LockedOK' /\ ReleasesOK' /\ RulesOK' /\ OneActive'
          /\ \A a \in Accounts : Calm(a)
          /\ \A r \in Releases : Paid(r)' <=> Paid(r)
      BY <2>1, OnlyMemory
    <2>3. HandlersOK'
      <3>1. \A h \in VaultHandlers :
              handling'[h] # NoVaultRequest => Calm(handling[h].account)
        BY <2>1, <2>2 DEF VaultInv, HandlingOK, HandlingRows
      <3>2. day <= day'
        BY <2>1, VaultAssumption DEF VaultAssumption, VaultInv, VaultRowsOK
      <3> QED
        BY <2>1, <2>2, <3>1, <3>2, HandlersFollow
    <2>4. ClaimsOK'
      BY <2>1, <2>2, ClaimsUntouched DEF vaultRows
    <2> QED
      BY <2>1, <2>2, <2>3, <2>4 DEF VaultInv, HandlingOK, SweepOK
  <1> QED
    BY <1>1, <1>2, VaultNextCases, PTL DEF VaultSpec

(* What the vault holds is its position in the ledger, and a release was     *)
(* paid exactly when its request says so, or was cancelled too late.         *)
THEOREM VaultCorrect == VaultSpec => []VaultMatchesLedger
  <1>1. VaultInv => VaultMatchesLedger
    BY DEF VaultInv, LockedOK, ReleasesOK, ReleaseOK, ReleaseRowOK, Paid, VaultMatchesLedger
  <1> QED
    BY <1>1, VaultInvariance, PTL

(* The two things that LockHolds is about: money leaves the vault of an      *)
(* account, its lock is weakened.                                            *)
MoneyLeaves(a) == lockedBalance'[a] < lockedBalance[a]
LockWeakens(a) ==
  /\ vault[a].status # "absent"
  /\ vault'[a].unlockAt < vault[a].unlockAt \/ (vault[a].strict /\ ~vault'[a].strict)
Harmless(a) == ~MoneyLeaves(a) /\ ~LockWeakens(a)

(* Steps that leave the lock and the balance of an account alone.            *)
LEMMA SameLock ==
  ASSUME VaultInv, NEW a \in Accounts, lockedBalance'[a] = lockedBalance[a],
         vault[a].status # "absent" =>
           vault'[a].unlockAt = vault[a].unlockAt /\ vault'[a].strict = vault[a].strict
  PROVE  Harmless(a)
  <1>1. lockedBalance[a] \in Nat /\ vault[a].unlockAt \in Nat
    BY VaultAssumption DEF VaultInv, VaultRowsOK, LockRows, VaultAssumption
  <1>2. ~(lockedBalance[a] < lockedBalance[a]) /\ ~(vault[a].unlockAt < vault[a].unlockAt)
    BY <1>1
  <1> QED
    BY <1>2 DEF Harmless, MoneyLeaves, LockWeakens

(* No handler takes money out, and none weakens the lock of an account whose *)
(* handlers do not overlap.                                                  *)
LEMMA HandlerIsHarmless ==
  ASSUME VaultInv, NEW h \in VaultHandlers, CommitVaultRequest(h),
         NEW a \in Accounts \ Racing
  PROVE  Harmless(a)
  <1>1. PICK r \in HandlingRows \cup {NoVaultRequest} : r = handling[h]
    BY DEF VaultInv, HandlingOK
  <1>2. HandlerFits(r) /\ HandlerFresh(h, r)
    BY <1>1 DEF VaultInv, HandlersOK
  <1>3. CASE CommitFund(h)
    <2>1. r.op = "fund"
      BY <1>1, <1>3 DEF CommitFund, Committing
    <2>2. r.id \in Intents /\ r.account \in Accounts /\ Amount[r.id] \in Nat
      BY <1>2, <2>1, VaultAssumption, LedgerAssumption
         DEF HandlerFits, NoVaultRequest, VaultAssumption, LedgerAssumption
    <2>3. /\ lockedBalance' = [lockedBalance EXCEPT ![r.account] = @ + Amount[r.id]]
          /\ vault' = vault
      BY <1>1, <1>3 DEF CommitFund
    <2>4. lockedBalance \in [Accounts -> Nat] /\ vault[a].unlockAt \in Nat
      BY VaultAssumption DEF VaultInv, VaultRowsOK, LockRows, VaultAssumption
    <2> QED
      BY <2>2, <2>3, <2>4 DEF Harmless, MoneyLeaves, LockWeakens
  <1>4. CASE CommitRestrict(h) \/ CommitUnrestrict(h)
    <2>1. PICK t : vault' = [vault EXCEPT ![r.account].status = t]
      BY <1>1, <1>4 DEF CommitRestrict, CommitUnrestrict
    <2>2. /\ vault \in [Accounts -> LockRows] /\ lockedBalance' = lockedBalance
      BY <1>4 DEF VaultInv, VaultRowsOK, CommitRestrict, CommitUnrestrict
    <2>3. vault'[a].unlockAt = vault[a].unlockAt /\ vault'[a].strict = vault[a].strict
      BY <2>1, <2>2 DEF LockRows
    <2> QED
      BY <2>2, <2>3, SameLock
  <1>5. CASE CommitRequestRule(h) /\ ~Weakens(r.vault, r.unlockAt, r.strict)
    <2>1. r.op = "request_rule"
      BY <1>1, <1>5 DEF CommitRequestRule, Committing
    <2>2. r \in HandlingRows
      BY <2>1 DEF NoVaultRequest
    <2>3. /\ vault' = [vault EXCEPT ![r.account].unlockAt = r.unlockAt,
                                    ![r.account].strict = r.strict]
          /\ lockedBalance' = lockedBalance
      BY <1>1, <1>5 DEF CommitRequestRule
    <2>4. r.account \in Accounts /\ r.unlockAt \in Nat
      BY <2>2, VaultAssumption DEF HandlingRows, VaultAssumption
    <2>5. r.account \notin Racing =>
            vault[r.account].unlockAt = r.vault.unlockAt /\ vault[r.account].strict = r.vault.strict
      BY <1>2, <2>1, <2>2, <2>4 DEF HandlerFresh, AsRead, NoVaultRequest
    <2>6. /\ vault \in [Accounts -> LockRows] /\ lockedBalance \in [Accounts -> Nat]
          /\ \A b \in Accounts : vault[b].unlockAt \in Nat /\ vault[b] \in LockRows
      BY VaultAssumption DEF VaultInv, VaultRowsOK, LockRows, VaultAssumption
    <2>7. PICK v : v = [vault[r.account] EXCEPT !.unlockAt = r.unlockAt, !.strict = r.strict]
      OBVIOUS
    <2>8. v.unlockAt = r.unlockAt /\ v.strict = r.strict
      BY <2>4, <2>6, <2>7 DEF LockRows
    <2>9. vault'[a] = IF a = r.account THEN v ELSE vault[a]
      BY <2>3, <2>6, <2>7
    <2>10. ~(r.unlockAt < r.vault.unlockAt) /\ ~(r.vault.strict /\ ~r.strict)
      BY <1>5 DEF Weakens
    <2> QED
      BY <2>3, <2>5, <2>6, <2>8, <2>9, <2>10 DEF Harmless, MoneyLeaves, LockWeakens
  <1>6. CASE ~CommitFund(h) /\ ~CommitRestrict(h) /\ ~CommitUnrestrict(h)
               /\ ~(CommitRequestRule(h) /\ ~Weakens(r.vault, r.unlockAt, r.strict))
    <2>1. UNCHANGED <<vault, lockedBalance>>
      BY <1>1, <1>6 DEF CommitVaultRequest, CommitRequestRelease, CommitCancelRelease,
           CommitApproveRelease, CommitRejectRelease, CommitRequestRule, CommitCancelRule,
           CommitApproveRule, CommitRejectRule, SetRelease, SetRule
    <2> QED
      BY <2>1, SameLock
  <1> QED
    BY <1>3, <1>4, <1>5, <1>6

(* A release is executed when it may be.                                     *)
LEMMA ReleaseIsDue ==
  ASSUME VaultInv, NEW s \in Sweepers, ExecuteRelease(s), NEW a \in Accounts \ Racing
  PROVE  /\ ~LockWeakens(a)
         /\ MoneyLeaves(a) =>
              \/ vault[a].unlockAt <= day
              \/ \E r \in Releases : /\ Owner[r] = a /\ release[r].status = "executing"
                                     /\ release[r].approved
                                     /\ release[r].cooldownEndsAt <= day
  <1>1. PICK x \in VaultRequests : x = sweep[s].id /\ ClaimOK(s, x)
    BY Claimed DEF ExecuteRelease
  <1>2. x \in Releases /\ release[x].status = "executing" /\ Owner[x] \in Accounts
          /\ Subject(x) = Owner[x]
    BY <1>1, VaultSubjects DEF ExecuteRelease
  <1>3. PICK t, left : /\ vault' = [vault EXCEPT ![Owner[x]].status = t]
                       /\ lockedBalance' = [lockedBalance EXCEPT ![Owner[x]] = left]
    BY <1>1, <1>2 DEF ExecuteRelease
  <1>4. vault \in [Accounts -> LockRows] /\ lockedBalance \in [Accounts -> Nat]
    BY DEF VaultInv, VaultRowsOK
  <1>5. vault'[a].unlockAt = vault[a].unlockAt /\ vault'[a].strict = vault[a].strict
    BY <1>3, <1>4 DEF LockRows
  <1>6. ~LockWeakens(a)
    <2>1. vault[a].unlockAt \in Nat
      BY <1>4, VaultAssumption DEF LockRows, VaultAssumption
    <2> QED
      BY <1>5, <2>1 DEF LockWeakens
  <1>7. CASE a # Owner[x]
    <2>1. lockedBalance'[a] = lockedBalance[a] /\ lockedBalance[a] \in Nat
      BY <1>3, <1>4, <1>7
    <2> QED
      BY <1>6, <2>1 DEF MoneyLeaves
  <1>8. CASE a = Owner[x]
    <2>1. ReleaseOK(x)
      BY <1>2, <1>8 DEF VaultInv, ReleasesOK
    <2> QED
      BY <1>2, <1>6, <1>8, <2>1 DEF ReleaseOK, ReleaseRowOK, UnderWay
  <1> QED
    BY <1>7, <1>8

(* The rules are changed when they may be.                                   *)
LEMMA RuleChangeIsDue ==
  ASSUME VaultInv, NEW s \in Sweepers, ExecuteRuleChange(s), NEW a \in Accounts \ Racing
  PROVE  /\ ~MoneyLeaves(a)
         /\ LockWeakens(a) =>
              \E c \in RuleChanges : /\ RuleOwner[c] = a /\ rule[c].status = "executing"
                                     /\ rule[c].approved
                                     /\ rule[c].cooldownEndsAt <= day
  <1>1. PICK x \in VaultRequests : x = sweep[s].id /\ ClaimOK(s, x)
    BY Claimed DEF ExecuteRuleChange
  <1>2. x \in RuleChanges /\ rule[x].status = "executing" /\ RuleOwner[x] \in Accounts
          /\ Subject(x) = RuleOwner[x]
    BY <1>1, VaultSubjects DEF ExecuteRuleChange
  <1>3. PICK u, k : /\ vault' = [vault EXCEPT ![RuleOwner[x]].unlockAt = u,
                                              ![RuleOwner[x]].strict = k]
                    /\ lockedBalance' = lockedBalance
    BY <1>1, <1>2 DEF ExecuteRuleChange
  <1>4. vault \in [Accounts -> LockRows] /\ lockedBalance \in [Accounts -> Nat]
    BY DEF VaultInv, VaultRowsOK
  <1>5. ~MoneyLeaves(a)
    BY <1>3, <1>4 DEF MoneyLeaves
  <1>6. CASE a # RuleOwner[x]
    <2>1. vault'[a] = vault[a] /\ lockedBalance'[a] = lockedBalance[a]
      BY <1>2, <1>3, <1>4, <1>6
    <2>2. Harmless(a)
      BY <2>1, SameLock
    <2> QED
      BY <2>2 DEF Harmless
  <1>7. CASE a = RuleOwner[x]
    <2>1. RuleOK(x)
      BY <1>2, <1>7 DEF VaultInv, RulesOK
    <2> QED
      BY <1>2, <1>5, <1>7, <2>1 DEF RuleOK, RuleRowOK, UnderWay
  <1> QED
    BY <1>6, <1>7

(* No other step touches what is locked.                                     *)
LEMMA OthersAreHarmless ==
  ASSUME VaultInv, VaultNext, NEW a \in Accounts \ Racing,
         \A s \in Sweepers : ~ExecuteRelease(s) /\ ~ExecuteRuleChange(s)
  PROVE  Harmless(a)
  <1>1. CASE \E h \in VaultHandlers : CommitVaultRequest(h)
    BY <1>1, HandlerIsHarmless
  <1>2. CASE \E b \in Accounts, u \in Days, k \in BOOLEAN : CreateRetirementVault(b, u, k)
    <2>1. PICK b \in Accounts : \E v :
            /\ vault[b].status = "absent" /\ vault' = [vault EXCEPT ![b] = v]
            /\ lockedBalance' = lockedBalance
      BY <1>2 DEF CreateRetirementVault
    <2>2. vault \in [Accounts -> LockRows]
      BY DEF VaultInv, VaultRowsOK
    <2>3. vault[a].status # "absent" => vault'[a] = vault[a]
      BY <2>1, <2>2
    <2> QED
      BY <2>1, <2>3, SameLock
  <1>3. CASE UNCHANGED <<vault, lockedBalance>>
    BY <1>3, SameLock
  <1>4. \/ \E h \in VaultHandlers : CommitVaultRequest(h)
        \/ \E b \in Accounts, u \in Days, k \in BOOLEAN : CreateRetirementVault(b, u, k)
        \/ UNCHANGED <<vault, lockedBalance>>
    <2>1. ASSUME NEW h \in VaultHandlers,
                 \/ HandleFunding(h) \/ HandleReleaseRequest(h)
                 \/ HandleRuleChange(h) \/ HandleRestriction(h) \/ AbortVaultRequest(h)
          PROVE  UNCHANGED <<vault, lockedBalance>>
      BY <2>1 DEF HandleFunding, HandleReleaseRequest, HandleRuleChange, HandleRestriction,
                  BeginVaultRequest, AbortVaultRequest, vaultVars, vaultRows
    <2>2. ASSUME NEW s \in Sweepers,
                 \/ \E x \in Releases \cup RuleChanges : ListReady(s, x)
                 \/ ClaimReady(s) \/ ExecutionFails(s) \/ CrashSweep(s)
          PROVE  UNCHANGED <<vault, lockedBalance>>
      BY <2>2 DEF ListReady, ClaimReady, ExecutionFails, CrashSweep, vaultVars, vaultRows
    <2>3. ASSUME \/ \E d \in Intents \ (Fundings \cup Releases) : CreditVaultCustomer(d)
                 \/ \E b \in Accounts : ChangeAccountHold(b)
                 \/ PassDays
                 \/ \E x \in Releases \cup RuleChanges : CompleteCooldown(x)
          PROVE  UNCHANGED <<vault, lockedBalance>>
      BY <2>3 DEF CreditVaultCustomer, ChangeAccountHold, PassDays, CompleteCooldown,
                  vaultVars, vaultRows
    <2>4. \A s \in Sweepers : RunSweep(s) => ClaimReady(s)
      BY DEF RunSweep
    <2> QED
      BY <2>1, <2>2, <2>3, <2>4 DEF VaultNext
  <1> QED
    BY <1>1, <1>2, <1>3, <1>4

(* What a customer locked stays locked: money leaves a vault after the       *)
(* unlock date, or for an approved request that has waited, and the lock is  *)
(* weakened only by an approved change that has waited.                      *)
THEOREM LockCorrect == VaultSpec => LockHolds
  <1> DEFINE Due(a) ==
        /\ MoneyLeaves(a) =>
             \/ vault[a].unlockAt <= day
             \/ \E r \in Releases : /\ Owner[r] = a /\ release[r].status = "executing"
                                    /\ release[r].approved
                                    /\ release[r].cooldownEndsAt <= day
        /\ LockWeakens(a) =>
             \E c \in RuleChanges : /\ RuleOwner[c] = a /\ rule[c].status = "executing"
                                    /\ rule[c].approved
                                    /\ rule[c].cooldownEndsAt <= day
  <1>1. ASSUME VaultInv, [VaultNext]_<<ledgerVars, vaultVars>>
        PROVE  [\A a \in Accounts \ Racing : Due(a)]_vaultVars
    <2>1. CASE UNCHANGED <<ledgerVars, vaultVars>>
      BY <2>1
    <2>2. ASSUME VaultNext, NEW a \in Accounts \ Racing PROVE Due(a)
      <3>1. CASE \E s \in Sweepers : ExecuteRelease(s)
        BY <1>1, <3>1, ReleaseIsDue
      <3>2. CASE \E s \in Sweepers : ExecuteRuleChange(s)
        BY <1>1, <3>2, RuleChangeIsDue
      <3>3. CASE \A s \in Sweepers : ~ExecuteRelease(s) /\ ~ExecuteRuleChange(s)
        BY <1>1, <2>2, <3>3, OthersAreHarmless DEF Harmless
      <3> QED
        BY <3>1, <3>2, <3>3
    <2> HIDE DEF Due
    <2> QED
      BY <1>1, <2>1, <2>2
  <1>2. [\A a \in Accounts \ Racing : Due(a)]_vaultVars =>
          [\A a \in Accounts \ Racing :
             /\ lockedBalance'[a] < lockedBalance[a] =>
                  \/ vault[a].unlockAt <= day
                  \/ \E r \in Releases : /\ Owner[r] = a /\ release[r].status = "executing"
                                         /\ release[r].approved
                                         /\ release[r].cooldownEndsAt <= day
             /\ vault[a].status # "absent"
                  /\ (vault'[a].unlockAt < vault[a].unlockAt
                        \/ (vault[a].strict /\ ~vault'[a].strict)) =>
                  \E c \in RuleChanges : /\ RuleOwner[c] = a /\ rule[c].status = "executing"
                                         /\ rule[c].approved
                                         /\ rule[c].cooldownEndsAt <= day]_vaultVars
    BY DEF MoneyLeaves, LockWeakens
  <1> QED
    BY <1>1, <1>2, VaultInvariance, PTL DEF VaultSpec, LockHolds

-----------------------------------------------------------------------------
(* Loans.  What an agreement, or an approval that still runs, says of the   *)
(* contract is so, because the contract takes no loan back.                 *)

AgreementRows ==
  [status : AgreementStatuses \cup {"absent"}, principal : Int, fee : Int,
   autopay : BOOLEAN, grace : {"none", "running", "expired"}, activated : BOOLEAN]
ApprovalRows == [op : {"approve"}, loan : Agreements, onchain : BOOLEAN]

(* The contract holds one loan for the agreement, if it is LoanBookV1.      *)
Held(l) == LoanBookV1 => onchain[l] = 1

AgreementsOK ==
  /\ agreement \in [Agreements -> AgreementRows]
  /\ \A l \in Agreements : agreement[l].activated => Held(l)

(* An approval remembers a loan only if the contract holds it.              *)
LoanRequestOK(r) ==
  /\ r.op \in LoanOps => r.loan \in Agreements
  /\ r.op = "autopay" => r.principal \in Int /\ r.fee \in Int
  /\ r.op = "approve" => r \in ApprovalRows /\ (r.onchain => Held(r.loan))

LoanRequestsOK ==
  /\ DOMAIN loanRequest = LoanHandlers
  /\ \A h \in LoanHandlers : loanRequest[h] # NoLoanRequest => LoanRequestOK(loanRequest[h])

OnchainOK ==
  /\ onchain \in [Agreements -> Nat]
  /\ LoanBookV1 => \A l \in Agreements : onchain[l] <= 1

LoanInv == AgreementsOK /\ LoanRequestsOK /\ OnchainOK

(* What a step does to agreements, and that it creates no loan.             *)
AgreementsMove ==
  /\ onchain' = onchain
  /\ \/ agreement' = agreement
     \/ \E l \in Agreements, row \in AgreementRows :
          /\ agreement' = [agreement EXCEPT ![l] = row]
          /\ row.activated => agreement[l].activated

RequestsMove ==
  \/ loanRequest' = loanRequest
  \/ \E h \in LoanHandlers : \E r :
       /\ loanRequest' = [loanRequest EXCEPT ![h] = r]
       /\ r # NoLoanRequest => LoanRequestOK(r)

(* Such a step keeps what agreements say of the contract.                   *)
LEMMA AgreementsMoveStep ==
  ASSUME LoanInv, AgreementsMove
  PROVE  AgreementsOK' /\ OnchainOK'
  <1>1. OnchainOK'
    BY DEF LoanInv, OnchainOK, AgreementsMove
  <1>2. ASSUME agreement' = agreement PROVE AgreementsOK'
    BY <1>2 DEF LoanInv, AgreementsOK, AgreementsMove, Held
  <1>3. ASSUME NEW l \in Agreements, NEW row \in AgreementRows,
               agreement' = [agreement EXCEPT ![l] = row],
               row.activated => agreement[l].activated
        PROVE  AgreementsOK'
    <2>1. agreement' \in [Agreements -> AgreementRows]
      BY <1>3 DEF LoanInv, AgreementsOK
    <2>2. \A k \in Agreements : agreement'[k] = IF k = l THEN row ELSE agreement[k]
      BY <1>3 DEF LoanInv, AgreementsOK
    <2> QED
      BY <1>3, <2>1, <2>2 DEF LoanInv, AgreementsOK, AgreementsMove, Held
  <1> QED
    BY <1>1, <1>2, <1>3 DEF AgreementsMove

(* And what handlers remember of it.                                        *)
LEMMA RequestsMoveStep ==
  ASSUME LoanInv, onchain' = onchain, RequestsMove
  PROVE  LoanRequestsOK'
  <1>1. CASE loanRequest' = loanRequest
    BY <1>1 DEF LoanInv, LoanRequestsOK, LoanRequestOK, Held
  <1>2. ASSUME NEW h \in LoanHandlers, NEW r,
               loanRequest' = [loanRequest EXCEPT ![h] = r],
               r # NoLoanRequest => LoanRequestOK(r)
        PROVE  LoanRequestsOK'
    <2>1. /\ DOMAIN loanRequest' = LoanHandlers
          /\ \A g \in LoanHandlers : loanRequest'[g] = IF g = h THEN r ELSE loanRequest[g]
      BY <1>2 DEF LoanInv, LoanRequestsOK
    <2>2. \A g \in LoanHandlers :
            loanRequest[g] # NoLoanRequest => LoanRequestOK(loanRequest[g])
      BY DEF LoanInv, LoanRequestsOK
    <2> QED
      BY <1>2, <2>1, <2>2 DEF LoanRequestsOK, LoanRequestOK, Held
  <1> QED
    BY <1>1, <1>2 DEF RequestsMove

(* A step that creates no loan and activates no agreement.                  *)
LEMMA QuietLoanStep ==
  ASSUME LoanInv, AgreementsMove, RequestsMove
  PROVE  LoanInv'
  BY AgreementsMoveStep, RequestsMoveStep DEF LoanInv, AgreementsMove

(* A handler that ends: what it worked on, and the slot it leaves.          *)
LEMMA LoanHandlerEnds ==
  ASSUME LoanInv, NEW h \in LoanHandlers, NEW op \in LoanOps, CommittingLoan(h, op)
  PROVE  /\ RequestsMove /\ onchain' = onchain
         /\ loanRequest[h].loan \in Agreements
         /\ LoanRequestOK(loanRequest[h])
         /\ agreement[loanRequest[h].loan] \in AgreementRows
  <1>1. /\ loanRequest[h].op = op
        /\ loanRequest' = [loanRequest EXCEPT ![h] = NoLoanRequest]
        /\ onchain' = onchain
    BY DEF CommittingLoan
  <1>2. loanRequest[h] # NoLoanRequest
    BY <1>1 DEF NoLoanRequest, LoanOps
  <1>3. LoanRequestOK(loanRequest[h])
    BY <1>2 DEF LoanInv, LoanRequestsOK
  <1>4. loanRequest[h].loan \in Agreements
    BY <1>1, <1>3 DEF LoanRequestOK
  <1>5. RequestsMove
    BY <1>1 DEF RequestsMove
  <1> QED
    BY <1>1, <1>3, <1>4, <1>5 DEF LoanInv, AgreementsOK

(* An agreement written with what it was and a new status or outstanding    *)
(* amount.                                                                  *)
LEMMA AgreementWritten ==
  ASSUME LoanInv, onchain' = onchain, NEW l \in Agreements, NEW row,
         agreement' = [agreement EXCEPT ![l] = row],
         row \in AgreementRows, row.activated = agreement[l].activated
  PROVE  AgreementsMove
  BY DEF AgreementsMove

(* The handlers of servicing, funding and liquidation.                      *)
LEMMA ServicingStep ==
  ASSUME LoanInv, NEW h \in LoanHandlers,
         \/ FundAgreement(h) \/ AutopayFails(h) \/ AutopaySettles(h) \/ RefreshValuation(h)
         \/ EscalateDefault(h) \/ StartLiquidationReview(h) \/ ExecuteLiquidation(h)
  PROVE  LoanInv'
  <1> PICK r : r = loanRequest[h]
    OBVIOUS
  <1>1. CASE FundAgreement(h)
    <2>1. /\ CommittingLoan(h, "fund")
          /\ agreement' = [agreement EXCEPT ![r.loan].status = "active"]
      BY <1>1 DEF FundAgreement
    <2>2. RequestsMove /\ onchain' = onchain /\ r.loan \in Agreements
      BY <2>1, LoanHandlerEnds DEF LoanOps
    <2>3. PICK old \in AgreementRows : old = agreement[r.loan]
      BY <2>2 DEF LoanInv, AgreementsOK
    <2>4. /\ [old EXCEPT !.status = "active"] \in AgreementRows
          /\ [old EXCEPT !.status = "active"].activated = old.activated
      BY DEF AgreementRows, AgreementStatuses
    <2>5. agreement' = [agreement EXCEPT ![r.loan] = [old EXCEPT !.status = "active"]]
      BY <2>1, <2>3
    <2>6. AgreementsMove
      BY <2>2, <2>3, <2>4, <2>5, AgreementWritten
    <2> QED
      BY <2>2, <2>6, QuietLoanStep
  <1>2. CASE AutopayFails(h)
    <2>1. /\ CommittingLoan(h, "autopay")
          /\ agreement' = [agreement EXCEPT ![r.loan].status = "grace_period",
                                            ![r.loan].grace = "running"]
      BY <1>2 DEF AutopayFails
    <2>2. RequestsMove /\ onchain' = onchain /\ r.loan \in Agreements
      BY <2>1, LoanHandlerEnds DEF LoanOps
    <2>3. PICK old \in AgreementRows : old = agreement[r.loan]
      BY <2>2 DEF LoanInv, AgreementsOK
    <2>4. PICK new : new = [old EXCEPT !.status = "grace_period", !.grace = "running"]
      OBVIOUS
    <2>5. new \in AgreementRows /\ new.activated = old.activated
      BY <2>4 DEF AgreementRows, AgreementStatuses
    <2>6. agreement' = [agreement EXCEPT ![r.loan] = new]
      BY <2>1, <2>2, <2>3, <2>4 DEF LoanInv, AgreementsOK
    <2>7. AgreementsMove
      BY <2>2, <2>3, <2>5, <2>6, AgreementWritten
    <2> QED
      BY <2>2, <2>7, QuietLoanStep
  <1>3. CASE AutopaySettles(h)
    <2> DEFINE principal == r.principal - Share[r.loan]
               fee == r.fee - FeeShare[r.loan]
               state == IF principal <= 0 /\ fee <= 0 THEN "closed" ELSE "active"
    <2>1. /\ CommittingLoan(h, "autopay") /\ r.op = "autopay"
          /\ agreement' = [agreement EXCEPT ![r.loan].status = state, ![r.loan].grace = "none",
                                            ![r.loan].principal = principal,
                                            ![r.loan].fee = fee]
      BY <1>3 DEF AutopaySettles, CommittingLoan
    <2>2. /\ RequestsMove /\ onchain' = onchain /\ r.loan \in Agreements
          /\ LoanRequestOK(r)
      BY <2>1, LoanHandlerEnds DEF LoanOps
    <2>3. principal \in Int /\ fee \in Int /\ state \in AgreementStatuses
      BY <2>1, <2>2, LoanAssumption DEF LoanRequestOK, AgreementStatuses
    <2> HIDE DEF principal, fee, state
    <2>4. PICK old \in AgreementRows : old = agreement[r.loan]
      BY <2>2 DEF LoanInv, AgreementsOK
    <2>5. PICK new : new = [old EXCEPT !.status = state, !.grace = "none",
                                       !.principal = principal, !.fee = fee]
      OBVIOUS
    <2>6. new \in AgreementRows /\ new.activated = old.activated
      BY <2>3, <2>5 DEF AgreementRows
    <2>7. agreement' = [agreement EXCEPT ![r.loan] = new]
      BY <2>1, <2>2, <2>4, <2>5 DEF LoanInv, AgreementsOK
    <2>8. AgreementsMove
      BY <2>2, <2>4, <2>6, <2>7, AgreementWritten
    <2> QED
      BY <2>2, <2>8, QuietLoanStep
  <1>4. CASE RefreshValuation(h)
    <2>1. CommittingLoan(h, "valuation") /\ agreement' = agreement
      BY <1>4 DEF RefreshValuation
    <2> QED
      BY <2>1, LoanHandlerEnds, QuietLoanStep DEF LoanOps, AgreementsMove
  <1>5. CASE EscalateDefault(h) \/ StartLiquidationReview(h)
    <2>1. /\ CommittingLoan(h, "escalate") \/ CommittingLoan(h, "start_liquidation")
          /\ agreement' = [agreement EXCEPT ![r.loan].status = "defaulted"]
      BY <1>5 DEF EscalateDefault, StartLiquidationReview
    <2>2. RequestsMove /\ onchain' = onchain /\ r.loan \in Agreements
      BY <2>1, LoanHandlerEnds DEF LoanOps
    <2>3. PICK old \in AgreementRows : old = agreement[r.loan]
      BY <2>2 DEF LoanInv, AgreementsOK
    <2>4. /\ [old EXCEPT !.status = "defaulted"] \in AgreementRows
          /\ [old EXCEPT !.status = "defaulted"].activated = old.activated
      BY DEF AgreementRows, AgreementStatuses
    <2>5. agreement' = [agreement EXCEPT ![r.loan] = [old EXCEPT !.status = "defaulted"]]
      BY <2>1, <2>3
    <2>6. AgreementsMove
      BY <2>2, <2>3, <2>4, <2>5, AgreementWritten
    <2> QED
      BY <2>2, <2>6, QuietLoanStep
  <1>6. CASE ExecuteLiquidation(h)
    <2>1. /\ CommittingLoan(h, "execute_liquidation")
          /\ agreement' = [agreement EXCEPT ![r.loan].status = "closed",
                                            ![r.loan].principal = 0, ![r.loan].fee = 0]
      BY <1>6 DEF ExecuteLiquidation
    <2>2. RequestsMove /\ onchain' = onchain /\ r.loan \in Agreements
      BY <2>1, LoanHandlerEnds DEF LoanOps
    <2>3. PICK old \in AgreementRows : old = agreement[r.loan]
      BY <2>2 DEF LoanInv, AgreementsOK
    <2> DEFINE state == "closed"
               nothing == 0
    <2> state \in AgreementStatuses /\ nothing \in Int
      BY DEF AgreementStatuses
    <2> HIDE DEF state, nothing
    <2>4. PICK new : new = [old EXCEPT !.status = state, !.principal = nothing, !.fee = nothing]
      OBVIOUS
    <2>5. new \in AgreementRows /\ new.activated = old.activated
      BY <2>4 DEF AgreementRows
    <2>6. agreement' = [agreement EXCEPT ![r.loan] = new]
      BY <2>1, <2>2, <2>3, <2>4 DEF LoanInv, AgreementsOK, state, nothing
    <2>7. AgreementsMove
      BY <2>2, <2>3, <2>5, <2>6, AgreementWritten
    <2> QED
      BY <2>2, <2>7, QuietLoanStep
  <1> QED
    BY <1>1, <1>2, <1>3, <1>4, <1>5, <1>6

(* An operator, the customer or the passing of time writes an agreement, or *)
(* something else.                                                          *)
LEMMA OperatorLoanStep ==
  ASSUME LoanInv, NEW l \in Agreements,
         OperatorStep(l) \/ PassMonth(l) \/ PassGracePeriod(l)
  PROVE  LoanInv'
  <1>1. PICK old \in AgreementRows : old = agreement[l]
    BY DEF LoanInv, AgreementsOK
  <1>2. ASSUME UNCHANGED <<onchain, loanRequest>>, NEW row \in AgreementRows,
               row.activated = old.activated, agreement' = [agreement EXCEPT ![l] = row]
        PROVE  LoanInv'
    BY <1>1, <1>2, AgreementWritten, QuietLoanStep DEF RequestsMove
  <1>3. ASSUME UNCHANGED <<onchain, loanRequest, agreement>> PROVE LoanInv'
    BY <1>3, QuietLoanStep DEF RequestsMove, AgreementsMove
  <1>4. CASE CreateApplication(l) \/ RequestMoreEvidence(l) \/ RejectApplication(l) \/ PassMonth(l)
    BY <1>3, <1>4 DEF CreateApplication, RequestMoreEvidence, RejectApplication,
                      DecideApplication, PassMonth, loanRows
  <1>5. ASSUME NEW enabled \in BOOLEAN, SetCustomerAutopayPreference(l, enabled)
        PROVE  LoanInv'
    <2>1. PICK new : new = [old EXCEPT !.autopay = enabled]
      OBVIOUS
    <2>2. new \in AgreementRows /\ new.activated = old.activated
      BY <2>1 DEF AgreementRows
    <2>3. agreement' = [agreement EXCEPT ![l] = new] /\ UNCHANGED <<onchain, loanRequest>>
      BY <1>1, <1>5, <2>1 DEF SetCustomerAutopayPreference
    <2> QED
      BY <1>2, <2>2, <2>3
  <1>6. CASE ApproveLiquidation(l)
    <2>1. PICK new : new = [old EXCEPT !.status = "liquidating"]
      OBVIOUS
    <2>2. new \in AgreementRows /\ new.activated = old.activated
      BY <2>1 DEF AgreementRows, AgreementStatuses
    <2>3. agreement' = [agreement EXCEPT ![l] = new] /\ UNCHANGED <<onchain, loanRequest>>
      BY <1>1, <1>6, <2>1 DEF ApproveLiquidation
    <2> QED
      BY <1>2, <2>2, <2>3
  <1>7. CASE CloseAgreement(l)
    <2> DEFINE state == "closed"
               nothing == 0
    <2> state \in AgreementStatuses /\ nothing \in Int
      BY DEF AgreementStatuses
    <2>1. /\ agreement' = [agreement EXCEPT ![l].status = state, ![l].principal = nothing,
                                            ![l].fee = nothing]
          /\ UNCHANGED <<onchain, loanRequest>>
      BY <1>7 DEF CloseAgreement
    <2> HIDE DEF state, nothing
    <2>2. PICK new : new = [old EXCEPT !.status = state, !.principal = nothing, !.fee = nothing]
      OBVIOUS
    <2>3. new \in AgreementRows /\ new.activated = old.activated
      BY <2>2 DEF AgreementRows
    <2>4. agreement' = [agreement EXCEPT ![l] = new]
      BY <1>1, <2>1, <2>2 DEF LoanInv, AgreementsOK
    <2> QED
      BY <1>2, <2>1, <2>3, <2>4
  <1>8. CASE PassGracePeriod(l)
    <2>1. PICK new : new = [old EXCEPT !.grace = "expired"]
      OBVIOUS
    <2>2. new \in AgreementRows /\ new.activated = old.activated
      BY <2>1 DEF AgreementRows
    <2>3. agreement' = [agreement EXCEPT ![l] = new] /\ UNCHANGED <<onchain, loanRequest>>
      BY <1>1, <1>8, <2>1 DEF PassGracePeriod
    <2> QED
      BY <1>2, <2>2, <2>3
  <1> QED
    BY <1>4, <1>5, <1>6, <1>7, <1>8 DEF OperatorStep

(* A handler begins: an approval has created nothing yet.                   *)
LEMMA BeginLoanStep ==
  ASSUME LoanInv, NEW h \in LoanHandlers, NEW l \in Agreements, NEW op \in LoanOps,
         BeginLoanRequest(h, op, l)
  PROVE  LoanInv'
  <1>1. UNCHANGED <<onchain, agreement>>
    BY DEF BeginLoanRequest, loanRows
  <1>2. agreement[l].principal \in Int /\ agreement[l].fee \in Int
    BY DEF LoanInv, AgreementsOK, AgreementRows
  <1>3. PICK r : /\ loanRequest' = [loanRequest EXCEPT ![h] = r]
                 /\ r = CASE op = "autopay" ->
                               [op |-> op, loan |-> l, due |-> Min(DueInstallments(l)),
                                principal |-> agreement[l].principal, fee |-> agreement[l].fee,
                                covered |-> availableBalance[Borrower[l]] >= Share[l] + FeeShare[l]]
                          [] op = "valuation" ->
                               [op |-> op, loan |-> l,
                                outstanding |-> agreement[l].principal + agreement[l].fee]
                          [] op = "execute_liquidation" ->
                               [op |-> op, loan |-> l, age |-> Len(cases[l])]
                          [] op = "approve" -> [op |-> op, loan |-> l, onchain |-> FALSE]
                          [] OTHER -> [op |-> op, loan |-> l]
    BY DEF BeginLoanRequest
  <1>4. CASE op = "approve"
    <2>1. r = [op |-> op, loan |-> l, onchain |-> FALSE]
      BY <1>3, <1>4
    <2>2. LoanRequestOK(r)
      BY <1>4, <2>1 DEF LoanRequestOK, ApprovalRows, LoanOps
    <2> QED
      BY <1>1, <1>3, <2>2, QuietLoanStep DEF RequestsMove, AgreementsMove
  <1>5. CASE op = "autopay"
    <2>1. r.op = op /\ r.loan = l /\ r.principal = agreement[l].principal /\ r.fee = agreement[l].fee
      BY <1>3, <1>5
    <2>2. LoanRequestOK(r)
      BY <1>2, <1>5, <2>1 DEF LoanRequestOK
    <2> QED
      BY <1>1, <1>3, <2>2, QuietLoanStep DEF RequestsMove, AgreementsMove
  <1>6. CASE op \notin {"approve", "autopay"}
    <2>1. r.op = op /\ r.loan = l
      BY <1>3, <1>6 DEF LoanOps
    <2>2. LoanRequestOK(r)
      BY <1>6, <2>1 DEF LoanRequestOK
    <2> QED
      BY <1>1, <1>3, <2>2, QuietLoanStep DEF RequestsMove, AgreementsMove
  <1> QED
    BY <1>4, <1>5, <1>6

(* The contract takes another loan: it had none for this agreement.         *)
LEMMA LoanCreated ==
  ASSUME LoanInv, NEW l \in Agreements, ContractCreates(l),
         onchain' = [onchain EXCEPT ![l] = @ + 1]
  PROVE  /\ OnchainOK'
         /\ Held(l)'
         /\ \A k \in Agreements : Held(k) => Held(k)'
  BY DEF LoanInv, OnchainOK, ContractCreates, Held

(* The chain answers an approval, which remembers it.                       *)
LEMMA CreateOnchainStep ==
  ASSUME LoanInv, NEW h \in LoanHandlers, MaybeCreateOnchainLoan(h)
  PROVE  LoanInv'
  <1>1. loanRequest[h].op = "approve" /\ loanRequest[h] # NoLoanRequest
    BY DEF MaybeCreateOnchainLoan, NoLoanRequest
  <1>2. PICK r \in ApprovalRows : r = loanRequest[h]
    BY <1>1 DEF LoanInv, LoanRequestsOK, LoanRequestOK
  <1>3. PICK new : new = [r EXCEPT !.onchain = TRUE]
    OBVIOUS
  <1>4. new \in ApprovalRows /\ new.loan = r.loan /\ new.op = "approve" /\ r.loan \in Agreements
    BY <1>3 DEF ApprovalRows
  <1>5. /\ ContractCreates(r.loan)
        /\ onchain' = [onchain EXCEPT ![r.loan] = @ + 1]
        /\ loanRequest' = [loanRequest EXCEPT ![h] = new]
        /\ agreement' = agreement
    BY <1>2, <1>3 DEF MaybeCreateOnchainLoan, loanRows
  <1>6. /\ OnchainOK' /\ Held(r.loan)'
        /\ \A k \in Agreements : Held(k) => Held(k)'
    BY <1>4, <1>5, LoanCreated
  <1>7. AgreementsOK'
    BY <1>5, <1>6 DEF LoanInv, AgreementsOK
  <1>8. LoanRequestOK(new)'
    BY <1>4, <1>6 DEF LoanRequestOK
  <1>9. ASSUME NEW g \in LoanHandlers, g # h, loanRequest[g] # NoLoanRequest
        PROVE  LoanRequestOK(loanRequest[g])'
    <2>1. PICK q : q = loanRequest[g]
      OBVIOUS
    <2>2. LoanRequestOK(q)
      BY <1>9, <2>1 DEF LoanInv, LoanRequestsOK
    <2>3. q.op = "approve" => q.loan \in Agreements
      BY <2>2 DEF LoanRequestOK, ApprovalRows
    <2>4. loanRequest'[g] = q
      BY <1>5, <1>9, <2>1 DEF LoanInv, LoanRequestsOK
    <2> QED
      BY <1>6, <2>2, <2>3, <2>4 DEF LoanRequestOK
  <1>10. /\ DOMAIN loanRequest' = LoanHandlers /\ loanRequest'[h] = new
         /\ \A g \in LoanHandlers : g # h => loanRequest'[g] = loanRequest[g]
    BY <1>5 DEF LoanInv, LoanRequestsOK
  <1>11. LoanRequestsOK'
    BY <1>8, <1>9, <1>10 DEF LoanRequestsOK
  <1> QED
    BY <1>6, <1>7, <1>11 DEF LoanInv

(* The governed execution module creates the loan and says so.              *)
LEMMA GovernedActivationStep ==
  ASSUME LoanInv, NEW l \in Agreements, GovernedActivation(l)
  PROVE  LoanInv'
  <1>1. PICK old \in AgreementRows : old = agreement[l]
    BY DEF LoanInv, AgreementsOK
  <1>2. PICK new : new = [old EXCEPT !.activated = TRUE]
    OBVIOUS
  <1>3. new \in AgreementRows
    BY <1>2 DEF AgreementRows
  <1>4. /\ ContractCreates(l)
        /\ onchain' = [onchain EXCEPT ![l] = @ + 1]
        /\ agreement' = [agreement EXCEPT ![l] = new]
        /\ loanRequest' = loanRequest
    BY <1>1, <1>2 DEF GovernedActivation
  <1>5. /\ OnchainOK' /\ Held(l)'
        /\ \A k \in Agreements : Held(k) => Held(k)'
    BY <1>4, LoanCreated
  <1>6. AgreementsOK'
    BY <1>3, <1>4, <1>5 DEF LoanInv, AgreementsOK
  <1>7. ASSUME NEW h \in LoanHandlers, loanRequest[h] # NoLoanRequest
        PROVE  LoanRequestOK(loanRequest[h])'
    <2>1. PICK q : q = loanRequest[h]
      OBVIOUS
    <2>2. LoanRequestOK(q)
      BY <1>7, <2>1 DEF LoanInv, LoanRequestsOK
    <2>3. q.op = "approve" => q.loan \in Agreements
      BY <2>2 DEF LoanRequestOK, ApprovalRows
    <2> QED
      BY <1>4, <1>5, <2>1, <2>2, <2>3 DEF LoanRequestOK
  <1>8. LoanRequestsOK'
    BY <1>4, <1>7 DEF LoanInv, LoanRequestsOK
  <1> QED
    BY <1>5, <1>6, <1>8 DEF LoanInv

(* An agreement is activated only by an approval that created its loan.     *)
LEMMA ApprovalStepOfLoan ==
  ASSUME LoanInv, NEW h \in LoanHandlers, CommitApproval(h)
  PROVE  LoanInv'
  <1>1. /\ CommittingLoan(h, "approve") /\ loanRequest[h].op = "approve"
    BY DEF CommitApproval, CommittingLoan
  <1>2. /\ RequestsMove /\ onchain' = onchain /\ LoanRequestOK(loanRequest[h])
    BY <1>1, LoanHandlerEnds DEF LoanOps
  <1>3. PICK r \in ApprovalRows : r = loanRequest[h] /\ (r.onchain => Held(r.loan))
    BY <1>1, <1>2 DEF LoanRequestOK
  <1>4. r.loan \in Agreements /\ r.onchain \in BOOLEAN
    BY <1>3 DEF ApprovalRows
  <1>5. Principal(r.loan) \in Int /\ Fee(r.loan) \in Int
    <2>1. Share[r.loan] \in Nat /\ FeeShare[r.loan] \in Nat /\ Term[r.loan] \in Nat
      BY <1>4, LoanAssumption
    <2> QED
      BY <2>1 DEF Principal, Fee
  <1>6. PICK new :
          /\ new = [status |-> "awaiting_funding", principal |-> Principal(r.loan),
                    fee |-> Fee(r.loan), autopay |-> TRUE, grace |-> "none",
                    activated |-> r.onchain]
          /\ agreement' = [agreement EXCEPT ![r.loan] = new]
    BY <1>3 DEF CommitApproval
  <1>7. new \in AgreementRows /\ new.activated = r.onchain
    BY <1>4, <1>5, <1>6 DEF AgreementRows, AgreementStatuses
  <1>8. AgreementsOK'
    <2>1. agreement' \in [Agreements -> AgreementRows]
      BY <1>6, <1>7 DEF LoanInv, AgreementsOK
    <2>2. \A k \in Agreements : agreement'[k] = IF k = r.loan THEN new ELSE agreement[k]
      BY <1>4, <1>6 DEF LoanInv, AgreementsOK
    <2> QED
      BY <1>2, <1>3, <1>7, <2>1, <2>2 DEF LoanInv, AgreementsOK, Held
  <1> QED
    BY <1>2, <1>8, RequestsMoveStep DEF LoanInv, OnchainOK

-----------------------------------------------------------------------------
(* Initially there is no agreement.                                         *)
LEMMA LoanInitial == LoanInit => LoanInv
  <1> SUFFICES ASSUME LoanInit PROVE LoanInv
    OBVIOUS
  <1>1. NoAgreement \in AgreementRows /\ NoAgreement.activated = FALSE
    BY DEF NoAgreement, AgreementRows, AgreementStatuses
  <1>2. AgreementsOK
    BY <1>1 DEF LoanInit, AgreementsOK
  <1>3. LoanRequestsOK /\ OnchainOK
    BY DEF LoanInit, LoanRequestsOK, OnchainOK
  <1> QED
    BY <1>2, <1>3 DEF LoanInv

(* Every step of the lending service preserves the invariant.               *)
LEMMA LoanInvStep ==
  LoanInv /\ [LoanNext]_<<ledgerVars, loanVars>> => LoanInv'
  <1> SUFFICES ASSUME LoanInv, [LoanNext]_<<ledgerVars, loanVars>>
               PROVE  LoanInv'
    OBVIOUS
  <1>1. ASSUME UNCHANGED <<agreement, onchain, loanRequest>> PROVE LoanInv'
    BY <1>1, QuietLoanStep DEF AgreementsMove, RequestsMove
  <1>2. ASSUME NEW h \in LoanHandlers, LoanStep(h) PROVE LoanInv'
    <2>1. CASE AbortLoanRequest(h)
      BY <2>1, QuietLoanStep DEF AbortLoanRequest, AgreementsMove, RequestsMove, loanRows
    <2> QED
      BY <1>2, <2>1, BeginLoanStep, CreateOnchainStep, ApprovalStepOfLoan, ServicingStep
         DEF LoanStep
  <1>3. ASSUME NEW l \in Agreements,
               OperatorStep(l) \/ GovernedActivation(l) \/ PassMonth(l) \/ PassGracePeriod(l)
        PROVE  LoanInv'
    BY <1>3, OperatorLoanStep, GovernedActivationStep
  <1>4. ASSUME NEW d, CreditBorrower(d) \/ BorrowerWithdraws(d) PROVE LoanInv'
    BY <1>1, <1>4 DEF CreditBorrower, BorrowerWithdraws, loanVars, loanRows
  <1>5. CASE ChangeFundingPause
    BY <1>1, <1>5 DEF ChangeFundingPause, loanRows
  <1>6. CASE UNCHANGED <<ledgerVars, loanVars>>
    BY <1>1, <1>6 DEF loanVars, loanRows
  <1> QED
    BY <1>2, <1>3, <1>4, <1>5, <1>6 DEF LoanNext

(* With LoanBookV1, which refuses an identifier it has seen, the contract   *)
(* holds one loan for an agreement at most, and an agreement that says its  *)
(* loan is on chain is right, whatever approvals race or die after the      *)
(* chain answered (maybeCreateOnchainLoan).                                 *)
THEOREM LoanCorrect == LoanBookV1 => (LoanSpec => []OneOnchainLoan)
  <1> SUFFICES ASSUME LoanBookV1 PROVE LoanSpec => []OneOnchainLoan
    OBVIOUS
  <1>1. LoanInv => OneOnchainLoan
    BY DEF LoanInv, OnchainOK, AgreementsOK, OneOnchainLoan, Held
  <1>2. LoanInv /\ [LoanNext]_<<ledgerVars, loanVars>> => LoanInv'
    BY LoanInvStep
  <1> QED
    BY <1>1, <1>2, LoanInitial, PTL DEF LoanSpec

(* Of the handlers, funding and autopay post journals; each mirrors its own *)
(* in the balance.                                                          *)
LEMMA LoanLedgerStep ==
  ASSUME LoanInv, LedgerInv, [LoanNext]_<<ledgerVars, loanVars>>
  PROVE  LedgerInv'
  <1>1. ASSUME UNCHANGED ledgerVars PROVE LedgerInv'
    BY <1>1 DEF LedgerInv, LedgerTypeOK, ProjectionMatchesLedger, ledgerVars
  <1>2. ASSUME NEW h \in LoanHandlers, FundAgreement(h) PROVE LedgerInv'
    <2>1. PICK l : l = loanRequest[h].loan
      OBVIOUS
    <2>2. CommittingLoan(h, "fund") /\ RecordLoanDisbursement(l, Principal(l), Fee(l))
      BY <1>2, <2>1 DEF FundAgreement
    <2>3. l \in Agreements
      BY <2>1, <2>2, LoanHandlerEnds DEF LoanOps
    <2>4. Principal(l) \in Int /\ Fee(l) \in Int
      <3>1. Share[l] \in Nat /\ FeeShare[l] \in Nat /\ Term[l] \in Nat
        BY <2>3, LoanAssumption
      <3> QED
        BY <3>1 DEF Principal, Fee
    <2> QED
      BY <2>2, <2>3, <2>4, RecordLoanDisbursementStep
  <1>3. ASSUME NEW h \in LoanHandlers, AutopaySettles(h) PROVE LedgerInv'
    <2>1. PICK l : l = loanRequest[h].loan
      OBVIOUS
    <2>2. /\ CommittingLoan(h, "autopay")
          /\ RecordLoanRepayment(l, Borrower[l], Share[l], FeeShare[l])
      BY <1>3, <2>1 DEF AutopaySettles
    <2>3. l \in Agreements
      BY <2>1, <2>2, LoanHandlerEnds DEF LoanOps
    <2>4. Borrower[l] \in Accounts /\ Share[l] \in Int /\ FeeShare[l] \in Int
      BY <2>3, LoanAssumption
    <2> QED
      BY <2>2, <2>3, <2>4, RecordLoanRepaymentStep
  <1>4. ASSUME NEW h \in LoanHandlers, LoanStep(h) PROVE LedgerInv'
    <2>1. ASSUME NEW l, NEW op, BeginLoanRequest(h, op, l) PROVE LedgerInv'
      BY <1>1, <2>1 DEF BeginLoanRequest
    <2>2. CASE MaybeCreateOnchainLoan(h) \/ CommitApproval(h) \/ AbortLoanRequest(h)
      BY <1>1, <2>2, Zenon DEF MaybeCreateOnchainLoan, CommitApproval, AbortLoanRequest
    <2>3. CASE AutopayFails(h) \/ EscalateDefault(h)
      BY <1>1, <2>3, Zenon DEF AutopayFails, EscalateDefault
    <2>5. CASE RefreshValuation(h)
      BY <1>1, <2>5 DEF RefreshValuation
    <2>4. CASE StartLiquidationReview(h) \/ ExecuteLiquidation(h)
      BY <1>1, <2>4, Zenon DEF StartLiquidationReview, ExecuteLiquidation
    <2> QED
      BY <1>2, <1>3, <1>4, <2>1, <2>2, <2>3, <2>4, <2>5 DEF LoanStep
  <1>5. ASSUME NEW l \in Agreements,
               OperatorStep(l) \/ GovernedActivation(l) \/ PassMonth(l) \/ PassGracePeriod(l)
        PROVE  LedgerInv'
    BY <1>1, <1>5 DEF OperatorStep, CreateApplication, RequestMoreEvidence, RejectApplication,
         DecideApplication, SetCustomerAutopayPreference, ApproveLiquidation, CloseAgreement,
         GovernedActivation, PassMonth, PassGracePeriod
  <1>6. ASSUME NEW d \in LoanDeposits, CreditBorrower(d) PROVE LedgerInv'
    BY <1>6, LoanAssumption, SettleConfirmedDepositStep DEF CreditBorrower
  <1>7. ASSUME NEW w \in Intents \ LoanDeposits, BorrowerWithdraws(w) PROVE LedgerInv'
    BY <1>7, ReserveWithdrawalBalanceStep DEF BorrowerWithdraws
  <1>8. CASE ChangeFundingPause
    BY <1>1, <1>8 DEF ChangeFundingPause
  <1>9. CASE UNCHANGED <<ledgerVars, loanVars>>
    BY <1>1, <1>9
  <1> QED
    BY <1>4, <1>5, <1>6, <1>7, <1>8, <1>9 DEF LoanNext

(* The balances a borrower sees are the positions of the ledger accounts,   *)
(* whatever loans are disbursed and collected meanwhile                     *)
(* (recordLoanDisbursement, recordLoanRepayment).                           *)
THEOREM LoanBalancesCorrect == LoanSpec => []ProjectionMatchesLedger
  <1>1. LoanInit => LoanInv /\ LedgerInv
    BY LoanInitial, LedgerInitial DEF LoanInit
  <1>2. LoanInv /\ LedgerInv /\ [LoanNext]_<<ledgerVars, loanVars>> => LoanInv' /\ LedgerInv'
    BY LoanInvStep, LoanLedgerStep
  <1>3. LedgerInv => ProjectionMatchesLedger
    BY DEF LedgerInv
  <1> QED
    BY <1>1, <1>2, <1>3, PTL DEF LoanSpec

-----------------------------------------------------------------------------
(* The receivables of a loan.  One journal of a type for an agreement is    *)
(* one disbursement and one repayment at most, so what the ledger holds is  *)
(* told by which of the two there is.                                       *)

Disbursed(l) == <<l, "loan_disbursement">> \in journals
Repaid(l) == <<l, "loan_repayment">> \in journals

ReceivablesOK(l) ==
  /\ ledger[PrincipalReceivable(l)] =
       (IF Repaid(l) THEN Share[l] ELSE 0) - (IF Disbursed(l) THEN Principal(l) ELSE 0)
  /\ ledger[FeeReceivable(l)] =
       (IF Repaid(l) THEN FeeShare[l] ELSE 0) - (IF Disbursed(l) THEN Fee(l) ELSE 0)
ReceivableInv == \A l \in Agreements : ReceivablesOK(l)

(* Receivables of different loans are different accounts.                   *)
LEMMA DistinctReceivables ==
  ASSUME NEW l \in Agreements, NEW k
  PROVE  /\ PrincipalReceivable(l) \in LedgerAccounts /\ FeeReceivable(l) \in LedgerAccounts
         /\ PrincipalReceivable(l) # FeeReceivable(k)
         /\ (l # k => /\ PrincipalReceivable(l) # PrincipalReceivable(k)
                      /\ FeeReceivable(l) # FeeReceivable(k))
         /\ PrincipalReceivable(l) \notin {InboundClearing, OutboundClearing, FeeIncome,
                                           Liability(k), PendingWithdrawalLiability(k)}
         /\ FeeReceivable(l) \notin {InboundClearing, OutboundClearing, FeeIncome,
                                     Liability(k), PendingWithdrawalLiability(k)}
  BY DEF PrincipalReceivable, FeeReceivable, InboundClearing, OutboundClearing, FeeIncome,
         Liability, PendingWithdrawalLiability, LedgerAccounts

(* Journals of intents leave the loans alone.                               *)
LEMMA IntentsKeepLoans ==
  ASSUME LedgerInv, NEW i \in Intents,
         SettleConfirmedDeposit(i) \/ ReserveWithdrawalBalance(i)
  PROVE  \A l \in Agreements : /\ ledger'[PrincipalReceivable(l)] = ledger[PrincipalReceivable(l)]
                               /\ ledger'[FeeReceivable(l)] = ledger[FeeReceivable(l)]
                               /\ Disbursed(l)' = Disbursed(l) /\ Repaid(l)' = Repaid(l)
  <1>1. PICK type \in {"deposit_settlement", "withdrawal_reservation"},
             debit \in {InboundClearing, Liability(Owner[i])},
             credit \in {Liability(Owner[i]), PendingWithdrawalLiability(Owner[i])} :
          /\ journals' = journals \cup {<<i, type>>}
          /\ ledger' = [ledger EXCEPT ![debit] = @ - Amount[i], ![credit] = @ + Amount[i]]
    BY DEF SettleConfirmedDeposit, ReserveWithdrawalBalance, PostJournal
  <1>2. ledger \in [LedgerAccounts -> Int]
    BY DEF LedgerInv, LedgerTypeOK
  <1>3. ASSUME NEW l \in Agreements
        PROVE  /\ ledger'[PrincipalReceivable(l)] = ledger[PrincipalReceivable(l)]
               /\ ledger'[FeeReceivable(l)] = ledger[FeeReceivable(l)]
    <2>1. /\ PrincipalReceivable(l) \in LedgerAccounts /\ FeeReceivable(l) \in LedgerAccounts
          /\ PrincipalReceivable(l) # debit /\ PrincipalReceivable(l) # credit
          /\ FeeReceivable(l) # debit /\ FeeReceivable(l) # credit
      BY DistinctReceivables
    <2> QED
      BY <1>1, <1>2, <2>1
  <1>4. \A l \in Agreements : Disbursed(l)' = Disbursed(l) /\ Repaid(l)' = Repaid(l)
    BY <1>1 DEF Disbursed, Repaid
  <1> QED
    BY <1>3, <1>4

(* What the two journals of a loan do to its receivables.                   *)
LEMMA DisbursementOfLoan ==
  ASSUME LedgerInv, NEW l \in Agreements, NEW principal \in Int, NEW fee \in Int,
         RecordLoanDisbursement(l, principal, fee)
  PROVE  /\ ~Disbursed(l) /\ Disbursed(l)'
         /\ \A k \in Agreements : Repaid(k)' = Repaid(k)
         /\ ledger'[PrincipalReceivable(l)] = ledger[PrincipalReceivable(l)] - principal
         /\ ledger'[FeeReceivable(l)] = ledger[FeeReceivable(l)] - fee
         /\ \A k \in Agreements : k # l =>
              /\ ledger'[PrincipalReceivable(k)] = ledger[PrincipalReceivable(k)]
              /\ ledger'[FeeReceivable(k)] = ledger[FeeReceivable(k)]
              /\ Disbursed(k)' = Disbursed(k)
  <1>1. PICK postings :
          /\ PostLoanJournal(l, "loan_disbursement", postings)
          /\ postings = [k \in {PrincipalReceivable(l), OutboundClearing,
                                FeeReceivable(l), FeeIncome} |->
                           CASE k = PrincipalReceivable(l) -> -principal
                             [] k = OutboundClearing -> principal
                             [] k = FeeReceivable(l) -> -fee
                             [] OTHER -> fee]
    BY DEF RecordLoanDisbursement
  <1>2. /\ \A k \in DOMAIN postings : postings[k] \in Int
        /\ "loan_disbursement" \in JournalTypes
    BY <1>1 DEF JournalTypes
  <1>3. \A k \in LedgerAccounts :
          ledger'[k] = IF k \in DOMAIN postings THEN ledger[k] + postings[k] ELSE ledger[k]
    BY <1>1, <1>2, PostLoanJournalStep
  <1>4. /\ postings[PrincipalReceivable(l)] = -principal /\ postings[FeeReceivable(l)] = -fee
        /\ {PrincipalReceivable(l), FeeReceivable(l)} \subseteq DOMAIN postings
    BY <1>1, DistinctReceivables
  <1>5. ASSUME NEW k \in Agreements, k # l
        PROVE  PrincipalReceivable(k) \notin DOMAIN postings /\ FeeReceivable(k) \notin DOMAIN postings
    BY <1>1, <1>5, DistinctReceivables
  <1>6. <<l, "loan_disbursement">> \notin journals
          /\ journals' = journals \cup {<<l, "loan_disbursement">>}
    BY <1>1 DEF PostLoanJournal
  <1>7. /\ ~Disbursed(l) /\ Disbursed(l)'
        /\ \A k \in Agreements : Repaid(k)' = Repaid(k) /\ (k # l => Disbursed(k)' = Disbursed(k))
    BY <1>6 DEF Disbursed, Repaid
  <1>8. /\ ledger[PrincipalReceivable(l)] \in Int /\ ledger[FeeReceivable(l)] \in Int
    BY DistinctReceivables DEF LedgerInv, LedgerTypeOK
  <1>9. /\ ledger'[PrincipalReceivable(l)] = ledger[PrincipalReceivable(l)] - principal
        /\ ledger'[FeeReceivable(l)] = ledger[FeeReceivable(l)] - fee
    BY <1>3, <1>4, <1>8, DistinctReceivables
  <1>10. ASSUME NEW k \in Agreements, k # l
         PROVE  /\ ledger'[PrincipalReceivable(k)] = ledger[PrincipalReceivable(k)]
                /\ ledger'[FeeReceivable(k)] = ledger[FeeReceivable(k)]
    BY <1>3, <1>5, <1>10, DistinctReceivables
  <1> QED
    BY <1>7, <1>9, <1>10

LEMMA RepaymentOfLoan ==
  ASSUME LedgerInv, NEW l \in Agreements, NEW borrower \in Accounts,
         NEW principal \in Int, NEW fee \in Int,
         RecordLoanRepayment(l, borrower, principal, fee)
  PROVE  /\ ~Repaid(l) /\ Repaid(l)'
         /\ \A k \in Agreements : Disbursed(k)' = Disbursed(k)
         /\ ledger'[PrincipalReceivable(l)] = ledger[PrincipalReceivable(l)] + principal
         /\ ledger'[FeeReceivable(l)] = ledger[FeeReceivable(l)] + fee
         /\ \A k \in Agreements : k # l =>
              /\ ledger'[PrincipalReceivable(k)] = ledger[PrincipalReceivable(k)]
              /\ ledger'[FeeReceivable(k)] = ledger[FeeReceivable(k)]
              /\ Repaid(k)' = Repaid(k)
  <1>1. PICK postings :
          /\ PostLoanJournal(l, "loan_repayment", postings)
          /\ postings = [k \in {Liability(borrower), PrincipalReceivable(l), FeeReceivable(l)} |->
                           CASE k = Liability(borrower) -> -(principal + fee)
                             [] k = PrincipalReceivable(l) -> principal
                             [] OTHER -> fee]
    BY DEF RecordLoanRepayment
  <1>2. /\ \A k \in DOMAIN postings : postings[k] \in Int
        /\ "loan_repayment" \in JournalTypes
    BY <1>1 DEF JournalTypes
  <1>3. \A k \in LedgerAccounts :
          ledger'[k] = IF k \in DOMAIN postings THEN ledger[k] + postings[k] ELSE ledger[k]
    BY <1>1, <1>2, PostLoanJournalStep
  <1>4. /\ postings[PrincipalReceivable(l)] = principal /\ postings[FeeReceivable(l)] = fee
        /\ {PrincipalReceivable(l), FeeReceivable(l)} \subseteq DOMAIN postings
    BY <1>1, DistinctReceivables
  <1>5. ASSUME NEW k \in Agreements, k # l
        PROVE  PrincipalReceivable(k) \notin DOMAIN postings /\ FeeReceivable(k) \notin DOMAIN postings
    BY <1>1, <1>5, DistinctReceivables
  <1>6. <<l, "loan_repayment">> \notin journals
          /\ journals' = journals \cup {<<l, "loan_repayment">>}
    BY <1>1 DEF PostLoanJournal
  <1>7. /\ ~Repaid(l) /\ Repaid(l)'
        /\ \A k \in Agreements : Disbursed(k)' = Disbursed(k) /\ (k # l => Repaid(k)' = Repaid(k))
    BY <1>6 DEF Disbursed, Repaid
  <1>8. /\ ledger[PrincipalReceivable(l)] \in Int /\ ledger[FeeReceivable(l)] \in Int
    BY DistinctReceivables DEF LedgerInv, LedgerTypeOK
  <1>9. /\ ledger'[PrincipalReceivable(l)] = ledger[PrincipalReceivable(l)] + principal
        /\ ledger'[FeeReceivable(l)] = ledger[FeeReceivable(l)] + fee
    BY <1>3, <1>4, <1>8, DistinctReceivables
  <1>10. ASSUME NEW k \in Agreements, k # l
         PROVE  /\ ledger'[PrincipalReceivable(k)] = ledger[PrincipalReceivable(k)]
                /\ ledger'[FeeReceivable(k)] = ledger[FeeReceivable(k)]
    BY <1>3, <1>5, <1>10, DistinctReceivables
  <1> QED
    BY <1>7, <1>9, <1>10

-----------------------------------------------------------------------------
LEMMA LoanAmounts ==
  ASSUME NEW l \in Agreements
  PROVE  /\ Share[l] \in Nat /\ FeeShare[l] \in Nat /\ Borrower[l] \in Accounts
         /\ Principal(l) \in Nat /\ Fee(l) \in Nat
         /\ Share[l] <= Principal(l) /\ FeeShare[l] <= Fee(l)
  <1>1. /\ Share[l] \in Nat /\ FeeShare[l] \in Nat /\ Borrower[l] \in Accounts
        /\ Term[l] \in Nat \ {0}
    BY LoanAssumption
  <1>2. \A x \in Nat, y \in Nat \ {0} : x * y \in Nat /\ x <= x * y
    OBVIOUS
  <1> QED
    BY <1>1, <1>2 DEF Principal, Fee

(* Of the handlers, only funding and collecting touch the ledger.           *)
LEMMA LoanStepLedger ==
  ASSUME NEW h \in LoanHandlers, LoanStep(h)
  PROVE  UNCHANGED ledgerVars \/ FundAgreement(h) \/ AutopaySettles(h)
  <1>1. ASSUME NEW l, NEW op, BeginLoanRequest(h, op, l) PROVE UNCHANGED ledgerVars
    BY <1>1 DEF BeginLoanRequest
  <1>2. CASE MaybeCreateOnchainLoan(h) \/ CommitApproval(h) \/ AbortLoanRequest(h)
    BY <1>2, Zenon DEF MaybeCreateOnchainLoan, CommitApproval, AbortLoanRequest
  <1>3. CASE AutopayFails(h) \/ EscalateDefault(h)
    BY <1>3, Zenon DEF AutopayFails, EscalateDefault
  <1>4. CASE RefreshValuation(h)
    BY <1>4 DEF RefreshValuation
  <1>5. CASE StartLiquidationReview(h) \/ ExecuteLiquidation(h)
    BY <1>5, Zenon DEF StartLiquidationReview, ExecuteLiquidation
  <1> QED
    BY <1>1, <1>2, <1>3, <1>4, <1>5 DEF LoanStep

(* Only funding and collecting post journals of loans, and a journal cannot *)
(* be posted twice.                                                         *)
LEMMA ReceivableStep ==
  ASSUME LoanInv, LedgerInv, ReceivableInv, [LoanNext]_<<ledgerVars, loanVars>>
  PROVE  ReceivableInv'
  <1>1. \A l \in Agreements : /\ ledger[PrincipalReceivable(l)] \in Int
                              /\ ledger[FeeReceivable(l)] \in Int
    BY DistinctReceivables DEF LedgerInv, LedgerTypeOK
  <1>2. ASSUME NEW l \in Agreements,
               ledger'[PrincipalReceivable(l)] = ledger[PrincipalReceivable(l)],
               ledger'[FeeReceivable(l)] = ledger[FeeReceivable(l)],
               Disbursed(l)' = Disbursed(l), Repaid(l)' = Repaid(l)
        PROVE  ReceivablesOK(l)'
    <2>1. ReceivablesOK(l)
      BY DEF ReceivableInv
    <2> QED
      BY <1>2, <2>1 DEF ReceivablesOK, Principal, Fee
  <1>3. ASSUME UNCHANGED ledgerVars PROVE ReceivableInv'
    BY <1>2, <1>3 DEF ReceivableInv, ledgerVars, Disbursed, Repaid
  <1>4. ASSUME NEW h \in LoanHandlers, FundAgreement(h) PROVE ReceivableInv'
    <2>1. PICK l : l = loanRequest[h].loan
      OBVIOUS
    <2>2. CommittingLoan(h, "fund") /\ RecordLoanDisbursement(l, Principal(l), Fee(l))
      BY <1>4, <2>1 DEF FundAgreement
    <2>3. l \in Agreements
      BY <2>1, <2>2, LoanHandlerEnds DEF LoanOps
    <2>4. PICK p \in Nat, f \in Nat : p = Principal(l) /\ f = Fee(l)
      BY <2>3, LoanAmounts
    <2>5. /\ ~Disbursed(l) /\ Disbursed(l)'
          /\ \A k \in Agreements : Repaid(k)' = Repaid(k)
          /\ ledger'[PrincipalReceivable(l)] = ledger[PrincipalReceivable(l)] - p
          /\ ledger'[FeeReceivable(l)] = ledger[FeeReceivable(l)] - f
          /\ \A k \in Agreements : k # l =>
               /\ ledger'[PrincipalReceivable(k)] = ledger[PrincipalReceivable(k)]
               /\ ledger'[FeeReceivable(k)] = ledger[FeeReceivable(k)]
               /\ Disbursed(k)' = Disbursed(k)
      BY <2>2, <2>3, <2>4, DisbursementOfLoan
    <2>6. ReceivablesOK(l)'
      <3>1. /\ ReceivablesOK(l) /\ Share[l] \in Nat /\ FeeShare[l] \in Nat
        BY <2>3, LoanAmounts DEF ReceivableInv
      <3>2. /\ ledger[PrincipalReceivable(l)] = IF Repaid(l) THEN Share[l] ELSE 0
            /\ ledger[FeeReceivable(l)] = IF Repaid(l) THEN FeeShare[l] ELSE 0
        BY <2>5, <3>1 DEF ReceivablesOK
      <3>3. /\ ledger'[PrincipalReceivable(l)] = (IF Repaid(l) THEN Share[l] ELSE 0) - p
            /\ ledger'[FeeReceivable(l)] = (IF Repaid(l) THEN FeeShare[l] ELSE 0) - f
        BY <2>5, <3>2
      <3> QED
        BY <2>3, <2>4, <2>5, <3>3 DEF ReceivablesOK, Principal, Fee
    <2> QED
      BY <1>2, <2>5, <2>6 DEF ReceivableInv
  <1>5. ASSUME NEW h \in LoanHandlers, AutopaySettles(h) PROVE ReceivableInv'
    <2>1. PICK l : l = loanRequest[h].loan
      OBVIOUS
    <2>2. /\ CommittingLoan(h, "autopay")
          /\ RecordLoanRepayment(l, Borrower[l], Share[l], FeeShare[l])
      BY <1>5, <2>1 DEF AutopaySettles
    <2>3. l \in Agreements
      BY <2>1, <2>2, LoanHandlerEnds DEF LoanOps
    <2>4. /\ Borrower[l] \in Accounts /\ Share[l] \in Int /\ FeeShare[l] \in Int
          /\ Share[l] \in Nat /\ FeeShare[l] \in Nat
      BY <2>3, LoanAmounts
    <2>5. /\ ~Repaid(l) /\ Repaid(l)'
          /\ \A k \in Agreements : Disbursed(k)' = Disbursed(k)
          /\ ledger'[PrincipalReceivable(l)] = ledger[PrincipalReceivable(l)] + Share[l]
          /\ ledger'[FeeReceivable(l)] = ledger[FeeReceivable(l)] + FeeShare[l]
          /\ \A k \in Agreements : k # l =>
               /\ ledger'[PrincipalReceivable(k)] = ledger[PrincipalReceivable(k)]
               /\ ledger'[FeeReceivable(k)] = ledger[FeeReceivable(k)]
               /\ Repaid(k)' = Repaid(k)
      BY <2>2, <2>3, <2>4, RepaymentOfLoan
    <2>6. ReceivablesOK(l)'
      <3>1. PICK p \in Nat, f \in Nat : p = Principal(l) /\ f = Fee(l)
        BY <2>3, LoanAmounts
      <3>2. ReceivablesOK(l)
        BY <2>3 DEF ReceivableInv
      <3>3. /\ ledger[PrincipalReceivable(l)] = 0 - (IF Disbursed(l) THEN p ELSE 0)
            /\ ledger[FeeReceivable(l)] = 0 - (IF Disbursed(l) THEN f ELSE 0)
        BY <2>5, <3>1, <3>2 DEF ReceivablesOK
      <3>4. /\ ledger'[PrincipalReceivable(l)] = Share[l] - (IF Disbursed(l) THEN p ELSE 0)
            /\ ledger'[FeeReceivable(l)] = FeeShare[l] - (IF Disbursed(l) THEN f ELSE 0)
        BY <2>4, <2>5, <3>1, <3>3
      <3> QED
        BY <2>3, <2>5, <3>1, <3>4 DEF ReceivablesOK, Principal, Fee
    <2> QED
      BY <1>2, <2>5, <2>6 DEF ReceivableInv
  <1>6. ASSUME NEW h \in LoanHandlers, LoanStep(h) PROVE ReceivableInv'
    BY <1>3, <1>4, <1>5, <1>6, LoanStepLedger
  <1>7. ASSUME NEW l \in Agreements,
               OperatorStep(l) \/ GovernedActivation(l) \/ PassMonth(l) \/ PassGracePeriod(l)
        PROVE  ReceivableInv'
    BY <1>3, <1>7 DEF OperatorStep, CreateApplication, RequestMoreEvidence, RejectApplication,
         DecideApplication, SetCustomerAutopayPreference, ApproveLiquidation, CloseAgreement,
         GovernedActivation, PassMonth, PassGracePeriod
  <1>8. ASSUME NEW d \in LoanDeposits, CreditBorrower(d) PROVE ReceivableInv'
    BY <1>2, <1>8, LoanAssumption, IntentsKeepLoans DEF CreditBorrower, ReceivableInv
  <1>9. ASSUME NEW w \in Intents \ LoanDeposits, BorrowerWithdraws(w) PROVE ReceivableInv'
    BY <1>2, <1>9, IntentsKeepLoans DEF BorrowerWithdraws, ReceivableInv
  <1>10. CASE ChangeFundingPause
    BY <1>3, <1>10 DEF ChangeFundingPause
  <1>11. CASE UNCHANGED <<ledgerVars, loanVars>>
    BY <1>3, <1>11
  <1> QED
    BY <1>6, <1>7, <1>8, <1>9, <1>10, <1>11 DEF LoanNext

-----------------------------------------------------------------------------
(* Installments.  The journal of a repayment is there exactly when one      *)
(* installment was collected, once; and the outstanding amount is what was  *)
(* left before it, or less.                                                 *)

InstallmentRows == [status : {"scheduled", "due", "missed", "paid"}, collected : Nat]
Collected(l) == [n \in DOMAIN installment[l] |-> installment[l][n].collected]

InstallmentsOK(l) ==
  /\ installment[l] \in Seq(InstallmentRows)
  /\ agreement[l].status = "absent" => installment[l] = <<>>
  /\ Collections(l) = IF Repaid(l) THEN 1 ELSE 0
OutstandingOK(l) ==
  /\ agreement[l].principal <= Principal(l) - (IF Repaid(l) THEN Share[l] ELSE 0)
  /\ agreement[l].fee <= Fee(l) - (IF Repaid(l) THEN FeeShare[l] ELSE 0)

(* What autopay has read of an installment is no less than what is left.    *)
AutopayOK(r) ==
  r.op = "autopay" => /\ r.due \in DOMAIN installment[r.loan]
                      /\ r.principal <= Principal(r.loan) /\ r.fee <= Fee(r.loan)

InstallmentInv ==
  /\ DOMAIN installment = Agreements
  /\ \A l \in Agreements : InstallmentsOK(l) /\ OutstandingOK(l)
  /\ \A h \in LoanHandlers : AutopayOK(loanRequest[h])

LEMMA MinIsMember ==
  ASSUME NEW S \in SUBSET Nat, S # {}
  PROVE  Min(S) \in S
  <1> DEFINE P(x) == \A y \in S : x =< y
  <1>1. PICK x \in S : \A y \in S : ~ (<<y, x>> \in OpToRel(<, Nat))
    BY NatLessThanWellFounded, WFMin, Zenon
  <1>2. \A u, v \in Nat : <<u, v>> \in OpToRel(<, Nat) <=> u < v
    BY DEF OpToRel
  <1>3. \A y \in S : y \in Nat
    OBVIOUS
  <1>4. \A y \in S : ~ (y < x)
    BY <1>1, <1>2, <1>3
  <1>5. P(x)
    BY <1>3, <1>4
  <1>6. Min(S) = CHOOSE z \in S : P(z)
    BY DEF Min
  <1> HIDE DEF P
  <1> QED
    BY <1>5, <1>6, Zenon

(* Steps that write no outstanding amount, or zero.                         *)
OutstandingKept ==
  \A k \in Agreements :
    /\ agreement'[k].status = "absent" => agreement[k].status = "absent"
    /\ \/ agreement'[k].principal = agreement[k].principal /\ agreement'[k].fee = agreement[k].fee
       \/ agreement'[k].principal = 0 /\ agreement'[k].fee = 0

LEMMA RowKeepsOutstanding ==
  ASSUME LoanInv, NEW l \in Agreements, NEW row, agreement' = [agreement EXCEPT ![l] = row],
         row.status = "absent" => agreement[l].status = "absent",
         \/ row.principal = agreement[l].principal /\ row.fee = agreement[l].fee
         \/ row.principal = 0 /\ row.fee = 0
  PROVE  OutstandingKept
  <1>1. \A k \in Agreements : agreement'[k] = IF k = l THEN row ELSE agreement[k]
    BY DEF LoanInv, AgreementsOK
  <1> QED
    BY <1>1 DEF OutstandingKept

LEMMA AgreementWritesKeepOutstanding ==
  ASSUME LoanInv, NEW l \in Agreements, NEW s \in AgreementStatuses,
         NEW g \in {"none", "running", "expired"}, NEW b \in BOOLEAN,
         \/ agreement' = agreement
         \/ agreement' = [agreement EXCEPT ![l].status = s]
         \/ agreement' = [agreement EXCEPT ![l].status = s, ![l].grace = g]
         \/ agreement' = [agreement EXCEPT ![l].grace = g]
         \/ agreement' = [agreement EXCEPT ![l].autopay = b]
         \/ agreement' = [agreement EXCEPT ![l].activated = b]
         \/ agreement' = [agreement EXCEPT ![l].status = s, ![l].principal = 0, ![l].fee = 0]
  PROVE  OutstandingKept
  <1>1. PICK old \in AgreementRows : old = agreement[l]
    BY DEF LoanInv, AgreementsOK
  <1>2. s # "absent"
    BY DEF AgreementStatuses
  <1>3. CASE agreement' = agreement
    BY <1>3 DEF OutstandingKept
  <1>4. CASE agreement' = [agreement EXCEPT ![l].status = s]
    <2>1. PICK row : row = [old EXCEPT !.status = s]
      OBVIOUS
    <2>2. row.status = s /\ row.principal = old.principal /\ row.fee = old.fee
      BY <2>1 DEF AgreementRows
    <2>3. agreement' = [agreement EXCEPT ![l] = row]
      BY <1>1, <1>4, <2>1
    <2> QED
      BY <1>1, <1>2, <2>2, <2>3, RowKeepsOutstanding
  <1>5. CASE agreement' = [agreement EXCEPT ![l].status = s, ![l].grace = g]
    <2>1. PICK row : row = [old EXCEPT !.status = s, !.grace = g]
      OBVIOUS
    <2>2. row.status = s /\ row.principal = old.principal /\ row.fee = old.fee
      BY <2>1 DEF AgreementRows
    <2>3. agreement' = [agreement EXCEPT ![l] = row]
      BY <1>1, <1>5, <2>1 DEF LoanInv, AgreementsOK
    <2> QED
      BY <1>1, <1>2, <2>2, <2>3, RowKeepsOutstanding
  <1>6. CASE agreement' = [agreement EXCEPT ![l].grace = g]
    <2>1. PICK row : row = [old EXCEPT !.grace = g]
      OBVIOUS
    <2>2. row.status = old.status /\ row.principal = old.principal /\ row.fee = old.fee
      BY <2>1 DEF AgreementRows
    <2>3. agreement' = [agreement EXCEPT ![l] = row]
      BY <1>1, <1>6, <2>1
    <2> QED
      BY <1>1, <2>2, <2>3, RowKeepsOutstanding
  <1>7. CASE agreement' = [agreement EXCEPT ![l].autopay = b]
    <2>1. PICK row : row = [old EXCEPT !.autopay = b]
      OBVIOUS
    <2>2. row.status = old.status /\ row.principal = old.principal /\ row.fee = old.fee
      BY <2>1 DEF AgreementRows
    <2>3. agreement' = [agreement EXCEPT ![l] = row]
      BY <1>1, <1>7, <2>1
    <2> QED
      BY <1>1, <2>2, <2>3, RowKeepsOutstanding
  <1>8. CASE agreement' = [agreement EXCEPT ![l].activated = b]
    <2>1. PICK row : row = [old EXCEPT !.activated = b]
      OBVIOUS
    <2>2. row.status = old.status /\ row.principal = old.principal /\ row.fee = old.fee
      BY <2>1 DEF AgreementRows
    <2>3. agreement' = [agreement EXCEPT ![l] = row]
      BY <1>1, <1>8, <2>1
    <2> QED
      BY <1>1, <2>2, <2>3, RowKeepsOutstanding
  <1>9. CASE agreement' = [agreement EXCEPT ![l].status = s, ![l].principal = 0, ![l].fee = 0]
    <2>1. PICK zero \in Int : zero = 0
      OBVIOUS
    <2>2. PICK row : row = [old EXCEPT !.status = s, !.principal = zero, !.fee = zero]
      OBVIOUS
    <2>3. row.status = s /\ row.principal = zero /\ row.fee = zero
      BY <2>2 DEF AgreementRows
    <2>4. agreement' = [agreement EXCEPT ![l].status = s, ![l].principal = zero, ![l].fee = zero]
      BY <1>9, <2>1
    <2>5. agreement' = [agreement EXCEPT ![l] = row]
      BY <1>1, <2>2, <2>4 DEF LoanInv, AgreementsOK
    <2> QED
      BY <1>2, <2>1, <2>3, <2>5, RowKeepsOutstanding
  <1> QED
    BY <1>3, <1>4, <1>5, <1>6, <1>7, <1>8, <1>9

(* A handler that ends remembers nothing, and the others what they did.     *)
LEMMA EndKeepsAutopays ==
  ASSUME LoanInv, InstallmentInv, NEW h \in LoanHandlers,
         loanRequest' = [loanRequest EXCEPT ![h] = NoLoanRequest]
  PROVE  \A g \in LoanHandlers : AutopayOK(loanRequest'[g]) /\ loanRequest'[g] \in {loanRequest[g], NoLoanRequest}
  <1>1. \A g \in LoanHandlers : loanRequest'[g] = IF g = h THEN NoLoanRequest ELSE loanRequest[g]
    BY DEF LoanInv, LoanRequestsOK
  <1>2. AutopayOK(NoLoanRequest)
    BY DEF AutopayOK, NoLoanRequest
  <1> QED
    BY <1>1, <1>2 DEF InstallmentInv

(* A step that writes no installment and posts no repayment.                *)
LEMMA InstallmentsRest ==
  ASSUME LoanInv, InstallmentInv, OutstandingKept, installment' = installment,
         \A l \in Agreements : Repaid(l)' = Repaid(l),
         \A h \in LoanHandlers : AutopayOK(loanRequest'[h])
  PROVE  InstallmentInv'
  <1>1. ASSUME NEW l \in Agreements PROVE InstallmentsOK(l)'
    <2>1. InstallmentsOK(l)
      BY DEF InstallmentInv
    <2> QED
      BY <2>1 DEF InstallmentsOK, OutstandingKept, Collections
  <1>2. ASSUME NEW l \in Agreements PROVE OutstandingOK(l)'
    <2>1. OutstandingOK(l)
      BY DEF InstallmentInv
    <2>2. PICK p \in Nat, f \in Nat : p = Principal(l) /\ f = Fee(l)
      BY LoanAmounts
    <2>3. /\ Share[l] \in Nat /\ FeeShare[l] \in Nat /\ Share[l] <= p /\ FeeShare[l] <= f
          /\ p = Principal(l)' /\ f = Fee(l)'
      BY <2>2, LoanAmounts DEF Principal, Fee
    <2>4. CASE agreement'[l].principal = agreement[l].principal
                 /\ agreement'[l].fee = agreement[l].fee
      BY <2>1, <2>2, <2>3, <2>4 DEF OutstandingOK
    <2>5. CASE agreement'[l].principal = 0 /\ agreement'[l].fee = 0
      BY <2>2, <2>3, <2>5 DEF OutstandingOK
    <2> QED
      BY <2>4, <2>5 DEF OutstandingKept
  <1>3. \A h \in LoanHandlers : AutopayOK(loanRequest[h])'
    BY DEF AutopayOK, Principal, Fee
  <1> QED
    BY <1>1, <1>2, <1>3 DEF InstallmentInv

-----------------------------------------------------------------------------
LEMMA RowsByPlace ==
  ASSUME NEW rows \in Seq(InstallmentRows), NEW new, DOMAIN new = DOMAIN rows,
         new = [m \in DOMAIN rows |-> new[m]],
         \A m \in DOMAIN rows : new[m] \in InstallmentRows
  PROVE  new \in Seq(InstallmentRows)
  <1>1. PICK k \in Nat : DOMAIN rows = 1 .. k
    <2>1. Len(rows) \in Nat /\ DOMAIN rows = 1 .. Len(rows)
      OBVIOUS
    <2> QED
      BY <2>1
  <1>2. new \in [1 .. k -> InstallmentRows]
    BY <1>1
  <1> QED
    BY <1>2

(* Paying an installment counts it once more, and no other.                 *)
LEMMA InstallmentPaid ==
  ASSUME NEW rows \in Seq(InstallmentRows), NEW n \in DOMAIN rows, NEW row, NEW new,
         row = [status |-> "paid", collected |-> rows[n].collected + 1],
         new = [rows EXCEPT ![n] = row]
  PROVE  /\ new \in Seq(InstallmentRows) /\ DOMAIN new = DOMAIN rows
         /\ \A m \in DOMAIN rows :
              new[m].collected = IF m = n THEN rows[m].collected + 1 ELSE rows[m].collected
  <1>1. PICK c \in Nat : c = rows[n].collected + 1
    <2>1. rows[n] \in InstallmentRows
      OBVIOUS
    <2> QED
      BY <2>1 DEF InstallmentRows
  <1>2. row \in InstallmentRows /\ row.collected = c
    BY <1>1 DEF InstallmentRows
  <1>3. /\ DOMAIN new = DOMAIN rows /\ new = [m \in DOMAIN rows |-> new[m]]
        /\ \A m \in DOMAIN rows : new[m] = IF m = n THEN row ELSE rows[m]
    OBVIOUS
  <1>4. \A m \in DOMAIN rows : rows[m] \in InstallmentRows
    OBVIOUS
  <1>5. \A m \in DOMAIN rows :
          /\ new[m] \in InstallmentRows
          /\ new[m].collected = IF m = n THEN rows[m].collected + 1 ELSE rows[m].collected
    BY <1>1, <1>2, <1>3, <1>4
  <1> QED
    BY <1>3, <1>5, RowsByPlace

(* A status says nothing of what was collected.                             *)
LEMMA InstallmentStatus ==
  ASSUME NEW rows \in Seq(InstallmentRows), NEW new, NEW s \in {"due", "missed"},
         DOMAIN new = DOMAIN rows, new = [m \in DOMAIN rows |-> new[m]],
         \A m \in DOMAIN rows : new[m] \in {rows[m], [rows[m] EXCEPT !.status = s]}
  PROVE  /\ new \in Seq(InstallmentRows)
         /\ \A m \in DOMAIN rows : new[m].collected = rows[m].collected
  <1>1. ASSUME NEW old \in InstallmentRows
        PROVE  /\ [old EXCEPT !.status = s] \in InstallmentRows
               /\ [old EXCEPT !.status = s].collected = old.collected
    BY DEF InstallmentRows
  <1>2. ASSUME NEW m \in DOMAIN rows
        PROVE  new[m] \in InstallmentRows /\ new[m].collected = rows[m].collected
    <2>1. PICK old \in InstallmentRows : old = rows[m]
      OBVIOUS
    <2>2. new[m] = [old EXCEPT !.status = s] \/ new[m] = old
      BY <2>1
    <2> QED
      BY <1>1, <2>1, <2>2
  <1> QED
    BY <1>2, RowsByPlace

(* How often the installments of a loan were collected, by its rows.        *)
LEMMA CollectionsOfRows ==
  ASSUME NEW l \in Agreements, installment[l] \in Seq(InstallmentRows)
  PROVE  /\ IsFiniteSet(DOMAIN installment[l])
         /\ Collections(l) = Total(Collected(l), DOMAIN installment[l])
         /\ \A n \in DOMAIN installment[l] :
              Collected(l)[n] = installment[l][n].collected /\ Collected(l)[n] \in Nat
  <1>1. PICK k \in Int : DOMAIN installment[l] = 1 .. k
    <2>1. Len(installment[l]) \in Nat /\ DOMAIN installment[l] = 1 .. Len(installment[l])
      OBVIOUS
    <2> QED
      BY <2>1
  <1>2. IsFiniteSet(DOMAIN installment[l])
    <2>1. 1 \in Int
      OBVIOUS
    <2> QED
      BY <1>1, <2>1, FS_Interval
  <1>3. \A n \in DOMAIN installment[l] : installment[l][n] \in InstallmentRows
    OBVIOUS
  <1>4. \A n \in DOMAIN installment[l] : installment[l][n].collected \in Nat
    BY <1>3 DEF InstallmentRows
  <1> QED
    BY <1>2, <1>4 DEF Collections, Collected

-----------------------------------------------------------------------------
(* A step that writes the outstanding amount of one loan, and its           *)
(* installments.                                                            *)
LEMMA OneLoanWritten ==
  ASSUME LoanInv, InstallmentInv, NEW l \in Agreements, NEW row, NEW new,
         agreement' = [agreement EXCEPT ![l] = row],
         installment' = [installment EXCEPT ![l] = new],
         InstallmentsOK(l)', OutstandingOK(l)',
         \A k \in Agreements : k # l => Repaid(k)' = Repaid(k),
         \A h \in LoanHandlers : AutopayOK(loanRequest[h])'
  PROVE  InstallmentInv'
  <1>1. /\ DOMAIN installment' = Agreements
        /\ \A k \in Agreements : k # l => /\ agreement'[k] = agreement[k]
                                          /\ installment'[k] = installment[k]
    BY DEF InstallmentInv, LoanInv, AgreementsOK
  <1>2. ASSUME NEW k \in Agreements, k # l PROVE InstallmentsOK(k)' /\ OutstandingOK(k)'
    <2>1. InstallmentsOK(k) /\ OutstandingOK(k)
      BY DEF InstallmentInv
    <2>2. Collections(k)' = Collections(k)
      BY <1>1, <1>2 DEF Collections
    <2>3. Repaid(k)' = Repaid(k)
      BY <1>2
    <2>4. InstallmentsOK(k)'
      BY <1>1, <1>2, <2>1, <2>2, <2>3 DEF InstallmentsOK
    <2>5. OutstandingOK(k)'
      BY <1>1, <1>2, <2>1, <2>3 DEF OutstandingOK, Principal, Fee
    <2> QED
      BY <2>4, <2>5
  <1>3. \A k \in Agreements : InstallmentsOK(k)' /\ OutstandingOK(k)'
    BY <1>2
  <1> QED
    BY <1>1, <1>3 DEF InstallmentInv

(* And what autopay still remembers of it, as it has no fewer installments. *)
LEMMA AutopaysKept ==
  ASSUME LoanInv, InstallmentInv, NEW h \in LoanHandlers,
         loanRequest' = [loanRequest EXCEPT ![h] = NoLoanRequest],
         NEW l \in Agreements, NEW new, installment' = [installment EXCEPT ![l] = new],
         DOMAIN installment[l] \subseteq DOMAIN new
  PROVE  \A g \in LoanHandlers : AutopayOK(loanRequest[g])'
  <1>1. /\ DOMAIN installment = Agreements
        /\ \A g \in LoanHandlers :
             AutopayOK(loanRequest'[g]) /\ loanRequest'[g] \in {loanRequest[g], NoLoanRequest}
    BY EndKeepsAutopays DEF InstallmentInv
  <1>2. \A k \in Agreements : DOMAIN installment[k] \subseteq DOMAIN installment'[k]
    BY <1>1
  <1>3. ASSUME NEW g \in LoanHandlers, loanRequest'[g].op = "autopay"
        PROVE  loanRequest'[g].loan \in Agreements
    <2>1. loanRequest'[g] = loanRequest[g] /\ loanRequest[g] # NoLoanRequest
      BY <1>1, <1>3 DEF NoLoanRequest
    <2>2. LoanRequestOK(loanRequest[g])
      BY <2>1 DEF LoanInv, LoanRequestsOK
    <2> QED
      BY <1>3, <2>1, <2>2 DEF LoanRequestOK, LoanOps
  <1> QED
    BY <1>1, <1>2, <1>3 DEF AutopayOK, Principal, Fee

(* Approval: the agreement was absent, so no installment of it was          *)
(* collected and no repayment of it was posted.                             *)
LEMMA ApprovalInstallments ==
  ASSUME LoanInv, InstallmentInv, NEW h \in LoanHandlers, CommitApproval(h)
  PROVE  InstallmentInv'
  <1>1. PICK l \in Agreements : l = loanRequest[h].loan
    BY LoanHandlerEnds DEF CommitApproval, LoanOps
  <1>2. PICK new : new = [n \in 1 .. Term[l] |->
                            [status |-> IF n = 1 THEN "due" ELSE "scheduled", collected |-> 0]]
    OBVIOUS
  <1>3. PICK p \in Nat, f \in Nat : p = Principal(l) /\ f = Fee(l)
    BY LoanAmounts
  <1>4. PICK row : row = [status |-> "awaiting_funding", principal |-> p, fee |-> f,
                          autopay |-> TRUE, grace |-> "none",
                          activated |-> loanRequest[h].onchain]
    OBVIOUS
  <1>5. /\ agreement[l].status = "absent"
        /\ agreement' = [agreement EXCEPT ![l] = row]
        /\ installment' = [installment EXCEPT ![l] = new]
        /\ loanRequest' = [loanRequest EXCEPT ![h] = NoLoanRequest]
        /\ journals' = journals
    BY <1>1, <1>2, <1>3, <1>4 DEF CommitApproval, CommittingLoan, ledgerVars
  <1>6. InstallmentsOK(l) /\ DOMAIN installment = Agreements
    BY DEF InstallmentInv
  <1>7. installment[l] = <<>>
    BY <1>5, <1>6 DEF InstallmentsOK
  <1>8. ~Repaid(l)
    <2>1. DOMAIN installment[l] = {}
      BY <1>7
    <2>2. Collections(l) = 0
      BY <2>1, TotalOfNothing DEF Collections
    <2> QED
      BY <1>6, <2>2 DEF InstallmentsOK
  <1>9. \A k \in Agreements : Repaid(k)' = Repaid(k)
    BY <1>5 DEF Repaid
  <1>10. /\ installment'[l] = new /\ agreement'[l] = row
         /\ row.status = "awaiting_funding" /\ row.principal = p /\ row.fee = f
    BY <1>4, <1>5, <1>6 DEF LoanInv, AgreementsOK
  <1>11. InstallmentsOK(l)'
    <2>1. Term[l] \in Nat
      BY LoanAssumption
    <2>2. \A n \in 1 .. Term[l] : new[n] \in InstallmentRows /\ new[n].collected = 0
      BY <1>2 DEF InstallmentRows
    <2>3. new \in Seq(InstallmentRows) /\ DOMAIN new = 1 .. Term[l]
      <3>1. new \in [1 .. Term[l] -> InstallmentRows]
        BY <1>2, <2>2
      <3> QED
        BY <2>1, <3>1
    <2>4. \A n \in DOMAIN new : [m \in DOMAIN new |-> new[m].collected][n] = 0
      BY <2>2, <2>3
    <2>5. Total([m \in DOMAIN new |-> new[m].collected], DOMAIN new) = 0
      BY <2>4, TotalOfNothing
    <2>6. Collections(l)' = 0
      BY <1>10, <2>5 DEF Collections
    <2> QED
      BY <1>8, <1>9, <1>10, <2>3, <2>6 DEF InstallmentsOK
  <1>12. OutstandingOK(l)'
    <2>1. ~Repaid(l)' /\ Principal(l)' = p /\ Fee(l)' = f
      BY <1>3, <1>8, <1>9 DEF Principal, Fee
    <2>2. p <= p - 0 /\ f <= f - 0
      OBVIOUS
    <2> QED
      BY <1>10, <2>1, <2>2 DEF OutstandingOK
  <1>13. DOMAIN installment[l] \subseteq DOMAIN new
    BY <1>7
  <1>14. \A g \in LoanHandlers : AutopayOK(loanRequest[g])'
    BY <1>5, <1>13, AutopaysKept
  <1> QED
    BY <1>5, <1>9, <1>11, <1>12, <1>14, OneLoanWritten

(* An autopay that is not covered marks one installment missed.             *)
LEMMA MissedInstallments ==
  ASSUME LoanInv, InstallmentInv, NEW h \in LoanHandlers, AutopayFails(h)
  PROVE  InstallmentInv'
  <1>1. CommittingLoan(h, "autopay")
    BY DEF AutopayFails
  <1>2. PICK l \in Agreements : l = loanRequest[h].loan
    BY <1>1, LoanHandlerEnds DEF LoanOps
  <1>3. PICK n : n = loanRequest[h].due
    OBVIOUS
  <1>4. loanRequest[h].op = "autopay" /\ loanRequest' = [loanRequest EXCEPT ![h] = NoLoanRequest]
    BY <1>1 DEF CommittingLoan
  <1>5. n \in DOMAIN installment[l]
    BY <1>2, <1>3, <1>4 DEF InstallmentInv, AutopayOK
  <1>6. InstallmentsOK(l) /\ OutstandingOK(l) /\ DOMAIN installment = Agreements
    BY DEF InstallmentInv
  <1>7. PICK rows \in Seq(InstallmentRows) : rows = installment[l]
    BY <1>6 DEF InstallmentsOK
  <1>8. PICK new : new = [rows EXCEPT ![n].status = "missed"]
    OBVIOUS
  <1>9. /\ new \in Seq(InstallmentRows) /\ DOMAIN new = DOMAIN rows
        /\ \A m \in DOMAIN rows : new[m].collected = rows[m].collected
    <2>1. PICK s \in {"due", "missed"} : s = "missed"
      OBVIOUS
    <2>2. /\ DOMAIN new = DOMAIN rows /\ new = [m \in DOMAIN rows |-> new[m]]
          /\ \A m \in DOMAIN rows : new[m] \in {rows[m], [rows[m] EXCEPT !.status = s]}
      BY <1>8, <2>1
    <2> QED
      BY <2>2, InstallmentStatus
  <1>10. PICK old \in AgreementRows : old = agreement[l]
    BY DEF LoanInv, AgreementsOK
  <1>11. PICK row : row = [old EXCEPT !.status = "grace_period", !.grace = "running"]
    OBVIOUS
  <1>12. row.status = "grace_period" /\ row.principal = old.principal /\ row.fee = old.fee
    BY <1>11 DEF AgreementRows
  <1>13. /\ agreement' = [agreement EXCEPT ![l] = row]
         /\ installment' = [installment EXCEPT ![l] = new]
         /\ journals' = journals
    <2>1. /\ installment' = [installment EXCEPT ![l][n].status = "missed"]
          /\ agreement' = [agreement EXCEPT ![l].status = "grace_period", ![l].grace = "running"]
          /\ journals' = journals
      BY <1>2, <1>3 DEF AutopayFails, ledgerVars
    <2>2. agreement' = [agreement EXCEPT ![l] = row]
      BY <1>10, <1>11, <2>1 DEF LoanInv, AgreementsOK
    <2>3. installment' = [installment EXCEPT ![l] = new]
      BY <1>7, <1>8, <2>1
    <2> QED
      BY <2>1, <2>2, <2>3
  <1>14. \A k \in Agreements : Repaid(k)' = Repaid(k)
    BY <1>13 DEF Repaid
  <1>15. installment'[l] = new /\ agreement'[l] = row
    BY <1>6, <1>13 DEF LoanInv, AgreementsOK
  <1>16. InstallmentsOK(l)'
    <2>1. \A m \in DOMAIN rows : [k \in DOMAIN new |-> new[k].collected][m]
                                   = [k \in DOMAIN rows |-> rows[k].collected][m]
      BY <1>9
    <2>2. Total([k \in DOMAIN new |-> new[k].collected], DOMAIN rows)
            = Total([k \in DOMAIN rows |-> rows[k].collected], DOMAIN rows)
      BY <2>1, TotalSame
    <2>3. Collections(l)' = Collections(l)
      BY <1>7, <1>9, <1>15, <2>2 DEF Collections
    <2> QED
      BY <1>6, <1>9, <1>12, <1>14, <1>15, <2>3 DEF InstallmentsOK
  <1>17. OutstandingOK(l)'
    BY <1>6, <1>10, <1>12, <1>14, <1>15 DEF OutstandingOK, Principal, Fee
  <1>18. DOMAIN installment[l] \subseteq DOMAIN new
    BY <1>7, <1>9
  <1>19. \A g \in LoanHandlers : AutopayOK(loanRequest[g])'
    BY <1>4, <1>13, <1>18, AutopaysKept
  <1> QED
    BY <1>13, <1>14, <1>16, <1>17, <1>19, OneLoanWritten

(* An autopay that is covered posts the repayment, for the first time, and  *)
(* writes what was left when it read less the installment.                  *)
LEMMA PaidInstallments ==
  ASSUME LoanInv, LedgerInv, InstallmentInv, NEW h \in LoanHandlers, AutopaySettles(h)
  PROVE  InstallmentInv'
  <1>1. CommittingLoan(h, "autopay")
    BY DEF AutopaySettles
  <1>2. PICK l \in Agreements : l = loanRequest[h].loan
    BY <1>1, LoanHandlerEnds DEF LoanOps
  <1>3. PICK n : n = loanRequest[h].due
    OBVIOUS
  <1>4. loanRequest[h].op = "autopay" /\ loanRequest' = [loanRequest EXCEPT ![h] = NoLoanRequest]
    BY <1>1 DEF CommittingLoan
  <1>5. /\ n \in DOMAIN installment[l]
        /\ loanRequest[h].principal <= Principal(l) /\ loanRequest[h].fee <= Fee(l)
    BY <1>2, <1>3, <1>4 DEF InstallmentInv, AutopayOK
  <1>6. InstallmentsOK(l) /\ DOMAIN installment = Agreements
    BY DEF InstallmentInv
  <1>7. PICK rows \in Seq(InstallmentRows) : rows = installment[l]
    BY <1>6 DEF InstallmentsOK
  <1>8. PICK paid : paid = [rows EXCEPT ![n] =
                              [status |-> "paid", collected |-> rows[n].collected + 1]]
    OBVIOUS
  <1>9. PICK new : new = IF n < Term[l] THEN [paid EXCEPT ![n + 1].status = "due"] ELSE paid
    OBVIOUS
  <1>10. /\ new \in Seq(InstallmentRows) /\ DOMAIN new = DOMAIN rows
         /\ \A m \in DOMAIN rows :
              new[m].collected = IF m = n THEN rows[m].collected + 1 ELSE rows[m].collected
    <2>1. PICK mark : mark = [status |-> "paid", collected |-> rows[n].collected + 1]
      OBVIOUS
    <2>2. n \in DOMAIN rows /\ paid = [rows EXCEPT ![n] = mark]
      BY <1>5, <1>7, <1>8, <2>1
    <2>3. /\ paid \in Seq(InstallmentRows) /\ DOMAIN paid = DOMAIN rows
          /\ \A m \in DOMAIN rows :
               paid[m].collected = IF m = n THEN rows[m].collected + 1 ELSE rows[m].collected
      BY <2>1, <2>2, InstallmentPaid
    <2>4. CASE new = paid
      BY <2>3, <2>4
    <2>5. CASE new = [paid EXCEPT ![n + 1].status = "due"]
      <3>1. /\ new \in Seq(InstallmentRows) /\ DOMAIN new = DOMAIN paid
            /\ \A m \in DOMAIN paid : new[m].collected = paid[m].collected
        <4>1. PICK s \in {"due", "missed"} : s = "due"
          OBVIOUS
        <4>2. /\ DOMAIN new = DOMAIN paid /\ new = [m \in DOMAIN paid |-> new[m]]
              /\ \A m \in DOMAIN paid : new[m] \in {paid[m], [paid[m] EXCEPT !.status = s]}
          BY <2>5, <4>1
        <4> QED
          BY <2>3, <4>2, InstallmentStatus
      <3> QED
        BY <2>3, <3>1
    <2> QED
      BY <1>9, <2>4, <2>5
  <1>11. PICK old \in AgreementRows : old = agreement[l]
    BY DEF LoanInv, AgreementsOK
  <1>12. PICK p \in Int, f \in Int : p = loanRequest[h].principal - Share[l]
                                       /\ f = loanRequest[h].fee - FeeShare[l]
    <2>1. LoanRequestOK(loanRequest[h])
      BY <1>1, LoanHandlerEnds DEF LoanOps
    <2>2. loanRequest[h].principal \in Int /\ loanRequest[h].fee \in Int
      BY <1>4, <2>1 DEF LoanRequestOK
    <2> QED
      BY <2>2, LoanAmounts
  <1>13. PICK s \in {"closed", "active"} :
           s = IF p <= 0 /\ f <= 0 THEN "closed" ELSE "active"
    OBVIOUS
  <1>14. PICK row : row = [old EXCEPT !.status = s, !.grace = "none",
                                      !.principal = p, !.fee = f]
    OBVIOUS
  <1>15. row.status = s /\ row.principal = p /\ row.fee = f
    BY <1>14 DEF AgreementRows
  <1>16. agreement' = [agreement EXCEPT ![l] = row]
    <2>1. agreement' = [agreement EXCEPT ![l].status = s, ![l].grace = "none",
                                         ![l].principal = p, ![l].fee = f]
      BY <1>2, <1>12, <1>13 DEF AutopaySettles
    <2> QED
      BY <1>11, <1>14, <2>1 DEF LoanInv, AgreementsOK
  <1>17. installment' = [installment EXCEPT ![l] = new]
    BY <1>2, <1>3, <1>7, <1>8, <1>9 DEF AutopaySettles
  <1>18. ~Repaid(l) /\ Repaid(l)' /\ \A k \in Agreements : k # l => Repaid(k)' = Repaid(k)
    <2>1. RecordLoanRepayment(l, Borrower[l], Share[l], FeeShare[l])
      BY <1>2 DEF AutopaySettles
    <2>2. Borrower[l] \in Accounts /\ Share[l] \in Int /\ FeeShare[l] \in Int
      BY LoanAmounts
    <2> QED
      BY <2>1, <2>2, RepaymentOfLoan
  <1>19. installment'[l] = new /\ agreement'[l] = row
    BY <1>6, <1>16, <1>17 DEF LoanInv, AgreementsOK
  <1>20. InstallmentsOK(l)'
    <2> DEFINE before == [k \in DOMAIN rows |-> rows[k].collected]
               after == [k \in DOMAIN new |-> new[k].collected]
    <2>1. /\ IsFiniteSet(DOMAIN rows) /\ n \in DOMAIN rows
          /\ \A m \in DOMAIN rows : rows[m].collected \in Nat
          /\ Collections(l) = Total(before, DOMAIN rows)
      BY <1>5, <1>6, <1>7, CollectionsOfRows DEF Collected
    <2>2. \A m \in DOMAIN rows :
            /\ before[m] \in Nat /\ after[m] \in Nat
            /\ after[m] = IF m = n THEN before[m] + 1 ELSE before[m]
      BY <1>10, <2>1
    <2>3. Collections(l)' = Total(after, DOMAIN rows)
      BY <1>10, <1>19 DEF Collections
    <2> HIDE DEF before, after
    <2>4. Total(after, DOMAIN rows) = Total(before, DOMAIN rows) - before[n] + after[n]
      BY <2>1, <2>2, TotalChange
    <2>5. Total(before, DOMAIN rows) = 0
      BY <1>6, <1>18, <2>1 DEF InstallmentsOK
    <2>6. before[n] \in Nat /\ after[n] = before[n] + 1
      BY <2>1, <2>2
    <2>7. Total(after, DOMAIN rows) = 1
      BY <2>4, <2>5, <2>6
    <2> QED
      BY <1>10, <1>13, <1>15, <1>18, <1>19, <2>3, <2>7 DEF InstallmentsOK
  <1>21. OutstandingOK(l)'
    <2>1. /\ Share[l] \in Nat /\ FeeShare[l] \in Nat /\ Principal(l) \in Nat /\ Fee(l) \in Nat
          /\ Principal(l)' = Principal(l) /\ Fee(l)' = Fee(l)
      BY LoanAmounts DEF Principal, Fee
    <2>2. PICK rp \in Int, rf \in Int : rp = loanRequest[h].principal /\ rf = loanRequest[h].fee
      <3>1. LoanRequestOK(loanRequest[h])
        BY <1>1, LoanHandlerEnds DEF LoanOps
      <3> QED
        BY <1>4, <3>1 DEF LoanRequestOK
    <2>3. p <= Principal(l) - Share[l] /\ f <= Fee(l) - FeeShare[l]
      <3>1. PICK x \in Nat, y \in Nat, u \in Nat, v \in Nat :
              x = Share[l] /\ y = FeeShare[l] /\ u = Principal(l) /\ v = Fee(l)
        BY <2>1
      <3>2. p = rp - x /\ f = rf - y /\ rp <= u /\ rf <= v
        BY <1>5, <1>12, <2>2, <3>1
      <3>3. p <= u - x /\ f <= v - y
        BY <3>2
      <3> QED
        BY <3>1, <3>3
    <2>4. agreement'[l].principal = p /\ agreement'[l].fee = f
      BY <1>15, <1>19
    <2>5. /\ agreement'[l].principal <= Principal(l)' - Share[l]
          /\ agreement'[l].fee <= Fee(l)' - FeeShare[l]
      BY <2>1, <2>3, <2>4
    <2> QED
      BY <1>18, <2>5 DEF OutstandingOK
  <1>22. DOMAIN installment[l] \subseteq DOMAIN new
    BY <1>7, <1>10
  <1>23. \A g \in LoanHandlers : AutopayOK(loanRequest[g])'
    BY <1>4, <1>17, <1>22, AutopaysKept
  <1> QED
    BY <1>16, <1>17, <1>18, <1>20, <1>21, <1>23, OneLoanWritten

(* Autopay reads a due installment, and what is left is no more than the    *)
(* whole of the loan.                                                       *)
LEMMA BeginningKeepsInstallments ==
  ASSUME LoanInv, InstallmentInv, NEW h \in LoanHandlers, NEW l \in Agreements,
         NEW op \in LoanOps, BeginLoanRequest(h, op, l)
  PROVE  InstallmentInv'
  <1>1. /\ UNCHANGED <<agreement, installment, journals>>
        /\ MayHandleLoan(op, l)
    BY DEF BeginLoanRequest, loanRows, ledgerVars
  <1>2. OutstandingKept /\ \A k \in Agreements : Repaid(k)' = Repaid(k)
    BY <1>1 DEF OutstandingKept, Repaid
  <1>3. PICK r : /\ loanRequest' = [loanRequest EXCEPT ![h] = r]
                 /\ r = CASE op = "autopay" ->
                               [op |-> op, loan |-> l, due |-> Min(DueInstallments(l)),
                                principal |-> agreement[l].principal, fee |-> agreement[l].fee,
                                covered |-> availableBalance[Borrower[l]] >= Share[l] + FeeShare[l]]
                          [] op = "valuation" ->
                               [op |-> op, loan |-> l,
                                outstanding |-> agreement[l].principal + agreement[l].fee]
                          [] op = "execute_liquidation" ->
                               [op |-> op, loan |-> l, age |-> Len(cases[l])]
                          [] op = "approve" -> [op |-> op, loan |-> l, onchain |-> FALSE]
                          [] OTHER -> [op |-> op, loan |-> l]
    BY DEF BeginLoanRequest
  <1>4. AutopayOK(r)
    <2>1. CASE op = "autopay"
      <3>1. /\ r.op = op /\ r.loan = l /\ r.due = Min(DueInstallments(l))
            /\ r.principal = agreement[l].principal /\ r.fee = agreement[l].fee
        BY <1>3, <2>1
      <3>2. InstallmentsOK(l) /\ OutstandingOK(l)
        BY DEF InstallmentInv
      <3>3. DOMAIN installment[l] \subseteq Nat
        <4>1. installment[l] \in Seq(InstallmentRows)
          BY <3>2 DEF InstallmentsOK
        <4>2. DOMAIN installment[l] = 1 .. Len(installment[l])
          BY <4>1
        <4> QED
          BY <4>2
      <3>4. DueInstallments(l) \in SUBSET Nat /\ DueInstallments(l) # {}
        BY <1>1, <2>1, <3>3 DEF MayHandleLoan, DueInstallments
      <3>5. r.due \in DOMAIN installment[l]
        BY <3>1, <3>4, MinIsMember DEF DueInstallments
      <3>6. PICK p \in Nat, f \in Nat : p = Principal(l) /\ f = Fee(l)
        BY LoanAmounts
      <3>7. PICK share \in Nat, feeShare \in Nat : share = Share[l] /\ feeShare = FeeShare[l]
        BY LoanAmounts
      <3>8. PICK old \in AgreementRows : old = agreement[l]
        BY DEF LoanInv, AgreementsOK
      <3>9. old.principal \in Int /\ old.fee \in Int
        BY DEF AgreementRows
      <3>10. r.principal <= p /\ r.fee <= f
        BY <3>1, <3>2, <3>6, <3>7, <3>8, <3>9 DEF OutstandingOK
      <3> QED
        BY <3>1, <3>5, <3>6, <3>10 DEF AutopayOK
    <2>2. CASE op # "autopay"
      <3>1. r.op = op
        BY <1>3, <2>2 DEF LoanOps
      <3> QED
        BY <2>2, <3>1 DEF AutopayOK
    <2> QED
      BY <2>1, <2>2
  <1>5. \A g \in LoanHandlers : AutopayOK(loanRequest'[g])
    BY <1>3, <1>4 DEF InstallmentInv, LoanInv, LoanRequestsOK
  <1> QED
    BY <1>1, <1>2, <1>5, InstallmentsRest

LEMMA CreationKeepsInstallments ==
  ASSUME LoanInv, InstallmentInv, NEW h \in LoanHandlers, MaybeCreateOnchainLoan(h)
  PROVE  InstallmentInv'
  <1>1. /\ UNCHANGED <<agreement, installment, journals>>
        /\ loanRequest[h].op = "approve"
        /\ loanRequest' = [loanRequest EXCEPT ![h].onchain = TRUE]
    BY DEF MaybeCreateOnchainLoan, loanRows, ledgerVars
  <1>2. OutstandingKept /\ \A k \in Agreements : Repaid(k)' = Repaid(k)
    BY <1>1 DEF OutstandingKept, Repaid
  <1>3. PICK r \in ApprovalRows : r = loanRequest[h]
    BY <1>1 DEF LoanInv, LoanRequestsOK, LoanRequestOK, NoLoanRequest
  <1>4. PICK new : new = [r EXCEPT !.onchain = TRUE]
    OBVIOUS
  <1>5. new.op = "approve" /\ loanRequest' = [loanRequest EXCEPT ![h] = new]
    BY <1>1, <1>3, <1>4 DEF ApprovalRows
  <1>6. \A g \in LoanHandlers : AutopayOK(loanRequest'[g])
    BY <1>5 DEF InstallmentInv, LoanInv, LoanRequestsOK, AutopayOK
  <1> QED
    BY <1>1, <1>2, <1>6, InstallmentsRest

(* The handlers that write neither installments nor more than zero.         *)
LEMMA HandlersKeepInstallments ==
  ASSUME LoanInv, LedgerInv, InstallmentInv, NEW h \in LoanHandlers,
         \/ FundAgreement(h) \/ EscalateDefault(h) \/ StartLiquidationReview(h)
         \/ ExecuteLiquidation(h) \/ RefreshValuation(h) \/ AbortLoanRequest(h)
  PROVE  InstallmentInv'
  <1> PICK l : l = loanRequest[h].loan
    OBVIOUS
  <1>1. installment' = installment /\ loanRequest' = [loanRequest EXCEPT ![h] = NoLoanRequest]
    <2>1. CASE FundAgreement(h)
      BY <2>1 DEF FundAgreement, CommittingLoan, loanRows
    <2>2. CASE EscalateDefault(h)
      BY <2>2 DEF EscalateDefault, CommittingLoan, loanRows
    <2>3. CASE StartLiquidationReview(h)
      BY <2>3 DEF StartLiquidationReview, CommittingLoan, loanRows
    <2>4. CASE ExecuteLiquidation(h)
      BY <2>4 DEF ExecuteLiquidation, CommittingLoan, loanRows
    <2>5. CASE RefreshValuation(h)
      BY <2>5 DEF RefreshValuation, CommittingLoan, loanRows
    <2>6. CASE AbortLoanRequest(h)
      BY <2>6 DEF AbortLoanRequest, CommittingLoan, loanRows
    <2> QED
      BY <2>1, <2>2, <2>3, <2>4, <2>5, <2>6
  <1>2. \A g \in LoanHandlers : AutopayOK(loanRequest'[g])
    BY <1>1, EndKeepsAutopays
  <1>3. ASSUME OutstandingKept, journals' = journals PROVE InstallmentInv'
    <2>1. \A k \in Agreements : Repaid(k)' = Repaid(k)
      BY <1>3 DEF Repaid
    <2> QED
      BY <1>1, <1>2, <1>3, <2>1, InstallmentsRest
  <1>4. PICK active \in AgreementStatuses, defaulted \in AgreementStatuses,
             closed \in AgreementStatuses :
          active = "active" /\ defaulted = "defaulted" /\ closed = "closed"
    BY DEF AgreementStatuses
  <1>5. PICK g \in {"none", "running", "expired"}, b \in BOOLEAN : g = "none"
    OBVIOUS
  <1>6. CASE FundAgreement(h)
    <2>1. /\ CommittingLoan(h, "fund") /\ RecordLoanDisbursement(l, Principal(l), Fee(l))
          /\ agreement' = [agreement EXCEPT ![l].status = active]
      BY <1>4, <1>6 DEF FundAgreement
    <2>2. l \in Agreements
      BY <2>1, LoanHandlerEnds DEF LoanOps
    <2>3. OutstandingKept
      BY <1>5, <2>1, <2>2, AgreementWritesKeepOutstanding
    <2>4. \A k \in Agreements : Repaid(k)' = Repaid(k)
      <3>1. PICK p \in Int, f \in Int : p = Principal(l) /\ f = Fee(l)
        BY <2>2, LoanAmounts
      <3> QED
        BY <2>1, <2>2, <3>1, DisbursementOfLoan
    <2> QED
      BY <1>1, <1>2, <2>3, <2>4, InstallmentsRest
  <1>7. CASE EscalateDefault(h)
    <2>1. /\ CommittingLoan(h, "escalate") /\ journals' = journals
          /\ agreement' = [agreement EXCEPT ![l].status = defaulted]
      BY <1>4, <1>7 DEF EscalateDefault, ledgerVars
    <2>2. l \in Agreements
      BY <2>1, LoanHandlerEnds DEF LoanOps
    <2>3. OutstandingKept
      BY <1>5, <2>1, <2>2, AgreementWritesKeepOutstanding
    <2> QED
      BY <1>3, <2>1, <2>3
  <1>8. CASE StartLiquidationReview(h)
    <2>1. /\ CommittingLoan(h, "start_liquidation") /\ journals' = journals
          /\ agreement' = [agreement EXCEPT ![l].status = defaulted]
      BY <1>4, <1>8 DEF StartLiquidationReview, ledgerVars
    <2>2. l \in Agreements
      BY <2>1, LoanHandlerEnds DEF LoanOps
    <2>3. OutstandingKept
      BY <1>5, <2>1, <2>2, AgreementWritesKeepOutstanding
    <2> QED
      BY <1>3, <2>1, <2>3
  <1>9. CASE ExecuteLiquidation(h)
    <2>1. /\ CommittingLoan(h, "execute_liquidation") /\ journals' = journals
          /\ agreement' = [agreement EXCEPT ![l].status = closed,
                                            ![l].principal = 0, ![l].fee = 0]
      BY <1>4, <1>9 DEF ExecuteLiquidation, ledgerVars
    <2>2. l \in Agreements
      BY <2>1, LoanHandlerEnds DEF LoanOps
    <2>3. OutstandingKept
      BY <1>5, <2>1, <2>2, AgreementWritesKeepOutstanding
    <2> QED
      BY <1>3, <2>1, <2>3
  <1>10. CASE RefreshValuation(h) \/ AbortLoanRequest(h)
    <2>1. agreement' = agreement /\ journals' = journals
      BY <1>10 DEF RefreshValuation, AbortLoanRequest, loanRows, ledgerVars
    <2> QED
      BY <1>3, <2>1 DEF OutstandingKept
  <1> QED
    BY <1>6, <1>7, <1>8, <1>9, <1>10

LEMMA OperatorsKeepInstallments ==
  ASSUME LoanInv, InstallmentInv, NEW l \in Agreements,
         OperatorStep(l) \/ GovernedActivation(l) \/ PassMonth(l) \/ PassGracePeriod(l)
  PROVE  InstallmentInv'
  <1>1. UNCHANGED <<installment, loanRequest, journals>>
    <2>1. CASE OperatorStep(l)
      BY <2>1 DEF OperatorStep, CreateApplication, RequestMoreEvidence, RejectApplication,
         DecideApplication, SetCustomerAutopayPreference, ApproveLiquidation, CloseAgreement,
         ledgerVars
    <2>2. CASE GovernedActivation(l) \/ PassMonth(l) \/ PassGracePeriod(l)
      BY <2>2 DEF GovernedActivation, PassMonth, PassGracePeriod, loanRows, ledgerVars
    <2> QED
      BY <2>1, <2>2
  <1>2. ASSUME OutstandingKept PROVE InstallmentInv'
    <2>1. /\ \A k \in Agreements : Repaid(k)' = Repaid(k)
          /\ \A h \in LoanHandlers : AutopayOK(loanRequest'[h])
      BY <1>1 DEF Repaid, InstallmentInv
    <2> QED
      BY <1>1, <1>2, <2>1, InstallmentsRest
  <1>3. PICK liquidating \in AgreementStatuses, closed \in AgreementStatuses,
             none \in {"none", "running", "expired"}, expired \in {"none", "running", "expired"},
             yes \in BOOLEAN :
          /\ liquidating = "liquidating" /\ closed = "closed"
          /\ none = "none" /\ expired = "expired" /\ yes = TRUE
    BY DEF AgreementStatuses
  <1>4. CASE \/ CreateApplication(l) \/ RequestMoreEvidence(l) \/ RejectApplication(l)
             \/ PassMonth(l)
    <2>1. agreement' = agreement
      BY <1>4 DEF CreateApplication, RequestMoreEvidence, RejectApplication,
                  DecideApplication, PassMonth, loanRows
    <2> QED
      BY <1>2, <2>1 DEF OutstandingKept
  <1>5. ASSUME NEW enabled \in BOOLEAN, SetCustomerAutopayPreference(l, enabled)
        PROVE  InstallmentInv'
    <2>1. agreement' = [agreement EXCEPT ![l].autopay = enabled]
      BY <1>5 DEF SetCustomerAutopayPreference
    <2> QED
      BY <1>2, <1>3, <2>1, AgreementWritesKeepOutstanding
  <1>6. CASE ApproveLiquidation(l)
    <2>1. agreement' = [agreement EXCEPT ![l].status = liquidating]
      BY <1>3, <1>6 DEF ApproveLiquidation
    <2> QED
      BY <1>2, <1>3, <2>1, AgreementWritesKeepOutstanding
  <1>7. CASE CloseAgreement(l)
    <2>1. agreement' = [agreement EXCEPT ![l].status = closed,
                                         ![l].principal = 0, ![l].fee = 0]
      BY <1>3, <1>7 DEF CloseAgreement
    <2> QED
      BY <1>2, <1>3, <2>1, AgreementWritesKeepOutstanding
  <1>8. CASE GovernedActivation(l)
    <2>1. agreement' = [agreement EXCEPT ![l].activated = yes]
      BY <1>3, <1>8 DEF GovernedActivation
    <2> QED
      BY <1>2, <1>3, <2>1, AgreementWritesKeepOutstanding
  <1>9. CASE PassGracePeriod(l)
    <2>1. agreement' = [agreement EXCEPT ![l].grace = expired]
      BY <1>3, <1>9 DEF PassGracePeriod
    <2> QED
      BY <1>2, <1>3, <2>1, AgreementWritesKeepOutstanding
  <1> QED
    BY <1>4, <1>5, <1>6, <1>7, <1>8, <1>9 DEF OperatorStep

LEMMA InstallmentStep ==
  ASSUME LoanInv, LedgerInv, InstallmentInv, [LoanNext]_<<ledgerVars, loanVars>>
  PROVE  InstallmentInv'
  <1>1. ASSUME UNCHANGED <<agreement, installment, loanRequest>>,
               \A l \in Agreements : Repaid(l)' = Repaid(l)
        PROVE  InstallmentInv'
    <2>1. OutstandingKept /\ \A h \in LoanHandlers : AutopayOK(loanRequest'[h])
      BY <1>1 DEF OutstandingKept, InstallmentInv
    <2> QED
      BY <1>1, <2>1, InstallmentsRest
  <1>2. ASSUME NEW h \in LoanHandlers, LoanStep(h) PROVE InstallmentInv'
    <2>1. ASSUME NEW l \in Agreements, NEW op \in LoanOps, BeginLoanRequest(h, op, l)
          PROVE  InstallmentInv'
      BY <2>1, BeginningKeepsInstallments
    <2>2. CASE MaybeCreateOnchainLoan(h) \/ CommitApproval(h)
      BY <2>2, CreationKeepsInstallments, ApprovalInstallments
    <2>3. CASE AutopayFails(h) \/ AutopaySettles(h)
      BY <2>3, MissedInstallments, PaidInstallments
    <2>4. CASE \/ FundAgreement(h) \/ EscalateDefault(h) \/ StartLiquidationReview(h)
               \/ ExecuteLiquidation(h) \/ RefreshValuation(h) \/ AbortLoanRequest(h)
      BY <2>4, HandlersKeepInstallments
    <2> QED
      BY <1>2, <2>1, <2>2, <2>3, <2>4 DEF LoanStep
  <1>3. ASSUME NEW l \in Agreements,
               OperatorStep(l) \/ GovernedActivation(l) \/ PassMonth(l) \/ PassGracePeriod(l)
        PROVE  InstallmentInv'
    BY <1>3, OperatorsKeepInstallments
  <1>4. ASSUME NEW d \in LoanDeposits, CreditBorrower(d) PROVE InstallmentInv'
    <2>1. UNCHANGED <<agreement, installment, loanRequest>>
      BY <1>4 DEF CreditBorrower, loanVars, loanRows
    <2> QED
      BY <1>1, <1>4, <2>1, LoanAssumption, IntentsKeepLoans DEF CreditBorrower
  <1>5. ASSUME NEW w \in Intents \ LoanDeposits, BorrowerWithdraws(w) PROVE InstallmentInv'
    <2>1. UNCHANGED <<agreement, installment, loanRequest>>
      BY <1>5 DEF BorrowerWithdraws, loanVars, loanRows
    <2> QED
      BY <1>1, <1>5, <2>1, IntentsKeepLoans DEF BorrowerWithdraws
  <1>6. CASE ChangeFundingPause \/ UNCHANGED <<ledgerVars, loanVars>>
    <2>1. UNCHANGED <<agreement, installment, loanRequest, journals>>
      BY <1>6 DEF ChangeFundingPause, ledgerVars, loanVars, loanRows
    <2> QED
      BY <1>1, <2>1 DEF Repaid
  <1> QED
    BY <1>2, <1>3, <1>4, <1>5, <1>6 DEF LoanNext

LEMMA ServicingInitial == LoanInit => ReceivableInv /\ InstallmentInv
  <1> SUFFICES ASSUME LoanInit PROVE ReceivableInv /\ InstallmentInv
    OBVIOUS
  <1>1. /\ agreement = [l \in Agreements |-> NoAgreement]
        /\ installment = [l \in Agreements |-> <<>>]
        /\ loanRequest = [h \in LoanHandlers |-> NoLoanRequest]
        /\ journals = {} /\ ledger = [k \in LedgerAccounts |-> 0]
    BY DEF LoanInit, LedgerInit
  <1>2. \A l \in Agreements : ~Repaid(l) /\ ~Disbursed(l)
    BY <1>1 DEF Repaid, Disbursed
  <1>3. ReceivableInv
    BY <1>1, <1>2, DistinctReceivables DEF ReceivableInv, ReceivablesOK
  <1>4. ASSUME NEW l \in Agreements PROVE InstallmentsOK(l) /\ OutstandingOK(l)
    <2>1. installment[l] = <<>> /\ agreement[l].principal = 0 /\ agreement[l].fee = 0
      BY <1>1 DEF NoAgreement
    <2>2. DOMAIN installment[l] = {} /\ installment[l] \in Seq(InstallmentRows)
      BY <2>1
    <2>3. Collections(l) = 0
      BY <2>2, TotalOfNothing DEF Collections
    <2>4. Principal(l) \in Nat /\ Fee(l) \in Nat
      BY LoanAmounts
    <2> QED
      BY <1>2, <2>1, <2>2, <2>3, <2>4 DEF InstallmentsOK, OutstandingOK
  <1>5. \A h \in LoanHandlers : AutopayOK(loanRequest[h])
    BY <1>1 DEF AutopayOK, NoLoanRequest
  <1> QED
    BY <1>1, <1>3, <1>4, <1>5 DEF InstallmentInv

ServicingInv == LoanInv /\ LedgerInv /\ ReceivableInv /\ InstallmentInv

LEMMA ServicingInvariance == LoanSpec => []ServicingInv
  <1>1. LoanInit => ServicingInv
    BY LoanInitial, LedgerInitial, ServicingInitial DEF LoanInit, ServicingInv
  <1>2. ServicingInv /\ [LoanNext]_<<ledgerVars, loanVars>> => ServicingInv'
    BY LoanInvStep, LoanLedgerStep, ReceivableStep, InstallmentStep DEF ServicingInv
  <1> QED
    BY <1>1, <1>2, PTL DEF LoanSpec

(* An installment is collected once, and the receivables of the ledger are  *)
(* what was disbursed less what was collected, whatever autopays that read  *)
(* the same installment, operators and liquidations interleave              *)
(* (autopayInstallment, recordLoanRepayment).                               *)
THEOREM ReceivablesCorrect == LoanSpec => []ReceivablesMatchPayments
  <1>1. ServicingInv => ReceivablesMatchPayments
    <2> SUFFICES ASSUME ServicingInv PROVE ReceivablesMatchPayments
      OBVIOUS
    <2>1. ProjectionMatchesLedger
      BY DEF ServicingInv, LedgerInv
    <2>2. ASSUME NEW l \in Agreements
          PROVE  /\ \A n \in DOMAIN installment[l] : installment[l][n].collected <= 1
                 /\ ledger[PrincipalReceivable(l)] =
                      Share[l] * Collections(l) - (IF Disbursed(l) THEN Principal(l) ELSE 0)
                 /\ ledger[FeeReceivable(l)] =
                      FeeShare[l] * Collections(l) - (IF Disbursed(l) THEN Fee(l) ELSE 0)
      <3>1. InstallmentsOK(l) /\ ReceivablesOK(l)
        BY DEF ServicingInv, InstallmentInv, ReceivableInv
      <3>2. ASSUME NEW n \in DOMAIN installment[l] PROVE installment[l][n].collected <= 1
        <4>1. /\ IsFiniteSet(DOMAIN installment[l])
              /\ Collections(l) = Total(Collected(l), DOMAIN installment[l])
              /\ \A m \in DOMAIN installment[l] :
                   Collected(l)[m] = installment[l][m].collected /\ Collected(l)[m] \in Nat
          BY <3>1, CollectionsOfRows DEF InstallmentsOK
        <4>2. Collected(l)[n] <= Collections(l)
          BY <3>2, <4>1, TotalBounds
        <4>3. Collections(l) \in {0, 1}
          BY <3>1 DEF InstallmentsOK
        <4>4. Collected(l)[n] = installment[l][n].collected /\ Collected(l)[n] \in Nat
          BY <3>2, <4>1
        <4> QED
          BY <4>2, <4>3, <4>4
      <3>3. PICK share \in Nat, feeShare \in Nat : share = Share[l] /\ feeShare = FeeShare[l]
        BY LoanAmounts
      <3>4. /\ share * Collections(l) = IF Repaid(l) THEN share ELSE 0
            /\ feeShare * Collections(l) = IF Repaid(l) THEN feeShare ELSE 0
        <4>1. share * 1 = share /\ share * 0 = 0 /\ feeShare * 1 = feeShare /\ feeShare * 0 = 0
          OBVIOUS
        <4> QED
          BY <3>1, <4>1 DEF InstallmentsOK
      <3> QED
        BY <3>1, <3>2, <3>3, <3>4 DEF ReceivablesOK
    <2> QED
      BY <2>1, <2>2 DEF ReceivablesMatchPayments, Disbursed
  <1> QED
    BY <1>1, ServicingInvariance, PTL

(* The outstanding amount of an agreement, written from a read that may be  *)
(* old, is never more than the loan less what was collected of it.          *)
THEOREM OutstandingCorrect == LoanSpec => []NeverOverstated
  <1>1. ServicingInv => NeverOverstated
    <2> SUFFICES ASSUME ServicingInv, NEW l \in Agreements
                 PROVE  /\ agreement[l].principal <= Principal(l) - Share[l] * Collections(l)
                        /\ agreement[l].fee <= Fee(l) - FeeShare[l] * Collections(l)
      BY DEF NeverOverstated
    <2>1. InstallmentsOK(l) /\ OutstandingOK(l)
      BY DEF ServicingInv, InstallmentInv
    <2>2. PICK share \in Nat, feeShare \in Nat : share = Share[l] /\ feeShare = FeeShare[l]
      BY LoanAmounts
    <2>3. /\ share * Collections(l) = IF Repaid(l) THEN share ELSE 0
          /\ feeShare * Collections(l) = IF Repaid(l) THEN feeShare ELSE 0
      <3>1. share * 1 = share /\ share * 0 = 0 /\ feeShare * 1 = feeShare /\ feeShare * 0 = 0
        OBVIOUS
      <3> QED
        BY <2>1, <3>1 DEF InstallmentsOK
    <2> QED
      BY <2>1, <2>2, <2>3 DEF OutstandingOK
  <1> QED
    BY <1>1, ServicingInvariance, PTL
=============================================================================
