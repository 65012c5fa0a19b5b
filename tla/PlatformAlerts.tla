---------------------------- MODULE PlatformAlerts ----------------------------
(***************************************************************************)
(* Alerts of OperationsMonitoringService and their delivery by             *)
(* PlatformAlertDeliveryService.  Detection opens, resolves and reopens an *)
(* alert; operators own, acknowledge, suppress and route it; each of these *)
(* events is queued as a delivery row for every subscribed target.  Rows   *)
(* are sent by a process in memory that nobody waits for; a row that fails *)
(* is passed on to the failover targets of its target.  An open critical   *)
(* alert that nobody took up is escalated again and again, except while a  *)
(* delivery of an earlier escalation is pending.                           *)
(*                                                                         *)
(* Handlers read and then write by id.  Targets are external: they accept  *)
(* a request or they do not.                                               *)
(***************************************************************************)
EXTENDS Integers, Sequences, FiniteSets

CONSTANTS AlertKeys,       \* dedupeKey of the alerts
          CriticalAlerts,  \* those of critical severity
          AutoRouted,      \* those an automation policy routes
          Targets, DirectTargets,
          Failover,        \* failoverTargetNames of a target
          Subscribes,      \* the events a target is configured for
          Senders,         \* sending processes at a time (a bound)
          MaxAlertCalls,   \* handlers of alerts, and retries, at a time (a bound)
          MaxDeliveries    \* delivery rows (a bound)

ASSUME AlertAssumption ==
  /\ CriticalAlerts \subseteq AlertKeys /\ AutoRouted \subseteq AlertKeys
  /\ IsFiniteSet(Targets) /\ DirectTargets \subseteq Targets
  /\ Failover \in [Targets -> SUBSET Targets]
  /\ \A t \in Targets : t \notin Failover[t]
  /\ MaxDeliveries \in Nat

VARIABLES alert,       \* PlatformAlert rows
          alertCalls,  \* what the handlers that have read a row will do
          delivery,    \* PlatformAlertDelivery rows in their order of creation
          sender,      \* the sending processes
          retries,     \* rows that a retry has read as failed
          lost         \* a process has died with what it was to do

alertVars == <<alert, alertCalls, delivery, sender, retries, lost>>

NoAlert == [status |-> "absent", owned |-> FALSE, acked |-> FALSE,
            suppressed |-> FALSE]
NoSender == [ids |-> {}, listed |-> FALSE, current |-> 0, phase |-> "idle"]
GovernanceOps == {"own", "acknowledge", "suppress", "clear"}
AlertOps == GovernanceOps \cup {"create", "refresh", "reopen", "route", "re_escalate"}
AlertEvents == {"opened", "reopened", "re_escalated", "routed_to_review_case"}
                 \cup GovernanceOps

AlertTypeOK ==
  /\ alert \in [AlertKeys -> [status : {"absent", "open", "resolved"},
                              owned : BOOLEAN, acked : BOOLEAN,
                              suppressed : BOOLEAN]]
  /\ alertCalls \subseteq AlertKeys \X AlertOps
  /\ delivery \in Seq([alert : AlertKeys, target : Targets, event : AlertEvents,
                       from : 0 .. MaxDeliveries,
                       status : {"pending", "succeeded", "failed"}])
  /\ sender \in [Senders ->
       [ids : SUBSET (1 .. MaxDeliveries), listed : BOOLEAN,
        current : 0 .. MaxDeliveries, phase : {"idle", "posting", "failed"}]]
  /\ retries \subseteq SUBSET (1 .. MaxDeliveries)
  /\ lost \in BOOLEAN

AlertInit ==
  /\ alert = [a \in AlertKeys |-> NoAlert]
  /\ alertCalls = {}
  /\ delivery = <<>>
  /\ sender = [s \in Senders |-> NoSender]
  /\ retries = {}
  /\ lost = FALSE

-----------------------------------------------------------------------------
(* Deliveries *)

SubscribedTo(event, targets) == {t \in targets : event \in Subscribes[t]}

(* One pending row for each target, in some order.                          *)
NewRows(a, event, targets, from) ==
  {rows \in [1 .. Cardinality(targets) ->
               [alert : {a}, target : targets, event : {event}, from : {from},
                status : {"pending"}]] :
     \A t \in targets : \E n \in DOMAIN rows : rows[n].target = t}

(* The rows are appended and a process is started for them, in a free slot  *)
(* of senders.                                                              *)
StartSending(senders, ids) ==
  IF ids = {} THEN sender' = senders
  ELSE \E s \in Senders :
         /\ senders[s] = NoSender
         /\ sender' = [senders EXCEPT ![s].ids = ids]

CreatePendingDeliveries(senders, a, event, targets, from) ==
  /\ Len(delivery) + Cardinality(targets) <= MaxDeliveries
  /\ \E rows \in NewRows(a, event, targets, from) : delivery' = delivery \o rows
  /\ StartSending(senders, Len(delivery) + 1 .. Len(delivery) + Cardinality(targets))

EnqueueAlertEvent(a, event) ==
  CreatePendingDeliveries(sender, a, event, SubscribedTo(event, DirectTargets), 0)

(* The process lists those of its rows that are still pending.              *)
ProcessPendingDeliveries(s) ==
  /\ sender[s] # NoSender /\ ~sender[s].listed
  /\ LET pending == {d \in sender[s].ids : delivery[d].status = "pending"} IN
     sender' = [sender EXCEPT ![s] =
       IF pending = {} THEN NoSender ELSE [@ EXCEPT !.ids = pending, !.listed = TRUE]]
  /\ UNCHANGED <<alert, alertCalls, delivery, retries, lost>>

Finished(x, d) ==
  IF x.ids = {d} THEN NoSender ELSE [x EXCEPT !.ids = @ \ {d}, !.current = 0, !.phase = "idle"]

(* One row at a time, read again before its request.                        *)
TakeUpDelivery(s, d) ==
  /\ sender[s].listed /\ sender[s].current = 0 /\ d \in sender[s].ids
  /\ sender' = [sender EXCEPT ![s] =
       IF delivery[d].status = "pending"
         THEN [@ EXCEPT !.current = d, !.phase = "posting"] ELSE Finished(@, d)]
  /\ UNCHANGED <<alert, alertCalls, delivery, retries, lost>>

DeliverySucceeds(s) ==
  /\ sender[s].phase = "posting"
  /\ delivery' = [delivery EXCEPT ![sender[s].current].status = "succeeded"]
  /\ sender' = [sender EXCEPT ![s] = Finished(@, @.current)]
  /\ UNCHANGED <<alert, alertCalls, retries, lost>>

(* Mutant: only a refused request is passed on, not one that timed out. *)
DeliveryTimesOut(s) ==
  /\ sender[s].phase = "posting"
  /\ delivery' = [delivery EXCEPT ![sender[s].current].status = "failed"]
  /\ sender' = [sender EXCEPT ![s] = Finished(@, @.current)]
  /\ UNCHANGED <<alert, alertCalls, retries, lost>>

DeliveryFails(s) ==
  /\ sender[s].phase = "posting"
  /\ delivery' = [delivery EXCEPT ![sender[s].current].status = "failed"]
  /\ sender' = [sender EXCEPT ![s].phase = "failed"]
  /\ UNCHANGED <<alert, alertCalls, retries, lost>>

FailoverTargets(d) == SubscribedTo(delivery[d].event, Failover[delivery[d].target])
Escalated(d, t) ==
  \E e \in DOMAIN delivery : delivery[e].from = d /\ delivery[e].target = t

EnqueueFailoverDeliveries(s) ==
  LET d == sender[s].current IN
  /\ sender[s].phase = "failed"
  /\ CreatePendingDeliveries([sender EXCEPT ![s] = Finished(@, d)],
       delivery[d].alert, delivery[d].event,
       {t \in FailoverTargets(d) : ~Escalated(d, t)}, d)
  /\ UNCHANGED <<alert, alertCalls, retries, lost>>

(* An operator retries the failed rows of an alert: read, then written by   *)
(* id whatever has become of them, then sent.                               *)
BeginRetry(a) ==
  LET failed == {d \in DOMAIN delivery :
                   delivery[d].alert = a /\ delivery[d].status = "failed"} IN
  /\ failed # {} /\ Cardinality(retries) < MaxAlertCalls
  /\ retries' = retries \cup {failed}
  /\ UNCHANGED <<alert, alertCalls, delivery, sender, lost>>

(* Mutant: retried rows are left to a sweep that does not exist. *)
RetryLater(ids) ==
  /\ retries' = retries \ {ids}
  /\ delivery' = [d \in DOMAIN delivery |->
       IF d \in ids THEN [delivery[d] EXCEPT !.status = "pending"] ELSE delivery[d]]
  /\ UNCHANGED <<alert, alertCalls, sender, lost>>

RetryFailedDeliveries(ids) ==
  /\ retries' = retries \ {ids}
  /\ delivery' = [d \in DOMAIN delivery |->
       IF d \in ids THEN [delivery[d] EXCEPT !.status = "pending"] ELSE delivery[d]]
  /\ StartSending(sender, ids)
  /\ UNCHANGED <<alert, alertCalls, lost>>

(* The rows stay, what was to be done with them is forgotten: the API dies, *)
(* or an error of the database ends one sending process.                    *)
ApiDies ==
  /\ ~lost
  /\ lost' = TRUE
  /\ sender' = [s \in Senders |-> NoSender]
  /\ alertCalls' = {} /\ retries' = {}
  /\ UNCHANGED <<alert, delivery>>

SenderDies(s) ==
  /\ ~lost /\ sender[s] # NoSender
  /\ lost' = TRUE
  /\ sender' = [sender EXCEPT ![s] = NoSender]
  /\ UNCHANGED <<alert, alertCalls, delivery, retries>>

-----------------------------------------------------------------------------
(* Alerts *)

BeginAlertCall(a, op) ==
  /\ Cardinality(alertCalls) < MaxAlertCalls
  /\ alertCalls' = alertCalls \cup {<<a, op>>}
  /\ UNCHANGED <<alert, delivery, sender, retries, lost>>

(* A call has done its work; next is what its handler does afterwards.      *)
ContinueAlertCall(a, op, next) ==
  /\ <<a, op>> \in alertCalls
  /\ alertCalls' = (alertCalls \ {<<a, op>>}) \cup next
  /\ UNCHANGED <<retries, lost>>

EndAlertCall(a, op) == ContinueAlertCall(a, op, {})

AutoRouting(a) == IF a \in AutoRouted THEN {<<a, "route">>} ELSE {}

(* Detection has read the row, which decides what it will do.               *)
BeginSync(a) ==
  LET op == CASE alert[a].status = "absent" -> "create"
              [] alert[a].status = "open" -> "refresh"
              [] alert[a].status = "resolved" -> "reopen"
  IN BeginAlertCall(a, op)

(* A new or reopened alert starts afresh, and then the handler routes it if *)
(* a policy says so.                                                        *)
StartAfresh(a, op, event) ==
  /\ ContinueAlertCall(a, op, AutoRouting(a))
  /\ alert' = [alert EXCEPT ![a] = [NoAlert EXCEPT !.status = "open"]]
  /\ EnqueueAlertEvent(a, event)

CreateAlert(a) == alert[a].status = "absent" /\ StartAfresh(a, "create", "opened")

(* The row was resolved when it was read, or when the unique key refused    *)
(* another one.                                                             *)
ReopenAlert(a) ==
  \/ StartAfresh(a, "reopen", "reopened")
  \/ alert[a].status = "resolved" /\ StartAfresh(a, "create", "reopened")

(* A row that was open only gets new details, which may make a policy match *)
(* it that did not before; one that was resolved meanwhile is open again as *)
(* it was.                                                                  *)
RefreshAlert(a) ==
  /\ \E op \in {"refresh", "create"}, next \in {{}, AutoRouting(a)} :
       /\ op = "create" => alert[a].status = "open"
       /\ ContinueAlertCall(a, op, next)
  /\ alert' = [alert EXCEPT ![a].status = "open"]
  /\ UNCHANGED <<delivery, sender>>

(* The end of a synchronisation that did not detect the alert.              *)
ResolveAlert(a) ==
  /\ alert[a].status = "open"
  /\ alert' = [alert EXCEPT ![a].status = "resolved"]
  /\ UNCHANGED <<alertCalls, delivery, sender, retries, lost>>

(* What would not change the row is answered without a write.               *)
BeginGovernance(a, op) ==
  /\ alert[a].status = "open"
  /\ op = "acknowledge" => ~alert[a].acked
  /\ op = "clear" => alert[a].suppressed
  /\ BeginAlertCall(a, op)

Govern(a, op) ==
  /\ EndAlertCall(a, op)
  /\ alert' = [alert EXCEPT ![a] =
       CASE op = "own" -> [@ EXCEPT !.owned = TRUE]
         [] op = "acknowledge" -> [@ EXCEPT !.acked = TRUE]
         [] op = "suppress" -> [@ EXCEPT !.suppressed = TRUE]
         [] op = "clear" -> [@ EXCEPT !.suppressed = FALSE]]
  /\ EnqueueAlertEvent(a, op)

SuppressionEnds(a) ==
  /\ alert[a].suppressed
  /\ alert' = [alert EXCEPT ![a].suppressed = FALSE]
  /\ UNCHANGED <<alertCalls, delivery, sender, retries, lost>>

(* One transaction that opens or reuses the review case and marks the row;  *)
(* nothing here depends on the mark.                                        *)
RoutePlatformAlert(a) ==
  /\ alert[a].status = "open"
  /\ EnqueueAlertEvent(a, "routed_to_review_case")
  /\ UNCHANGED <<alert, retries, lost>>

RouteByOperator(a) == RoutePlatformAlert(a) /\ UNCHANGED alertCalls

(* An alert that was resolved before its automatic routing is left alone.   *)
RouteByPolicy(a) ==
  /\ EndAlertCall(a, "route")
  /\ IF alert[a].status = "open" THEN RoutePlatformAlert(a)
                                 ELSE UNCHANGED <<alert, delivery, sender>>

EscalationPending(a) ==
  \E d \in DOMAIN delivery : /\ delivery[d].alert = a /\ delivery[d].status = "pending"
                             /\ delivery[d].event = "re_escalated"

(* The thresholds and the repeat interval have passed at any time.          *)
BeginReEscalate(a) ==
  /\ a \in CriticalAlerts /\ alert[a].status = "open"
  /\ ~(alert[a].acked /\ alert[a].owned) /\ ~alert[a].suppressed
  /\ ~EscalationPending(a)
  /\ BeginAlertCall(a, "re_escalate")

ReEscalate(a) ==
  /\ EndAlertCall(a, "re_escalate")
  /\ EnqueueAlertEvent(a, "re_escalated")
  /\ UNCHANGED alert

-----------------------------------------------------------------------------
AlertNext ==
  \/ \E a \in AlertKeys :
       \/ BeginSync(a) \/ CreateAlert(a) \/ ReopenAlert(a) \/ RefreshAlert(a)
       \/ ResolveAlert(a)
       \/ \E op \in GovernanceOps : BeginGovernance(a, op) \/ Govern(a, op)
       \/ SuppressionEnds(a) \/ RouteByOperator(a) \/ RouteByPolicy(a)
       \/ BeginReEscalate(a) \/ ReEscalate(a) \/ BeginRetry(a)
  \/ \E s \in Senders :
       \/ ProcessPendingDeliveries(s) \/ \E d \in sender[s].ids : TakeUpDelivery(s, d)
       \/ DeliverySucceeds(s) \/ DeliveryFails(s) \/ EnqueueFailoverDeliveries(s)
       \/ SenderDies(s)
  \/ \E ids \in retries : RetryFailedDeliveries(ids)
  \/ ApiDies

AlertSpec == AlertInit /\ [][AlertNext]_alertVars

(* Unless a process dies, no alert is lost between its processes, however   *)
(* retries and escalations of one alert overlap: whatever is pending is on  *)
(* the list of a process, so that it cannot hold further escalations back   *)
(* for ever, and whatever failed has been passed on to every failover       *)
(* target or is about to be.                                                *)
FailuresEscalate ==
  ~lost => \A d \in DOMAIN delivery :
    /\ delivery[d].status = "pending" => \E s \in Senders : d \in sender[s].ids
    /\ delivery[d].status = "failed" =>
         \/ \A t \in FailoverTargets(d) : Escalated(d, t)
         \/ \E s \in Senders : sender[s].current = d /\ sender[s].phase = "failed"
=============================================================================
