--------------------------- MODULE DepositReplay ---------------------------
(***************************************************************************)
(* DepositSettlementReconciliationService (apps/api/src/transaction-       *)
(* intents/deposit-settlement-reconciliation.service.ts): operators replay *)
(* the confirmation or the settlement of a deposit that is stuck between   *)
(* chain and ledger, while workers go on with the same deposit.            *)
(*                                                                         *)
(* A replay is asked for by one operator, approved by another and executed *)
(* by one who did not ask for it.  Its execution checks the deposit and    *)
(* the request, calls the handler that the workers call, and marks the     *)
(* request in a third transaction, by id.                                  *)
(***************************************************************************)
EXTENDS DepositIntents, Staff

CONSTANTS Replays,    \* DepositSettlementReplayApprovalRequest rows
          MaxReplays  \* replay handlers at work at a time (a bound)

ASSUME ReplayAssumption == MaxReplays \in Nat

VARIABLES replay,  \* the rows
          desk     \* replay handlers that have read and not written

replayVars == <<vars, replay, desk>>

ReplayRows ==
  [status : {"pending_approval", "approved", "rejected", "executed"},
   intent : Deposits, action : {"confirm", "settle"}, by : Operators,
   approver : Operators \cup {"none"}, executor : Operators \cup {"none"}]
NoReplay == [status |-> "absent"]

ReplayTypeOK ==
  /\ TypeOK
  /\ replay \in [Replays -> ReplayRows \cup {NoReplay}]
  /\ Cardinality(desk) <= MaxReplays

ReplayInit ==
  /\ Init
  /\ replay = [r \in Replays |-> NoReplay]
  /\ desk = {}

-----------------------------------------------------------------------------
(* classifyDepositSettlementReconciliation.  The settled amount is written  *)
(* with the proof, and is the requested one.                                *)
Classify(d) ==
  LET tx == LatestTx(d).status
      recorded == Credited(d) \/ proof[d] # NoHash
  IN CASE policyDecision[d] # "approved" \/ tx = "none" -> "manual_review_required"
       [] status[d] = "broadcast" /\ tx = "broadcast" -> "waiting_for_confirmation"
       [] status[d] = "broadcast" /\ tx = "confirmed" /\ ~Credited(d) -> "confirm"
       [] status[d] = "confirmed" /\ tx = "confirmed" /\ ~recorded -> "settle"
       [] status[d] = "settled" /\ tx = "confirmed" /\ Credited(d) /\ proof[d] # NoHash
            -> "healthy_settled"
       [] OTHER -> "manual_review_required"

-----------------------------------------------------------------------------
StartReplay(h) ==
  /\ Cardinality(desk) < MaxReplays
  /\ desk' = desk \cup {h}
  /\ UNCHANGED <<vars, replay>>

EndReplay(h) == desk' = desk \ {h}

(* requestReplayApproval *)
BeginRequestReplay(r, d, action, p) ==
  /\ replay[r] = NoReplay
  /\ Classify(d) = action
  /\ ~\E q \in Replays : /\ replay[q] # NoReplay /\ replay[q].intent = d
                         /\ replay[q].action = action
                         /\ replay[q].status \in {"pending_approval", "approved"}
  /\ StartReplay([at |-> "request", replay |-> r, intent |-> d, action |-> action,
                  operator |-> p])

CommitRequestReplay(h) ==
  /\ h \in desk /\ h.at = "request" /\ replay[h.replay] = NoReplay
  /\ replay' = [replay EXCEPT ![h.replay] =
       [status |-> "pending_approval", intent |-> h.intent, action |-> h.action,
        by |-> h.operator, approver |-> "none", executor |-> "none"]]
  /\ EndReplay(h)
  /\ UNCHANGED vars

(* Mutant: an operator may answer and execute what they asked for. *)
AnyOperatorMay(r, p) == TRUE

AnotherMay(r, p) == replay[r].by # p

(* approveReplayApprovalRequest, rejectReplayApprovalRequest *)
BeginAnswerReplay(r, p, answer) ==
  /\ replay[r].status = "pending_approval" /\ AnotherMay(r, p)
  /\ StartReplay([at |-> "answer", replay |-> r, operator |-> p, answer |-> answer])

AnswerReplay(h, answer, approver) ==
  /\ h \in desk /\ h.at = "answer" /\ h.answer = answer
  /\ replay' = [replay EXCEPT ![h.replay].status = h.answer, ![h.replay].approver = approver]
  /\ EndReplay(h)
  /\ UNCHANGED vars

CommitApproveReplay(h) == AnswerReplay(h, "approved", h.operator)

CommitRejectReplay(h) == AnswerReplay(h, "rejected", replay[h.replay].approver)

(* replayConfirm and replaySettle, up to their call of the handler. *)
BeginReplay(r, p) ==
  /\ replay[r].status = "approved" /\ AnotherMay(r, p)
  /\ Classify(replay[r].intent) = replay[r].action
  /\ StartReplay([at |-> "call", replay |-> r, operator |-> p,
                  approver |-> replay[r].approver])

(* The handler reads, as the worker's does. *)
CallHandler(h, s) ==
  LET d == replay[h.replay].intent IN
  /\ h \in desk /\ h.at = "call"
  /\ IF replay[h.replay].action = "confirm" THEN BeginConfirm(s, d) ELSE BeginSettle(s, d)
  /\ desk' = (desk \ {h}) \cup {[at |-> "wait", replay |-> h.replay, operator |-> h.operator,
                                 approver |-> h.approver, slot |-> s]}
  /\ UNCHANGED replay

Returned(h) ==
  [at |-> "mark", replay |-> h.replay, operator |-> h.operator, approver |-> h.approver]

(* A worker came first: the handler answers confirmReused, settlementReused.*)
AlreadyDone(d, action) ==
  IF action = "confirm" THEN status[d] = "confirmed" /\ LatestTx(d).status = "confirmed"
  ELSE status[d] = "settled" /\ Credited(d)

(* The answer without a transaction: done before, or an exception.          *)
AnswerHandler(h) ==
  LET d == replay[h.replay].intent
      action == replay[h.replay].action
      runs == IF action = "confirm" THEN Approved(d, "broadcast")
              ELSE Approved(d, "confirmed") /\ LatestTx(d).status = "confirmed"
  IN /\ h \in desk /\ h.at = "call" /\ ~runs
     /\ desk' = (desk \ {h}) \cup IF AlreadyDone(d, action) THEN {Returned(h)} ELSE {}
     /\ UNCHANGED <<vars, replay>>

(* The handler's transaction commits, or rolls back with the replay.        *)
HandlerCommits(h) ==
  /\ h \in desk /\ h.at = "wait"
  /\ Commit(h.slot)
  /\ desk' = (desk \ {h}) \cup {Returned(h)}
  /\ UNCHANGED replay

(* Mutant: the replay swallows the error and goes on. *)
SwallowError(h) ==
  /\ h \in desk /\ h.at = "wait"
  /\ Abort(h.slot)
  /\ desk' = (desk \ {h}) \cup {Returned(h)}
  /\ UNCHANGED replay

HandlerAborts(h) ==
  /\ h \in desk /\ h.at = "wait"
  /\ Abort(h.slot)
  /\ EndReplay(h)
  /\ UNCHANGED replay

(* The update to executed; the API may die before it.                       *)
MarkReplayed(h) ==
  /\ h \in desk /\ h.at = "mark"
  /\ replay' = [replay EXCEPT ![h.replay].status = "executed",
                  ![h.replay].executor = h.operator, ![h.replay].approver = h.approver]
  /\ EndReplay(h)
  /\ UNCHANGED vars

ReplayDies(h) ==
  /\ h \in desk /\ h.at # "wait"
  /\ EndReplay(h)
  /\ UNCHANGED <<vars, replay>>

-----------------------------------------------------------------------------
Held(s) == \E h \in desk : h.at = "wait" /\ h.slot = s

(* Everybody else, on the slots that no replay waits for.                   *)
Others ==
  /\ \/ \E d \in Deposits : CreateDepositIntent(d)
     \/ \E d \in Deposits, n \in 1 .. MaxReviews : CloseReviewCase(d, n)
     \/ \E s \in Slots, d \in Deposits : Read(s, d)
     \/ \E s \in Slots : ~Held(s) /\ (Commit(s) \/ Abort(s))
  /\ UNCHANGED <<replay, desk>>

ReplayNext ==
  \/ Others
  \/ \E r \in Replays, p \in Operators :
       \/ \E d \in Deposits, action \in {"confirm", "settle"} :
            BeginRequestReplay(r, d, action, p)
       \/ \E answer \in {"approved", "rejected"} : BeginAnswerReplay(r, p, answer)
       \/ BeginReplay(r, p)
  \/ \E h \in desk :
       \/ CommitRequestReplay(h) \/ CommitApproveReplay(h) \/ CommitRejectReplay(h)
       \/ AnswerHandler(h)
       \/ (\E s \in Slots : CallHandler(h, s))
       \/ HandlerCommits(h) \/ HandlerAborts(h) \/ MarkReplayed(h) \/ ReplayDies(h)

ReplaySpec == ReplayInit /\ [][ReplayNext]_replayVars

-----------------------------------------------------------------------------
(* Properties *)

(* A replay that is marked executed was approved by another operator and    *)
(* run by one who had not asked for it, and it has had its effect, once: the *)
(* deposit is credited (or on its way, for a confirmation) and classified   *)
(* healthy, whether the replay or a worker in between did it.               *)
ReplayTookEffect ==
  \A r \in Replays : replay[r].status = "executed" =>
    LET d == replay[r].intent IN
    /\ replay[r].approver \in Operators \ {replay[r].by} /\ replay[r].executor # replay[r].by
    /\ d \notin Overlapping =>
         Classify(d) \in IF replay[r].action = "settle" THEN {"healthy_settled"}
                         ELSE {"settle", "healthy_settled"}
=============================================================================
