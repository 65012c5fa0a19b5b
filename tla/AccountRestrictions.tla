------------------------- MODULE AccountRestrictions -------------------------
(***************************************************************************)
(* Restrictions of a customer account: oversight incidents that apply one  *)
(* (OversightIncidentsService), the review case through which it is        *)
(* released (AccountRestrictionReleaseReviewService, ReviewCasesService),  *)
(* and the restriction a loan operator places (LoansService).  One account.*)
(* Every handler reads its rows first and writes them in a transaction     *)
(* later; up to MaxHandlers are between the two.                           *)
(***************************************************************************)
EXTENDS Naturals, FiniteSets

CONSTANTS MaxIncidents,     \* bound: OversightIncident rows of the account
          MaxRestrictions,  \* bound: CustomerAccountRestriction rows
          MaxCases,         \* bound: ReviewCase rows of type account_review
          CaseOperators,
          MaxHandlers       \* bound: handlers in flight

ASSUME RestrictionAssumption ==
  /\ MaxIncidents \in Nat /\ MaxRestrictions \in Nat
  /\ MaxCases \in Nat /\ MaxHandlers \in Nat

Incidents == 1..MaxIncidents
Restrictions == 1..MaxRestrictions
Cases == 1..MaxCases

VARIABLES account,      \* status and restrictedByOversightIncidentId
          incident, restriction, reviewCase,
          handler       \* handlers between their reads and their transaction

restrictionVars == <<account, incident, restriction, reviewCase, handler>>

(* Rows are numbered in the order in which they are created. *)
IsNext(rows, k) ==
  rows[k].status = "absent" /\ \A j \in DOMAIN rows : j < k => rows[j].status # "absent"

NoIncident == [status |-> "absent", operator |-> "none"]
NoRestriction == [status |-> "absent", decision |-> "not_requested", incident |-> 0,
                  case |-> 0, previous |-> "none"]
Actionable == {"open", "in_progress"}
Statuses == {"absent", "open", "in_progress", "resolved", "dismissed"}

RestrictionTypeOK ==
  /\ account \in [status : {"active", "restricted"}, by : Incidents \cup {0}]
  /\ incident \in [Incidents -> [status : Statuses, operator : CaseOperators \cup {"none"}]]
  /\ reviewCase \in [Cases -> [status : Statuses, operator : CaseOperators \cup {"none"}]]
  /\ \A r \in Restrictions :
       /\ restriction[r].status \in {"absent", "active", "released"}
       /\ restriction[r].decision \in {"not_requested", "pending", "approved", "denied"}
       /\ restriction[r].status # "absent" => restriction[r].previous \in {"active", "restricted"}
  /\ Cardinality(handler) <= MaxHandlers

RestrictionInit ==
  /\ account = [status |-> "active", by |-> 0]
  /\ incident = [n \in Incidents |-> NoIncident]
  /\ restriction = [r \in Restrictions |-> NoRestriction]
  /\ reviewCase = [c \in Cases |-> NoIncident]
  /\ handler = {}

-----------------------------------------------------------------------------
(* ensureOperatorCanMutate...: an assigned row belongs to its operator. *)
MayMutate(row, p) ==
  row.status \in Actionable /\ (row.status = "in_progress" => row.operator \in {p, "none"})

(* What a row becomes: startX, handoffReviewCase, resolveX, dismissX. *)
Moved(row, to, p) ==
  [status |-> to, operator |-> IF to = "in_progress" \/ row.operator = "none" THEN p
                               ELSE row.operator]

Begin(h) ==
  /\ Cardinality(handler) < MaxHandlers
  /\ handler' = handler \cup {h}
  /\ UNCHANGED <<account, incident, restriction, reviewCase>>

(* openCustomerOversightIncident; two calls that arrive together may both   *)
(* find no open incident and open one each.                                 *)
OpenIncident(n) ==
  /\ IsNext(incident, n)
  /\ incident' = [incident EXCEPT ![n].status = "open"]
  /\ UNCHANGED <<account, restriction, reviewCase, handler>>

BeginMoveIncident(n, to, p) ==
  /\ MayMutate(incident[n], p)
  /\ Begin([what |-> "incident", id |-> n, to |-> Moved(incident[n], to, p)])

CommitMoveIncident(h) ==
  /\ h \in handler /\ h.what = "incident"
  /\ handler' = handler \ {h}
  /\ incident' = [incident EXCEPT ![h.id] = h.to]
  /\ UNCHANGED <<account, restriction, reviewCase>>

StartOversightIncident(n, p) == BeginMoveIncident(n, "in_progress", p)
ResolveOversightIncident(n, p) == BeginMoveIncident(n, "resolved", p)
DismissOversightIncident(n, p) == BeginMoveIncident(n, "dismissed", p)

BeginMoveCase(c, to, p) ==
  /\ MayMutate(reviewCase[c], p)
  /\ Begin([what |-> "case", id |-> c, to |-> Moved(reviewCase[c], to, p)])

(* startReviewCase, handoffReviewCase: the case is p's from now on. *)
StartReviewCase(c, p) == BeginMoveCase(c, "in_progress", p)
ResolveReviewCase(c, p) == BeginMoveCase(c, "resolved", p)
DismissReviewCase(c, p) == BeginMoveCase(c, "dismissed", p)

CommitMoveCase(h) ==
  /\ h \in handler /\ h.what = "case"
  /\ handler' = handler \ {h}
  /\ reviewCase' = [reviewCase EXCEPT ![h.id] = h.to]
  /\ UNCHANGED <<account, incident, restriction>>

-----------------------------------------------------------------------------
(* applyAccountRestriction                                                  *)

BeginApply(n, p) ==
  /\ MayMutate(incident[n], p)
  /\ account.status # "restricted"
  /\ Begin([what |-> "apply", id |-> n, row |-> incident[n], operator |-> p,
            previous |-> account.status])

(* Mutant: without the partial unique index of the migration. *)
NoIndex == TRUE

(* CustomerAccountRestriction_active_customerAccountId_key *)
NoneActive == \A r \in Restrictions : restriction[r].status # "active"

(* openOrReuseReviewCase, the restriction row, the account, the incident. *)
CommitApply(h, r, c) ==
  /\ h \in handler /\ h.what = "apply"
  /\ NoneActive
  /\ IsNext(restriction, r)
  /\ IF \E d \in Cases : reviewCase[d].status \in Actionable
       THEN reviewCase[c].status \in Actionable /\ UNCHANGED reviewCase
       ELSE /\ IsNext(reviewCase, c)
            /\ reviewCase' = [reviewCase EXCEPT ![c] = [status |-> "open", operator |-> "none"]]
  /\ handler' = handler \ {h}
  /\ restriction' = [restriction EXCEPT ![r] =
       [status |-> "active", decision |-> "not_requested", incident |-> h.id,
        case |-> c, previous |-> h.previous]]
  /\ account' = [status |-> "restricted", by |-> h.id]
  /\ incident' = [incident EXCEPT ![h.id] =
       [status |-> IF h.row.status = "open" THEN "in_progress" ELSE h.row.status,
        operator |-> IF h.row.operator = "none" THEN h.operator ELSE h.row.operator]]

(* placeAccountRestriction of a loan application: no restriction row. *)
PlaceAccountRestriction ==
  /\ account' = [account EXCEPT !.status = "restricted"]
  /\ UNCHANGED <<incident, restriction, reviewCase, handler>>

-----------------------------------------------------------------------------
(* requestAccountRelease and decideAccountRelease, on the newest restriction*)
(* of the review case.  Their transactions update the row only where it is  *)
(* still active (and pending).                                              *)

BeginRequestRelease(r) ==
  /\ restriction[r].status = "active" /\ restriction[r].decision \notin {"pending", "approved"}
  /\ reviewCase[restriction[r].case].status \in Actionable
  /\ Begin([what |-> "request", id |-> r])

CommitRequestRelease(h) ==
  /\ h \in handler /\ h.what = "request"
  /\ handler' = handler \ {h}
  /\ restriction' = IF restriction[h.id].status = "active"
                      THEN [restriction EXCEPT ![h.id].decision = "pending"] ELSE restriction
  /\ UNCHANGED <<account, incident, reviewCase>>

BeginDecideRelease(r, decision) ==
  /\ restriction[r].status = "active" /\ restriction[r].decision = "pending"
  /\ reviewCase[restriction[r].case].status \in Actionable
  /\ decision = "approved" => account = [status |-> "restricted", by |-> restriction[r].incident]
  /\ Begin([what |-> decision, id |-> r, case |-> reviewCase[restriction[r].case].status])

(* Mutant: the release is written by id, without the where clauses. *)
ReleaseById(r) == TRUE

StillReleasable(r) ==
  /\ restriction[r].status = "active" /\ restriction[r].decision = "pending"
  /\ account = [status |-> "restricted", by |-> restriction[r].incident]

CommitApproveRelease(h) ==
  /\ h \in handler /\ h.what = "approved"
  /\ handler' = handler \ {h}
  /\ IF StillReleasable(h.id)
       THEN /\ restriction' = [restriction EXCEPT ![h.id].status = "released",
                                                  ![h.id].decision = "approved"]
            /\ account' = [account EXCEPT !.status = restriction[h.id].previous]
            /\ reviewCase' = [reviewCase EXCEPT ![restriction[h.id].case].status = "resolved"]
       ELSE UNCHANGED <<restriction, account, reviewCase>>
  /\ UNCHANGED incident

CommitDenyRelease(h) ==
  /\ h \in handler /\ h.what = "denied"
  /\ handler' = handler \ {h}
  /\ IF restriction[h.id].status = "active" /\ restriction[h.id].decision = "pending"
       THEN /\ restriction' = [restriction EXCEPT ![h.id].decision = "denied"]
            /\ reviewCase' = IF h.case = "open"
                 THEN [reviewCase EXCEPT ![restriction[h.id].case].status = "in_progress"]
                 ELSE reviewCase
       ELSE UNCHANGED <<restriction, reviewCase>>
  /\ UNCHANGED <<account, incident>>

-----------------------------------------------------------------------------
RestrictionNext ==
  \/ \E n \in Incidents :
       \/ OpenIncident(n)
       \/ \E p \in CaseOperators :
            \/ BeginApply(n, p)
            \/ StartOversightIncident(n, p)
            \/ ResolveOversightIncident(n, p) \/ DismissOversightIncident(n, p)
  \/ \E c \in Cases, p \in CaseOperators :
       StartReviewCase(c, p) \/ ResolveReviewCase(c, p) \/ DismissReviewCase(c, p)
  \/ \E r \in Restrictions :
       \/ BeginRequestRelease(r)
       \/ \E d \in {"approved", "denied"} : BeginDecideRelease(r, d)
  \/ \E h \in handler :
       \/ CommitMoveIncident(h) \/ CommitMoveCase(h) \/ CommitRequestRelease(h)
       \/ CommitApproveRelease(h) \/ CommitDenyRelease(h)
       \/ \E r \in Restrictions, c \in Cases : CommitApply(h, r, c)
  \/ PlaceAccountRestriction

RestrictionSpec == RestrictionInit /\ [][RestrictionNext]_restrictionVars

-----------------------------------------------------------------------------
(* An account with a restriction in force is restricted, on behalf of the   *)
(* incident of that restriction, and there is one such restriction: the     *)
(* checks outside the transactions are stale, the partial unique index and  *)
(* the where clauses are what keeps this.                                   *)
ActiveRestrictionHolds ==
  /\ \A r \in Restrictions : restriction[r].status = "active" =>
       account = [status |-> "restricted", by |-> restriction[r].incident]
  /\ \A r, q \in Restrictions :
       restriction[r].status = "active" /\ restriction[q].status = "active" => r = q
=============================================================================
