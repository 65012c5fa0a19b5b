--------------------------- MODULE ReleaseApprovals ---------------------------
(***************************************************************************)
(* ReleaseReadinessService: evidence, launch-closure packs and approvals   *)
(* of one release in one environment.  An approval that is rebound to a    *)
(* newer pack is replaced by a new one, so that approvals form lineages.   *)
(* A handler reads before its transaction, checks the approval again in it *)
(* and writes by id; the transactions run at Postgres' read committed, so  *)
(* that another one may commit between the check and the write.            *)
(***************************************************************************)
EXTENDS Staff

CONSTANTS Checks,         \* required kinds of evidence
          MaxPacks,       \* bound: ReleaseLaunchClosurePack versions
          MaxApprovals,   \* bound: ReleaseReadinessApproval rows
          MaxReviews      \* bound: handlers in flight

ASSUME ReleaseAssumption ==
  MaxPacks \in Nat /\ MaxApprovals \in Nat /\ MaxReviews \in Nat

Approvals == 1..MaxApprovals

VARIABLES evidence,   \* what the latest evidence of each kind says
          latestPack, \* version of the newest pack, 0 when there is none
          approval,   \* the approvals, numbered in the order of their creation
          review      \* handlers between their reads and their write

releaseVars == <<evidence, latestPack, approval, review>>

NoApproval == [status |-> "absent", by |-> "none", approver |-> "none", pack |-> 0,
               supersedes |-> 0, supersededBy |-> 0]

ReleaseTypeOK ==
  /\ evidence \in [Checks -> {"passed", "lacking"}]
  /\ latestPack \in 0..MaxPacks
  /\ approval \in [Approvals ->
       [status : {"absent", "pending_approval", "approved", "rejected", "superseded"},
        by : Operators \cup {"none"}, approver : Operators \cup {"none"},
        pack : 0..MaxPacks, supersedes : Approvals \cup {0}, supersededBy : Approvals \cup {0}]]
  /\ Cardinality(review) <= MaxReviews

ReleaseInit ==
  /\ evidence = [c \in Checks |-> "lacking"]
  /\ latestPack = 0
  /\ approval = [a \in Approvals |-> NoApproval]
  /\ review = {}

-----------------------------------------------------------------------------
(* recordEvidence.  Failed evidence and evidence that has grown too old are *)
(* lacking, as evidence that was never recorded.                            *)
RecordEvidence(c, status) ==
  /\ evidence[c] # status
  /\ evidence' = [evidence EXCEPT ![c] = status]
  /\ UNCHANGED <<latestPack, approval, review>>

StoreLaunchClosurePack ==
  /\ latestPack < MaxPacks
  /\ latestPack' = latestPack + 1
  /\ UNCHANGED <<evidence, approval, review>>

(* evaluateApprovalGate, and the drift that blocks an eligible approval: a  *)
(* pack newer than the one it is bound to.  A request whose checklist has   *)
(* gaps is never eligible: it behaves as one that nobody approves.          *)
ApprovalEligible == \A c \in Checks : evidence[c] = "passed"

NewerPackAvailable(a) == latestPack # approval[a].pack

-----------------------------------------------------------------------------
(* The reads before the transactions.                                       *)

BeginReview(h) ==
  /\ Cardinality(review) < MaxReviews
  /\ review' = review \cup {h}
  /\ UNCHANGED <<evidence, latestPack, approval>>

(* requestApproval *)
BeginRequestApproval(p, pack) ==
  /\ \A a \in Approvals : approval[a].status # "pending_approval"
  /\ BeginReview([what |-> "request", operator |-> p, pack |-> pack])

BeginApprove(a, p) ==
  /\ approval[a].status = "pending_approval" /\ approval[a].by # p
  /\ ApprovalEligible /\ ~NewerPackAvailable(a)
  /\ BeginReview([what |-> "approved", at |-> "read", id |-> a, operator |-> p])

BeginReject(a, p) ==
  /\ approval[a].status = "pending_approval" /\ approval[a].by # p
  /\ BeginReview([what |-> "rejected", at |-> "read", id |-> a, operator |-> p])

BeginRebind(a, p, pack) ==
  /\ approval[a].status = "pending_approval" /\ approval[a].pack # pack
  /\ BeginReview([what |-> "rebind", at |-> "read", id |-> a, operator |-> p, pack |-> pack])

-----------------------------------------------------------------------------
(* assertApprovalActionableInLineage.  Rows point to older and newer ones;  *)
(* the lineage of a row is what it reaches.                                 *)

Linked(a, b) == approval[a].supersedes = b \/ approval[a].supersededBy = b
                \/ approval[b].supersedes = a \/ approval[b].supersededBy = a

Exists(a) == a # 0 /\ approval[a].status # "absent"

LineageIssue(a) ==
  \/ approval[a].supersedes # 0 /\ ~Exists(approval[a].supersedes)
  \/ approval[a].supersededBy # 0 /\ ~Exists(approval[a].supersededBy)
  \/ Exists(approval[a].supersedes) /\ approval[approval[a].supersedes].supersededBy # a
  \/ Exists(approval[a].supersededBy) /\ approval[approval[a].supersededBy].supersedes # a
  \/ approval[a].status = "superseded" /\ approval[a].supersededBy = 0

(* The check in the transaction of an approval, rejection or rebind: still  *)
(* pending, unchanged, without a replacement, in a lineage without issues.  *)
CheckReview(h) ==
  /\ h \in review /\ h.what # "request" /\ h.at = "read"
  /\ review' = (review \ {h}) \cup
       IF /\ approval[h.id].status = "pending_approval"
          /\ h.what = "rebind" => /\ approval[h.id].supersededBy = 0
                                  /\ \A b \in Approvals : approval[b].supersedes # h.id
          /\ \A b \in Approvals : b = h.id \/ Linked(h.id, b) => ~LineageIssue(b)
         THEN {[h EXCEPT !.at = "checked"]} ELSE {}
  /\ UNCHANGED <<evidence, latestPack, approval>>

NextApproval(b) ==
  approval[b].status = "absent" /\ \A a \in Approvals : a < b => approval[a].status # "absent"

CommitRequestApproval(h, b) ==
  /\ h \in review /\ h.what = "request"
  /\ NextApproval(b)
  /\ review' = review \ {h}
  /\ approval' = [approval EXCEPT ![b] =
       [NoApproval EXCEPT !.status = "pending_approval", !.by = h.operator, !.pack = h.pack]]
  /\ UNCHANGED <<evidence, latestPack>>

Decide(h, approver) ==
  /\ h \in review /\ h.at = "checked"
  /\ review' = review \ {h}
  /\ approval' = [approval EXCEPT ![h.id].status = h.what, ![h.id].approver = approver]
  /\ UNCHANGED <<evidence, latestPack>>

CommitApprove(h) == h.what = "approved" /\ Decide(h, h.operator)
CommitReject(h) == h.what = "rejected" /\ Decide(h, approval[h.id].approver)

(* Mutant: without the unique index. *)
NoUniqueIndex(a) == TRUE

(* supersedesApprovalId is unique: the second of two rebinds is rolled back.*)
UniqueSupersedes(a) == \A b \in Approvals : approval[b].supersedes # a

(* Mutant: the replacement counts as requested by whoever rebinds. *)
RequesterIsRebinder(h) == h.operator

RequesterIsKept(h) == approval[h.id].by

CommitRebind(h, b) ==
  /\ h \in review /\ h.what = "rebind" /\ h.at = "checked"
  /\ NextApproval(b)
  /\ review' = review \ {h}
  /\ approval' = IF UniqueSupersedes(h.id)
       THEN [approval EXCEPT
              ![b] = [NoApproval EXCEPT !.status = "pending_approval",
                        !.by = RequesterIsKept(h), !.pack = h.pack, !.supersedes = h.id],
              ![h.id].status = "superseded", ![h.id].supersededBy = b]
       ELSE approval
  /\ UNCHANGED <<evidence, latestPack>>

-----------------------------------------------------------------------------
ReleaseNext ==
  \/ StoreLaunchClosurePack
  \/ \E c \in Checks, status \in {"passed", "lacking"} : RecordEvidence(c, status)
  \/ \E p \in Operators, pack \in 1..latestPack :
       \/ BeginRequestApproval(p, pack)
       \/ \E a \in Approvals : BeginRebind(a, p, pack)
  \/ \E a \in Approvals, p \in Operators : BeginApprove(a, p) \/ BeginReject(a, p)
  \/ \E h \in review :
       \/ CheckReview(h) \/ CommitApprove(h) \/ CommitReject(h)
       \/ \E b \in Approvals : CommitRequestApproval(h, b) \/ CommitRebind(h, b)

ReleaseSpec == ReleaseInit /\ [][ReleaseNext]_releaseVars

-----------------------------------------------------------------------------
(* The integrity check of a lineage never finds an issue, and a lineage has *)
(* one pending approval at most: rebinds, approvals and rejections that     *)
(* pass their checks together leave no fork and no dangling link.           *)
LineageIsHealthy ==
  /\ \A a \in Approvals : ~LineageIssue(a)
  /\ \A a \in Approvals : approval[a].supersededBy # 0 =>
       a < approval[a].supersededBy /\ approval[a].status # "pending_approval"

(* Whoever asked for a release does not approve it, however often the       *)
(* request was rebound, and by whom.                                        *)
ApprovedByAnother ==
  \A a \in Approvals : approval[a].status # "absent" =>
    /\ approval[a].approver # approval[a].by
    /\ approval[a].supersedes # 0 => approval[a].by = approval[approval[a].supersedes].by
=============================================================================
