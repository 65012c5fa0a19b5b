------------------------------- MODULE Solvency -------------------------------
(***************************************************************************)
(* SolvencyService: snapshots that compare what customers are owed with    *)
(* the reserve wallets, the policy row they drive, and the governed resume *)
(* of a paused policy.  A snapshot reads liabilities and reserves in two   *)
(* independent reads outside its transaction, and several snapshots may be *)
(* in the making at once (a worker's schedule and operators).  Every       *)
(* update of the policy row gives it a new updatedAt (Prisma's @updatedAt):*)
(* the version below.  Its latest is the snapshot it was last computed from.*)
(***************************************************************************)
EXTENDS Staff

CONSTANTS Snapshots,        \* SolvencySnapshot rows
          Resumes,          \* SolvencyPolicyResumeRequest rows
          Worlds,           \* what the reads may find, see WorldType
          WarningRatioBps   \* warningReserveRatioBps

WorldType ==
  [owed : Nat, pendingMatches : BOOLEAN,            \* ledger and projections
   observed : Nat, encumbered : Nat, readable : BOOLEAN,  \* reserve wallet
   mismatches : {"none", "open", "critical"}]       \* open reconciliation

ASSUME SolvencyAssumption ==
  /\ Worlds \subseteq WorldType
  /\ WarningRatioBps \in Nat

VARIABLES world,      \* ledger, reserve wallet and reconciliation as they are
          policy,     \* the SolvencyPolicyState row
          snapshot,   \* the snapshot rows and what their handlers have read
          resume,     \* the resume requests
          answering   \* decisions whose handler has read its request

solvencyVars == <<world, policy, snapshot, resume, answering>>

NoRead == [done |-> FALSE]
NoSnapshot == [status |-> "absent", made |-> FALSE,
               liabilities |-> NoRead, reserves |-> NoRead]
NoResume == [status |-> "absent", by |-> "none", approver |-> "none",
             snapshot |-> "none", version |-> 0, latest |-> "none", eligible |-> FALSE]

Reasons == {"none", "manual_resume_required", "manual_resume_approved",
            "customer_balance_projection_mismatch",
            "open_reconciliation_mismatch_present", "reserve_evidence_missing",
            "reserve_evidence_stale", "usable_reserve_shortfall",
            "low_reserve_buffer"}

SolvencyTypeOK ==
  /\ world \in Worlds
  /\ policy.status \in {"normal", "guarded", "paused"}
  /\ policy.reason \in Reasons /\ policy.latest \in Snapshots \cup {"none"}
  /\ policy.version \in 0..(Cardinality(Snapshots) + 2 * Cardinality(Resumes))
  /\ \A s \in Snapshots : snapshot[s].status \in
       {"absent", "failed", "healthy", "warning", "critical"}
  /\ \A r \in Resumes :
       /\ resume[r].status \in {"absent", "pending_approval", "approved", "rejected"}
       /\ resume[r].status # "absent" => resume[r].by \in Operators
       /\ resume[r].status = "approved" => resume[r].approver \in Operators
  /\ answering \subseteq Resumes \X Operators \X {"approved", "rejected"}

(* Any world: WorldChanges leads to all the others. *)
SolvencyInit ==
  /\ world = CHOOSE w \in Worlds : TRUE
  /\ policy = [status |-> "normal", reason |-> "none", latest |-> "none",
               manualResumeRequired |-> FALSE, version |-> 0]
  /\ snapshot = [s \in Snapshots |-> NoSnapshot]
  /\ resume = [r \in Resumes |-> NoResume]
  /\ answering = {}

-----------------------------------------------------------------------------
(* buildAssetSnapshotComputation and what it calls.                         *)

Usable(reserves) ==
  IF reserves.fresh /\ reserves.observed > reserves.encumbered
    THEN reserves.observed - reserves.encumbered ELSE 0

(* ROUND_HALF_UP of usable * 10000 / owed. *)
ReserveRatioBps(usable, owed) == (2 * usable * 10000 + owed) \div (2 * owed)

Issue(reason, severity) == [reason |-> reason, severity |-> severity]

(* The issues in the order in which the code lists them. *)
AssetIssues(liabilities, reserves) ==
  LET owed == liabilities.owed
      usable == Usable(reserves)
      recon == IF liabilities.mismatches = "critical" THEN "critical" ELSE "warning"
      If(found, reason, severity) ==
        IF found THEN <<Issue(reason, severity)>> ELSE <<>>
  IN <<If(~liabilities.pendingMatches, "customer_balance_projection_mismatch", recon),
       If(liabilities.mismatches # "none", "open_reconciliation_mismatch_present", recon),
       If(~reserves.fresh /\ ~reserves.previous, "reserve_evidence_missing",
          IF owed > 0 THEN "critical" ELSE "warning"),
       If(~reserves.fresh /\ reserves.previous, "reserve_evidence_stale",
          IF owed > 0 THEN "warning" ELSE "info"),
       If(usable < owed, "usable_reserve_shortfall", "critical"),
       If(usable >= owed /\ owed > 0 /\ ReserveRatioBps(usable, owed) < WarningRatioBps,
          "low_reserve_buffer", "warning")>>

(* resolveStatusFromIssues and derivePolicyState: the worst severity, and   *)
(* the first issue of that severity as the reason.                          *)
Worst(issues) ==
  LET has(severity) == {i \in DOMAIN issues :
                          issues[i] # <<>> /\ issues[i][1].severity = severity}
      first(S) == issues[CHOOSE i \in S : \A j \in S : i <= j][1]
  IN IF has("critical") # {} THEN first(has("critical"))
     ELSE IF has("warning") # {} THEN first(has("warning"))
     ELSE Issue("none", "healthy")

PolicyOf(severity) ==
  CASE severity = "critical" -> "paused"
    [] severity = "warning" -> "guarded"
    [] severity = "healthy" -> "normal"

-----------------------------------------------------------------------------
(* persistPolicyState, inside the snapshot's transaction.  A pause that     *)
(* waits for a manual resume is held whatever the new evidence says; a      *)
(* fresh pause rejects the pending requests, unless nothing but updatedAt   *)
(* changes, when the code returns early.                                    *)

(* Mutant: the pause is lifted by the first snapshot that is not critical. *)
HoldNever(derived) == FALSE

HoldPaused(derived) ==
  policy.status = "paused" /\ policy.manualResumeRequired /\ PolicyOf(derived) # "paused"

PersistPolicyState(s, worst) ==
  LET hold == HoldPaused(worst.severity)
      status == IF hold THEN "paused" ELSE PolicyOf(worst.severity)
      reason == IF hold THEN "manual_resume_required" ELSE worst.reason
      changed == policy.status # status \/ policy.reason # reason
  IN /\ policy' = [status |-> status, reason |-> reason, latest |-> s,
                   manualResumeRequired |-> status = "paused",
                   version |-> policy.version + 1]
     /\ resume' = [r \in Resumes |->
          IF changed /\ status = "paused" /\ ~hold /\ resume[r].status = "pending_approval"
            THEN [resume[r] EXCEPT !.status = "rejected"] ELSE resume[r]]

-----------------------------------------------------------------------------
(* generateSnapshot                                                         *)

BeginSnapshot(s) ==
  /\ snapshot[s].status = "absent"
  /\ snapshot' = [snapshot EXCEPT ![s].status = "failed"]
  /\ UNCHANGED <<world, policy, resume, answering>>

ReadLiabilities(s) ==
  /\ snapshot[s].status = "failed" /\ ~snapshot[s].made /\ ~snapshot[s].liabilities.done
  /\ snapshot' = [snapshot EXCEPT ![s].liabilities =
       [done |-> TRUE, owed |-> world.owed, pendingMatches |-> world.pendingMatches,
        mismatches |-> world.mismatches]]
  /\ UNCHANGED <<world, policy, resume, answering>>

(* A wallet that cannot be read leaves stale evidence when an earlier       *)
(* snapshot holds fresh evidence of it, else none.                          *)
ReadReserves(s) ==
  /\ snapshot[s].status = "failed" /\ ~snapshot[s].made /\ ~snapshot[s].reserves.done
  /\ snapshot' = [snapshot EXCEPT ![s].reserves =
       [done |-> TRUE, fresh |-> world.readable, observed |-> world.observed,
        encumbered |-> world.encumbered,
        previous |-> \E t \in Snapshots : /\ snapshot[t].status \notin {"absent", "failed"}
                                          /\ snapshot[t].reserves.fresh]]
  /\ UNCHANGED <<world, policy, resume, answering>>

CommitSnapshot(s) ==
  /\ snapshot[s].status = "failed" /\ ~snapshot[s].made
  /\ snapshot[s].liabilities.done /\ snapshot[s].reserves.done
  /\ LET worst == Worst(AssetIssues(snapshot[s].liabilities, snapshot[s].reserves))
     IN /\ snapshot' = [snapshot EXCEPT ![s] =
                [status |-> worst.severity, made |-> TRUE, liabilities |-> NoRead,
                 reserves |-> [done |-> TRUE, fresh |-> @.reserves.fresh]]]
        /\ PersistPolicyState(s, worst)
  /\ UNCHANGED <<world, answering>>

SnapshotFails(s) ==
  /\ snapshot[s].status = "failed" /\ ~snapshot[s].made
  /\ snapshot' = [snapshot EXCEPT ![s] = [NoSnapshot EXCEPT !.status = "failed", !.made = TRUE]]
  /\ UNCHANGED <<world, policy, resume, answering>>

-----------------------------------------------------------------------------
(* The governed resume.  The reads before the transaction of                *)
(* requestPolicyResume are repeated in it or cannot become false.           *)

RequestPolicyResume(r, p, s) ==
  /\ resume[r].status = "absent"
  /\ \A q \in Resumes : resume[q].status # "pending_approval"
  /\ policy.status = "paused" /\ policy.manualResumeRequired
  /\ snapshot[s].status = "healthy"
  /\ resume' = [resume EXCEPT ![r] =
       [NoResume EXCEPT !.status = "pending_approval", !.by = p, !.snapshot = s,
                        !.version = policy.version, !.latest = policy.latest]]
  /\ policy' = [policy EXCEPT !.version = @ + 1]    \* manualResumeRequestedAt
  /\ UNCHANGED <<world, snapshot, answering>>

TimelockEnds(r) ==
  /\ resume[r].status = "pending_approval" /\ ~resume[r].eligible
  /\ resume' = [resume EXCEPT ![r].eligible = TRUE]
  /\ UNCHANGED <<world, policy, snapshot, answering>>

BeginAnswer(r, p, decision) ==
  /\ resume[r].status = "pending_approval"
  /\ decision = "approved" => resume[r].by # p
  /\ answering' = answering \cup {<<r, p, decision>>}
  /\ UNCHANGED <<world, policy, snapshot, resume>>

(* Mutant: the approval does not look at the policy's updatedAt. *)
ApprovableAtAnyVersion(r) ==
  /\ resume[r].status = "pending_approval" /\ resume[r].eligible
  /\ policy.status = "paused" /\ snapshot[resume[r].snapshot].status = "healthy"

Approvable(r) ==
  /\ resume[r].status = "pending_approval" /\ resume[r].eligible
  /\ policy.status = "paused" /\ snapshot[resume[r].snapshot].status = "healthy"
  /\ policy.version = resume[r].version

(* approvePolicyResume checks everything again in its transaction. *)
CommitApprovePolicyResume(a) ==
  /\ a \in answering /\ a[3] = "approved"
  /\ answering' = answering \ {a}
  /\ IF Approvable(a[1])
       THEN /\ resume' = [resume EXCEPT ![a[1]].status = "approved", ![a[1]].approver = a[2]]
            /\ policy' = [policy EXCEPT !.status = "normal",
                            !.reason = "manual_resume_approved",
                            !.manualResumeRequired = FALSE, !.version = @ + 1]
       ELSE UNCHANGED <<resume, policy>>
  /\ UNCHANGED <<world, snapshot>>

(* rejectPolicyResume writes by id. *)
CommitRejectPolicyResume(a) ==
  /\ a \in answering /\ a[3] = "rejected"
  /\ answering' = answering \ {a}
  /\ resume' = [resume EXCEPT ![a[1]].status = "rejected"]
  /\ UNCHANGED <<world, snapshot, policy>>

(* Deposits, payouts, transfers, RPC failures, reconciliation findings. *)
WorldChanges ==
  /\ world' \in Worlds \ {world}
  /\ UNCHANGED <<policy, snapshot, resume, answering>>

-----------------------------------------------------------------------------
SolvencyNext ==
  \/ WorldChanges
  \/ \E s \in Snapshots :
       \/ BeginSnapshot(s) \/ ReadLiabilities(s) \/ ReadReserves(s)
       \/ CommitSnapshot(s) \/ SnapshotFails(s)
       \/ \E r \in Resumes, p \in Operators : RequestPolicyResume(r, p, s)
  \/ \E r \in Resumes :
       \/ TimelockEnds(r)
       \/ \E p \in Operators, d \in {"approved", "rejected"} : BeginAnswer(r, p, d)
  \/ \E a \in answering : CommitApprovePolicyResume(a) \/ CommitRejectPolicyResume(a)

SolvencySpec == SolvencyInit /\ [][SolvencyNext]_solvencyVars

-----------------------------------------------------------------------------
(* assertWithdrawalApprovalAllowed, assertManagedWithdrawalExecutionAllowed,*)
(* assertLoanFundingAllowed, assertStakingWritesAllowed: the four pause     *)
(* flags are only ever written together.                                    *)
GatesOpen == policy.status # "paused"

(* While the snapshot the policy was last computed from shows a critical    *)
(* issue, none of the gated flows is open: not after an older snapshot that *)
(* finishes late, and not after an approval that raced with a new pause.    *)
GatesFollowEvidence ==
  policy.latest # "none" /\ snapshot[policy.latest].status = "critical" => ~GatesOpen

(* A pause is never lifted.  It is meant to end when a second operator      *)
(* approves a request bound to a healthy snapshot, but the request, which   *)
(* remembers the policy's updatedAt, then writes to the policy itself: the  *)
(* approval finds another updatedAt and is refused, whatever the snapshots  *)
(* show, and whoever asks again.                                            *)
PauseIsNeverLifted ==
  [][policy.status = "paused" => policy'.status = "paused"]_solvencyVars
=============================================================================
