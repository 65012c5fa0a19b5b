-------------------------- MODULE ExecutionOverrides --------------------------
(***************************************************************************)
(* Overrides of GovernedExecutionService: in production, loan funding,     *)
(* staking writes and withdrawals from unsafe reserve wallets go past      *)
(* governed execution only under an override that one operator requests    *)
(* and another one approves, until it expires.  A decision reads the row   *)
(* and then writes it by id.                                               *)
(***************************************************************************)
EXTENDS Staff

CONSTANT Overrides     \* GovernedExecutionOverrideRequest rows

VARIABLES override,   \* the override rows
          deciding,   \* decisions whose handler has read the row
          directUses  \* overrides under which something was executed directly

overrideVars == <<override, deciding, directUses>>

NoOverride == [status |-> "absent", by |-> "none", approver |-> "none", expired |-> FALSE]

OverrideTypeOK ==
  /\ override \in [Overrides ->
       [status : {"absent", "pending_approval", "approved", "rejected", "expired"},
        by : Operators \cup {"none"}, approver : Operators \cup {"none"},
        expired : BOOLEAN]]
  /\ deciding \subseteq Overrides \X Operators \X {"approved", "rejected"}
  /\ directUses \subseteq Overrides

OverrideInit ==
  /\ override = [o \in Overrides |-> NoOverride]
  /\ deciding = {}
  /\ directUses = {}

-----------------------------------------------------------------------------
(* Two requests that arrive together may both find none pending in the      *)
(* code; nothing below depends on there being one.                          *)

RequestOverride(o, p) ==
  /\ override[o].status = "absent"
  /\ \A q \in Overrides : override[q].status = "pending_approval" => override[q].expired
  /\ override' = [override EXCEPT ![o] =
                    [NoOverride EXCEPT !.status = "pending_approval", !.by = p]]
  /\ UNCHANGED <<deciding, directUses>>

(* expireStaleOverrides, which every approval, rejection and check calls.   *)
ExpireStaleOverrides ==
  override' = [o \in Overrides |->
    IF override[o].status \in {"pending_approval", "approved"} /\ override[o].expired
      THEN [override[o] EXCEPT !.status = "expired"] ELSE override[o]]

(* Mutant: operators approve what they asked for themselves. *)
MayDecideAny(o, p, decision) == TRUE

MayDecideOverride(o, p, decision) == decision = "approved" => override[o].by # p

BeginDecideOverride(o, p, decision) ==
  /\ override[o].status = "pending_approval" /\ ~override[o].expired
  /\ MayDecideOverride(o, p, decision)
  /\ ExpireStaleOverrides
  /\ deciding' = deciding \cup {<<o, p, decision>>}
  /\ UNCHANGED directUses

DecideOverride(d) ==
  /\ d \in deciding
  /\ deciding' = deciding \ {d}
  /\ override' = [override EXCEPT ![d[1]].status = d[3],
                     ![d[1]].approver = IF d[3] = "approved" THEN d[2] ELSE @]
  /\ UNCHANGED directUses

CommitApproveOverride(d) == d[3] = "approved" /\ DecideOverride(d)
CommitRejectOverride(d) == d[3] = "rejected" /\ DecideOverride(d)

(* Loan funding, a staking write or a withdrawal from reserve goes past     *)
(* governed execution in production: the check that lets it.                *)
AssertDirectExecutionAllowed(o) ==
  /\ override[o].status = "approved" /\ ~override[o].expired
  /\ ExpireStaleOverrides
  /\ directUses' = directUses \cup {o}
  /\ UNCHANGED deciding

OverrideRunsOut(o) ==
  /\ override[o].status # "absent" /\ ~override[o].expired
  /\ override' = [override EXCEPT ![o].expired = TRUE]
  /\ UNCHANGED <<deciding, directUses>>

-----------------------------------------------------------------------------
OverrideNext ==
  \/ \E o \in Overrides :
       \/ \E p \in Operators :
            \/ RequestOverride(o, p)
            \/ \E decision \in {"approved", "rejected"} :
                 BeginDecideOverride(o, p, decision)
       \/ AssertDirectExecutionAllowed(o) \/ OverrideRunsOut(o)
  \/ \E d \in deciding : CommitApproveOverride(d) \/ CommitRejectOverride(d)

OverrideSpec == OverrideInit /\ [][OverrideNext]_overrideVars

(* Whatever went past governed execution did so with the consent of two     *)
(* operators.                                                               *)
DirectUseHadTwoOperators ==
  \A o \in directUses :
    override[o].approver # "none" /\ override[o].approver # override[o].by
=============================================================================
