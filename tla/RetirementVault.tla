--------------------------- MODULE RetirementVault ---------------------------
(***************************************************************************)
(* RetirementVaultService (apps/api/src/retirement-vault/                  *)
(* retirement-vault.service.ts): a customer locks money until a date.      *)
(* Taking it out, and weakening the lock, are requests that wait for a     *)
(* cooldown, for an operator when they are early, and for the sweep that   *)
(* the worker triggers.                                                    *)
(*                                                                         *)
(* The handlers of customers and operators read before their transaction   *)
(* and write by id: BeginVaultRequest reads and checks, Commit... writes.  *)
(* The sweep lists, claims with a conditional update, and executes in a    *)
(* transaction of its own; between any two of these steps other handlers   *)
(* run, and the API may die.  Days are counted from the start.             *)
(***************************************************************************)
EXTENDS Ledger, FiniteSetsExt

CONSTANTS Fundings,      \* the intents of type vault_subscription
          Releases,      \* release requests, each with its vault_redemption intent
          RuleChanges,   \* rule change requests
          RuleOwner,     \* the account of a rule change request
          Days,          \* the instants at which something happens (a bound)
          VaultHandlers, \* requests the API serves at a time (a bound)
          Sweepers,      \* sweeps running at a time
          Racing,        \* accounts whose handlers may overlap in time
          MaxCrashes     \* crashes of the API during a sweep (a bound)

ASSUME VaultAssumption ==
  /\ Fundings \subseteq Intents /\ Releases \subseteq Intents
  /\ Fundings \cap Releases = {} /\ Releases \cap RuleChanges = {}
  /\ RuleOwner \in [RuleChanges -> Accounts]
  /\ Days \subseteq Nat /\ 0 \in Days
  /\ Racing \subseteq Accounts
  /\ MaxCrashes \in Nat

VARIABLES day,           \* the time of day of every process
          vault,         \* status, unlockAt and strictMode of a vault
          lockedBalance, \* RetirementVault.lockedBalance
          release,       \* RetirementVaultReleaseRequest rows
          rule,          \* RetirementVaultRuleChangeRequest rows
          heldAccounts,  \* accounts that are not active (risk hold, frozen)
          handling,      \* what the handler running in a slot remembers
          sweep,         \* where each sweep is
          crashes

vaultRows == <<vault, lockedBalance, release, rule>>
vaultVars == <<day, vaultRows, heldAccounts, handling, sweep, crashes>>

Blocked == {"restricted", "incident_locked"}
(* One set of names for both kinds of request: ready stands for             *)
(* ready_for_release and ready_to_apply, executing for executing and        *)
(* applying, done for released and applied.                                 *)
ActiveRequest == {"review_required", "cooldown_active", "ready", "executing"}
RequestStatuses ==
  ActiveRequest \cup {"absent", "rejected", "cancelled", "done", "failed"}
VaultOps == {"fund", "request_release", "cancel_release", "approve_release",
             "reject_release", "request_rule", "cancel_rule", "approve_rule",
             "reject_rule", "restrict", "unrestrict"}
NoVaultRequest == [op |-> "idle"]
NoSweep == [phase |-> "idle"]
NoRow == [status |-> "absent", kind |-> "none", cooldownEndsAt |-> 0,
          approved |-> FALSE]
NoRule == [status |-> "absent", unlockAt |-> 0, strict |-> FALSE,
           cooldownEndsAt |-> 0, approved |-> FALSE, currentStrict |-> FALSE]

Subject(x) == IF x \in RuleChanges THEN RuleOwner[x] ELSE Owner[x]

VaultTypeOK ==
  /\ LedgerTypeOK
  /\ day \in Days
  /\ vault \in [Accounts -> [status : {"absent", "active", "released"} \cup Blocked,
                             unlockAt : Days, strict : BOOLEAN]]
  /\ lockedBalance \in [Accounts -> Nat]
  /\ release \in [Releases -> [status : RequestStatuses,
                               kind : {"none", "scheduled_unlock", "early_unlock"},
                               cooldownEndsAt : Nat, approved : BOOLEAN]]
  /\ rule \in [RuleChanges -> [status : RequestStatuses, unlockAt : Days,
                               strict : BOOLEAN, cooldownEndsAt : Nat,
                               approved : BOOLEAN, currentStrict : BOOLEAN]]
  /\ heldAccounts \subseteq Accounts
  /\ \A h \in VaultHandlers : handling[h].op \in VaultOps \cup {"idle"}
  /\ \A s \in Sweepers : sweep[s].phase \in {"idle", "listed", "claimed"}
  /\ crashes \in 0 .. MaxCrashes

VaultInit ==
  /\ LedgerInit
  /\ day = 0
  /\ vault = [a \in Accounts |-> [status |-> "absent", unlockAt |-> 0, strict |-> FALSE]]
  /\ lockedBalance = [a \in Accounts |-> 0]
  /\ release = [r \in Releases |-> NoRow]
  /\ rule = [c \in RuleChanges |-> NoRule]
  /\ heldAccounts = {}
  /\ handling = [h \in VaultHandlers |-> NoVaultRequest]
  /\ sweep = [s \in Sweepers |-> NoSweep]
  /\ crashes = 0

-----------------------------------------------------------------------------
(* Lock rules *)

ReleaseCooldown(strict, kind) ==
  IF kind = "scheduled_unlock" THEN (IF strict THEN 3 ELSE 1)
                               ELSE (IF strict THEN 14 ELSE 7)
RuleChangeCooldown(currentStrict) == IF currentStrict THEN 14 ELSE 7

ReleaseKind(v, at) ==
  IF v.unlockAt <= at THEN "scheduled_unlock" ELSE "early_unlock"

(* Mutant: only an earlier date weakens a lock, not leaving strict mode. *)
WeakensDateOnly(v, unlockAt, strict) == unlockAt < v.unlockAt

Weakens(v, unlockAt, strict) == unlockAt < v.unlockAt \/ (v.strict /\ ~strict)

-----------------------------------------------------------------------------
(* Handlers of customers and operators *)

NoActiveRequest(a) ==
  /\ \A r \in Releases : Owner[r] = a => release[r].status \notin ActiveRequest
  /\ \A c \in RuleChanges : RuleOwner[c] = a => rule[c].status \notin ActiveRequest

(* Customers on hold create nothing; cancelling stays open to them.         *)
CustomerMay(a) == a \notin heldAccounts /\ vault[a].status = "active"

MayRequestRelease(r) ==
  /\ CustomerMay(Owner[r])
  /\ release[r].status = "absent"
  /\ lockedBalance[Owner[r]] >= Amount[r]
  /\ NoActiveRequest(Owner[r])

(* unlockAt, when it is given, lies in the future.                          *)
MayRequestRule(c, unlockAt, strict) ==
  LET v == vault[RuleOwner[c]] IN
  /\ CustomerMay(RuleOwner[c])
  /\ rule[c].status = "absent"
  /\ NoActiveRequest(RuleOwner[c])
  /\ unlockAt > day \/ unlockAt = v.unlockAt
  /\ <<unlockAt, strict>> # <<v.unlockAt, v.strict>>

Cancellable(status) == status \in {"review_required", "cooldown_active"}

MayHandle(op, x, unlockAt, strict, target) ==
  CASE op = "fund" -> /\ CustomerMay(Owner[x])
                      /\ <<x, "retirement_vault_funding">> \notin journals
    [] op = "request_release" -> MayRequestRelease(x)
    [] op = "cancel_release" -> Cancellable(release[x].status)
    [] op \in {"approve_release", "reject_release"} ->
         release[x].status = "review_required"
    [] op = "request_rule" -> MayRequestRule(x, unlockAt, strict)
    [] op = "cancel_rule" -> Cancellable(rule[x].status)
    [] op \in {"approve_rule", "reject_rule"} -> rule[x].status = "review_required"
    [] op = "restrict" -> /\ vault[x].status \in {"active", "restricted"}
                          /\ vault[x].status # target
    [] op = "unrestrict" -> vault[x].status \in Blocked

(* The handler for x (a funding, a request, or a vault) has read its rows.  *)
BeginVaultRequest(h, op, x, a, unlockAt, strict, target) ==
  /\ handling[h] = NoVaultRequest
  /\ \A g \in VaultHandlers :
       handling[g] # NoVaultRequest /\ handling[g].account = a => a \in Racing
  /\ MayHandle(op, x, unlockAt, strict, target)
  /\ handling' = [handling EXCEPT ![h] =
                    [op |-> op, id |-> x, account |-> a, unlockAt |-> unlockAt,
                     strict |-> strict, target |-> target, at |-> day,
                     vault |-> vault[a]]]
  /\ UNCHANGED <<ledgerVars, day, vaultRows, heldAccounts, sweep, crashes>>

(* The transaction of the handler running in slot h.                        *)
Committing(h, op) ==
  /\ handling[h].op = op
  /\ handling' = [handling EXCEPT ![h] = NoVaultRequest]
  /\ UNCHANGED <<day, heldAccounts, sweep, crashes>>

AbortVaultRequest(h) ==
  /\ handling[h] # NoVaultRequest
  /\ handling' = [handling EXCEPT ![h] = NoVaultRequest]
  /\ UNCHANGED <<ledgerVars, day, vaultRows, heldAccounts, sweep, crashes>>

(* The unique index on customer and asset refuses a second vault.           *)
CreateRetirementVault(a, unlockAt, strict) ==
  /\ vault[a].status = "absent" /\ a \notin heldAccounts
  /\ unlockAt > day
  /\ vault' = [vault EXCEPT ![a] = [status |-> "active", unlockAt |-> unlockAt,
                                    strict |-> strict]]
  /\ UNCHANGED <<ledgerVars, day, lockedBalance, release, rule, heldAccounts,
                 handling, sweep, crashes>>

(* The intent is created with its ledger entries; the vault's status was    *)
(* checked before.                                                          *)
CommitFund(h) ==
  LET r == handling[h] IN
  /\ Committing(h, "fund")
  /\ FundRetirementVaultBalance(r.id)
  /\ lockedBalance' = [lockedBalance EXCEPT ![r.account] = @ + Amount[r.id]]
  /\ UNCHANGED <<vault, release, rule>>

CommitRequestRelease(h) ==
  LET r == handling[h]
      kind == ReleaseKind(r.vault, r.at)
  IN
  /\ Committing(h, "request_release")
  /\ release' = [release EXCEPT ![r.id] =
       IF kind = "early_unlock"
         THEN [NoRow EXCEPT !.status = "review_required", !.kind = kind]
         ELSE [status |-> "cooldown_active", kind |-> kind,
               cooldownEndsAt |-> r.at + ReleaseCooldown(r.vault.strict, kind),
               approved |-> FALSE]]
  /\ UNCHANGED <<ledgerVars, vault, lockedBalance, rule>>

(* Cancellation, approval and rejection write the status by id.             *)
SetRelease(h, op, row) ==
  /\ Committing(h, op)
  /\ release' = [release EXCEPT ![handling[h].id] = row]
  /\ UNCHANGED <<ledgerVars, vault, lockedBalance, rule>>

CommitCancelRelease(h) ==
  SetRelease(h, "cancel_release", [release[handling[h].id] EXCEPT !.status = "cancelled"])

CommitApproveRelease(h) ==
  LET r == handling[h] IN
  SetRelease(h, "approve_release",
    [release[r.id] EXCEPT !.status = "cooldown_active", !.approved = TRUE,
       !.cooldownEndsAt = r.at + ReleaseCooldown(r.vault.strict, release[r.id].kind)])

CommitRejectRelease(h) ==
  SetRelease(h, "reject_release", [release[handling[h].id] EXCEPT !.status = "rejected"])

(* A change that does not weaken the lock is applied at once.               *)
CommitRequestRule(h) ==
  LET r == handling[h]
      row == [NoRule EXCEPT !.unlockAt = r.unlockAt, !.strict = r.strict,
                            !.currentStrict = r.vault.strict]
  IN
  /\ Committing(h, "request_rule")
  /\ IF Weakens(r.vault, r.unlockAt, r.strict)
       THEN /\ rule' = [rule EXCEPT ![r.id] = [row EXCEPT !.status = "review_required"]]
            /\ UNCHANGED vault
       ELSE /\ rule' = [rule EXCEPT ![r.id] = [row EXCEPT !.status = "done"]]
            /\ vault' = [vault EXCEPT ![r.account].unlockAt = r.unlockAt,
                                      ![r.account].strict = r.strict]
  /\ UNCHANGED <<ledgerVars, lockedBalance, release>>

SetRule(h, op, row) ==
  /\ Committing(h, op)
  /\ rule' = [rule EXCEPT ![handling[h].id] = row]
  /\ UNCHANGED <<ledgerVars, vault, lockedBalance, release>>

CommitCancelRule(h) ==
  SetRule(h, "cancel_rule", [rule[handling[h].id] EXCEPT !.status = "cancelled"])

CommitApproveRule(h) ==
  LET r == handling[h] IN
  SetRule(h, "approve_rule",
    [rule[r.id] EXCEPT !.status = "cooldown_active", !.approved = TRUE,
       !.cooldownEndsAt = r.at + RuleChangeCooldown(rule[r.id].currentStrict)])

CommitRejectRule(h) ==
  SetRule(h, "reject_rule", [rule[handling[h].id] EXCEPT !.status = "rejected"])

(* An operator restricts a vault, for an incident or not, or lifts it.      *)
CommitRestrict(h) ==
  /\ Committing(h, "restrict")
  /\ vault' = [vault EXCEPT ![handling[h].account].status = handling[h].target]
  /\ UNCHANGED <<ledgerVars, lockedBalance, release, rule>>

CommitUnrestrict(h) ==
  /\ Committing(h, "unrestrict")
  /\ vault' = [vault EXCEPT ![handling[h].account].status = "active"]
  /\ UNCHANGED <<ledgerVars, lockedBalance, release, rule>>

-----------------------------------------------------------------------------
(* The sweep of release requests (isRule FALSE) and of rule changes (TRUE)  *)

Row(x) == IF x \in RuleChanges THEN rule[x] ELSE release[x]
SetStatus(x, status) ==
  IF x \in RuleChanges
    THEN rule' = [rule EXCEPT ![x].status = status] /\ UNCHANGED release
    ELSE release' = [release EXCEPT ![x].status = status] /\ UNCHANGED rule

Sweepable(x) ==
  vault[Subject(x)].status = "active" /\ Subject(x) \notin heldAccounts

(* Mutant: the sweep takes every request whose review is over. *)
CompleteWithoutCooldown(x) ==
  /\ Row(x).status = "cooldown_active"
  /\ Sweepable(x)
  /\ SetStatus(x, "ready")
  /\ UNCHANGED <<ledgerVars, day, vault, lockedBalance, heldAccounts, handling,
                 sweep, crashes>>

(* The list and the conditional update of one request, whose condition      *)
(* repeats the status and the cooldown but not the state of the vault.      *)
CompleteCooldown(x) ==
  /\ Row(x).status = "cooldown_active" /\ Row(x).cooldownEndsAt <= day
  /\ Sweepable(x)
  /\ SetStatus(x, "ready")
  /\ UNCHANGED <<ledgerVars, day, vault, lockedBalance, heldAccounts, handling,
                 sweep, crashes>>

ListReady(s, x) ==
  /\ sweep[s] = NoSweep
  /\ Row(x).status = "ready"
  /\ Sweepable(x)
  /\ sweep' = [sweep EXCEPT ![s] = [phase |-> "listed", id |-> x]]
  /\ UNCHANGED <<ledgerVars, day, vaultRows, heldAccounts, handling, crashes>>

(* Mutant: the sweep claims a request and goes on to the next one. *)
ClaimAndGoOn(s) ==
  LET x == sweep[s].id IN
  /\ sweep[s].phase = "listed"
  /\ Row(x).status = "ready"
  /\ SetStatus(x, "executing")
  /\ sweep' = [sweep EXCEPT ![s] = NoSweep]
  /\ UNCHANGED <<ledgerVars, day, vault, lockedBalance, heldAccounts, handling, crashes>>

(* The claim is a conditional update: one of two sweeps gets the request,   *)
(* the other one goes on to its next.                                       *)
ClaimReady(s) ==
  LET x == sweep[s].id IN
  /\ sweep[s].phase = "listed"
  /\ IF Row(x).status = "ready"
       THEN SetStatus(x, "executing")
              /\ sweep' = [sweep EXCEPT ![s].phase = "claimed"]
       ELSE sweep' = [sweep EXCEPT ![s] = NoSweep] /\ UNCHANGED <<release, rule>>
  /\ UNCHANGED <<ledgerVars, day, vault, lockedBalance, heldAccounts, handling, crashes>>

(* Mutant: the release is written and the vault keeps its lockedBalance. *)
ExecuteKeepingLock(s) ==
  LET x == sweep[s].id
      a == Subject(x) IN
  /\ sweep[s].phase = "claimed" /\ x \in Releases
  /\ release[x].status = "executing"
  /\ ReleaseRetirementVaultBalance(x)
  /\ release' = [release EXCEPT ![x].status = "done"]
  /\ sweep' = [sweep EXCEPT ![s] = NoSweep]
  /\ UNCHANGED <<day, vault, lockedBalance, rule, heldAccounts, handling, crashes>>

(* Nothing about the vault is looked at again, and its status is written    *)
(* from the balance that is left.                                           *)
ExecuteRelease(s) ==
  LET x == sweep[s].id
      a == Subject(x)
      left == lockedBalance[a] - Amount[x] IN
  /\ sweep[s].phase = "claimed" /\ x \in Releases
  /\ release[x].status = "executing"
  /\ left >= 0
  /\ ReleaseRetirementVaultBalance(x)
  /\ lockedBalance' = [lockedBalance EXCEPT ![a] = left]
  /\ vault' = [vault EXCEPT ![a].status = IF left = 0 THEN "released" ELSE "active"]
  /\ release' = [release EXCEPT ![x].status = "done"]
  /\ sweep' = [sweep EXCEPT ![s] = NoSweep]
  /\ UNCHANGED <<day, rule, heldAccounts, handling, crashes>>

ExecuteRuleChange(s) ==
  LET x == sweep[s].id
      a == Subject(x) IN
  /\ sweep[s].phase = "claimed" /\ x \in RuleChanges
  /\ rule[x].status = "executing"
  /\ vault' = [vault EXCEPT ![a].unlockAt = rule[x].unlockAt,
                            ![a].strict = rule[x].strict]
  /\ rule' = [rule EXCEPT ![x].status = "done"]
  /\ sweep' = [sweep EXCEPT ![s] = NoSweep]
  /\ UNCHANGED <<ledgerVars, day, lockedBalance, release, heldAccounts, handling, crashes>>

(* The transaction of the execution throws; its catch block writes the      *)
(* failure by id in another one.                                            *)
ExecutionFails(s) ==
  LET x == sweep[s].id IN
  /\ sweep[s].phase = "claimed"
  /\ SetStatus(x, "failed")
  /\ sweep' = [sweep EXCEPT ![s] = NoSweep]
  /\ UNCHANGED <<ledgerVars, day, vault, lockedBalance, heldAccounts, handling, crashes>>

CrashSweep(s) ==
  /\ sweep[s] # NoSweep /\ crashes < MaxCrashes
  /\ sweep' = [sweep EXCEPT ![s] = NoSweep]
  /\ crashes' = crashes + 1
  /\ UNCHANGED <<ledgerVars, day, vaultRows, heldAccounts, handling>>

-----------------------------------------------------------------------------
(* The environment *)

CreditVaultCustomer(d) ==
  /\ SettleConfirmedDeposit(d)
  /\ UNCHANGED vaultVars

(* Another service places the account on hold, or releases the hold.        *)
ChangeAccountHold(a) ==
  /\ heldAccounts' = IF a \in heldAccounts THEN heldAccounts \ {a}
                                           ELSE heldAccounts \cup {a}
  /\ UNCHANGED <<ledgerVars, day, vaultRows, handling, sweep, crashes>>

PassDays ==
  /\ day # Max(Days)
  /\ day' = Min({d \in Days : d > day})
  /\ UNCHANGED <<ledgerVars, vaultRows, heldAccounts, handling, sweep, crashes>>

HandleFunding(h) ==
  \E f \in Fundings :
    BeginVaultRequest(h, "fund", f, Owner[f], 0, FALSE, "active")

HandleReleaseRequest(h) ==
  \E r \in Releases :
    \E op \in {"request_release", "cancel_release", "approve_release", "reject_release"} :
      BeginVaultRequest(h, op, r, Owner[r], 0, FALSE, "active")

HandleRuleChange(h) ==
  \E c \in RuleChanges :
    \/ \E u \in Days, k \in BOOLEAN :
         BeginVaultRequest(h, "request_rule", c, RuleOwner[c], u, k, "active")
    \/ \E op \in {"cancel_rule", "approve_rule", "reject_rule"} :
         BeginVaultRequest(h, op, c, RuleOwner[c], 0, FALSE, "active")

HandleRestriction(h) ==
  \E a \in Accounts :
    \/ \E t \in Blocked : BeginVaultRequest(h, "restrict", a, a, 0, FALSE, t)
    \/ BeginVaultRequest(h, "unrestrict", a, a, 0, FALSE, "active")

CommitVaultRequest(h) ==
  \/ CommitFund(h) \/ CommitRequestRelease(h) \/ CommitRequestRule(h)
  \/ CommitCancelRelease(h) \/ CommitApproveRelease(h) \/ CommitRejectRelease(h)
  \/ CommitCancelRule(h) \/ CommitApproveRule(h) \/ CommitRejectRule(h)
  \/ CommitRestrict(h) \/ CommitUnrestrict(h)

RunSweep(s) ==
  \/ ClaimReady(s) \/ ExecuteRelease(s) \/ ExecuteRuleChange(s)

VaultNext ==
  \/ \E d \in Intents \ (Fundings \cup Releases) : CreditVaultCustomer(d)
  \/ \E a \in Accounts : ChangeAccountHold(a)
  \/ \E a \in Accounts, u \in Days, k \in BOOLEAN : CreateRetirementVault(a, u, k)
  \/ PassDays
  \/ \E h \in VaultHandlers :
       \/ HandleFunding(h) \/ HandleReleaseRequest(h)
       \/ HandleRuleChange(h) \/ HandleRestriction(h)
       \/ CommitVaultRequest(h) \/ AbortVaultRequest(h)
  \/ \E x \in Releases \cup RuleChanges : CompleteCooldown(x)
  \/ \E s \in Sweepers :
       \/ \E x \in Releases \cup RuleChanges : ListReady(s, x)
       \/ RunSweep(s) \/ ExecutionFails(s) \/ CrashSweep(s)

VaultSpec ==
  VaultInit /\ [][VaultNext]_<<ledgerVars, vaultVars>>

(* The worker triggers a sweep in every iteration, so that what a sweep can *)
(* do is done in the end; time passes.  Customers, operators and failures   *)
(* are under no obligation.  Strong fairness, since restrictions and holds  *)
(* may keep a vault from the sweep again and again, for an instant only.    *)
VaultFairSpec ==
  /\ VaultSpec
  /\ WF_vaultVars(PassDays)
  /\ \A x \in Releases \cup RuleChanges :
       /\ SF_vaultVars(CompleteCooldown(x))
       /\ \A s \in Sweepers : SF_vaultVars(ListReady(s, x))
  /\ \A s \in Sweepers : SF_<<ledgerVars, vaultVars>>(RunSweep(s) \/ ExecutionFails(s))
  /\ \A h \in VaultHandlers :
       WF_<<ledgerVars, vaultVars>>(CommitVaultRequest(h) \/ AbortVaultRequest(h))

-----------------------------------------------------------------------------
(* Properties *)

(* The lockedBalance of a vault is the position of its ledger account, and  *)
(* the sweep, its crashes and the requests it meets leave no payment that   *)
(* its request does not show: a released request has been paid, and a paid  *)
(* one is released, or says cancelled because the customer's cancellation,  *)
(* read before the sweep got there, was written over the release.           *)
VaultMatchesLedger ==
  /\ \A a \in Accounts : lockedBalance[a] = ledger[VaultLiability(a)]
  /\ \A r \in Releases :
       LET paid == <<r, "retirement_vault_release">> \in journals IN
       Owner[r] \notin Racing =>
         /\ release[r].status = "done" => paid
         /\ paid => release[r].status \in {"done", "cancelled"}

(* What a customer locked stays locked: money leaves a vault only when the  *)
(* unlock date has passed, or for an early request that an operator has     *)
(* approved and whose cooldown is over; and the lock itself is weakened     *)
(* only by a change that an operator approved and that has waited for the   *)
(* cooldown of the stricter rules.                                          *)
LockHolds ==
  [][\A a \in Accounts \ Racing :
       /\ lockedBalance'[a] < lockedBalance[a] =>
            \/ vault[a].unlockAt <= day
            \/ \E r \in Releases : /\ Owner[r] = a /\ release[r].status = "executing"
                                   /\ release[r].approved
                                   /\ release[r].cooldownEndsAt <= day
       /\ vault[a].status # "absent"
            /\ (vault'[a].unlockAt < vault[a].unlockAt
                  \/ (vault[a].strict /\ ~vault'[a].strict)) =>
            \E c \in RuleChanges : /\ RuleOwner[c] = a /\ rule[c].status = "executing"
                                   /\ rule[c].approved
                                   /\ rule[c].cooldownEndsAt <= day]_vaultVars

(* A request in its cooldown is executed, fails or is cancelled, unless the *)
(* vault or the account stays blocked, a sweep died with it, or its cooldown*)
(* ends after the days the model has.                                       *)
ReleaseConcludes ==
  \A x \in Releases \cup RuleChanges :
    Row(x).status = "cooldown_active" ~>
      \/ Row(x).status \in {"done", "failed", "cancelled"}
      \/ ~Sweepable(x) \/ crashes > 0
      \/ Row(x).cooldownEndsAt > Max(Days)
=============================================================================
