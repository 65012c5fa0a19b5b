------------------------------ MODULE BackOffice ------------------------------
(***************************************************************************)
(* The parts of the bank that share no state with the customers' ledger,   *)
(* nor with one another: overrides of governed execution, solvency and its *)
(* anchors, restrictions of accounts, staking and its pools, customers'    *)
(* sessions, approvals of releases, incident packages, platform alerts and *)
(* two contracts.  Parts that share no variable can do together only what  *)
(* each can do alone, so a behaviour of this module is one of one part:    *)
(* the part is chosen at the start and the others rest in their initial    *)
(* states.                                                                 *)
(***************************************************************************)
EXTENDS Solvency, SolvencyAnchors, ExecutionOverrides, AccountRestrictions,
        Staking, StakingPools, CustomerSessions, ReleaseApprovals,
        LoanBookV1, PolicyWallet, IncidentPackages, PlatformAlerts

VARIABLE part

Parts == {"solvency", "anchors", "overrides", "restrictions",
          "staking", "pools", "sessions", "releases", "book", "wallet",
          "packages", "alerts"}

backOfficeVars == <<part, solvencyVars, anchorVars, overrideVars, restrictionVars,
                    stakingVars, poolVars, sessionVars, releaseVars, bookVars, walletVars,
                    packageVars, alertVars>>

BackOfficeInit ==
  /\ part \in Parts
  /\ SolvencyInit /\ AnchorInit /\ OverrideInit /\ RestrictionInit
  /\ StakingInit /\ PoolInit /\ SessionInit /\ ReleaseInit /\ BookInit /\ WalletInit
  /\ PackageInit /\ AlertInit

BackOfficeNext ==
  /\ UNCHANGED part
  /\ IF part = "solvency" THEN SolvencyNext ELSE UNCHANGED solvencyVars
  /\ IF part = "anchors" THEN AnchorNext ELSE UNCHANGED anchorVars
  /\ IF part = "overrides" THEN OverrideNext ELSE UNCHANGED overrideVars
  /\ IF part = "restrictions" THEN RestrictionNext ELSE UNCHANGED restrictionVars
  /\ IF part = "staking" THEN StakingNext ELSE UNCHANGED stakingVars
  /\ IF part = "pools" THEN PoolNext ELSE UNCHANGED poolVars
  /\ IF part = "sessions" THEN SessionNext ELSE UNCHANGED sessionVars
  /\ IF part = "releases" THEN ReleaseNext ELSE UNCHANGED releaseVars
  /\ IF part = "book" THEN BookNext ELSE UNCHANGED bookVars
  /\ IF part = "wallet" THEN WalletNext ELSE UNCHANGED walletVars
  /\ IF part = "packages" THEN PackageNext ELSE UNCHANGED packageVars
  /\ IF part = "alerts" THEN AlertNext ELSE UNCHANGED alertVars

BackOfficeSpec == BackOfficeInit /\ [][BackOfficeNext]_backOfficeVars

(* Every part keeps its types. *)
BackOfficeTypeOK ==
  /\ SolvencyTypeOK /\ AnchorTypeOK /\ OverrideTypeOK /\ RestrictionTypeOK
  /\ StakingTypeOK /\ PoolTypeOK /\ SessionTypeOK /\ ReleaseTypeOK
  /\ BookTypeOK /\ WalletTypeOK /\ PackageTypeOK /\ AlertTypeOK

(* Nothing privileged happens on the word of one operator, whichever reads  *)
(* and writes of the decisions overlap: not a direct execution past the     *)
(* governed one, not a staking pool, not the reset of a customer's second   *)
(* factor, not a release, not the file of a customer's incident.            *)
DualControl ==
  /\ DirectUseHadTwoOperators /\ PoolHadTwoOperators
  /\ RecoveryHadTwoOperators /\ ApprovedByAnother /\ PackageHadTwoOperators
=============================================================================
