------------------------------ MODULE LoanBookV1 ------------------------------
(***************************************************************************)
(* The LoanBookV1 contract: loan agreements, the collateral it holds for   *)
(* them, and the principal that passes through it.  The owner (the         *)
(* governance safe) and the treasury safe may send its transactions in any *)
(* order; a transaction that fails a require changes nothing.  Collateral  *)
(* and principal are in ETH.                                               *)
(***************************************************************************)
EXTENDS Integers, Sums

CONSTANTS Agreements,
          Collateral,   \* collateralAmount of each agreement
          MaxRepaid     \* bound: repayments recorded per agreement

ASSUME LoanBookAssumption ==
  /\ IsFiniteSet(Agreements)
  /\ Collateral \in [Agreements -> Nat \ {0}] /\ MaxRepaid \in Nat

VARIABLES agreement,   \* agreements[id]
          book         \* the contract's ETH and its paused flag

bookVars == <<agreement, book>>

LoanStates == {"none", "awaiting_collateral", "awaiting_funding", "active", "grace_period",
               "defaulted", "liquidation_review", "liquidating", "closed"}

BookTypeOK ==
  /\ agreement \in [Agreements ->
       [state : LoanStates, collateralLocked : BOOLEAN, initialized : BOOLEAN,
        principalPaid : 0..2, repaid : 0..MaxRepaid]]
  /\ book \in [balance : Nat, paused : BOOLEAN]

BookInit ==
  /\ agreement = [a \in Agreements |->
       [state |-> "none", collateralLocked |-> FALSE, initialized |-> FALSE,
        principalPaid |-> 0, repaid |-> 0]]
  /\ book = [balance |-> 0, paused |-> FALSE]

-----------------------------------------------------------------------------
(* whenNotPaused and _requireAgreement *)
Callable(a) == ~book.paused /\ agreement[a].initialized

Move(a, from, to) ==
  /\ Callable(a) /\ agreement[a].state \in from
  /\ agreement' = [agreement EXCEPT ![a].state = to]
  /\ UNCHANGED book

CreateAgreement(a) ==
  /\ ~book.paused /\ ~agreement[a].initialized
  /\ agreement' = [agreement EXCEPT ![a].initialized = TRUE, ![a].state = "awaiting_collateral"]
  /\ UNCHANGED book

LockCollateral(a) ==
  /\ Callable(a) /\ agreement[a].state = "awaiting_collateral"
  /\ ~agreement[a].collateralLocked
  /\ agreement' = [agreement EXCEPT ![a].collateralLocked = TRUE,
                                    ![a].state = "awaiting_funding"]
  /\ book' = [book EXCEPT !.balance = @ + Collateral[a]]

(* Mutant: the state of the agreement is not checked. *)
FundableAlways(a) == agreement[a].collateralLocked

Fundable(a) == agreement[a].state = "awaiting_funding" /\ agreement[a].collateralLocked

(* The principal comes with the transaction and goes on to the borrower. *)
FundAgreement(a) ==
  /\ Callable(a) /\ Fundable(a)
  /\ agreement' = [agreement EXCEPT ![a].state = "active", ![a].principalPaid = @ + 1]
  /\ UNCHANGED book

RecordRepayment(a) ==
  /\ Callable(a) /\ agreement[a].state \in {"active", "grace_period"}
  /\ agreement[a].repaid < MaxRepaid
  /\ agreement' = [agreement EXCEPT ![a].repaid = @ + 1]
  /\ UNCHANGED book

StartGracePeriod(a) == Move(a, {"active"}, "grace_period")
MarkDefaulted(a) == Move(a, {"active", "grace_period"}, "defaulted")
StartLiquidationReview(a) == Move(a, {"defaulted"}, "liquidation_review")
ApproveLiquidation(a) == Move(a, {"liquidation_review"}, "liquidating")
ExecuteLiquidation(a) == Move(a, {"liquidating"}, "closed")
CloseAgreement(a) == Move(a, LoanStates, "closed")

(* Mutant: the flag that the collateral is locked outlives its release. *)
AfterReleaseLocked(agr) == [agr EXCEPT !.state = "closed"]

AfterRelease(agr) == [agr EXCEPT !.state = "closed", !.collateralLocked = FALSE]

ReleaseCollateral(a) ==
  /\ Callable(a) /\ agreement[a].collateralLocked
  /\ agreement[a].state \in {"active", "grace_period", "closed"}
  /\ book.balance >= Collateral[a]                 \* else the transfer reverts
  /\ agreement' = [agreement EXCEPT ![a] = AfterRelease(@)]
  /\ book' = [book EXCEPT !.balance = @ - Collateral[a]]

PauseOrUnpauseBook ==
  /\ book' = [book EXCEPT !.paused = ~@]
  /\ UNCHANGED agreement

-----------------------------------------------------------------------------
BookNext ==
  \/ \E a \in Agreements :
       \/ CreateAgreement(a) \/ LockCollateral(a) \/ FundAgreement(a) \/ RecordRepayment(a)
       \/ StartGracePeriod(a) \/ MarkDefaulted(a) \/ StartLiquidationReview(a)
       \/ ApproveLiquidation(a) \/ ExecuteLiquidation(a) \/ CloseAgreement(a)
       \/ ReleaseCollateral(a)
  \/ PauseOrUnpauseBook

BookSpec == BookInit /\ [][BookNext]_bookVars

-----------------------------------------------------------------------------
(* The contract holds exactly the collateral of the agreements that have it *)
(* locked, so that no release is paid from another borrower's collateral,   *)
(* and the principal of an agreement is paid out once, whatever order the   *)
(* owner's transactions arrive in.                                          *)
CollateralIsHeld ==
  /\ book.balance = Total(Collateral, {a \in Agreements : agreement[a].collateralLocked})
  /\ \A a \in Agreements : agreement[a].principalPaid <= 1
=============================================================================
