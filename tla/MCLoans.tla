------------------------------- MODULE MCLoans -------------------------------
(* One loan of two installments; the borrower can pay both, unless the     *)
(* money is withdrawn before.                                               *)
EXTENDS Loans, TLC

CONSTANTS a1, d1, w1, l1, h1, h2

MCOwner == d1 :> a1 @@ w1 :> a1
MCAmount == d1 :> 6 @@ w1 :> 4
MCBorrower == l1 :> a1
MCShare == l1 :> 2
MCFeeShare == l1 :> 1
MCTerm == l1 :> 2
MCCollateral == l1 :> 8

HandlerSymmetry == Permutations(LoanHandlers)
=============================================================================
