-------------------------- MODULE MCRetirementVault --------------------------
(* One customer funds a vault twice and takes part of the money, or all of  *)
(* it, out again.                                                           *)
EXTENDS RetirementVault, TLC

CONSTANTS a1, d1, f1, f2, r1, c1

MCOwner == d1 :> a1 @@ f1 :> a1 @@ f2 :> a1 @@ r1 :> a1
MCAmount == d1 :> 3 @@ f1 :> 2 @@ f2 :> 1 @@ r1 :> 2
MCRuleOwner == c1 :> a1
=============================================================================
