------------------------- MODULE MCWithdrawalIntents -------------------------
(* Two withdrawals of one account compete for the balance one deposit left. *)
EXTENDS WithdrawalIntents, FiniteSetsExt, TLC

CONSTANTS a1, d1, i1, i2

MCOwner == d1 :> a1 @@ i1 :> a1 @@ i2 :> a1
MCAmount == d1 :> 3 @@ i1 :> 1 @@ i2 :> 2
Symmetry == Permutations(Slots) \cup Permutations(Workers)
=============================================================================
