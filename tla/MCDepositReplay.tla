-------------------------- MODULE MCDepositReplay ---------------------------
(* Two deposits of one account, one of them approved automatically.         *)
EXTENDS DepositReplay, TLC

CONSTANTS a1, d1, d2

MCOwner == [d \in Intents |-> a1]
MCAmount == d1 :> 1 @@ d2 :> 2
Symmetry == Permutations(Slots) \cup Permutations(Hashes)
=============================================================================
