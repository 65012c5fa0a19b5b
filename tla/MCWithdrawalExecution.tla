------------------------ MODULE MCWithdrawalExecution ------------------------
EXTENDS WithdrawalExecution, TLC

CONSTANTS a1, d1, i1, i2, i3, h10, h11, h20, h21

MCOwner == [i \in Intents |-> a1]
MCAmount == [i \in Intents |-> IF i = d1 THEN 3 ELSE 1]
(* h10 pays i1 with nonce 0, h21 pays i2 with nonce 1, and so on. *)
MCPays == [h \in Hashes |-> IF h \in {h10, h11} THEN i1 ELSE i2]
MCNonceOf == [h \in Hashes |-> IF h \in {h10, h20} THEN 0 ELSE 1]
Executable == [i \in Withdrawals |-> "none"]
Mixed ==
  [i \in Withdrawals |-> CASE i = i1 -> "none" [] i = i2 -> "permanent"
                          [] OTHER -> "manual_intervention_required"]
Symmetry == Permutations(Slots) \cup Permutations(Workers)
(* Two withdrawals of one amount may change places with their hashes. *)
Exchange == i1 :> i2 @@ i2 :> i1 @@ h10 :> h20 @@ h20 :> h10 @@ h11 :> h21 @@ h21 :> h11
SymmetryOfTwo == Symmetry \cup {Exchange}
=============================================================================
