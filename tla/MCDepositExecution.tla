------------------------- MODULE MCDepositExecution -------------------------
EXTENDS DepositExecution, TLC

CONSTANTS a1, d1, d2, h1, h2

MCOwner == [d \in Intents |-> a1]
MCAmount == [d \in Intents |-> 1]
(* d2 is malformed: nothing is ever sent for it. *)
MCPays == [h \in Hashes |-> d1]
=============================================================================
