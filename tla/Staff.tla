--------------------------------- MODULE Staff ---------------------------------
(* The bank's operators.  What one of them asks for, another one approves.   *)
EXTENDS Integers, FiniteSets

CONSTANT Operators

ASSUME OperatorAssumption == Cardinality(Operators) > 1 /\ "none" \notin Operators
================================================================================
