-------------------------------- MODULE Sums --------------------------------
(***************************************************************************)
(* The total of some natural numbers, as what it counts: the units of a    *)
(* family of numbers are the pairs of one of its members and a place in    *)
(* its number, and the total is how many units there are.                  *)
(***************************************************************************)
EXTENDS Integers, FiniteSets

Units(f, S) == UNION {{x} \X (1 .. f[x]) : x \in S}

Total(f, S) == Cardinality(Units(f, S))
=============================================================================
