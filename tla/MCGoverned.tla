----------------------------- MODULE MCGoverned -----------------------------
(* One request of an agreement, dispatched again when a lease runs out.     *)
EXTENDS GovernedExecution, TLC

CONSTANTS r1, t1

MCTarget == r1 :> t1
=============================================================================
