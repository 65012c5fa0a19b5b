------------------------------- MODULE MCBank -------------------------------
(* One withdrawal and three transfers draw on the balance one deposit left. *)
EXTENDS Bank, TLC

CONSTANTS a1, a2, d1, i1, t1, t2, t3

MCOwner == d1 :> a1 @@ i1 :> a1 @@ t1 :> a1 @@ t2 :> a1 @@ t3 :> a2
MCAmount == d1 :> 3 @@ i1 :> 1 @@ t1 :> 1 @@ t2 :> 2 @@ t3 :> 1
MCRecipient == t1 :> a2 @@ t2 :> a2 @@ t3 :> a1

(* What Sums counts is the sum.                                             *)
Sets == INSTANCE FiniteSetsExt

ASSUME TotalIsTheSum ==
  \A S \in SUBSET (1..3) : \A f \in [S -> 0..2] :
    Total(f, S) = Sets!MapThenSumSet(LAMBDA x : f[x], S)
=============================================================================
