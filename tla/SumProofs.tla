------------------------------ MODULE SumProofs ------------------------------
(***************************************************************************)
(* How a total changes with one of its members.  What the properties say   *)
(* of sums of amounts follows from these, one step at a time.              *)
(***************************************************************************)
EXTENDS Sums, FiniteSetTheorems, TLAPS

(* There are finitely many units.                                           *)
LEMMA FiniteUnits ==
  ASSUME NEW S, IsFiniteSet(S), NEW f, \A x \in S : f[x] \in Nat
  PROVE  IsFiniteSet(Units(f, S))
  <1> DEFINE T == {{x} \X (1 .. f[x]) : x \in S}
             g == [x \in S |-> {x} \X (1 .. f[x])]
  <1>1. g \in Surjection(S, T)
    BY DEF Surjection
  <1>2. IsFiniteSet(T)
    BY <1>1, FS_Surjection
  <1>3. ASSUME NEW U \in T PROVE IsFiniteSet(U)
    <2>1. PICK x \in S : U = {x} \X (1 .. f[x])
      OBVIOUS
    <2>2. f[x] \in Int /\ 1 \in Int
      OBVIOUS
    <2>3. IsFiniteSet({x}) /\ IsFiniteSet(1 .. f[x])
      BY <2>2, FS_Interval, FS_Singleton
    <2> QED
      BY <2>1, <2>3, FS_Product
  <1> QED
    BY <1>2, <1>3, FS_UNION DEF Units

LEMMA TotalType ==
  ASSUME NEW S, IsFiniteSet(S), NEW f, \A x \in S : f[x] \in Nat
  PROVE  Total(f, S) \in Nat
  BY FiniteUnits, FS_CardinalityType DEF Total

(* The total depends on nothing but the numbers of the members.             *)
LEMMA TotalSame ==
  ASSUME NEW S, NEW f, NEW g, \A x \in S : f[x] = g[x]
  PROVE  Total(f, S) = Total(g, S)
  <1>1. Units(f, S) = Units(g, S)
    BY DEF Units
  <1> QED
    BY <1>1 DEF Total

LEMMA TotalOfNothing ==
  ASSUME NEW S, NEW f, \A x \in S : f[x] = 0
  PROVE  Total(f, S) = 0
  <1>1. \A x \in S : {x} \X (1 .. f[x]) = {}
    OBVIOUS
  <1>2. Units(f, S) = {}
    BY <1>1 DEF Units
  <1> QED
    BY <1>2, FS_EmptySet DEF Total

(* One more member adds its number.                                         *)
LEMMA TotalWith ==
  ASSUME NEW S, IsFiniteSet(S), NEW x, x \notin S, NEW f,
         \A y \in S \cup {x} : f[y] \in Nat
  PROVE  Total(f, S \cup {x}) = Total(f, S) + f[x]
  <1> DEFINE new == {x} \X (1 .. f[x])
  <1>1. Units(f, S \cup {x}) = Units(f, S) \cup new
    BY DEF Units
  <1>2. Units(f, S) \cap new = {}
    BY DEF Units
  <1>3. IsFiniteSet(Units(f, S))
    BY FiniteUnits
  <1>4. IsFiniteSet(new) /\ Cardinality(new) = f[x]
    <2>1. IsFiniteSet({x}) /\ Cardinality({x}) = 1
      BY FS_Singleton
    <2>2. IsFiniteSet(1 .. f[x]) /\ Cardinality(1 .. f[x]) = f[x]
      BY FS_Interval
    <2> QED
      BY <2>1, <2>2, FS_Product
  <1> HIDE DEF new
  <1>5. Cardinality(Units(f, S) \cup new)
          = Cardinality(Units(f, S)) + Cardinality(new) - Cardinality({})
    BY <1>2, <1>3, <1>4, FS_Union
  <1>6. Cardinality(Units(f, S)) \in Nat
    BY <1>3, FS_CardinalityType
  <1>7. Cardinality(Units(f, S) \cup new) = Cardinality(Units(f, S)) + f[x] - 0
    BY <1>4, <1>5, FS_EmptySet
  <1>8. f[x] \in Nat
    OBVIOUS
  <1>9. Cardinality(Units(f, S) \cup new) = Cardinality(Units(f, S)) + f[x]
    BY <1>6, <1>7, <1>8
  <1> QED
    BY <1>1, <1>9 DEF Total

(* One member less takes its number away.                                   *)
LEMMA TotalWithout ==
  ASSUME NEW S, IsFiniteSet(S), NEW x \in S, NEW f, \A y \in S : f[y] \in Nat
  PROVE  Total(f, S) = Total(f, S \ {x}) + f[x]
  <1>1. IsFiniteSet(S \ {x})
    BY FS_RemoveElement
  <1>2. S = (S \ {x}) \cup {x}
    OBVIOUS
  <1> QED
    BY <1>1, <1>2, TotalWith

LEMMA TotalBounds ==
  ASSUME NEW S, IsFiniteSet(S), NEW x \in S, NEW f, \A y \in S : f[y] \in Nat
  PROVE  f[x] <= Total(f, S)
  <1>1. IsFiniteSet(S \ {x})
    BY FS_RemoveElement
  <1>2. Total(f, S \ {x}) \in Nat
    BY <1>1, TotalType
  <1> QED
    BY <1>2, TotalWithout

(* The number of one member changes.                                        *)
LEMMA TotalChange ==
  ASSUME NEW S, IsFiniteSet(S), NEW x \in S, NEW f, NEW g,
         \A y \in S : f[y] \in Nat /\ g[y] \in Nat /\ (y # x => g[y] = f[y])
  PROVE  Total(g, S) = Total(f, S) - f[x] + g[x]
  <1>1. Total(g, S \ {x}) = Total(f, S \ {x})
    BY TotalSame
  <1>2. IsFiniteSet(S \ {x})
    BY FS_RemoveElement
  <1>3. Total(f, S \ {x}) \in Nat
    BY <1>2, TotalType
  <1>4. /\ Total(f, S) = Total(f, S \ {x}) + f[x]
        /\ Total(g, S) = Total(g, S \ {x}) + g[x]
    BY TotalWithout
  <1> QED
    BY <1>1, <1>3, <1>4
=============================================================================
