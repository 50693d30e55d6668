----------------------------- MODULE LabelsProofs -----------------------------
(***************************************************************************)
(* How many entries are at some labels, before and after one of them moves *)
(* to another label.                                                       *)
(***************************************************************************)
EXTENDS Labels, Integers, FiniteSets, FiniteSetTheorems, TLAPS

\* How the number of entries with a label of L changes when d gets another.
Moves(f, g, d, L) ==
    /\ IsFiniteSet(Where(g, L))
    /\ Cardinality(Where(f, L)) \in Nat
    /\ Cardinality(Where(g, L)) \in Nat
    /\ Cardinality(Where(g, L)) = Cardinality(Where(f, L))
         + (IF g[d] \in L THEN 1 ELSE 0) - (IF f[d] \in L THEN 1 ELSE 0)

\* One entry of f gets another label.
LEMMA WhereMoved ==
    ASSUME NEW f, NEW g, DOMAIN g = DOMAIN f, NEW d \in DOMAIN f,
           \A x \in DOMAIN f : x # d => g[x] = f[x],
           NEW L, IsFiniteSet(Where(f, L))
    PROVE  Moves(f, g, d, L)
<1>1. d \in Where(f, L) <=> f[d] \in L
  BY DEF Where
<1>2. CASE g[d] \in L
  <2>1. Where(g, L) = Where(f, L) \cup {d}
    BY <1>2 DEF Where
  <2>2. /\ IsFiniteSet(Where(f, L) \cup {d})
        /\ Cardinality(Where(f, L) \cup {d}) =
              IF d \in Where(f, L) THEN Cardinality(Where(f, L))
              ELSE Cardinality(Where(f, L)) + 1
    BY FS_AddElement
  <2> QED
    BY <1>1, <1>2, <2>1, <2>2, FS_CardinalityType DEF Moves
<1>3. CASE g[d] \notin L
  <2>1. Where(g, L) = Where(f, L) \ {d}
    BY <1>3 DEF Where
  <2>2. /\ IsFiniteSet(Where(f, L) \ {d})
        /\ Cardinality(Where(f, L) \ {d}) =
              IF d \in Where(f, L) THEN Cardinality(Where(f, L)) - 1
              ELSE Cardinality(Where(f, L))
    BY FS_RemoveElement
  <2> QED
    BY <1>1, <1>3, <2>1, <2>2, FS_CardinalityType DEF Moves
<1> QED
  BY <1>2, <1>3

\* A label that some entry has is counted.
LEMMA WhereSome ==
    ASSUME NEW f, NEW d \in DOMAIN f, NEW L, f[d] \in L, IsFiniteSet(Where(f, L))
    PROVE  Cardinality(Where(f, L)) \in Nat /\ Cardinality(Where(f, L)) > 0
<1>1. Where(f, L) # {}
  BY DEF Where
<1> QED
  BY <1>1, FS_EmptySet, FS_CardinalityType

\* No entry of f enters or leaves the labels L.
LEMMA WhereSame ==
    ASSUME NEW f, NEW g, NEW L, DOMAIN g = DOMAIN f,
           \A x \in DOMAIN f : f[x] \in L <=> g[x] \in L
    PROVE  Where(g, L) = Where(f, L)
BY DEF Where
===============================================================================
