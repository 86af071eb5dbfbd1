---------------------------- MODULE SumTheorems ----------------------------
(***************************************************************************)
(* Sums of natural numbers over finite sets, as SumFunctionOnSet of the    *)
(* community modules computes them: element after element, in the order    *)
(* CHOOSE gives.  A sum is shown to be a number of elements, from which    *)
(* its laws follow.                                                        *)
(***************************************************************************)
EXTENDS Functions, FiniteSetTheorems, WellFoundedInduction, TLAPS

\* Induction over a finite set, by its least counterexample.
LEMMA LeastSet ==
    ASSUME NEW S, IsFiniteSet(S), NEW B \in SUBSET (SUBSET S), B # {}
    PROVE  \E T \in B : \A x \in T : T \ {x} \notin B
<1> DEFINE R == StrictSubsetOrdering(S)
<1>1. IsWellFoundedOn(R, SUBSET S)
  BY FS_StrictSubsetOrderingWellFounded, FS_FiniteSubsetsOfFinite
<1>2. \E T \in B : \A U \in B : <<U, T>> \notin R
  <2> HIDE DEF R
  <2> QED
    BY <1>1, WFMin
<1>3. PICK T \in B : \A U \in B : <<U, T>> \notin R
  BY <1>2
<1>4. ASSUME NEW x \in T, T \ {x} \in B PROVE FALSE
  <2>1. <<T \ {x}, T>> \in R
    BY <1>4 DEF StrictSubsetOrdering
  <2> QED
    BY <1>3, <1>4, <2>1
<1> QED
  BY <1>3, <1>4

-----------------------------------------------------------------------------
(* f[x] elements for every x of S.                                         *)

Group(f, x) == {x} \X (1..f[x])
Groups(f, S) == UNION {Group(f, x) : x \in S}
Weight(f, S) == Cardinality(Groups(f, S))
Naturals(f, S) == \A x \in S : f[x] \in Nat

\* A group has as many pairs as the value of its element.
LEMMA GroupSize ==
    ASSUME NEW f, NEW x, f[x] \in Nat
    PROVE  IsFiniteSet(Group(f, x)) /\ Cardinality(Group(f, x)) = f[x]
<1>1. IsFiniteSet({x}) /\ Cardinality({x}) = 1
  BY FS_Singleton
<1>2. IsFiniteSet(1..f[x]) /\ Cardinality(1..f[x]) = f[x]
  BY FS_Interval
<1>3. IsFiniteSet({x} \X (1..f[x])) /\ Cardinality({x} \X (1..f[x])) = Cardinality({x}) * Cardinality(1..f[x])
  BY <1>1, <1>2, FS_Product
<1> QED
  BY <1>1, <1>2, <1>3 DEF Group

\* One more element, one more group.
LEMMA GroupsAdd ==
    ASSUME NEW f, NEW S, NEW x, x \notin S
    PROVE  /\ Groups(f, S \union {x}) = Groups(f, S) \union Group(f, x)
           /\ Groups(f, S) \intersect Group(f, x) = {}
BY DEF Groups, Group

\* The groups of a finite set are finite.
LEMMA GroupsFinite ==
    ASSUME NEW f, NEW S, IsFiniteSet(S), Naturals(f, S)
    PROVE  IsFiniteSet(Groups(f, S))
<1> DEFINE B == {T \in SUBSET S : ~IsFiniteSet(Groups(f, T))}
<1> SUFFICES ASSUME B # {} PROVE FALSE
  OBVIOUS
<1>1. PICK T \in B : \A x \in T : T \ {x} \notin B
  <2>1. B \in SUBSET (SUBSET S)
    OBVIOUS
  <2> HIDE DEF B
  <2> QED
    BY <2>1, LeastSet
<1>2. CASE T = {}
  <2>1. Groups(f, T) = {}
    BY <1>2 DEF Groups
  <2> QED
    BY <2>1, FS_EmptySet
<1>3. CASE T # {}
  <2>1. PICK x \in T : TRUE
    BY <1>3
  <2>2. IsFiniteSet(Groups(f, T \ {x}))
    BY <1>1, <2>1
  <2>3. (T \ {x}) \union {x} = T /\ x \notin T \ {x}
    BY <2>1
  <2>4. Groups(f, T) = Groups(f, T \ {x}) \union Group(f, x)
    BY <2>3, GroupsAdd
  <2>5. IsFiniteSet(Group(f, x))
    BY <2>1, GroupSize DEF Naturals
  <2>6. IsFiniteSet(Groups(f, T))
    BY <2>2, <2>4, <2>5, FS_Union
  <2> QED
    BY <2>6
<1> QED
  BY <1>2, <1>3

\* One more element adds its value to the weight.
LEMMA WeightAdd ==
    ASSUME NEW f, NEW S, NEW x, IsFiniteSet(S), x \notin S, f[x] \in Nat, Naturals(f, S)
    PROVE  /\ Weight(f, S) \in Nat
           /\ Weight(f, S \union {x}) = Weight(f, S) + f[x]
<1>1. IsFiniteSet(Groups(f, S))
  BY GroupsFinite
<1>2. Cardinality(Groups(f, S)) \in Nat
  BY <1>1, FS_CardinalityType
<1>3. IsFiniteSet(Group(f, x)) /\ Cardinality(Group(f, x)) = f[x]
  BY GroupSize
<1>4. /\ Groups(f, S \union {x}) = Groups(f, S) \union Group(f, x)
      /\ Groups(f, S) \intersect Group(f, x) = {}
  BY GroupsAdd
<1>5. Cardinality(Groups(f, S) \union Group(f, x))
        = Cardinality(Groups(f, S)) + Cardinality(Group(f, x)) - Cardinality(Groups(f, S) \intersect Group(f, x))
  BY <1>1, <1>3, FS_Union
<1>6. Cardinality(Groups(f, S) \intersect Group(f, x)) = 0
  BY <1>4, FS_EmptySet
<1>7. Cardinality(Groups(f, S \union {x})) = Cardinality(Groups(f, S)) + f[x] - 0
  BY <1>3, <1>4, <1>5, <1>6
<1>8. \A n, m \in Nat : n + m - 0 = n + m
  OBVIOUS
<1> QED
  BY <1>2, <1>7, <1>8 DEF Weight

-----------------------------------------------------------------------------
(* The sum is the weight.                                                  *)

\* The function by which SumFunctionOnSet is defined.
Summed(g, f, S) ==
    g = [T \in SUBSET S |->
            IF T = {} THEN 0
            ELSE LET x == CHOOSE x \in T : TRUE IN f[x] + g[T \ {x}]]

\* The fold of the community module, as one recursive function on sets.
LEMMA SumDef ==
    ASSUME NEW f, NEW S
    PROVE  SumFunctionOnSet(f, S) = (CHOOSE g : Summed(g, f, S))[S]
BY DEF SumFunctionOnSet, FoldFunctionOnSet, MapThenFoldSet, Summed

\* The weights are such a function.
LEMMA WeightIsSummed ==
    ASSUME NEW f, NEW S, IsFiniteSet(S), Naturals(f, S)
    PROVE  Summed([T \in SUBSET S |-> Weight(f, T)], f, S)
<1> DEFINE w == [T \in SUBSET S |-> Weight(f, T)]
<1>1. ASSUME NEW T \in SUBSET S
      PROVE  Weight(f, T) = IF T = {} THEN 0
                            ELSE LET x == CHOOSE x \in T : TRUE IN f[x] + w[T \ {x}]
  <2>1. CASE T = {}
    <3>1. Groups(f, T) = {}
      BY <2>1 DEF Groups
    <3> QED
      BY <2>1, <3>1, FS_EmptySet DEF Weight
  <2>2. CASE T # {}
    <3> DEFINE x == CHOOSE x \in T : TRUE
    <3>1. x \in T
      BY <2>2
    <3> HIDE DEF x
    <3>2. T \ {x} \in SUBSET S /\ (T \ {x}) \union {x} = T /\ x \notin T \ {x}
      BY <3>1
    <3>3. IsFiniteSet(T \ {x}) /\ Naturals(f, T \ {x}) /\ f[x] \in Nat
      BY <3>1, <3>2, FS_Subset DEF Naturals
    <3>4. Weight(f, T \ {x}) \in Nat /\ Weight(f, T) = Weight(f, T \ {x}) + f[x]
      BY <3>2, <3>3, WeightAdd
    <3>5. Weight(f, T) = f[x] + w[T \ {x}]
      BY <3>2, <3>3, <3>4
    <3> QED
      BY <2>2, <3>5 DEF x
  <2> QED
    BY <2>1, <2>2
<1> QED
  BY <1>1 DEF Summed

\* There is no other.
LEMMA SummedUnique ==
    ASSUME NEW f, NEW S, IsFiniteSet(S), NEW g, NEW h, Summed(g, f, S), Summed(h, f, S)
    PROVE  g = h
<1> DEFINE B == {T \in SUBSET S : g[T] # h[T]}
<1>1. ASSUME B # {} PROVE FALSE
  <2>1. PICK T \in B : \A x \in T : T \ {x} \notin B
    <3>1. B \in SUBSET (SUBSET S)
      OBVIOUS
    <3> HIDE DEF B
    <3> QED
      BY <1>1, <3>1, LeastSet
  <2>2. T \in SUBSET S /\ g[T] # h[T]
    OBVIOUS
  <2>3. T # {}
    BY <2>2 DEF Summed
  <2> DEFINE x == CHOOSE x \in T : TRUE
  <2>4. x \in T
    BY <2>3
  <2>5. g[T] = f[x] + g[T \ {x}] /\ h[T] = f[x] + h[T \ {x}]
    BY <2>2, <2>3 DEF Summed
  <2> HIDE DEF x
  <2>6. g[T \ {x}] = h[T \ {x}]
    BY <2>1, <2>2, <2>4
  <2> QED
    BY <2>2, <2>5, <2>6
<1>2. \A T \in SUBSET S : g[T] = h[T]
  BY <1>1
<1> QED
  BY <1>2 DEF Summed

\* The sum is the weight.
LEMMA SumIsWeight ==
    ASSUME NEW f, NEW S, IsFiniteSet(S), Naturals(f, S)
    PROVE  SumFunctionOnSet(f, S) = Weight(f, S)
<1> DEFINE w == [T \in SUBSET S |-> Weight(f, T)]
           c == CHOOSE g : Summed(g, f, S)
<1>1. Summed(w, f, S)
  BY WeightIsSummed
<1>2. Summed(c, f, S)
  <2> HIDE DEF w
  <2> QED
    BY <1>1
<1> HIDE DEF c
<1>3. c = w
  <2> HIDE DEF w
  <2> QED
    BY <1>1, <1>2, SummedUnique
<1>4. w[S] = Weight(f, S)
  OBVIOUS
<1> QED
  BY <1>3, <1>4, SumDef DEF c

-----------------------------------------------------------------------------
(* The laws of sums.                                                       *)

\* A sum of naturals is a natural.
LEMMA SumType ==
    ASSUME NEW f, NEW S, IsFiniteSet(S), Naturals(f, S)
    PROVE  SumFunctionOnSet(f, S) \in Nat
<1>1. IsFiniteSet(Groups(f, S))
  BY GroupsFinite
<1> QED
  BY <1>1, SumIsWeight, FS_CardinalityType DEF Weight

\* An empty sum is zero.
LEMMA SumEmpty ==
    ASSUME NEW f
    PROVE  SumFunctionOnSet(f, {}) = 0
<1>1. Groups(f, {}) = {} /\ Naturals(f, {}) /\ IsFiniteSet({})
  BY FS_EmptySet DEF Groups, Naturals
<1> QED
  BY <1>1, SumIsWeight, FS_EmptySet DEF Weight

\* One more element adds its value.
LEMMA SumAdd ==
    ASSUME NEW f, NEW S, NEW x, IsFiniteSet(S), x \notin S, Naturals(f, S \union {x})
    PROVE  SumFunctionOnSet(f, S \union {x}) = SumFunctionOnSet(f, S) + f[x]
<1>1. IsFiniteSet(S \union {x}) /\ Naturals(f, S) /\ f[x] \in Nat
  BY FS_AddElement DEF Naturals
<1>2. SumFunctionOnSet(f, S) = Weight(f, S)
  BY <1>1, SumIsWeight
<1>3. SumFunctionOnSet(f, S \union {x}) = Weight(f, S \union {x})
  BY <1>1, SumIsWeight
<1>4. Weight(f, S \union {x}) = Weight(f, S) + f[x]
  BY <1>1, WeightAdd
<1> QED
  BY <1>2, <1>3, <1>4

\* Only the values on the set count.
LEMMA SumAgrees ==
    ASSUME NEW f, NEW g, NEW S, IsFiniteSet(S), Naturals(f, S), \A x \in S : g[x] = f[x]
    PROVE  SumFunctionOnSet(g, S) = SumFunctionOnSet(f, S)
<1>1. Naturals(g, S)
  BY DEF Naturals
<1>2. Groups(g, S) = Groups(f, S)
  <2>1. \A x \in S : Group(g, x) = Group(f, x)
    BY DEF Group
  <2> QED
    BY <2>1 DEF Groups
<1> QED
  BY <1>1, <1>2, SumIsWeight DEF Weight

\* A part of a set sums to no more, and smaller values sum to no more.
LEMMA SumMonotone ==
    ASSUME NEW f, NEW g, NEW S, NEW T, IsFiniteSet(T), S \subseteq T,
           Naturals(f, S), Naturals(g, T), \A x \in S : f[x] <= g[x]
    PROVE  SumFunctionOnSet(f, S) <= SumFunctionOnSet(g, T)
<1>1. IsFiniteSet(S)
  BY FS_Subset
<1>2. Groups(f, S) \subseteq Groups(g, T)
  <2>1. ASSUME NEW x \in S PROVE Group(f, x) \subseteq Group(g, x)
    <3>1. f[x] \in Nat /\ g[x] \in Nat /\ f[x] <= g[x]
      BY DEF Naturals
    <3>2. 1..f[x] \subseteq 1..g[x]
      BY <3>1
    <3> QED
      BY <3>2 DEF Group
  <2> QED
    BY <2>1 DEF Groups
<1>3. IsFiniteSet(Groups(g, T))
  BY GroupsFinite
<1> QED
  BY <1>1, <1>2, <1>3, SumIsWeight, FS_Subset DEF Weight

\* The same value m times.
LEMMA SumConstant ==
    ASSUME NEW f, NEW m \in Nat, NEW c \in Nat, \A i \in 1..m : f[i] = c
    PROVE  SumFunctionOnSet(f, 1..m) = m * c
<1>1. IsFiniteSet(1..m) /\ Cardinality(1..m) = m /\ IsFiniteSet(1..c) /\ Cardinality(1..c) = c
  BY FS_Interval
<1>2. Cardinality((1..m) \X (1..c)) = Cardinality(1..m) * Cardinality(1..c)
  BY <1>1, FS_Product
<1>3. Groups(f, 1..m) = (1..m) \X (1..c)
  <2>1. \A i \in 1..m : Group(f, i) = {i} \X (1..c)
    BY DEF Group
  <2> QED
    BY <2>1 DEF Groups
<1>4. Naturals(f, 1..m)
  BY DEF Naturals
<1> QED
  BY <1>1, <1>2, <1>3, <1>4, SumIsWeight DEF Weight

\* One more value after the first m.
LEMMA SumToNext ==
    ASSUME NEW f, NEW m \in Nat, Naturals(f, 1..(m + 1))
    PROVE  SumFunctionOnSet(f, 1..(m + 1)) = SumFunctionOnSet(f, 1..m) + f[m + 1]
<1> DEFINE S == 1..m
           x == m + 1
<1>1. IsFiniteSet(S)
  BY FS_Interval
<1>2. 1..(m + 1) = S \union {x} /\ x \notin S
  OBVIOUS
<1>3. Naturals(f, S \union {x})
  BY <1>2
<1> HIDE DEF S, x
<1>4. SumFunctionOnSet(f, S \union {x}) = SumFunctionOnSet(f, S) + f[x]
  BY <1>1, <1>2, <1>3, SumAdd
<1> QED
  BY <1>2, <1>4 DEF S, x
=============================================================================
