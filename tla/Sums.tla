------------------------------- MODULE Sums -------------------------------
(***************************************************************************)
(* Lemmas about SumFunctionOnSet of the Functions module, which the models *)
(* use for what the code adds up: the amounts of the active reservations,  *)
(* the outflow of the last hour, the captured and the refunded amounts.    *)
(*                                                                         *)
(* The operator is a fold: a function over the subsets of S that takes one *)
(* element after the other.  What it computes is shown by looking at a     *)
(* smallest counterexample, which exists because strict inclusion is well  *)
(* founded on the finite subsets of a set: first that the recursive        *)
(* equation has one solution, then that the order of the elements does not *)
(* matter, and from there the facts that the proofs of the components use. *)
(***************************************************************************)
EXTENDS Integers, FiniteSets, Functions, FiniteSetTheorems,
        WellFoundedInduction, TLAPS

\* The element that the fold takes out of s first.
First(s) == CHOOSE x \in s : TRUE

\* h adds up f over every subset of S in the order of First.
Adds(h, f, S) ==
    h = [s \in SUBSET S |-> IF s = {} THEN 0 ELSE f[First(s)] + h[s \ {First(s)}]]

\* f has an integer for every element of S.
IntegerOn(f, S) == \A x \in S : f[x] \in Int

\* f has a natural number for every element of S.
NaturalOn(f, S) == \A x \in S : f[x] \in Nat

-----------------------------------------------------------------------------

\* A nonempty set of subsets of a finite set has one with no other below it.
LEMMA SmallestMember ==
    ASSUME NEW S, IsFiniteSet(S), NEW C, C \subseteq SUBSET S, C # {}
    PROVE  \E T \in C : \A U \in C : U \subseteq T => U = T
<1>1. FiniteSubsetsOf(S) = SUBSET S
    BY FS_FiniteSubsetsOfFinite
<1>2. IsWellFoundedOn(StrictSubsetOrdering(S), SUBSET S)
    BY <1>1, FS_StrictSubsetOrderingWellFounded
<1>3. PICK T \in C : \A U \in C : <<U, T>> \notin StrictSubsetOrdering(S)
    BY <1>2, WFMin
<1>4. \A U \in C : U \subseteq T => U = T
    BY <1>3 DEF StrictSubsetOrdering
<1> QED BY <1>4

\* The first element is one of the set.
LEMMA FirstIsIn ==
    ASSUME NEW s, s # {}
    PROVE  First(s) \in s
BY DEF First

\* The two cases of the equation that Adds states.
LEMMA AddsAt ==
    ASSUME NEW h, NEW f, NEW S, Adds(h, f, S), NEW s \in SUBSET S
    PROVE  /\ s = {} => h[s] = 0
           /\ s # {} => h[s] = f[First(s)] + h[s \ {First(s)}]
BY DEF Adds

\* Two functions that add up f agree wherever both are defined.
LEMMA AddsAgree ==
    ASSUME NEW f, NEW S, NEW T, IsFiniteSet(S),
           NEW g, Adds(g, f, S), NEW h, Adds(h, f, T),
           NEW U, U \subseteq S, U \subseteq T
    PROVE  g[U] = h[U]
<1> DEFINE C == {V \in SUBSET U : g[V] # h[V]}
<1>1. SUFFICES ASSUME C # {} PROVE FALSE
    BY <1>1
<1>2. IsFiniteSet(U)
    BY FS_Subset
<1>3. PICK V \in C : \A W \in C : W \subseteq V => W = V
    <2>1. C \subseteq SUBSET U
        OBVIOUS
    <2> HIDE DEF C
    <2> QED BY <1>1, <1>2, <2>1, SmallestMember
<1>4. V \in SUBSET S /\ V \in SUBSET T /\ V \subseteq U /\ g[V] # h[V]
    BY <1>3
<1>5. V # {}
    BY <1>4, AddsAt
<1>6. First(V) \in V
    BY <1>5, FirstIsIn
<1>7. g[V \ {First(V)}] = h[V \ {First(V)}]
    BY <1>3, <1>4, <1>6
<1>8. g[V] = f[First(V)] + g[V \ {First(V)}] /\ h[V] = f[First(V)] + h[V \ {First(V)}]
    BY <1>4, <1>5, AddsAt
<1> QED BY <1>4, <1>7, <1>8

\* A function that adds up f over the subsets of a finite set exists.
LEMMA AddsExists ==
    ASSUME NEW f, NEW S, IsFiniteSet(S)
    PROVE  \E h : Adds(h, f, S)
<1> DEFINE C == {T \in SUBSET S : ~ \E h : Adds(h, f, T)}
<1>1. SUFFICES ASSUME C # {} PROVE FALSE
    BY <1>1
<1>2. PICK T \in C : \A U \in C : U \subseteq T => U = T
    <2>1. C \subseteq SUBSET S
        OBVIOUS
    <2> HIDE DEF C
    <2> QED BY <1>1, <2>1, SmallestMember
<1>3. \A U \in SUBSET T : U # T => \E h : Adds(h, f, U)
    BY <1>2
<1> DEFINE H(U) == CHOOSE h : Adds(h, f, U)
<1>4. \A U \in SUBSET T : U # T => Adds(H(U), f, U)
    BY <1>3
<1>5. \A U \in SUBSET T : IsFiniteSet(U)
    BY <1>2, FS_Subset
<1> DEFINE k == [s \in SUBSET T |->
                    IF s = {} THEN 0 ELSE f[First(s)] + H(s \ {First(s)})[s \ {First(s)}]]
<1>6. ASSUME NEW s \in SUBSET T, s # {}
      PROVE  H(s \ {First(s)})[s \ {First(s)}] = k[s \ {First(s)}]
  <2> DEFINE r == s \ {First(s)}
  <2>1. r \in SUBSET T /\ r # T
      BY <1>6, FirstIsIn
  <2>2. Adds(H(r), f, r)
      BY <1>4, <2>1
  <2>3. CASE r = {}
      <3>1. H(r)[r] = 0
          BY <2>2, <2>3, AddsAt
      <3> QED BY <3>1, <2>1, <2>3
  <2>4. CASE r # {}
      <3> DEFINE q == r \ {First(r)}
      <3>1. q \in SUBSET T /\ q # T /\ q \subseteq r
          BY <2>1, <2>4, FirstIsIn
      <3>2. Adds(H(q), f, q)
          BY <1>4, <3>1
      <3>3. H(r)[q] = H(q)[q]
          <4> HIDE DEF H, q, r
          <4> QED BY <1>5, <2>1, <2>2, <3>1, <3>2, AddsAgree
      <3>4. H(r)[r] = f[First(r)] + H(r)[q]
          <4>1. r \in SUBSET r
              OBVIOUS
          <4> HIDE DEF H, r
          <4> QED BY <2>2, <2>4, <4>1, AddsAt
      <3>5. k[r] = f[First(r)] + H(q)[q]
          <4> HIDE DEF H
          <4> QED BY <2>1, <2>4
      <3> QED BY <3>3, <3>4, <3>5
  <2> QED BY <2>3, <2>4
<1>7. Adds(k, f, T)
  <2> HIDE DEF H
  <2> QED BY <1>6 DEF Adds
<1> QED BY <1>2, <1>7

-----------------------------------------------------------------------------

\* The library's sum is the value of any function that adds up f.
LEMMA SumIs ==
    ASSUME NEW f, NEW S, IsFiniteSet(S), NEW h, NEW T, Adds(h, f, T), S \subseteq T
    PROVE  SumFunctionOnSet(f, S) = h[S]
<1> DEFINE k == CHOOSE g : Adds(g, f, S)
<1>1. SumFunctionOnSet(f, S) = k[S]
    BY DEF SumFunctionOnSet, FoldFunctionOnSet, MapThenFoldSet, Adds, First
<1>2. Adds(k, f, S)
    BY AddsExists
<1>3. k[S] = h[S]
    <2> HIDE DEF k
    <2> QED BY <1>2, AddsAgree
<1> QED BY <1>1, <1>3

\* The sum over the empty set is zero.
LEMMA SumEmpty ==
    ASSUME NEW f
    PROVE  SumFunctionOnSet(f, {}) = 0
<1>1. IsFiniteSet({})
    BY FS_EmptySet
<1>2. PICK h : Adds(h, f, {})
    BY <1>1, AddsExists
<1>3. SumFunctionOnSet(f, {}) = h[{}]
    BY <1>1, <1>2, SumIs
<1> QED BY <1>2, <1>3, AddsAt

\* The sum over a nonempty set takes the first element out.
LEMMA SumFirst ==
    ASSUME NEW f, NEW S, IsFiniteSet(S), S # {}
    PROVE  SumFunctionOnSet(f, S) = f[First(S)] + SumFunctionOnSet(f, S \ {First(S)})
<1>1. PICK h : Adds(h, f, S)
    BY AddsExists
<1>2. IsFiniteSet(S \ {First(S)})
    BY FS_Subset
<1>3. SumFunctionOnSet(f, S) = h[S] /\ SumFunctionOnSet(f, S \ {First(S)}) = h[S \ {First(S)}]
    BY <1>1, <1>2, SumIs
<1> QED BY <1>1, <1>3, AddsAt

\* A sum of integers is an integer.
LEMMA SumIsInt ==
    ASSUME NEW f, NEW S, IsFiniteSet(S), IntegerOn(f, S)
    PROVE  SumFunctionOnSet(f, S) \in Int
<1> DEFINE C == {T \in SUBSET S : SumFunctionOnSet(f, T) \notin Int}
<1>1. SUFFICES ASSUME C # {} PROVE FALSE
    BY <1>1
<1>2. PICK T \in C : \A U \in C : U \subseteq T => U = T
    <2>1. C \subseteq SUBSET S
        OBVIOUS
    <2> HIDE DEF C
    <2> QED BY <1>1, <2>1, SmallestMember
<1>3. IsFiniteSet(T) /\ T # {}
    <2>1. IsFiniteSet(T)
        BY <1>2, FS_Subset
    <2>2. SumFunctionOnSet(f, T) \notin Int
        BY <1>2
    <2>3. SumFunctionOnSet(f, {}) \in Int
        BY SumEmpty
    <2> QED BY <2>1, <2>2, <2>3
<1>4. First(T) \in T
    BY <1>3, FirstIsIn
<1>5. SumFunctionOnSet(f, T \ {First(T)}) \in Int
    BY <1>2, <1>4
<1>6. f[First(T)] \in Int
    BY <1>2, <1>4 DEF IntegerOn
<1>7. SumFunctionOnSet(f, T) = f[First(T)] + SumFunctionOnSet(f, T \ {First(T)})
    BY <1>3, SumFirst
<1> QED BY <1>2, <1>5, <1>6, <1>7

\* Any element may be taken out first: the order of the fold does not matter.
LEMMA SumTake ==
    ASSUME NEW f, NEW S, IsFiniteSet(S), IntegerOn(f, S), NEW x \in S
    PROVE  SumFunctionOnSet(f, S) = f[x] + SumFunctionOnSet(f, S \ {x})
<1> DEFINE C == {T \in SUBSET S :
                    \E y \in T : SumFunctionOnSet(f, T) # f[y] + SumFunctionOnSet(f, T \ {y})}
<1>1. SUFFICES ASSUME C # {} PROVE FALSE
    BY <1>1
<1>2. PICK T \in C : \A U \in C : U \subseteq T => U = T
    <2>1. C \subseteq SUBSET S
        OBVIOUS
    <2> HIDE DEF C
    <2> QED BY <1>1, <2>1, SmallestMember
<1>3. PICK y \in T : SumFunctionOnSet(f, T) # f[y] + SumFunctionOnSet(f, T \ {y})
    BY <1>2
<1> DEFINE p == First(T)
<1>4. IsFiniteSet(T) /\ T \in SUBSET S
    BY <1>2, FS_Subset
<1>5. p \in T
    BY <1>3, FirstIsIn
<1>6. SumFunctionOnSet(f, T) = f[p] + SumFunctionOnSet(f, T \ {p})
    BY <1>3, <1>4, SumFirst
<1> HIDE DEF p
<1>7. p # y
    BY <1>3, <1>6
<1>8. T \ {p} \notin C /\ T \ {y} \notin C
    BY <1>2, <1>3, <1>5
<1>9. SumFunctionOnSet(f, T \ {p}) = f[y] + SumFunctionOnSet(f, (T \ {p}) \ {y})
    BY <1>3, <1>4, <1>7, <1>8
<1>10. SumFunctionOnSet(f, T \ {y}) = f[p] + SumFunctionOnSet(f, (T \ {y}) \ {p})
    BY <1>4, <1>5, <1>7, <1>8
<1>11. (T \ {p}) \ {y} = (T \ {y}) \ {p}
    OBVIOUS
<1> DEFINE rest == SumFunctionOnSet(f, (T \ {p}) \ {y})
<1>12. f[p] \in Int /\ f[y] \in Int
    BY <1>3, <1>4, <1>5 DEF IntegerOn
<1>13. rest \in Int
    <2>1. IsFiniteSet((T \ {p}) \ {y})
        BY <1>4, FS_Subset
    <2>2. IntegerOn(f, (T \ {p}) \ {y})
        BY <1>4 DEF IntegerOn
    <2> QED BY <2>1, <2>2, SumIsInt
<1>14. SumFunctionOnSet(f, T) = f[p] + (f[y] + rest)
    BY <1>6, <1>9
<1>15. SumFunctionOnSet(f, T \ {y}) = f[p] + rest
    BY <1>10, <1>11
<1> HIDE DEF rest
<1> QED BY <1>3, <1>12, <1>13, <1>14, <1>15

-----------------------------------------------------------------------------

\* A sum of natural numbers is a natural number.
LEMMA SumIsNat ==
    ASSUME NEW f, NEW S, IsFiniteSet(S), NaturalOn(f, S)
    PROVE  SumFunctionOnSet(f, S) \in Nat
<1> DEFINE C == {T \in SUBSET S : SumFunctionOnSet(f, T) \notin Nat}
<1>1. SUFFICES ASSUME C # {} PROVE FALSE
    BY <1>1
<1>2. PICK T \in C : \A U \in C : U \subseteq T => U = T
    <2>1. C \subseteq SUBSET S
        OBVIOUS
    <2> HIDE DEF C
    <2> QED BY <1>1, <2>1, SmallestMember
<1>3. IsFiniteSet(T) /\ T # {}
    <2>1. IsFiniteSet(T)
        BY <1>2, FS_Subset
    <2>2. SumFunctionOnSet(f, T) \notin Nat
        BY <1>2
    <2>3. SumFunctionOnSet(f, {}) \in Nat
        BY SumEmpty
    <2> QED BY <2>1, <2>2, <2>3
<1>4. First(T) \in T
    BY <1>3, FirstIsIn
<1>5. SumFunctionOnSet(f, T \ {First(T)}) \in Nat /\ f[First(T)] \in Nat
    BY <1>2, <1>4 DEF NaturalOn
<1>6. SumFunctionOnSet(f, T) = f[First(T)] + SumFunctionOnSet(f, T \ {First(T)})
    BY <1>3, SumFirst
<1> QED BY <1>2, <1>5, <1>6

\* Natural numbers are integers, and so they are on a subset.
LEMMA NaturalOnSubset ==
    ASSUME NEW f, NEW S, NaturalOn(f, S), NEW T, T \subseteq S
    PROVE  NaturalOn(f, T) /\ IntegerOn(f, T)
BY DEF NaturalOn, IntegerOn

\* One more element adds its value.
LEMMA SumAdd ==
    ASSUME NEW f, NEW S, IsFiniteSet(S), NEW x, x \notin S, NaturalOn(f, S \union {x})
    PROVE  SumFunctionOnSet(f, S \union {x}) = f[x] + SumFunctionOnSet(f, S)
<1>1. IsFiniteSet(S \union {x})
    BY FS_AddElement
<1>2. IntegerOn(f, S \union {x})
    BY NaturalOnSubset
<1>3. (S \union {x}) \ {x} = S
    OBVIOUS
<1>4. SumFunctionOnSet(f, S \union {x}) = f[x] + SumFunctionOnSet(f, (S \union {x}) \ {x})
    BY <1>1, <1>2, SumTake
<1> QED BY <1>3, <1>4

\* Functions that agree on the set have the same sum.
LEMMA SumAgree ==
    ASSUME NEW f, NEW g, NEW S, IsFiniteSet(S), \A x \in S : f[x] = g[x]
    PROVE  SumFunctionOnSet(f, S) = SumFunctionOnSet(g, S)
<1> DEFINE C == {T \in SUBSET S : SumFunctionOnSet(f, T) # SumFunctionOnSet(g, T)}
<1>1. SUFFICES ASSUME C # {} PROVE FALSE
    BY <1>1
<1>2. PICK T \in C : \A U \in C : U \subseteq T => U = T
    <2>1. C \subseteq SUBSET S
        OBVIOUS
    <2> HIDE DEF C
    <2> QED BY <1>1, <2>1, SmallestMember
<1>3. IsFiniteSet(T) /\ T # {}
    <2>1. IsFiniteSet(T)
        BY <1>2, FS_Subset
    <2>2. SumFunctionOnSet(f, T) # SumFunctionOnSet(g, T)
        BY <1>2
    <2>3. SumFunctionOnSet(f, {}) = SumFunctionOnSet(g, {})
        BY SumEmpty
    <2> QED BY <2>1, <2>2, <2>3
<1>4. First(T) \in T
    BY <1>3, FirstIsIn
<1>5. /\ SumFunctionOnSet(f, T \ {First(T)}) = SumFunctionOnSet(g, T \ {First(T)})
      /\ f[First(T)] = g[First(T)]
    BY <1>2, <1>4
<1>6. /\ SumFunctionOnSet(f, T) = f[First(T)] + SumFunctionOnSet(f, T \ {First(T)})
      /\ SumFunctionOnSet(g, T) = g[First(T)] + SumFunctionOnSet(g, T \ {First(T)})
    BY <1>3, SumFirst
<1> QED BY <1>2, <1>5, <1>6

\* Changing the value of one element changes the sum by the difference.
LEMMA SumOneChanged ==
    ASSUME NEW f, NEW g, NEW S, IsFiniteSet(S), NaturalOn(f, S), NaturalOn(g, S),
           NEW x \in S, \A y \in S \ {x} : g[y] = f[y]
    PROVE  SumFunctionOnSet(g, S) = SumFunctionOnSet(f, S) - f[x] + g[x]
<1>1. IsFiniteSet(S \ {x}) /\ IntegerOn(f, S) /\ IntegerOn(g, S) /\ NaturalOn(f, S \ {x})
    BY FS_Subset, NaturalOnSubset
<1>2. /\ SumFunctionOnSet(f, S) = f[x] + SumFunctionOnSet(f, S \ {x})
      /\ SumFunctionOnSet(g, S) = g[x] + SumFunctionOnSet(g, S \ {x})
    BY <1>1, SumTake
<1>3. SumFunctionOnSet(f, S \ {x}) = SumFunctionOnSet(g, S \ {x})
    BY <1>1, SumAgree
<1>4. SumFunctionOnSet(f, S \ {x}) \in Nat
    BY <1>1, SumIsNat
<1>5. f[x] \in Nat /\ g[x] \in Nat
    BY DEF NaturalOn
<1> QED BY <1>2, <1>3, <1>4, <1>5

\* A larger set has no smaller sum.
LEMMA SumMonotone ==
    ASSUME NEW f, NEW B, IsFiniteSet(B), NaturalOn(f, B), NEW A, A \subseteq B
    PROVE  SumFunctionOnSet(f, A) <= SumFunctionOnSet(f, B)
<1> DEFINE C == {T \in SUBSET B :
                    A \subseteq T /\ ~(SumFunctionOnSet(f, A) <= SumFunctionOnSet(f, T))}
<1>1. SUFFICES ASSUME C # {} PROVE FALSE
    BY <1>1
<1>2. PICK T \in C : \A U \in C : U \subseteq T => U = T
    <2>1. C \subseteq SUBSET B
        OBVIOUS
    <2> HIDE DEF C
    <2> QED BY <1>1, <2>1, SmallestMember
<1>3. /\ T \in SUBSET B /\ A \subseteq T /\ IsFiniteSet(T) /\ IsFiniteSet(A)
      /\ NaturalOn(f, T) /\ IntegerOn(f, T) /\ NaturalOn(f, A)
    BY <1>2, FS_Subset, NaturalOnSubset
<1>4. SumFunctionOnSet(f, A) \in Nat
    BY <1>3, SumIsNat
<1>5. T # A
    BY <1>2, <1>4
<1>6. PICK x \in T : x \notin A
    BY <1>3, <1>5
<1>7. IsFiniteSet(T \ {x}) /\ NaturalOn(f, T \ {x})
    BY <1>3, FS_Subset, NaturalOnSubset
<1>8. SumFunctionOnSet(f, T \ {x}) \in Nat /\ f[x] \in Nat
    BY <1>3, <1>7, SumIsNat DEF NaturalOn
<1>9. SumFunctionOnSet(f, A) <= SumFunctionOnSet(f, T \ {x})
    BY <1>2, <1>3, <1>6
<1>10. SumFunctionOnSet(f, T) = f[x] + SumFunctionOnSet(f, T \ {x})
    BY <1>3, SumTake
<1>11. SumFunctionOnSet(f, A) <= SumFunctionOnSet(f, T)
    BY <1>4, <1>8, <1>9, <1>10
<1> QED BY <1>2, <1>11

\* The sum over a union is at most the two sums together.
LEMMA SumUnion ==
    ASSUME NEW f, NEW A, NEW B, IsFiniteSet(A), IsFiniteSet(B), NaturalOn(f, A \union B)
    PROVE  SumFunctionOnSet(f, A \union B) <= SumFunctionOnSet(f, A) + SumFunctionOnSet(f, B)
<1> DEFINE C == {T \in SUBSET B : ~(SumFunctionOnSet(f, A \union T)
                                        <= SumFunctionOnSet(f, A) + SumFunctionOnSet(f, T))}
<1>1. SUFFICES ASSUME C # {} PROVE FALSE
    BY <1>1
<1>2. PICK T \in C : \A U \in C : U \subseteq T => U = T
    <2>1. C \subseteq SUBSET B
        OBVIOUS
    <2> HIDE DEF C
    <2> QED BY <1>1, <2>1, SmallestMember
<1>3. /\ T \in SUBSET B /\ IsFiniteSet(T)
      /\ ~(SumFunctionOnSet(f, A \union T) <= SumFunctionOnSet(f, A) + SumFunctionOnSet(f, T))
    BY <1>2, FS_Subset
<1>4. NaturalOn(f, T) /\ IntegerOn(f, T) /\ NaturalOn(f, A)
    BY <1>3, NaturalOnSubset
<1>5. SumFunctionOnSet(f, A) \in Nat /\ SumFunctionOnSet(f, {}) = 0
    BY <1>4, SumIsNat, SumEmpty
<1>6. T # {}
    <2> SUFFICES ASSUME T = {} PROVE FALSE
        OBVIOUS
    <2>1. A \union T = A
        OBVIOUS
    <2>2. /\ SumFunctionOnSet(f, A \union T) = SumFunctionOnSet(f, A)
          /\ SumFunctionOnSet(f, T) = 0
        BY <1>5, <2>1, Zenon
    <2> QED BY <1>3, <1>5, <2>2
<1>7. PICK x \in T : TRUE
    BY <1>6
<1> DEFINE R == T \ {x}
<1>8. IsFiniteSet(R) /\ NaturalOn(f, R) /\ R \in SUBSET B
    BY <1>3, <1>4, FS_Subset, NaturalOnSubset
<1>9. /\ IsFiniteSet(A \union R)
      /\ NaturalOn(f, A \union R) /\ NaturalOn(f, A \union T)
    <2>1. A \union R \subseteq A \union B /\ A \union T \subseteq A \union B
        BY <1>3
    <2>2. IsFiniteSet(A \union R)
        BY <1>8, FS_Union
    <2> QED BY <2>1, <2>2, NaturalOnSubset
<1>10. /\ SumFunctionOnSet(f, R) \in Nat /\ SumFunctionOnSet(f, A \union R) \in Nat
       /\ f[x] \in Nat
    BY <1>4, <1>8, <1>9, SumIsNat DEF NaturalOn
<1>11. SumFunctionOnSet(f, A \union R) <= SumFunctionOnSet(f, A) + SumFunctionOnSet(f, R)
    BY <1>2, <1>7, <1>8
<1>12. SumFunctionOnSet(f, T) = f[x] + SumFunctionOnSet(f, R)
    BY <1>3, <1>4, <1>7, SumTake
<1>13. SumFunctionOnSet(f, A \union T) <= f[x] + SumFunctionOnSet(f, A \union R)
    <2>1. CASE x \in A \union R
        <3>1. A \union T = A \union R
            BY <2>1
        <3>2. SumFunctionOnSet(f, A \union T) = SumFunctionOnSet(f, A \union R)
            BY <3>1, Zenon
        <3> QED BY <1>10, <3>2
    <2>2. CASE x \notin A \union R
        <3>1. A \union T = (A \union R) \union {x}
            BY <1>7
        <3>2. NaturalOn(f, (A \union R) \union {x})
            BY <1>9, <3>1
        <3>3. SumFunctionOnSet(f, (A \union R) \union {x})
                = f[x] + SumFunctionOnSet(f, A \union R)
            BY <1>9, <2>2, <3>2, SumAdd
        <3>4. SumFunctionOnSet(f, A \union T) = f[x] + SumFunctionOnSet(f, A \union R)
            BY <3>1, <3>3, Zenon
        <3> QED BY <1>10, <3>4
    <2> QED BY <2>1, <2>2
<1> DEFINE s == SumFunctionOnSet(f, A \union T)
           a == SumFunctionOnSet(f, A)
           u == SumFunctionOnSet(f, A \union R)
           q == SumFunctionOnSet(f, R)
<1>14. s \in Nat
    <2>1. IsFiniteSet(A \union T)
        BY <1>3, FS_Union
    <2> QED BY <1>9, <2>1, SumIsNat
<1>15. s <= f[x] + u /\ u <= a + q /\ ~(s <= a + (f[x] + q))
    BY <1>3, <1>11, <1>12, <1>13
<1>16. a \in Nat /\ u \in Nat /\ q \in Nat /\ f[x] \in Nat
    BY <1>5, <1>10
<1> HIDE DEF s, a, u, q
<1> QED BY <1>14, <1>15, <1>16

\* If f is at most g on T and zero on the rest of S, then it adds up over S to
\* no more than g does over T.
LEMMA SumBounded ==
    ASSUME NEW f, NEW g, NEW S, NEW T, IsFiniteSet(S), T \subseteq S,
           NaturalOn(f, S), NaturalOn(g, T),
           \A x \in T : f[x] <= g[x], \A x \in S \ T : f[x] = 0
    PROVE  SumFunctionOnSet(f, S) <= SumFunctionOnSet(g, T)
<1> DEFINE C == {U \in SUBSET S :
                    ~(SumFunctionOnSet(f, U) <= SumFunctionOnSet(g, U \intersect T))}
<1>0. S \intersect T = T
    OBVIOUS
<1>1. SUFFICES ASSUME C # {} PROVE FALSE
    BY <1>0, <1>1
<1>2. PICK U \in C : \A V \in C : V \subseteq U => V = U
    <2>1. C \subseteq SUBSET S
        OBVIOUS
    <2> HIDE DEF C
    <2> QED BY <1>1, <2>1, SmallestMember
<1>3. /\ U \in SUBSET S /\ IsFiniteSet(U)
      /\ ~(SumFunctionOnSet(f, U) <= SumFunctionOnSet(g, U \intersect T))
    BY <1>2, FS_Subset
<1>4. U # {}
    <2>1. {} \intersect T = {} /\ SumFunctionOnSet(f, {}) = 0 /\ SumFunctionOnSet(g, {}) = 0
        BY SumEmpty
    <2> QED BY <1>3, <2>1
<1>5. PICK x \in U : TRUE
    BY <1>4
<1> DEFINE R == U \ {x}
<1>6. /\ IsFiniteSet(R) /\ NaturalOn(f, R) /\ IntegerOn(f, U)
      /\ IsFiniteSet(R \intersect T) /\ NaturalOn(g, R \intersect T)
      /\ IsFiniteSet(U \intersect T) /\ IntegerOn(g, U \intersect T)
    BY <1>3, FS_Subset, NaturalOnSubset
<1> DEFINE p == SumFunctionOnSet(f, R)
           q == SumFunctionOnSet(g, R \intersect T)
<1>7. p \in Nat /\ q \in Nat
    BY <1>6, SumIsNat
<1>8. p <= q
    BY <1>2, <1>3, <1>5
<1>9. SumFunctionOnSet(f, U) = f[x] + p
    BY <1>3, <1>5, <1>6, SumTake
<1>10. f[x] \in Nat
    BY <1>3, <1>5 DEF NaturalOn
<1>11. CASE x \in T
    <2>1. (U \intersect T) \ {x} = R \intersect T /\ x \in U \intersect T
        BY <1>5, <1>11
    <2>2. SumFunctionOnSet(g, U \intersect T) = g[x] + q
        BY <1>6, <2>1, SumTake
    <2>3. f[x] <= g[x] /\ g[x] \in Nat
        BY <1>11 DEF NaturalOn
    <2> HIDE DEF p, q
    <2>4. f[x] + p <= g[x] + q
        BY <1>7, <1>8, <1>10, <2>3
    <2> QED BY <1>3, <1>9, <2>2, <2>4
<1>12. CASE x \notin T
    <2>1. U \intersect T = R \intersect T
        BY <1>12
    <2>2. f[x] = 0
        BY <1>3, <1>5, <1>12
    <2>3. SumFunctionOnSet(g, U \intersect T) = q
        BY <2>1
    <2> HIDE DEF p, q
    <2>4. f[x] + p <= q
        BY <1>7, <1>8, <2>2
    <2> QED BY <1>3, <1>9, <2>3, <2>4
<1> QED BY <1>11, <1>12
=============================================================================
