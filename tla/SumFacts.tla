----------------------------- MODULE SumFacts -----------------------------
(* What the proofs need to know of SumFunctionOnSet, the sum the byte        *)
(* accounts of ManagedMemory and the budget of CacheDir are stated with: it  *)
(* is defined by taking elements one after another in an order nobody knows, *)
(* and these lemmas say that the order does not matter.  Induction is by the *)
(* least counterexample.                                                     *)
EXTENDS Integers, Functions, FiniteSetTheorems, TLAPS

\* A set of natural numbers that is not empty has a least one.
LEMMA LeastNatural ==
    ASSUME NEW S \in SUBSET Nat, S # {}
    PROVE  \E x \in S : \A y \in S : x <= y
  <1> DEFINE R == OpToRel(<, Nat)
  <1>1. IsWellFoundedOn(R, Nat)
    BY NatLessThanWellFounded
  <1>2. \A x, y \in Nat : <<x, y>> \in R <=> x < y
    BY DEF OpToRel
  <1> HIDE DEF R
  <1>3. PICK x \in S : \A y \in S : <<y, x>> \notin R
    BY <1>1, WFMin
  <1>4. ASSUME NEW y \in S PROVE x <= y
    <2>1. x \in Nat /\ y \in Nat
      OBVIOUS
    <2>2. ~(y < x)
      BY <2>1, <1>2, <1>3
    <2> QED  BY <2>1, <2>2
  <1> QED  BY <1>4

-----------------------------------------------------------------------------
(* The recursion of the library, unfolded.                                  *)

AnyOf(s) == CHOOSE x \in s : TRUE

Partial(f, g, s) == IF s = {} THEN 0 ELSE f[AnyOf(s)] + g[s \ {AnyOf(s)}]

Satisfies(f, S, g) == \A s \in SUBSET S : g[s] = Partial(f, g, s)

\* The function the library picks.
Sums(f, S) == CHOOSE g : g = [s \in SUBSET S |-> IF s = {} THEN 0 ELSE f[AnyOf(s)] + g[s \ {AnyOf(s)}]]

LEMMA SumIsSums ==
    ASSUME NEW f, NEW S
    PROVE  SumFunctionOnSet(f, S) = Sums(f, S)[S]
  BY DEF SumFunctionOnSet, FoldFunctionOnSet, MapThenFoldSet, Sums, AnyOf

LEMMA AnyOfIsIn ==
    ASSUME NEW s, s # {}
    PROVE  AnyOf(s) \in s
  BY DEF AnyOf

LEMMA SmallerSet ==
    ASSUME NEW S, IsFiniteSet(S), NEW s \in SUBSET S, s # {}
    PROVE  /\ Cardinality(s) \in Nat \ {0}
           /\ \A x \in s : Cardinality(s \ {x}) = Cardinality(s) - 1
  <1>1. IsFiniteSet(s)
    BY FS_Subset
  <1>2. Cardinality(s) \in Nat /\ Cardinality(s) # 0
    BY <1>1, FS_CardinalityType, FS_EmptySet
  <1> QED  BY <1>1, <1>2, FS_RemoveElement

\* There is a function that satisfies the recursion.
LEMMA SumsExist ==
    ASSUME NEW S, IsFiniteSet(S), NEW f, \A x \in S : f[x] \in Nat
    PROVE  \E g : g \in [SUBSET S -> Nat] /\ Satisfies(f, S, g)
  <1> DEFINE Upto(g, n) == \A s \in SUBSET S : Cardinality(s) <= n => g[s] = Partial(f, g, s)
             Bad == {n \in Nat : ~ \E g \in [SUBSET S -> Nat] : Upto(g, n)}
  <1>1. ASSUME NEW g \in [SUBSET S -> Nat], NEW s \in SUBSET S
        PROVE  Partial(f, g, s) \in Nat
    <2>1. CASE s = {}
      BY <2>1 DEF Partial
    <2>2. CASE s # {}
      <3>1. AnyOf(s) \in S /\ s \ {AnyOf(s)} \in SUBSET S
        BY <2>2, AnyOfIsIn
      <3>2. f[AnyOf(s)] \in Nat /\ g[s \ {AnyOf(s)}] \in Nat
        BY <3>1
      <3> QED  BY <2>2, <3>2 DEF Partial
    <2> QED  BY <2>1, <2>2
  <1>2. Bad = {}
    <2> SUFFICES ASSUME Bad # {} PROVE FALSE
      OBVIOUS
    <2>1. PICK n \in Bad : \A m \in Bad : n <= m
      BY LeastNatural
    <2>2. n \in Nat /\ ~ \E g \in [SUBSET S -> Nat] : Upto(g, n)
      BY <2>1
    <2>3. PICK g \in [SUBSET S -> Nat] : n = 0 \/ Upto(g, n - 1)
      <3>1. CASE n = 0
        <4>1. [s \in SUBSET S |-> 0] \in [SUBSET S -> Nat]
          OBVIOUS
        <4> QED  BY <3>1, <4>1
      <3>2. CASE n # 0
        <4>1. n - 1 \in Nat /\ ~(n <= n - 1)
          BY <3>2, <2>2
        <4>2. n - 1 \notin Bad
          BY <4>1, <2>1
        <4> QED  BY <4>1, <4>2
      <3> QED  BY <3>1, <3>2
    <2> DEFINE h == [s \in SUBSET S |-> Partial(f, g, s)]
    <2>4. h \in [SUBSET S -> Nat]
      BY <1>1
    <2>5. Upto(h, n)
      <3> SUFFICES ASSUME NEW s \in SUBSET S, Cardinality(s) <= n
                   PROVE  Partial(f, g, s) = Partial(f, h, s)
        OBVIOUS
      <3>1. CASE s = {}
        BY <3>1 DEF Partial
      <3>2. CASE s # {}
        <4> DEFINE t == s \ {AnyOf(s)}
        <4>1. AnyOf(s) \in s /\ t \in SUBSET S
          BY <3>2, AnyOfIsIn
        <4>2. Cardinality(s) \in Nat \ {0} /\ Cardinality(t) = Cardinality(s) - 1
          BY <3>2, <4>1, SmallerSet
        <4>3. n # 0 /\ Cardinality(t) <= n - 1
          BY <4>2, <2>2
        <4>4. g[t] = Partial(f, g, t)
          BY <4>1, <4>3, <2>3
        <4>5. h[t] = g[t]
          BY <4>1, <4>4
        <4> QED  BY <3>2, <4>5 DEF Partial
      <3> QED  BY <3>1, <3>2
    <2> QED  BY <2>2, <2>4, <2>5
  <1>3. Cardinality(S) \in Nat
    BY FS_CardinalityType
  <1>4. PICK g \in [SUBSET S -> Nat] : Upto(g, Cardinality(S))
    BY <1>2, <1>3
  <1>5. \A s \in SUBSET S : g[s] = Partial(f, g, s)
    BY <1>4, FS_Subset
  <1> QED  BY <1>5 DEF Satisfies

\* and only one: two functions that satisfy it agree.
LEMMA SumsAgree ==
    ASSUME NEW S, IsFiniteSet(S), NEW f, NEW g, NEW h,
           Satisfies(f, S, g), Satisfies(f, S, h)
    PROVE  \A s \in SUBSET S : g[s] = h[s]
  <1> DEFINE Bad == {s \in SUBSET S : g[s] # h[s]}
             Sizes == {n \in Nat : \E s \in Bad : n = Cardinality(s)}
  <1>1. SUFFICES ASSUME Bad # {} PROVE FALSE
    OBVIOUS
  <1>2. \A s \in SUBSET S : Cardinality(s) \in Nat
    BY FS_Subset, FS_CardinalityType
  <1>3. Sizes \in SUBSET Nat /\ Sizes # {}
    BY <1>1, <1>2
  <1>4. PICK n \in Sizes : \A m \in Sizes : n <= m
    BY <1>3, LeastNatural
  <1>5. PICK s \in Bad : n = Cardinality(s)
    BY <1>4
  <1>6. CASE s = {}
    BY <1>5, <1>6 DEF Partial, Satisfies
  <1>7. CASE s # {}
    <2> DEFINE t == s \ {AnyOf(s)}
    <2>1. t \in SUBSET S /\ Cardinality(t) = n - 1 /\ n \in Nat \ {0}
      BY <1>5, <1>7, AnyOfIsIn, SmallerSet
    <2>2. n - 1 \notin Sizes
      BY <2>1, <1>4
    <2>3. g[t] = h[t]
      BY <2>1, <2>2
    <2> QED  BY <2>3, <1>5, <1>7 DEF Partial, Satisfies
  <1> QED  BY <1>6, <1>7

LEMMA SumsUnfold ==
    ASSUME NEW S, IsFiniteSet(S), NEW f, \A x \in S : f[x] \in Nat
    PROVE  \A s \in SUBSET S : /\ Sums(f, S)[s] \in Nat
                               /\ Sums(f, S)[s] = Partial(f, Sums(f, S), s)
  <1>1. PICK g : g \in [SUBSET S -> Nat] /\ Satisfies(f, S, g)
    BY SumsExist
  <1>2. g = [s \in SUBSET S |-> IF s = {} THEN 0 ELSE f[AnyOf(s)] + g[s \ {AnyOf(s)}]]
    BY <1>1 DEF Partial, Satisfies
  <1>3. Sums(f, S) = [s \in SUBSET S |->
                        IF s = {} THEN 0 ELSE f[AnyOf(s)] + Sums(f, S)[s \ {AnyOf(s)}]]
    BY <1>2, Zenon DEF Sums
  <1>4. \A s \in SUBSET S : Sums(f, S)[s] = Partial(f, Sums(f, S), s)
    <2> TAKE s \in SUBSET S
    <2>1. Sums(f, S)[s] = [r \in SUBSET S |->
              IF r = {} THEN 0 ELSE f[AnyOf(r)] + Sums(f, S)[r \ {AnyOf(r)}]][s]
      BY <1>3, Zenon
    <2> QED  BY <2>1, Zenon DEF Partial
  <1>5. Satisfies(f, S, Sums(f, S))
    BY <1>4 DEF Satisfies
  <1>6. \A s \in SUBSET S : Sums(f, S)[s] = g[s]
    BY <1>1, <1>5, SumsAgree
  <1>7. \A s \in SUBSET S : Sums(f, S)[s] \in Nat
    BY <1>1, <1>6
  <1> QED  BY <1>4, <1>7

-----------------------------------------------------------------------------
(* The facts the other modules use.                                         *)

LEMMA SumPart ==
    ASSUME NEW S, IsFiniteSet(S), NEW f, \A x \in S : f[x] \in Nat, NEW s \in SUBSET S
    PROVE  Sums(f, S)[s] = SumFunctionOnSet(f, s)
  <1>1. IsFiniteSet(s) /\ \A x \in s : f[x] \in Nat
    BY FS_Subset
  <1>2. Satisfies(f, s, Sums(f, S)) /\ Satisfies(f, s, Sums(f, s))
    BY <1>1, SumsUnfold DEF Satisfies
  <1>3. Sums(f, S)[s] = Sums(f, s)[s]
    BY <1>1, <1>2, SumsAgree
  <1> QED  BY <1>3, SumIsSums

LEMMA SumEmpty ==
    ASSUME NEW f
    PROVE  SumFunctionOnSet(f, {}) = 0
  <1>1. Sums(f, {})[{}] = Partial(f, Sums(f, {}), {})
    BY SumsUnfold, FS_EmptySet
  <1> QED  BY <1>1, SumIsSums DEF Partial

LEMMA SumIsNatural ==
    ASSUME NEW S, IsFiniteSet(S), NEW f, \A x \in S : f[x] \in Nat
    PROVE  SumFunctionOnSet(f, S) \in Nat
  BY SumsUnfold, SumIsSums

LEMMA SumAnyOf ==
    ASSUME NEW S, IsFiniteSet(S), NEW f, \A x \in S : f[x] \in Nat, S # {}
    PROVE  SumFunctionOnSet(f, S) = f[AnyOf(S)] + SumFunctionOnSet(f, S \ {AnyOf(S)})
  <1>1. Sums(f, S)[S] = f[AnyOf(S)] + Sums(f, S)[S \ {AnyOf(S)}]
    BY SumsUnfold DEF Partial
  <1>2. Sums(f, S)[S \ {AnyOf(S)}] = SumFunctionOnSet(f, S \ {AnyOf(S)})
    BY SumPart
  <1> QED  BY <1>1, <1>2, SumIsSums

\* Whichever element is taken out, the rest is the sum without it.
LEMMA SumRemove ==
    ASSUME NEW S, IsFiniteSet(S), NEW f, \A x \in S : f[x] \in Nat
    PROVE  \A x \in S : SumFunctionOnSet(f, S) = f[x] + SumFunctionOnSet(f, S \ {x})
  <1> DEFINE Fine(s) == \A x \in s : SumFunctionOnSet(f, s) = f[x] + SumFunctionOnSet(f, s \ {x})
             Bad == {s \in SUBSET S : ~Fine(s)}
             Sizes == {n \in Nat : \E s \in Bad : n = Cardinality(s)}
  <1>1. SUFFICES ASSUME Bad # {} PROVE FALSE
    OBVIOUS
  <1>2. \A s \in SUBSET S : IsFiniteSet(s) /\ Cardinality(s) \in Nat
    BY FS_Subset, FS_CardinalityType
  <1>3. Sizes \in SUBSET Nat /\ Sizes # {}
    BY <1>1, <1>2
  <1>4. PICK n \in Sizes : \A m \in Sizes : n <= m
    BY <1>3, LeastNatural
  <1>5. PICK s \in Bad : n = Cardinality(s)
    BY <1>4
  <1>6. PICK x \in s : SumFunctionOnSet(f, s) # f[x] + SumFunctionOnSet(f, s \ {x})
    BY <1>5
  <1> DEFINE y == AnyOf(s)
  <1> HIDE DEF y
  <1>7. y \in s /\ SumFunctionOnSet(f, s) = f[y] + SumFunctionOnSet(f, s \ {y})
    BY <1>2, <1>5, <1>6, SumAnyOf, AnyOfIsIn DEF y
  <1>8. x # y
    BY <1>6, <1>7
  <1>9. ASSUME NEW z \in s PROVE Fine(s \ {z})
    <2>1. Cardinality(s \ {z}) = n - 1 /\ n \in Nat \ {0}
      BY <1>5, SmallerSet
    <2>2. n - 1 \notin Sizes
      BY <2>1, <1>4
    <2> QED  BY <2>1, <2>2, <1>5
  <1>10. SumFunctionOnSet(f, s \ {y}) = f[x] + SumFunctionOnSet(f, (s \ {y}) \ {x})
    BY <1>7, <1>8, <1>9
  <1>11. SumFunctionOnSet(f, s \ {x}) = f[y] + SumFunctionOnSet(f, (s \ {x}) \ {y})
    BY <1>7, <1>8, <1>9
  <1>12. (s \ {y}) \ {x} = (s \ {x}) \ {y}
    OBVIOUS
  <1>13. IsFiniteSet((s \ {x}) \ {y}) /\ (s \ {x}) \ {y} \in SUBSET S
    BY <1>2, <1>5
  <1>14. SumFunctionOnSet(f, (s \ {x}) \ {y}) \in Nat /\ f[x] \in Nat /\ f[y] \in Nat
    BY <1>13, <1>5, <1>7, SumIsNatural
  <1>15. SumFunctionOnSet(f, s) = f[y] + (f[x] + SumFunctionOnSet(f, (s \ {x}) \ {y}))
    BY <1>7, <1>10, <1>12
  <1>16. f[x] + SumFunctionOnSet(f, s \ {x}) = f[x] + (f[y] + SumFunctionOnSet(f, (s \ {x}) \ {y}))
    BY <1>11
  <1> HIDE DEF Sizes, Bad, Fine
  <1> QED  BY <1>6, <1>14, <1>15, <1>16

LEMMA SumAdd ==
    ASSUME NEW S, IsFiniteSet(S), NEW f, NEW x, x \notin S, \A y \in S \union {x} : f[y] \in Nat
    PROVE  SumFunctionOnSet(f, S \union {x}) = SumFunctionOnSet(f, S) + f[x]
  <1>1. IsFiniteSet(S \union {x}) /\ (S \union {x}) \ {x} = S
    BY FS_AddElement
  <1>2. SumFunctionOnSet(f, S) \in Nat /\ f[x] \in Nat
    BY SumIsNatural
  <1>3. SumFunctionOnSet(f, S \union {x}) = f[x] + SumFunctionOnSet(f, (S \union {x}) \ {x})
    BY <1>1, SumRemove
  <1> QED  BY <1>1, <1>2, <1>3

\* The sum looks at the summands in the set and at nothing else.
LEMMA SumSame ==
    ASSUME NEW S, IsFiniteSet(S), NEW f, NEW g, \A x \in S : f[x] \in Nat, \A x \in S : f[x] = g[x]
    PROVE  SumFunctionOnSet(f, S) = SumFunctionOnSet(g, S)
  <1>1. Satisfies(f, S, Sums(f, S)) /\ Satisfies(g, S, Sums(g, S))
    BY SumsUnfold DEF Satisfies
  <1>2. ASSUME NEW s \in SUBSET S, NEW h PROVE Partial(g, h, s) = Partial(f, h, s)
    <2>1. s # {} => AnyOf(s) \in S
      BY AnyOfIsIn
    <2> QED  BY <2>1 DEF Partial
  <1>3. Satisfies(f, S, Sums(g, S))
    BY <1>1, <1>2 DEF Satisfies
  <1>4. Sums(f, S)[S] = Sums(g, S)[S]
    BY <1>1, <1>3, SumsAgree
  <1> QED  BY <1>4, SumIsSums

\* A sum of zeros.
LEMMA SumZero ==
    ASSUME NEW S, IsFiniteSet(S), NEW f, \A x \in S : f[x] = 0
    PROVE  SumFunctionOnSet(f, S) = 0
  <1> DEFINE g == [s \in SUBSET S |-> 0]
  <1>1. Satisfies(f, S, Sums(f, S))
    BY SumsUnfold DEF Satisfies
  <1>2. ASSUME NEW s \in SUBSET S PROVE g[s] = Partial(f, g, s)
    <2>1. s # {} => AnyOf(s) \in S /\ s \ {AnyOf(s)} \in SUBSET S
      BY AnyOfIsIn
    <2> QED  BY <2>1 DEF Partial
  <1>3. Satisfies(f, S, g)
    BY <1>2 DEF Satisfies
  <1>4. Sums(f, S)[S] = g[S]
    BY <1>1, <1>3, SumsAgree
  <1> QED  BY <1>4, SumIsSums

\* Changing one summand changes the sum by the difference.
LEMMA SumChange ==
    ASSUME NEW S, IsFiniteSet(S), NEW f, NEW g, NEW x \in S,
           \A y \in S : f[y] \in Nat /\ g[y] \in Nat,
           \A y \in S \ {x} : g[y] = f[y]
    PROVE  SumFunctionOnSet(g, S) = SumFunctionOnSet(f, S) - f[x] + g[x]
  <1>1. IsFiniteSet(S \ {x})
    BY FS_RemoveElement
  <1>2. /\ SumFunctionOnSet(f, S) = f[x] + SumFunctionOnSet(f, S \ {x})
        /\ SumFunctionOnSet(g, S) = g[x] + SumFunctionOnSet(g, S \ {x})
    BY SumRemove
  <1>3. SumFunctionOnSet(g, S \ {x}) = SumFunctionOnSet(f, S \ {x})
    BY <1>1, SumSame
  <1>4. SumFunctionOnSet(f, S \ {x}) \in Nat /\ f[x] \in Nat /\ g[x] \in Nat
    BY <1>1, SumIsNatural
  <1> QED  BY <1>2, <1>3, <1>4
=============================================================================
