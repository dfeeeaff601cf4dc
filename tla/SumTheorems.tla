----------------------------- MODULE SumTheorems -----------------------------
(***************************************************************************)
(* What the community modules' SumFunctionOnSet computes: the facts about  *)
(* sums over finite sets that the ledgers' proofs rest on.  The operator   *)
(* folds a set by a recursive function on its subsets; that such a         *)
(* function exists is shown first, then the sum is taken apart.  The last  *)
(* section has the facts about \div and % that rates, quotes and packed    *)
(* storage words need.                                                     *)
(***************************************************************************)
EXTENDS Integers, Functions, FiniteSetTheorems, WellFoundedInduction, TLAPS

Some(s) == CHOOSE x \in s : TRUE

\* F adds up f over every subset of S.
Adds(F, f, S) ==
  F = [s \in SUBSET S |-> IF s = {} THEN 0 ELSE f[Some(s)] + F[s \ {Some(s)}]]

\* A set of subsets that holds s once it holds s without any of its elements
\* holds them all.
LEMMA SubsetInduction ==
  ASSUME NEW S, IsFiniteSet(S), NEW T,
         \A s \in SUBSET S : (\A x \in s : s \ {x} \in T) => s \in T
  PROVE  SUBSET S \subseteq T
<1> SUFFICES ASSUME (SUBSET S) \ T # {} PROVE FALSE
  OBVIOUS
<1>0. FiniteSubsetsOf(S) = SUBSET S
  BY FS_FiniteSubsetsOfFinite
<1>1. IsWellFoundedOn(StrictSubsetOrdering(S), SUBSET S)
  <2>1. IsWellFoundedOn(StrictSubsetOrdering(S), FiniteSubsetsOf(S))
    BY FS_StrictSubsetOrderingWellFounded
  <2> QED
    BY <1>0, <2>1
<1>2. PICK s \in (SUBSET S) \ T :
        \A u \in (SUBSET S) \ T : ~ (<<u, s>> \in StrictSubsetOrdering(S))
  BY <1>1, WFMin, (SUBSET S) \ T \subseteq SUBSET S
<1>3. ASSUME NEW x \in s PROVE s \ {x} \in T
  <2>1. s \ {x} \in SUBSET S /\ s \ {x} \subseteq s /\ s \ {x} # s
    OBVIOUS
  <2>2. <<s \ {x}, s>> \in StrictSubsetOrdering(S)
    BY <2>1 DEF StrictSubsetOrdering
  <2> QED
    BY <1>2, <2>1, <2>2
<1> QED
  BY <1>2, <1>3

\* The element that the fold takes out first.
LEMMA SomeIn == ASSUME NEW s, s # {} PROVE Some(s) \in s
BY DEF Some

\* The subsets of at most n elements.
Small(S, n) == {s \in SUBSET S : Cardinality(s) <= n}

AddsSmall(F, f, S, n) ==
  F = [s \in Small(S, n) |-> IF s = {} THEN 0 ELSE f[Some(s)] + F[s \ {Some(s)}]]

\* There is such a function, by induction on the size of the subsets.
LEMMA AddsExists ==
  ASSUME NEW S, IsFiniteSet(S), NEW f
  PROVE  \E F : Adds(F, f, S)
<1> DEFINE Good(n) == \E F : AddsSmall(F, f, S, n)
           Bad == {n \in Nat : ~ Good(n)}
<1>1. \A s \in SUBSET S : IsFiniteSet(s) /\ Cardinality(s) \in Nat
                           /\ Cardinality(s) <= Cardinality(S)
  BY FS_Subset, FS_CardinalityType
<1>2. Good(0)
  <2> DEFINE F == [s \in Small(S, 0) |-> 0]
  <2>1. \A s \in Small(S, 0) : s = {}
    BY <1>1, FS_EmptySet DEF Small
  <2>2. AddsSmall(F, f, S, 0)
    BY <2>1 DEF AddsSmall
  <2> QED
    BY <2>2
<1>3. ASSUME NEW n \in Nat, Good(n) PROVE Good(n + 1)
  <2>1. PICK F : AddsSmall(F, f, S, n)
    BY <1>3
  <2> DEFINE G == [s \in Small(S, n + 1) |->
                     IF s = {} THEN 0 ELSE f[Some(s)] + F[s \ {Some(s)}]]
  <2>2. ASSUME NEW s \in Small(S, n + 1), s # {}
        PROVE  s \ {Some(s)} \in Small(S, n)
    <3>1. Some(s) \in s /\ IsFiniteSet(s) /\ s \in SUBSET S
      BY <1>1, <2>2, SomeIn DEF Small
    <3>2. Cardinality(s \ {Some(s)}) = Cardinality(s) - 1
      BY <3>1, FS_RemoveElement
    <3> QED
      BY <1>1, <3>1, <3>2 DEF Small
  <2>3. \A s \in Small(S, n) : s \in Small(S, n + 1) /\ G[s] = F[s]
    <3>1. \A s \in Small(S, n) : s \in Small(S, n + 1)
      BY <1>1 DEF Small
    <3>2. \A s \in Small(S, n) : F[s] = IF s = {} THEN 0 ELSE f[Some(s)] + F[s \ {Some(s)}]
      BY <2>1 DEF AddsSmall
    <3> QED
      BY <3>1, <3>2
  <2>4. G = [s \in Small(S, n + 1) |-> IF s = {} THEN 0 ELSE f[Some(s)] + G[s \ {Some(s)}]]
    BY <2>2, <2>3
  <2>5. AddsSmall(G, f, S, n + 1)
    BY <2>4 DEF AddsSmall
  <2> QED
    BY <2>5
<1> HIDE DEF Good
<1>4. Bad = {}
  <2> SUFFICES ASSUME Bad # {} PROVE FALSE
    OBVIOUS
  <2>1. PICK n \in Bad : \A k \in Bad : ~ (<<k, n>> \in OpToRel(<, Nat))
    BY NatLessThanWellFounded, WFMin, Bad \subseteq Nat
  <2>2. n \in Nat /\ n # 0 /\ ~ Good(n)
    BY <1>2, <2>1
  <2>3. n - 1 \in Nat /\ n - 1 < n
    BY <2>2
  <2>4. <<n - 1, n>> \in OpToRel(<, Nat)
    BY <2>2, <2>3 DEF OpToRel
  <2>5. Good(n - 1)
    BY <2>1, <2>3, <2>4
  <2>6. Good((n - 1) + 1)
    BY <1>3, <2>3, <2>5
  <2> QED
    BY <2>2, <2>6
<1>5. Small(S, Cardinality(S)) = SUBSET S
  BY <1>1 DEF Small
<1>6. Cardinality(S) \in Nat
  BY FS_CardinalityType
<1>7. Good(Cardinality(S))
  BY <1>4, <1>6
<1> QED
  BY <1>5, <1>7 DEF Good, AddsSmall, Adds

\* The function that the operator chooses.
Partial(f, S) == CHOOSE F : Adds(F, f, S)

\* The partial sums are one.
LEMMA PartialAdds ==
  ASSUME NEW S, IsFiniteSet(S), NEW f
  PROVE  Adds(Partial(f, S), f, S)
BY AddsExists DEF Partial

\* The fold of the community modules returns its value on the whole set.
LEMMA SumIsPartial ==
  ASSUME NEW S, NEW f
  PROVE  SumFunctionOnSet(f, S) = Partial(f, S)[S]
BY DEF SumFunctionOnSet, FoldFunctionOnSet, MapThenFoldSet, Partial, Adds, Some

\* Functions that add up the same values agree where both are defined.
LEMMA AddsAgree ==
  ASSUME NEW S, IsFiniteSet(S), NEW U, S \subseteq U, NEW f, NEW g, NEW F, NEW G,
         Adds(F, f, S), Adds(G, g, U), \A x \in S : f[x] = g[x]
  PROVE  \A s \in SUBSET S : F[s] = G[s]
<1> DEFINE T == {s \in SUBSET S : F[s] = G[s]}
<1>1. ASSUME NEW s \in SUBSET S, \A x \in s : s \ {x} \in T PROVE s \in T
  <2>1. F[s] = IF s = {} THEN 0 ELSE f[Some(s)] + F[s \ {Some(s)}]
    BY DEF Adds
  <2>2. s \in SUBSET U
    BY DEF Adds
  <2>3. G[s] = IF s = {} THEN 0 ELSE g[Some(s)] + G[s \ {Some(s)}]
    BY <2>2 DEF Adds
  <2> QED
    BY <1>1, <2>1, <2>3, SomeIn
<1> HIDE DEF T
<1>2. SUBSET S \subseteq T
  BY <1>1, SubsetInduction
<1> QED
  BY <1>2 DEF T

\* The sum of nothing, and of all that some element leaves.
LEMMA SumEmpty ==
  ASSUME NEW f PROVE SumFunctionOnSet(f, {}) = 0
<1>1. Adds(Partial(f, {}), f, {})
  BY PartialAdds, FS_EmptySet
<1> QED
  BY <1>1, SumIsPartial DEF Adds

\* The sum of a nonempty set starts with the element taken out first.
LEMMA SumSome ==
  ASSUME NEW S, IsFiniteSet(S), S # {}, NEW f
  PROVE  SumFunctionOnSet(f, S) = f[Some(S)] + SumFunctionOnSet(f, S \ {Some(S)})
<1> DEFINE R == S \ {Some(S)}
<1>1. Adds(Partial(f, S), f, S)
  BY PartialAdds
<1>2. IsFiniteSet(R)
  BY FS_RemoveElement
<1>3. Adds(Partial(f, R), f, R)
  BY <1>2, PartialAdds
<1>4. \A s \in SUBSET R : Partial(f, R)[s] = Partial(f, S)[s]
  BY <1>1, <1>2, <1>3, AddsAgree
<1>5. Partial(f, S)[S] = f[Some(S)] + Partial(f, S)[R]
  BY <1>1 DEF Adds
<1> QED
  BY <1>4, <1>5, SumIsPartial

\* Only the values on the set count.
LEMMA SumSame ==
  ASSUME NEW S, IsFiniteSet(S), NEW f, NEW g, \A x \in S : f[x] = g[x]
  PROVE  SumFunctionOnSet(f, S) = SumFunctionOnSet(g, S)
<1>1. Adds(Partial(f, S), f, S) /\ Adds(Partial(g, S), g, S)
  BY PartialAdds
<1>2. \A s \in SUBSET S : Partial(f, S)[s] = Partial(g, S)[s]
  BY <1>1, AddsAgree
<1> QED
  BY <1>2, SumIsPartial

\* Sums of integers are integers.
LEMMA SumInt ==
  ASSUME NEW S, IsFiniteSet(S), NEW f, \A x \in S : f[x] \in Int
  PROVE  \A s \in SUBSET S : SumFunctionOnSet(f, s) \in Int
<1> DEFINE T == {s \in SUBSET S : SumFunctionOnSet(f, s) \in Int}
<1>1. ASSUME NEW s \in SUBSET S, \A x \in s : s \ {x} \in T PROVE s \in T
  <2>1. IsFiniteSet(s)
    BY FS_Subset
  <2>2. CASE s = {}
    BY <2>2, SumEmpty
  <2>3. CASE s # {}
    <3>1. Some(s) \in s
      BY <2>3, SomeIn
    <3>2. SumFunctionOnSet(f, s \ {Some(s)}) \in Int /\ f[Some(s)] \in Int
      BY <1>1, <3>1
    <3>3. SumFunctionOnSet(f, s) = f[Some(s)] + SumFunctionOnSet(f, s \ {Some(s)})
      BY <2>1, <2>3, SumSome
    <3> QED
      BY <3>2, <3>3
  <2> QED
    BY <2>2, <2>3
<1> HIDE DEF T
<1>2. SUBSET S \subseteq T
  BY <1>1, SubsetInduction
<1> QED
  BY <1>2 DEF T

\* Any element can be taken out.
LEMMA SumRemove ==
  ASSUME NEW S, IsFiniteSet(S), NEW f, \A x \in S : f[x] \in Int
  PROVE  \A x \in S : SumFunctionOnSet(f, S) = f[x] + SumFunctionOnSet(f, S \ {x})
<1> DEFINE T == {s \in SUBSET S :
                   \A x \in s : SumFunctionOnSet(f, s) = f[x] + SumFunctionOnSet(f, s \ {x})}
<1>1. ASSUME NEW s \in SUBSET S, \A x \in s : s \ {x} \in T PROVE s \in T
  <2> SUFFICES ASSUME NEW x \in s, x # Some(s)
               PROVE  SumFunctionOnSet(f, s) = f[x] + SumFunctionOnSet(f, s \ {x})
    BY SumSome, FS_Subset
  <2> DEFINE c == Some(s)
  <2>1. IsFiniteSet(s) /\ c \in s /\ s # {}
    BY FS_Subset, SomeIn
  <2>2. SumFunctionOnSet(f, s) = f[c] + SumFunctionOnSet(f, s \ {c})
    BY <2>1, SumSome
  <2> HIDE DEF c
  <2>3. x \in s \ {c} /\ c \in s \ {x}
    BY <2>1 DEF c
  <2>4. SumFunctionOnSet(f, s \ {c}) = f[x] + SumFunctionOnSet(f, (s \ {c}) \ {x})
    BY <1>1, <2>1, <2>3
  <2>5. SumFunctionOnSet(f, s \ {x}) = f[c] + SumFunctionOnSet(f, (s \ {x}) \ {c})
    BY <1>1, <2>1, <2>3
  <2> DEFINE R == (s \ {c}) \ {x}
  <2>6. R = (s \ {x}) \ {c} /\ R \in SUBSET S
    OBVIOUS
  <2>7. SumFunctionOnSet(f, R) \in Int /\ f[c] \in Int /\ f[x] \in Int
    BY <2>1, <2>6, SumInt
  <2>8. SumFunctionOnSet(f, s \ {x}) = f[c] + SumFunctionOnSet(f, R)
    BY <2>5, <2>6
  <2> HIDE DEF R
  <2> QED
    BY <2>2, <2>4, <2>7, <2>8 DEF R
<1> HIDE DEF T
<1>2. SUBSET S \subseteq T
  BY <1>1, SubsetInduction
<1> QED
  BY <1>2 DEF T

\* A ledger: one entry is changed.
LEMMA SumUpdate ==
  ASSUME NEW S, IsFiniteSet(S), NEW f \in [S -> Int], NEW x \in S, NEW v \in Int
  PROVE  SumFunction([f EXCEPT ![x] = v]) = SumFunction(f) + v - f[x]
<1> DEFINE g == [f EXCEPT ![x] = v]
<1>1. g \in [S -> Int] /\ g[x] = v /\ \A y \in S \ {x} : g[y] = f[y]
  OBVIOUS
<1> HIDE DEF g
<1>2. IsFiniteSet(S \ {x})
  BY FS_RemoveElement
<1>3. SumFunctionOnSet(f, S \ {x}) = SumFunctionOnSet(g, S \ {x})
  BY <1>1, <1>2, SumSame
<1>4. SumFunctionOnSet(f, S) = f[x] + SumFunctionOnSet(f, S \ {x})
  BY SumRemove
<1>5. SumFunctionOnSet(g, S) = v + SumFunctionOnSet(g, S \ {x})
  BY <1>1, SumRemove
<1>6. SumFunctionOnSet(f, S \ {x}) \in Int
  BY SumInt
<1>7. DOMAIN f = S /\ DOMAIN g = S
  BY <1>1
<1> QED
  BY <1>3, <1>4, <1>5, <1>6, <1>7 DEF SumFunction, g

\* Sums of amounts are amounts, and no entry exceeds the sum.
LEMMA SumNat ==
  ASSUME NEW S, IsFiniteSet(S), NEW f, \A x \in S : f[x] \in Nat
  PROVE  \A s \in SUBSET S : SumFunctionOnSet(f, s) \in Nat
<1> DEFINE T == {s \in SUBSET S : SumFunctionOnSet(f, s) \in Nat}
<1>1. ASSUME NEW s \in SUBSET S, \A x \in s : s \ {x} \in T PROVE s \in T
  <2>1. IsFiniteSet(s)
    BY FS_Subset
  <2>2. CASE s = {}
    BY <2>2, SumEmpty
  <2>3. CASE s # {}
    <3>1. Some(s) \in s
      BY <2>3, SomeIn
    <3>2. SumFunctionOnSet(f, s \ {Some(s)}) \in Nat /\ f[Some(s)] \in Nat
      BY <1>1, <3>1
    <3> QED
      BY <2>1, <2>3, <3>2, SumSome
  <2> QED
    BY <2>2, <2>3
<1> HIDE DEF T
<1>2. SUBSET S \subseteq T
  BY <1>1, SubsetInduction
<1> QED
  BY <1>2 DEF T

\* No entry exceeds the sum.
LEMMA SumBounds ==
  ASSUME NEW S, IsFiniteSet(S), NEW f, \A x \in S : f[x] \in Nat
  PROVE  \A x \in S : f[x] <= SumFunctionOnSet(f, S)
<1> SUFFICES ASSUME NEW x \in S PROVE f[x] <= SumFunctionOnSet(f, S)
  OBVIOUS
<1>1. SumFunctionOnSet(f, S) = f[x] + SumFunctionOnSet(f, S \ {x})
  BY SumRemove
<1>2. SumFunctionOnSet(f, S \ {x}) \in Nat
  BY SumNat
<1> QED
  BY <1>1, <1>2

\* Two ledgers are added, or one scaled entry by entry.
LEMMA SumPlus ==
  ASSUME NEW S, IsFiniteSet(S), NEW f, NEW g, NEW h,
         \A x \in S : f[x] \in Int /\ g[x] \in Int /\ h[x] = f[x] + g[x]
  PROVE  SumFunctionOnSet(h, S) = SumFunctionOnSet(f, S) + SumFunctionOnSet(g, S)
<1> DEFINE T == {s \in SUBSET S : SumFunctionOnSet(h, s)
                                    = SumFunctionOnSet(f, s) + SumFunctionOnSet(g, s)}
<1>1. ASSUME NEW s \in SUBSET S, \A x \in s : s \ {x} \in T PROVE s \in T
  <2>1. IsFiniteSet(s)
    BY FS_Subset
  <2>2. CASE s = {}
    BY <2>2, SumEmpty
  <2>3. CASE s # {}
    <3> DEFINE c == Some(s)
               R == s \ {c}
    <3>1. c \in s /\ R \in SUBSET S
      BY <2>3, SomeIn
    <3>2. SumFunctionOnSet(h, R) = SumFunctionOnSet(f, R) + SumFunctionOnSet(g, R)
      BY <1>1, <3>1
    <3>3. /\ SumFunctionOnSet(h, s) = h[c] + SumFunctionOnSet(h, R)
          /\ SumFunctionOnSet(f, s) = f[c] + SumFunctionOnSet(f, R)
          /\ SumFunctionOnSet(g, s) = g[c] + SumFunctionOnSet(g, R)
      BY <2>1, <2>3, SumSome
    <3> HIDE DEF c
    <3>4. SumFunctionOnSet(f, R) \in Int /\ SumFunctionOnSet(g, R) \in Int
      BY <3>1, SumInt
    <3>5. f[c] \in Int /\ g[c] \in Int /\ h[c] = f[c] + g[c]
      BY <3>1
    <3> HIDE DEF R
    <3>6. SumFunctionOnSet(h, s) = SumFunctionOnSet(f, s) + SumFunctionOnSet(g, s)
      BY <3>2, <3>3, <3>4, <3>5
    <3> QED
      BY <3>6
  <2> QED
    BY <2>2, <2>3
<1> HIDE DEF T
<1>2. SUBSET S \subseteq T
  BY <1>1, SubsetInduction
<1> QED
  BY <1>2 DEF T

\* The sum of zeros.
LEMMA SumZero ==
  ASSUME NEW S, IsFiniteSet(S), NEW f, \A x \in S : f[x] = 0
  PROVE  SumFunctionOnSet(f, S) = 0
<1> DEFINE T == {s \in SUBSET S : SumFunctionOnSet(f, s) = 0}
<1>1. ASSUME NEW s \in SUBSET S, \A x \in s : s \ {x} \in T PROVE s \in T
  <2>1. IsFiniteSet(s)
    BY FS_Subset
  <2>2. CASE s = {}
    BY <2>2, SumEmpty
  <2>3. CASE s # {}
    <3>1. Some(s) \in s /\ f[Some(s)] = 0
      BY <2>3, SomeIn
    <3>2. SumFunctionOnSet(f, s \ {Some(s)}) = 0
      BY <1>1, <3>1
    <3>3. SumFunctionOnSet(f, s) = f[Some(s)] + SumFunctionOnSet(f, s \ {Some(s)})
      BY <2>1, <2>3, SumSome
    <3> QED
      BY <3>1, <3>2, <3>3
  <2> QED
    BY <2>2, <2>3
<1> HIDE DEF T
<1>2. SUBSET S \subseteq T
  BY <1>1, SubsetInduction
<1> QED
  BY <1>2 DEF T

\* The sum over a part and over the rest.
LEMMA SumSplit ==
  ASSUME NEW S, IsFiniteSet(S), NEW U \in SUBSET S, NEW f, \A x \in S : f[x] \in Int
  PROVE  SumFunctionOnSet(f, S) = SumFunctionOnSet(f, U) + SumFunctionOnSet(f, S \ U)
<1> DEFINE T == {s \in SUBSET U : SumFunctionOnSet(f, S)
                                    = SumFunctionOnSet(f, s) + SumFunctionOnSet(f, S \ s)}
<1>1. ASSUME NEW s \in SUBSET U, \A x \in s : s \ {x} \in T PROVE s \in T
  <2>1. IsFiniteSet(s) /\ s \in SUBSET S
    BY FS_Subset
  <2>2. CASE s = {}
    <3>1. S \ s = S
      BY <2>2
    <3>2. SumFunctionOnSet(f, S) \in Int
      BY SumInt
    <3> QED
      BY <2>2, <3>1, <3>2, SumEmpty
  <2>3. CASE s # {}
    <3> DEFINE c == Some(s)
               R == s \ {c}
               O == S \ s
    <3>1. c \in s /\ R \in SUBSET S /\ O \in SUBSET S
      BY <2>1, <2>3, SomeIn
    <3>2. SumFunctionOnSet(f, S) = SumFunctionOnSet(f, R) + SumFunctionOnSet(f, S \ R)
      BY <1>1, <3>1
    <3>3. SumFunctionOnSet(f, s) = f[c] + SumFunctionOnSet(f, R)
      BY <2>1, <2>3, SumSome
    <3> HIDE DEF c
    <3>4. c \in S \ R /\ (S \ R) \ {c} = O /\ S \ R \in SUBSET S
      BY <2>1, <3>1
    <3>5. IsFiniteSet(S \ R)
      BY <3>4, FS_Subset
    <3>6. \A x \in S \ R : f[x] \in Int
      OBVIOUS
    <3>7. SumFunctionOnSet(f, S \ R) = f[c] + SumFunctionOnSet(f, (S \ R) \ {c})
      BY <3>4, <3>5, <3>6, SumRemove
    <3>8. SumFunctionOnSet(f, S \ R) = f[c] + SumFunctionOnSet(f, O)
      BY <3>4, <3>7
    <3>9. SumFunctionOnSet(f, R) \in Int /\ SumFunctionOnSet(f, O) \in Int /\ f[c] \in Int
      BY <2>1, <3>1, SumInt
    <3> HIDE DEF R, O
    <3>10. SumFunctionOnSet(f, S) = SumFunctionOnSet(f, s) + SumFunctionOnSet(f, O)
      BY <3>2, <3>3, <3>8, <3>9
    <3> QED
      BY <3>10 DEF O
  <2> QED
    BY <2>2, <2>3
<1> HIDE DEF T
<1>2. SUBSET U \subseteq T
  <2>1. IsFiniteSet(U)
    BY FS_Subset
  <2> QED
    BY <1>1, <2>1, SubsetInduction
<1> QED
  BY <1>2 DEF T
\* The same values under other names.
LEMMA SumRenamed ==
  ASSUME NEW S, IsFiniteSet(S), NEW m, NEW f, NEW g,
         \A x, y \in S : m[x] = m[y] => x = y,
         \A x \in S : f[x] \in Int /\ g[m[x]] = f[x]
  PROVE  /\ IsFiniteSet({m[x] : x \in S})
         /\ SumFunctionOnSet(f, S) = SumFunctionOnSet(g, {m[x] : x \in S})
<1> DEFINE Names(s) == {m[x] : x \in s}
           T == {s \in SUBSET S : /\ IsFiniteSet(Names(s))
                                  /\ SumFunctionOnSet(f, s) = SumFunctionOnSet(g, Names(s))}
<1>1. ASSUME NEW s \in SUBSET S, \A x \in s : s \ {x} \in T PROVE s \in T
  <2>1. IsFiniteSet(s)
    BY FS_Subset
  <2>2. CASE s = {}
    <3>1. Names(s) = {}
      BY <2>2
    <3> QED
      BY <2>2, <3>1, SumEmpty, FS_EmptySet
  <2>3. CASE s # {}
    <3> DEFINE c == Some(s)
               R == s \ {c}
    <3>1. c \in s /\ R \in SUBSET S
      BY <2>3, SomeIn
    <3>2. IsFiniteSet(Names(R)) /\ SumFunctionOnSet(f, R) = SumFunctionOnSet(g, Names(R))
      BY <1>1, <3>1
    <3>3. SumFunctionOnSet(f, s) = f[c] + SumFunctionOnSet(f, R)
      BY <2>1, <2>3, SumSome
    <3> HIDE DEF c
    <3>4. /\ Names(s) = Names(R) \cup {m[c]}
          /\ m[c] \in Names(s)
          /\ Names(s) \ {m[c]} = Names(R)
      BY <3>1
    <3>6. \A y \in Names(s) : g[y] \in Int
      BY <3>1
    <3> HIDE DEF Names
    <3>5. IsFiniteSet(Names(s))
      <4>1. IsFiniteSet(Names(R) \cup {m[c]})
        BY <3>2, FS_AddElement
      <4> QED
        BY <3>4, <4>1
    <3>7. SumFunctionOnSet(g, Names(s)) = g[m[c]] + SumFunctionOnSet(g, Names(s) \ {m[c]})
      BY <3>4, <3>5, <3>6, SumRemove
    <3>8. g[m[c]] = f[c]
      BY <3>1
    <3>9. SumFunctionOnSet(f, s) = SumFunctionOnSet(g, Names(s))
      BY <3>2, <3>3, <3>4, <3>7, <3>8
    <3> QED
      BY <3>5, <3>9 DEF Names
  <2> QED
    BY <2>2, <2>3
<1> HIDE DEF T
<1>2. SUBSET S \subseteq T
  BY <1>1, SubsetInduction
<1> QED
  BY <1>2 DEF T, Names

----------------------------------------------------------------------------
(* Quotients and remainders. *)

\* A quotient and a remainder are the only ones.
LEMMA DivisionUnique ==
  ASSUME NEW s \in Nat \ {0}, NEW k \in Nat, NEW m \in 0 .. s - 1
  PROVE  (s * k + m) \div s = k /\ (s * k + m) % s = m
<1> DEFINE n == s * k + m
           d == n \div s
           e == n % s
<1>1. n \in Nat /\ s * k \in Nat
  OBVIOUS
<1>2. d \in Nat /\ e \in 0 .. s - 1 /\ n = s * d + e
  BY <1>1
<1>3. s * k + m = s * d + e
  BY <1>2
<1> HIDE DEF d, e
<1>4. ~ k < d
  <2> SUFFICES ASSUME k < d PROVE FALSE
    OBVIOUS
  <2>1. d - k - 1 \in Nat /\ s * (d - k - 1) \in Nat
    BY <1>2
  <2>2. s * (d - k - 1) = s * d - (s * k) - s
    BY <1>2
  <2>3. s * d \in Int /\ s * k \in Int
    BY <1>1, <1>2
  <2> QED
    BY <1>2, <1>3, <2>1, <2>2, <2>3
<1>5. ~ d < k
  <2> SUFFICES ASSUME d < k PROVE FALSE
    OBVIOUS
  <2>1. k - d - 1 \in Nat /\ s * (k - d - 1) \in Nat
    BY <1>2
  <2>2. s * (k - d - 1) = s * k - (s * d) - s
    BY <1>2
  <2>3. s * d \in Int /\ s * k \in Int
    BY <1>1, <1>2
  <2> QED
    BY <1>2, <1>3, <2>1, <2>2, <2>3
<1>6. d = k
  BY <1>2, <1>4, <1>5
<1>7. e = m
  BY <1>1, <1>2, <1>3, <1>6
<1> QED
  BY <1>6, <1>7 DEF d, e

\* What is divided in two steps with the remainder carried over is divided as
\* in one.
LEMMA DivisionCarried ==
  ASSUME NEW s \in Nat \ {0}, NEW a \in Nat, NEW b \in Nat
  PROVE  /\ (a + b) \div s = a \div s + ((a % s) + b) \div s
         /\ (a + b) % s = ((a % s) + b) % s
<1> DEFINE q == a \div s
           c == (a % s) + b
           d == c \div s
           m == c % s
<1>1. q \in Nat /\ a % s \in 0 .. s - 1 /\ a = s * q + (a % s)
  OBVIOUS
<1>2. c \in Nat
  BY <1>1
<1> HIDE DEF c
<1>3. d \in Nat /\ m \in 0 .. s - 1 /\ c = s * d + m
  BY <1>2
<1> HIDE DEF q, d, m
<1>4. s * (q + d) = s * q + s * d /\ s * q \in Nat /\ s * d \in Nat
  BY <1>1, <1>3
<1>5. a + b = s * q + c
  BY <1>1, <1>4 DEF c
<1>6. a + b = s * (q + d) + m
  BY <1>1, <1>3, <1>4, <1>5
<1>7. q + d \in Nat
  BY <1>1, <1>3
<1>8. (s * (q + d) + m) \div s = q + d /\ (s * (q + d) + m) % s = m
  BY <1>3, <1>7, DivisionUnique
<1>9. (a + b) \div s = q + d /\ (a + b) % s = m
  BY <1>6, <1>8
<1> QED
  BY <1>9 DEF q, d, m, c

\* More is not divided into less.
LEMMA QuotientGrows ==
  ASSUME NEW s \in Nat \ {0}, NEW x \in Nat, NEW y \in Nat, x <= y
  PROVE  x \div s <= y \div s
<1> DEFINE b == y - x
           c == (x % s) + b
<1>1. b \in Nat /\ x + b = y
  OBVIOUS
<1> HIDE DEF b
<1>2. y \div s = x \div s + c \div s
  BY <1>1, DivisionCarried
<1>3. x \div s \in Nat /\ x % s \in Nat
  OBVIOUS
<1>4. c \in Nat
  BY <1>1, <1>3
<1> HIDE DEF c
<1>5. c \div s \in Nat
  BY <1>4
<1> QED
  BY <1>2, <1>3, <1>5
=============================================================================
