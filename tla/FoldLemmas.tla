------------------------------ MODULE FoldLemmas ------------------------------
(***************************************************************************)
(* Induction, and what it gives for the sums the modules take over finite  *)
(* sets (SumFunctionOnSet) and the lists they filter (Keep).  The          *)
(* library's induction theorems take the property as an operator; here a   *)
(* property is the set of the numbers that have it, and induction is the   *)
(* least element of its complement.                                        *)
(***************************************************************************)
EXTENDS Filter, FiniteSets, Functions, FiniteSetTheorems, WellFoundedInduction, TLAPS

(* A set of naturals that is not empty has a least element. *)
LEMMA LeastNat ==
  ASSUME NEW T \in SUBSET Nat, T # {}
  PROVE  \E n \in T : \A m \in T : n <= m
  <1> DEFINE R == OpToRel(<, Nat)
  <1>1. IsWellFoundedOn(R, Nat)
    BY NatLessThanWellFounded
  <1>2. \A m, n \in Nat : m < n => <<m, n>> \in R
    BY DEF OpToRel
  <1> HIDE DEF R
  <1>3. PICK n \in T : \A m \in T : <<m, n>> \notin R
    BY <1>1, WFMin, Zenon
  <1>4. \A m \in T : ~(m < n)
    BY <1>2, <1>3
  <1>. QED
    BY <1>3, <1>4

(* Induction over a set of naturals. *)
LEMMA NatInd ==
  ASSUME NEW T, 0 \in T, \A n \in Nat : n \in T => n + 1 \in T
  PROVE  \A n \in Nat : n \in T
  <1> SUFFICES ASSUME Nat \ T # {} PROVE FALSE
    OBVIOUS
  <1>1. PICK n \in Nat \ T : \A m \in Nat \ T : n <= m
    BY LeastNat
  <1>2. n # 0 /\ n - 1 \in Nat
    BY <1>1
  <1>3. n - 1 \in T
    BY <1>1, <1>2
  <1>. QED
    BY <1>1, <1>2, <1>3

-------------------------------------------------------------------------------
(* The recursive function behind SumFunctionOnSet, and that it exists. *)

SumStep(w, g, s) == IF s = {} THEN 0
                 ELSE LET x == CHOOSE x \in s : TRUE IN w[x] + g[s \ {x}]
Sums(w, D) == CHOOSE g : g = [s \in SUBSET D |-> SumStep(w, g, s)]
UpTo(D, n) == {s \in SUBSET D : Cardinality(s) <= n}

(* SumFunctionOnSet is the last value of a recursive function over subsets. *)
LEMMA SumIsSums ==
  ASSUME NEW w, NEW S
  PROVE  SumFunctionOnSet(w, S) = Sums(w, S)[S]
  BY DEF SumFunctionOnSet, FoldFunctionOnSet, MapThenFoldSet, Sums, SumStep

(* Its argument shrinks: a set without one of its elements. *)
LEMMA Smaller ==
  ASSUME NEW D, IsFiniteSet(D), NEW s \in SUBSET D, NEW x \in s
  PROVE  /\ s \ {x} \in SUBSET D
         /\ Cardinality(s) \in Nat \ {0} /\ Cardinality(s \ {x}) = Cardinality(s) - 1
  <1>1. IsFiniteSet(s)
    BY FS_Subset
  <1>2. Cardinality(s \ {x}) = Cardinality(s) - 1
    BY <1>1, FS_RemoveElement
  <1>3. Cardinality(s) \in Nat /\ Cardinality(s) # 0
    BY <1>1, FS_CardinalityType, FS_EmptySet
  <1>. QED
    BY <1>2, <1>3

(* The recursive function exists, on every finite set. *)
LEMMA SumsExist ==
  ASSUME NEW w, NEW D, IsFiniteSet(D)
  PROVE  \A s \in SUBSET D : Sums(w, D)[s] = SumStep(w, Sums(w, D), s)
  <1> DEFINE Has(n) == \E g : g = [s \in UpTo(D, n) |-> SumStep(w, g, s)]
             T == {n \in Nat : Has(n)}
  <1>1. 0 \in T
    <2> DEFINE g == [s \in UpTo(D, 0) |-> 0]
    <2>1. \A s \in UpTo(D, 0) : s = {}
      <3> SUFFICES ASSUME NEW s \in UpTo(D, 0) PROVE s = {}
        OBVIOUS
      <3>1. IsFiniteSet(s) /\ Cardinality(s) <= 0
        BY FS_Subset DEF UpTo
      <3>. QED
        BY <3>1, FS_CardinalityType, FS_EmptySet
    <2>2. g = [s \in UpTo(D, 0) |-> SumStep(w, g, s)]
      BY <2>1 DEF SumStep
    <2>. QED
      BY <2>2
  <1>2. \A n \in Nat : n \in T => n + 1 \in T
    <2> SUFFICES ASSUME NEW n \in Nat, NEW g, g = [s \in UpTo(D, n) |-> SumStep(w, g, s)]
                 PROVE  Has(n + 1)
      OBVIOUS
    <2> DEFINE h == [s \in UpTo(D, n + 1) |-> SumStep(w, g, s)]
    <2>1. ASSUME NEW s \in UpTo(D, n + 1) PROVE SumStep(w, g, s) = SumStep(w, h, s)
      <3>1. CASE s = {}
        BY <3>1 DEF SumStep
      <3>2. CASE s # {}
        <4> DEFINE x == CHOOSE x \in s : TRUE
        <4>1. x \in s
          BY <3>2
        <4>2. s \ {x} \in UpTo(D, n) /\ s \ {x} \in UpTo(D, n + 1)
          <5>1. s \in SUBSET D /\ Cardinality(s) <= n + 1
            BY DEF UpTo
          <5>2. /\ s \ {x} \in SUBSET D /\ Cardinality(s) \in Nat \ {0}
                /\ Cardinality(s \ {x}) = Cardinality(s) - 1
            BY <4>1, <5>1, Smaller
          <5>. QED
            BY <5>1, <5>2 DEF UpTo
        <4>3. h[s \ {x}] = g[s \ {x}]
          BY <4>2, Zenon
        <4>. QED
          BY <3>2, <4>3 DEF SumStep
      <3>. QED
        BY <3>1, <3>2
    <2>2. h = [s \in UpTo(D, n + 1) |-> SumStep(w, h, s)]
      BY <2>1, Zenon
    <2>. QED
      BY <2>2
  <1> HIDE DEF T
  <1>3. \A n \in Nat : n \in T
    BY <1>1, <1>2, NatInd
  <1>4. Cardinality(D) \in T
    BY <1>3, FS_CardinalityType
  <1>5. UpTo(D, Cardinality(D)) = SUBSET D
    BY FS_Subset DEF UpTo
  <1>6. \E g : g = [s \in SUBSET D |-> SumStep(w, g, s)]
    BY <1>4, <1>5, Zenon DEF T
  <1>7. Sums(w, D) = [s \in SUBSET D |-> SumStep(w, Sums(w, D), s)]
    BY <1>6, Zenon DEF Sums
  <1>. QED
    BY <1>7, Zenon

(* The recursive function does not depend on the set it is defined over. *)
LEMMA SumsRestrict ==
  ASSUME NEW w, NEW D, IsFiniteSet(D), NEW E \in SUBSET D
  PROVE  Sums(w, D)[E] = Sums(w, E)[E]
  <1> DEFINE T == {n \in Nat : \A s \in SUBSET E :
                      Cardinality(s) <= n => Sums(w, D)[s] = Sums(w, E)[s]}
  <1>1. IsFiniteSet(E)
    BY FS_Subset
  <1>2. /\ \A s \in SUBSET E : Sums(w, D)[s] = SumStep(w, Sums(w, D), s)
        /\ \A s \in SUBSET E : Sums(w, E)[s] = SumStep(w, Sums(w, E), s)
    <2>1. SUBSET E \subseteq SUBSET D
      OBVIOUS
    <2>. QED
      BY <1>1, <2>1, SumsExist
  <1>3. 0 \in T
    <2> SUFFICES ASSUME NEW s \in SUBSET E, Cardinality(s) <= 0
                 PROVE  Sums(w, D)[s] = Sums(w, E)[s]
      OBVIOUS
    <2>1. s = {}
      <3>1. IsFiniteSet(s)
        BY <1>1, FS_Subset
      <3>. QED
        BY <3>1, FS_CardinalityType, FS_EmptySet
    <2>. QED
      BY <1>2, <2>1 DEF SumStep
  <1>4. \A n \in Nat : n \in T => n + 1 \in T
    <2> SUFFICES ASSUME NEW n \in Nat, n \in T, NEW s \in SUBSET E, Cardinality(s) <= n + 1
                 PROVE  Sums(w, D)[s] = Sums(w, E)[s]
      OBVIOUS
    <2>1. CASE s = {}
      BY <1>2, <2>1 DEF SumStep
    <2>2. CASE s # {}
      <3> DEFINE x == CHOOSE x \in s : TRUE
      <3>1. x \in s
        BY <2>2
      <3>2. /\ s \ {x} \in SUBSET E /\ Cardinality(s) \in Nat \ {0}
            /\ Cardinality(s \ {x}) = Cardinality(s) - 1
        BY <1>1, <3>1, Smaller
      <3>3. Cardinality(s \ {x}) <= n
        BY <3>2
      <3>4. Sums(w, D)[s \ {x}] = Sums(w, E)[s \ {x}]
        BY <3>2, <3>3
      <3>. QED
        BY <1>2, <2>2, <3>4, Zenon DEF SumStep
    <2>. QED
      BY <2>1, <2>2
  <1> HIDE DEF T
  <1>5. Cardinality(E) \in T
    BY <1>1, <1>3, <1>4, NatInd, FS_CardinalityType
  <1>6. Cardinality(E) \in Nat
    BY <1>1, FS_CardinalityType
  <1>. QED
    BY <1>5, <1>6 DEF T

-------------------------------------------------------------------------------
(* What the proofs use: the sum by any one element, its type and its order. *)

(* A sum over nothing. *)
LEMMA SumEmpty == ASSUME NEW w PROVE SumFunctionOnSet(w, {}) = 0
  <1>1. IsFiniteSet({})
    BY FS_EmptySet
  <1>2. Sums(w, {})[{}] = SumStep(w, Sums(w, {}), {})
    BY <1>1, SumsExist
  <1>. QED
    BY <1>2, SumIsSums DEF SumStep

(* A sum is that of the chosen element and of the rest, *)
LEMMA SumByChoice ==
  ASSUME NEW w, NEW S, IsFiniteSet(S), S # {}
  PROVE  \E x \in S : SumFunctionOnSet(w, S) = w[x] + SumFunctionOnSet(w, S \ {x})
  <1> DEFINE x == CHOOSE x \in S : TRUE
  <1>1. x \in S
    OBVIOUS
  <1>3. Sums(w, S)[S] = SumStep(w, Sums(w, S), S)
    BY SumsExist
  <1>4. Sums(w, S)[S] = w[x] + Sums(w, S)[S \ {x}]
    BY <1>3 DEF SumStep
  <1>5. Sums(w, S)[S \ {x}] = Sums(w, S \ {x})[S \ {x}]
    BY SumsRestrict
  <1>6. Sums(w, S \ {x})[S \ {x}] = SumFunctionOnSet(w, S \ {x})
    BY SumIsSums
  <1>7. SumFunctionOnSet(w, S) = Sums(w, S)[S]
    BY SumIsSums
  <1>. QED
    BY <1>1, <1>4, <1>5, <1>6, <1>7

(* A sum of naturals is a natural. *)
LEMMA SumNat ==
  ASSUME NEW w, NEW S, IsFiniteSet(S), \A x \in S : w[x] \in Nat
  PROVE  SumFunctionOnSet(w, S) \in Nat
  <1> DEFINE T == {n \in Nat : \A s \in SUBSET S :
                      Cardinality(s) = n => SumFunctionOnSet(w, s) \in Nat}
  <1>1. 0 \in T
    <2> SUFFICES ASSUME NEW s \in SUBSET S, Cardinality(s) = 0
                 PROVE  SumFunctionOnSet(w, s) \in Nat
      OBVIOUS
    <2>1. s = {}
      BY FS_Subset, FS_EmptySet
    <2>. QED
      BY <2>1, SumEmpty
  <1>2. \A n \in Nat : n \in T => n + 1 \in T
    <2> SUFFICES ASSUME NEW n \in Nat, n \in T, NEW s \in SUBSET S, Cardinality(s) = n + 1
                 PROVE  SumFunctionOnSet(w, s) \in Nat
      OBVIOUS
    <2>1. IsFiniteSet(s) /\ s # {}
      BY FS_Subset, FS_EmptySet
    <2>2. PICK x \in s : SumFunctionOnSet(w, s) = w[x] + SumFunctionOnSet(w, s \ {x})
      BY <2>1, SumByChoice
    <2>3. s \ {x} \in SUBSET S /\ Cardinality(s \ {x}) = n
      BY Smaller
    <2>4. SumFunctionOnSet(w, s \ {x}) \in Nat
      BY <2>3
    <2>. QED
      BY <2>2, <2>4
  <1> HIDE DEF T
  <1>3. Cardinality(S) \in T
    BY <1>1, <1>2, NatInd, FS_CardinalityType
  <1>. QED
    BY <1>3 DEF T

(* and that of any element and of the rest. *)
LEMMA SumByAny ==
  ASSUME NEW w, NEW S, IsFiniteSet(S), \A x \in S : w[x] \in Nat, NEW y \in S
  PROVE  SumFunctionOnSet(w, S) = w[y] + SumFunctionOnSet(w, S \ {y})
  <1> DEFINE T == {n \in Nat : \A s \in SUBSET S : Cardinality(s) = n =>
                      \A z \in s : SumFunctionOnSet(w, s) = w[z] + SumFunctionOnSet(w, s \ {z})}
  <1>1. 0 \in T
    <2> SUFFICES ASSUME NEW s \in SUBSET S, Cardinality(s) = 0
                 PROVE  s = {}
      OBVIOUS
    <2>. QED
      BY FS_Subset, FS_EmptySet
  <1>2. \A n \in Nat : n \in T => n + 1 \in T
    <2> SUFFICES ASSUME NEW n \in Nat, n \in T
                 PROVE  n + 1 \in T
      OBVIOUS
    <2> SUFFICES ASSUME NEW s \in SUBSET S, Cardinality(s) = n + 1, NEW z \in s
                 PROVE  SumFunctionOnSet(w, s) = w[z] + SumFunctionOnSet(w, s \ {z})
      OBVIOUS
    <2>1. IsFiniteSet(s) /\ s # {}
      BY FS_Subset
    <2>2. PICK x \in s : SumFunctionOnSet(w, s) = w[x] + SumFunctionOnSet(w, s \ {x})
      BY <2>1, SumByChoice
    <2>3. CASE x = z
      BY <2>2, <2>3
    <2>4. CASE x # z
      <3> DEFINE rest == (s \ {x}) \ {z}
      <3>1. /\ s \ {x} \in SUBSET S /\ Cardinality(s \ {x}) = n
            /\ s \ {z} \in SUBSET S /\ Cardinality(s \ {z}) = n
        BY Smaller
      <3>2. SumFunctionOnSet(w, s \ {x}) = w[z] + SumFunctionOnSet(w, rest)
        BY <2>4, <3>1
      <3>4. rest = (s \ {z}) \ {x}
        OBVIOUS
      <3>3. SumFunctionOnSet(w, s \ {z}) = w[x] + SumFunctionOnSet(w, rest)
        BY <2>4, <3>1, <3>4
      <3>5. IsFiniteSet(rest)
        BY FS_Subset
      <3>6. SumFunctionOnSet(w, rest) \in Nat
        BY <3>5, SumNat
      <3>7. w[x] \in Nat /\ w[z] \in Nat
        OBVIOUS
      <3> HIDE DEF rest
      <3>. QED
        BY <2>2, <3>2, <3>3, <3>6, <3>7
    <2>. QED
      BY <2>3, <2>4
  <1> HIDE DEF T
  <1>3. Cardinality(S) \in T
    BY <1>1, <1>2, NatInd, FS_CardinalityType
  <1>. QED
    BY <1>3 DEF T

(* A sum with one more element. *)
LEMMA SumAdd ==
  ASSUME NEW w, NEW S, NEW y, IsFiniteSet(S), y \notin S,
         \A x \in S \union {y} : w[x] \in Nat
  PROVE  SumFunctionOnSet(w, S \union {y}) = w[y] + SumFunctionOnSet(w, S)
  <1>1. IsFiniteSet(S \union {y})
    BY FS_AddElement
  <1>2. (S \union {y}) \ {y} = S
    OBVIOUS
  <1>. QED
    BY <1>1, <1>2, SumByAny

(* If one set maps into another without collisions and no weight shrinks on the *)
(* way, its sum is at most the other's.                                         *)
LEMMA SumInjection ==
  ASSUME NEW w, NEW S, NEW v, NEW R, NEW f, IsFiniteSet(S), IsFiniteSet(R),
         \A x \in S : w[x] \in Nat, \A x \in R : v[x] \in Nat,
         \A x \in S : f[x] \in R /\ w[x] <= v[f[x]],
         \A x, y \in S : f[x] = f[y] => x = y
  PROVE  SumFunctionOnSet(w, S) <= SumFunctionOnSet(v, R)
  <1> DEFINE T == {n \in Nat : \A s \in SUBSET S, r \in SUBSET R :
                      Cardinality(s) = n /\ (\A x \in s : f[x] \in r) =>
                        SumFunctionOnSet(w, s) <= SumFunctionOnSet(v, r)}
  <1>1. 0 \in T
    <2> SUFFICES ASSUME NEW s \in SUBSET S, NEW r \in SUBSET R, Cardinality(s) = 0
                 PROVE  SumFunctionOnSet(w, s) <= SumFunctionOnSet(v, r)
      OBVIOUS
    <2>1. s = {}
      BY FS_Subset, FS_EmptySet
    <2>2. SumFunctionOnSet(v, r) \in Nat
      BY FS_Subset, SumNat
    <2>. QED
      BY <2>1, <2>2, SumEmpty
  <1>2. \A n \in Nat : n \in T => n + 1 \in T
    <2> SUFFICES ASSUME NEW n \in Nat, n \in T, NEW s \in SUBSET S, NEW r \in SUBSET R,
                        Cardinality(s) = n + 1, \A x \in s : f[x] \in r
                 PROVE  SumFunctionOnSet(w, s) <= SumFunctionOnSet(v, r)
      OBVIOUS
    <2>1. IsFiniteSet(s) /\ s # {} /\ IsFiniteSet(r)
      BY FS_Subset, FS_EmptySet
    <2>2. PICK x \in s : SumFunctionOnSet(w, s) = w[x] + SumFunctionOnSet(w, s \ {x})
      BY <2>1, SumByChoice
    <2>3. SumFunctionOnSet(v, r) = v[f[x]] + SumFunctionOnSet(v, r \ {f[x]})
      BY <2>1, SumByAny
    <2>4. SumFunctionOnSet(w, s \ {x}) <= SumFunctionOnSet(v, r \ {f[x]})
      <3>1. s \ {x} \in SUBSET S /\ Cardinality(s \ {x}) = n /\ r \ {f[x]} \in SUBSET R
        BY Smaller
      <3>2. \A y \in s \ {x} : f[y] \in r \ {f[x]}
        OBVIOUS
      <3>. QED
        BY <3>1, <3>2
    <2>5. /\ SumFunctionOnSet(w, s \ {x}) \in Nat /\ SumFunctionOnSet(v, r \ {f[x]}) \in Nat
          /\ w[x] \in Nat /\ v[f[x]] \in Nat /\ w[x] <= v[f[x]]
      <3>1. IsFiniteSet(s \ {x}) /\ IsFiniteSet(r \ {f[x]})
        BY <2>1, FS_Subset
      <3>. QED
        BY <3>1, SumNat
    <2>. QED
      BY <2>2, <2>3, <2>4, <2>5
  <1> HIDE DEF T
  <1>3. Cardinality(S) \in T
    BY <1>1, <1>2, NatInd, FS_CardinalityType
  <1>. QED
    BY <1>3 DEF T

(* A sum of naturals over fewer elements is no greater. *)
LEMMA SumSubset ==
  ASSUME NEW w, NEW v, NEW S, NEW R, IsFiniteSet(R), S \subseteq R,
         \A x \in R : v[x] \in Nat, \A x \in S : w[x] = v[x]
  PROVE  SumFunctionOnSet(w, S) <= SumFunctionOnSet(v, R)
  <1> DEFINE f == [x \in S |-> x]
  <1>1. IsFiniteSet(S)
    BY FS_Subset
  <1>2. \A x \in S : f[x] = x
    OBVIOUS
  <1> HIDE DEF f
  <1>. QED
    BY <1>1, <1>2, SumInjection

(* Equal summands have equal sums. *)
LEMMA SumSame ==
  ASSUME NEW w, NEW v, NEW S, IsFiniteSet(S), \A x \in S : w[x] \in Nat /\ w[x] = v[x]
  PROVE  SumFunctionOnSet(w, S) = SumFunctionOnSet(v, S)
  <1>1. /\ SumFunctionOnSet(w, S) <= SumFunctionOnSet(v, S)
        /\ SumFunctionOnSet(v, S) <= SumFunctionOnSet(w, S)
    BY SumSubset
  <1>2. SumFunctionOnSet(w, S) \in Nat /\ SumFunctionOnSet(v, S) \in Nat
    BY SumNat
  <1>. QED
    BY <1>1, <1>2

(* A sum is that over a part and that over the rest. *)
LEMMA SumSplit ==
  ASSUME NEW w, NEW S, IsFiniteSet(S), \A x \in S : w[x] \in Nat, NEW R \in SUBSET S
  PROVE  SumFunctionOnSet(w, S) = SumFunctionOnSet(w, R) + SumFunctionOnSet(w, S \ R)
  <1> DEFINE T == {n \in Nat : \A r \in SUBSET S : Cardinality(r) = n =>
                      SumFunctionOnSet(w, S) = SumFunctionOnSet(w, r) + SumFunctionOnSet(w, S \ r)}
  <1>0. SumFunctionOnSet(w, S) \in Nat
    BY SumNat
  <1>1. 0 \in T
    <2> SUFFICES ASSUME NEW r \in SUBSET S, Cardinality(r) = 0
                 PROVE  SumFunctionOnSet(w, S) = SumFunctionOnSet(w, r) + SumFunctionOnSet(w, S \ r)
      OBVIOUS
    <2>1. r = {} /\ S \ r = S
      BY FS_Subset, FS_EmptySet
    <2>. QED
      BY <1>0, <2>1, SumEmpty
  <1>2. \A n \in Nat : n \in T => n + 1 \in T
    <2> SUFFICES ASSUME NEW n \in Nat, n \in T
                 PROVE  n + 1 \in T
      OBVIOUS
    <2> SUFFICES ASSUME NEW r \in SUBSET S, Cardinality(r) = n + 1
                 PROVE  SumFunctionOnSet(w, S) = SumFunctionOnSet(w, r) + SumFunctionOnSet(w, S \ r)
      OBVIOUS
    <2>1. IsFiniteSet(r) /\ r # {}
      BY FS_Subset, FS_EmptySet
    <2>2. PICK x \in r : TRUE
      BY <2>1
    <2> DEFINE rest == r \ {x}
    <2>3. rest \in SUBSET S /\ Cardinality(rest) = n
      BY <2>2, Smaller
    <2>4. SumFunctionOnSet(w, r) = w[x] + SumFunctionOnSet(w, rest)
      BY <2>1, <2>2, SumByAny
    <2>5. SumFunctionOnSet(w, S \ rest) = w[x] + SumFunctionOnSet(w, S \ r)
      <3>1. S \ rest = (S \ r) \union {x} /\ x \notin S \ r
        BY <2>2
      <3>2. IsFiniteSet(S \ r)
        BY FS_Subset
      <3>3. \A y \in (S \ r) \union {x} : w[y] \in Nat
        BY <2>2
      <3>4. SumFunctionOnSet(w, (S \ r) \union {x}) = w[x] + SumFunctionOnSet(w, S \ r)
        BY <3>1, <3>2, <3>3, SumAdd
      <3>. QED
        BY <3>1, <3>4
    <2>6. SumFunctionOnSet(w, S) = SumFunctionOnSet(w, rest) + SumFunctionOnSet(w, S \ rest)
      BY <2>3
    <2>7. SumFunctionOnSet(w, rest) \in Nat /\ SumFunctionOnSet(w, S \ r) \in Nat /\ w[x] \in Nat
      BY <2>1, <2>2, FS_Subset, SumNat
    <2> HIDE DEF rest
    <2>. QED
      BY <2>4, <2>5, <2>6, <2>7
  <1> HIDE DEF T
  <1>3. Cardinality(R) \in T
    BY <1>1, <1>2, NatInd, FS_CardinalityType, FS_Subset
  <1>. QED
    BY <1>3 DEF T

-------------------------------------------------------------------------------
(* The recursive function behind Keep, that it exists, and what it keeps. *)

KeptStep(s, A, g, n) ==
  IF n = 0 THEN <<>> ELSE IF s[n] \in A THEN Append(g[n - 1], s[n]) ELSE g[n - 1]
Kept(s, A) == CHOOSE g : g = [n \in 0 .. Len(s) |-> KeptStep(s, A, g, n)]

(* Keep is the last value of a recursive function. *)
LEMMA KeepIsKept == ASSUME NEW s, NEW A PROVE Keep(s, A) = Kept(s, A)[Len(s)]
  BY DEF Keep, Kept, KeptStep

(* The recursive function exists, for lists of any length. *)
LEMMA KeptExists ==
  ASSUME NEW s, NEW A, Len(s) \in Nat
  PROVE  \A n \in 0 .. Len(s) : Kept(s, A)[n] = KeptStep(s, A, Kept(s, A), n)
  <1> DEFINE Has(m) == \E g : g = [n \in 0 .. m |-> KeptStep(s, A, g, n)]
             T == {m \in Nat : Has(m)}
  <1>1. 0 \in T
    <2> DEFINE g == [n \in 0 .. 0 |-> <<>>]
    <2>1. g = [n \in 0 .. 0 |-> KeptStep(s, A, g, n)]
      BY DEF KeptStep
    <2>. QED
      BY <2>1
  <1>2. \A m \in Nat : m \in T => m + 1 \in T
    <2> SUFFICES ASSUME NEW m \in Nat, NEW g, g = [n \in 0 .. m |-> KeptStep(s, A, g, n)]
                 PROVE  Has(m + 1)
      OBVIOUS
    <2> DEFINE h == [n \in 0 .. m + 1 |-> KeptStep(s, A, g, n)]
    <2>1. ASSUME NEW n \in 0 .. m + 1 PROVE KeptStep(s, A, g, n) = KeptStep(s, A, h, n)
      <3>1. CASE n = 0
        BY <3>1 DEF KeptStep
      <3>2. CASE n # 0
        <4>1. n - 1 \in 0 .. m /\ n - 1 \in 0 .. m + 1
          BY <3>2
        <4>2. h[n - 1] = g[n - 1]
          BY <4>1, Zenon
        <4>. QED
          BY <3>2, <4>2 DEF KeptStep
      <3>. QED
        BY <3>1, <3>2
    <2>2. h = [n \in 0 .. m + 1 |-> KeptStep(s, A, h, n)]
      BY <2>1, Zenon
    <2>. QED
      BY <2>2
  <1> HIDE DEF T
  <1>3. Len(s) \in T
    BY <1>1, <1>2, NatInd
  <1>4. \E g : g = [n \in 0 .. Len(s) |-> KeptStep(s, A, g, n)]
    BY <1>3 DEF T
  <1>5. Kept(s, A) = [n \in 0 .. Len(s) |-> KeptStep(s, A, Kept(s, A), n)]
    BY <1>4, Zenon DEF Kept
  <1>. QED
    BY <1>5, Zenon

(* Where the kept elements come from: an embedding that keeps their order and misses *)
(* no element of A, hence moves none to the back.                                    *)
Embeds(pos, k, s, n, A) ==
  /\ pos \in [1 .. Len(k) -> 1 .. n]
  /\ \A j \in 1 .. Len(k) : k[j] = s[pos[j]] /\ s[pos[j]] \in A /\ j <= pos[j]
  /\ \A i, j \in 1 .. Len(k) : i < j => pos[i] < pos[j]
  /\ \A i \in 1 .. n : s[i] \in A => \E j \in 1 .. Len(k) : pos[j] = i

(* What is kept of a prefix, position by position. *)
LEMMA KeptEmbeds ==
  ASSUME NEW S, NEW s \in Seq(S), NEW A
  PROVE  \A n \in 0 .. Len(s) :
            Kept(s, A)[n] \in Seq(S) /\ \E pos : Embeds(pos, Kept(s, A)[n], s, n, A)
  <1> DEFINE k == Kept(s, A)
             T == {n \in Nat : n <= Len(s) =>
                      k[n] \in Seq(S) /\ \E pos : Embeds(pos, k[n], s, n, A)}
  <1>1. Len(s) \in Nat /\ \A n \in 0 .. Len(s) : k[n] = KeptStep(s, A, k, n)
    BY KeptExists
  <1> HIDE DEF k
  <1>2. 0 \in T
    <2>1. k[0] = <<>>
      BY <1>1 DEF KeptStep
    <2>2. <<>> \in Seq(S) /\ Len(<<>>) = 0
      OBVIOUS
    <2>3. Embeds([j \in 1 .. 0 |-> 0], <<>>, s, 0, A)
      BY <2>2 DEF Embeds
    <2>. QED
      BY <2>1, <2>2, <2>3
  <1>3. ASSUME NEW n \in Nat, n \in T PROVE n + 1 \in T
    <2> SUFFICES ASSUME n + 1 <= Len(s)
                 PROVE  k[n + 1] \in Seq(S) /\ \E pos : Embeds(pos, k[n + 1], s, n + 1, A)
      OBVIOUS
    <2>1. k[n] \in Seq(S) /\ \E pos : Embeds(pos, k[n], s, n, A)
      BY <1>1, <1>3
    <2>2. PICK pos : Embeds(pos, k[n], s, n, A)
      BY <2>1
    <2>3. /\ s[n + 1] \in S
          /\ k[n + 1] = IF s[n + 1] \in A THEN Append(k[n], s[n + 1]) ELSE k[n]
      BY <1>1 DEF KeptStep
    <2>4. CASE s[n + 1] \notin A
      <3>1. Embeds(pos, k[n], s, n + 1, A)
        <4>1. pos \in [1 .. Len(k[n]) -> 1 .. n + 1]
          BY <2>2 DEF Embeds
        <4>2. \A i \in 1 .. n + 1 : s[i] \in A => \E j \in 1 .. Len(k[n]) : pos[j] = i
          BY <2>2, <2>4 DEF Embeds
        <4>. QED
          BY <2>2, <4>1, <4>2 DEF Embeds
      <3>. QED
        BY <2>1, <2>3, <2>4, <3>1
    <2>5. CASE s[n + 1] \in A
      <3> DEFINE m == Len(k[n])
                 new == Append(k[n], s[n + 1])
                 next == [j \in 1 .. m + 1 |-> IF j = m + 1 THEN n + 1 ELSE pos[j]]
      <3>1. /\ m \in Nat /\ new \in Seq(S) /\ Len(new) = m + 1 /\ new[m + 1] = s[n + 1]
            /\ \A j \in 1 .. m : new[j] = k[n][j]
        BY <2>1, <2>3
      <3>2. /\ next[m + 1] = n + 1
            /\ \A j \in 1 .. m : next[j] = pos[j] /\ j \in 1 .. m + 1
        BY <3>1
      <3>3. /\ pos \in [1 .. m -> 1 .. n]
            /\ \A j \in 1 .. m : k[n][j] = s[pos[j]] /\ s[pos[j]] \in A /\ j <= pos[j]
            /\ \A i, j \in 1 .. m : i < j => pos[i] < pos[j]
            /\ \A i \in 1 .. n : s[i] \in A => \E j \in 1 .. m : pos[j] = i
        BY <2>2 DEF Embeds
      <3>4. m <= n
        <4>1. CASE m = 0
          BY <4>1
        <4>2. CASE m # 0
          BY <3>1, <3>3, <4>2, SMTT(30)
        <4>. QED
          BY <4>1, <4>2
      <3>5. next \in [1 .. m + 1 -> 1 .. n + 1]
        BY <3>1, <3>3
      <3> HIDE DEF m, new, next
      <3>6. \A j \in 1 .. m + 1 : new[j] = s[next[j]] /\ s[next[j]] \in A /\ j <= next[j]
        <4> SUFFICES ASSUME NEW j \in 1 .. m + 1
                     PROVE  new[j] = s[next[j]] /\ s[next[j]] \in A /\ j <= next[j]
          OBVIOUS
        <4>1. CASE j = m + 1
          BY <2>5, <3>1, <3>2, <3>4, <4>1
        <4>2. CASE j # m + 1
          BY <3>1, <3>2, <3>3, <4>2
        <4>. QED
          BY <4>1, <4>2
      <3>7. \A i, j \in 1 .. m + 1 : i < j => next[i] < next[j]
        <4> SUFFICES ASSUME NEW i \in 1 .. m + 1, NEW j \in 1 .. m + 1, i < j
                     PROVE  next[i] < next[j]
          OBVIOUS
        <4>1. i \in 1 .. m /\ pos[i] \in 1 .. n /\ next[i] = pos[i]
          BY <3>1, <3>2, <3>3
        <4>2. CASE j = m + 1
          BY <3>2, <4>1, <4>2
        <4>3. CASE j # m + 1
          BY <3>1, <3>2, <3>3, <4>1, <4>3
        <4>. QED
          BY <4>2, <4>3
      <3>8. \A i \in 1 .. n + 1 : s[i] \in A => \E j \in 1 .. m + 1 : next[j] = i
        <4> SUFFICES ASSUME NEW i \in 1 .. n + 1, s[i] \in A
                     PROVE  \E j \in 1 .. m + 1 : next[j] = i
          OBVIOUS
        <4>1. CASE i = n + 1
          BY <3>1, <3>2, <4>1
        <4>2. CASE i # n + 1
          <5>1. PICK j \in 1 .. m : pos[j] = i
            BY <3>3, <4>2
          <5>. QED
            BY <3>2, <5>1
        <4>. QED
          BY <4>1, <4>2
      <3>9. Embeds(next, new, s, n + 1, A)
        BY <3>1, <3>5, <3>6, <3>7, <3>8 DEF Embeds
      <3>. QED
        BY <2>3, <2>5, <3>1, <3>9 DEF new
    <2>. QED
      BY <2>4, <2>5
  <1> HIDE DEF T
  <1>4. \A n \in Nat : n \in T
    BY <1>2, <1>3, NatInd
  <1>. QED
    BY <1>1, <1>4 DEF T, k

(* So what is kept is a subsequence that leaves out no wanted element. *)
LEMMA KeepEmbeds ==
  ASSUME NEW S, NEW s \in Seq(S), NEW A
  PROVE  Keep(s, A) \in Seq(S) /\ \E pos : Embeds(pos, Keep(s, A), s, Len(s), A)
  <1>1. Len(s) \in 0 .. Len(s)
    OBVIOUS
  <1>. QED
    BY <1>1, KeptEmbeds, KeepIsKept

(* What is kept is what is in A. *)
LEMMA KeepElements ==
  ASSUME NEW S, NEW s \in Seq(S), NEW A
  PROVE  /\ Keep(s, A) \in Seq(S)
         /\ \A j \in 1 .. Len(Keep(s, A)) :
               Keep(s, A)[j] \in A /\ \E i \in 1 .. Len(s) : i >= j /\ s[i] = Keep(s, A)[j]
         /\ \A i \in 1 .. Len(s) :
               s[i] \in A => \E j \in 1 .. i : j <= Len(Keep(s, A)) /\ Keep(s, A)[j] = s[i]
  <1> DEFINE k == Keep(s, A)
  <1>1. k \in Seq(S) /\ \E pos : Embeds(pos, k, s, Len(s), A)
    BY KeepEmbeds
  <1>2. PICK pos : Embeds(pos, k, s, Len(s), A)
    BY <1>1
  <1> HIDE DEF k
  <1>3. \A j \in 1 .. Len(k) : /\ k[j] \in A
                               /\ pos[j] \in 1 .. Len(s) /\ pos[j] >= j /\ s[pos[j]] = k[j]
    BY <1>1, <1>2 DEF Embeds
  <1>4. ASSUME NEW i \in 1 .. Len(s), s[i] \in A
        PROVE  \E j \in 1 .. i : j <= Len(k) /\ k[j] = s[i]
    <2>1. PICK j \in 1 .. Len(k) : pos[j] = i
      BY <1>2, <1>4 DEF Embeds
    <2>2. j \in 1 .. i /\ j <= Len(k) /\ k[j] = s[i]
      BY <1>1, <1>3, <2>1
    <2>. QED
      BY <2>2
  <1>. QED
    BY <1>1, <1>3, <1>4 DEF k

(* What the cut leaves: the head of the list. *)
LEMMA AtMostIs ==
  ASSUME NEW S, NEW s \in Seq(S), NEW most \in Nat
  PROVE  /\ AtMost(s, most) \in Seq(S)
         /\ Len(AtMost(s, most)) <= most
         /\ \A i \in 1 .. Len(AtMost(s, most)) : i \in 1 .. Len(s) /\ AtMost(s, most)[i] = s[i]
         /\ \A i \in 1 .. Len(s) : i <= most => i \in 1 .. Len(AtMost(s, most))
  <1>1. CASE Len(s) <= most
    BY <1>1 DEF AtMost
  <1>2. CASE ~(Len(s) <= most)
    <2>1. AtMost(s, most) = SubSeq(s, 1, most)
      BY <1>2 DEF AtMost
    <2>2. Len(s) \in Nat /\ most \in 0 .. Len(s)
      BY <1>2
    <2>3. /\ SubSeq(s, 1, most) \in Seq(S) /\ Len(SubSeq(s, 1, most)) = most
          /\ \A i \in 1 .. most : SubSeq(s, 1, most)[i] = s[i]
      BY <2>2
    <2>. QED
      BY <2>1, <2>2, <2>3
  <1>. QED
    BY <1>1, <1>2

(* An element that is kept stands behind no more than what is kept before it. *)
LEMMA KeepRank ==
  ASSUME NEW S, NEW s \in Seq(S), NEW A, NEW i \in 1 .. Len(s), s[i] \in A
  PROVE  \E j \in 1 .. Len(Keep(s, A)) :
           /\ Keep(s, A)[j] = s[i]
           /\ j <= Cardinality({m \in 1 .. i - 1 : s[m] \in A}) + 1
  <1> DEFINE k == Keep(s, A)
             T == {m \in 1 .. i - 1 : s[m] \in A}
  <1>1. k \in Seq(S) /\ \E pos : Embeds(pos, k, s, Len(s), A)
    BY KeepEmbeds
  <1>2. PICK pos : Embeds(pos, k, s, Len(s), A)
    BY <1>1
  <1> HIDE DEF k
  <1>3. PICK j \in 1 .. Len(k) : pos[j] = i
    BY <1>2 DEF Embeds
  <1> DEFINE g == [n \in 1 .. j - 1 |-> pos[n]]
  <1>4. j \in Nat /\ j - 1 \in Nat /\ Len(k) \in Nat /\ i \in Nat /\ Len(s) \in Nat
    BY <1>1
  <1>5. \A n \in 1 .. j - 1 : n \in 1 .. Len(k) /\ n < j
    BY <1>4
  <1>6. \A n \in 1 .. j - 1 : pos[n] \in T
    <2> SUFFICES ASSUME NEW n \in 1 .. j - 1 PROVE pos[n] \in T
      OBVIOUS
    <2>1. pos[n] \in 1 .. Len(s) /\ pos[n] < i /\ s[pos[n]] \in A
      BY <1>2, <1>3, <1>5 DEF Embeds
    <2>2. pos[n] \in 1 .. i - 1
      BY <1>4, <2>1
    <2>. QED
      BY <2>1, <2>2
  <1>7. \A m, n \in 1 .. j - 1 : pos[m] = pos[n] => m = n
    <2> SUFFICES ASSUME NEW m \in 1 .. j - 1, NEW n \in 1 .. j - 1, m # n
                 PROVE  pos[m] # pos[n]
      OBVIOUS
    <2>1. m < n \/ n < m
      OBVIOUS
    <2>2. m \in 1 .. Len(k) /\ n \in 1 .. Len(k)
      BY <1>5
    <2>3. pos[m] \in 1 .. Len(s) /\ pos[n] \in 1 .. Len(s)
      BY <1>2, <2>2 DEF Embeds
    <2>4. (m < n => pos[m] < pos[n]) /\ (n < m => pos[n] < pos[m])
      BY <1>2, <2>2 DEF Embeds
    <2>. QED
      BY <1>4, <2>1, <2>3, <2>4
  <1>8. g \in Injection(1 .. j - 1, T)
    <2>1. g \in [1 .. j - 1 -> T] /\ \A m, n \in 1 .. j - 1 : g[m] = g[n] => m = n
      BY <1>6, <1>7
    <2>. QED
      BY <2>1 DEF Injection, IsInjective
  <1>9. IsFiniteSet(T)
    <2>1. 1 \in Int /\ i - 1 \in Int
      BY <1>4
    <2>2. IsFiniteSet(1 .. i - 1)
      BY <2>1, FS_Interval
    <2>3. T \subseteq 1 .. i - 1
      OBVIOUS
    <2>. QED
      BY <2>2, <2>3, FS_Subset
  <1>10. Cardinality(1 .. j - 1) = j - 1
    <2>1. Cardinality(1 .. j - 1) = IF 1 > j - 1 THEN 0 ELSE j - 1 - 1 + 1
      BY <1>4, FS_Interval
    <2>. QED
      BY <1>4, <2>1
  <1> HIDE DEF T, g
  <1>11. Cardinality(1 .. j - 1) <= Cardinality(T) /\ Cardinality(T) \in Nat
    BY <1>8, <1>9, FS_Injection, FS_CardinalityType
  <1>12. k[j] = s[i] /\ j <= Cardinality(T) + 1
    BY <1>2, <1>3, <1>4, <1>10, <1>11 DEF Embeds
  <1>. QED
    BY <1>12 DEF k, T
================================================================================
