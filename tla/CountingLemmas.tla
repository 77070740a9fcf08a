---------------------------- MODULE CountingLemmas ----------------------------
(***************************************************************************)
(* What the proofs need of numbers, finite sets and sums over them: the     *)
(* induction principles of the library, said of sets instead of predicates, *)
(* and the sum of a function's values in whatever order they are added.     *)
(***************************************************************************)
EXTENDS Integers, FiniteSets, FiniteSetTheorems, WellFoundedInduction, TLAPS

-----------------------------------------------------------------------------
(* Numbers and finite sets.                                                 *)

\* A set of numbers that has some has a least one.
LEMMA LeastNumber ==
  ASSUME NEW T, T \subseteq Nat, T # {}
  PROVE  \E x \in T : \A y \in T : x <= y
<1> DEFINE Less == {p \in Nat \X Nat : p[1] < p[2]}
<1>1. IsWellFoundedOn(Less, Nat)
  BY NatLessThanWellFounded DEF OpToRel
<1>2. PICK x \in T : \A y \in T : ~(<<y, x>> \in Less)
  <2> HIDE DEF Less
  <2> QED
    BY <1>1, WFMin
<1>3. \A y \in T : x <= y
  <2> TAKE y \in T
  <2>1. <<y, x>> \in Nat \X Nat
    OBVIOUS
  <2> QED
    BY <1>2, <2>1
<1> QED
  BY <1>3

\* A set that has 0 and with each number the next has all of them.
LEMMA Induction ==
  ASSUME NEW T, 0 \in T, \A n \in Nat : n \in T => n + 1 \in T
  PROVE  Nat \subseteq T
<1> SUFFICES ASSUME Nat \ T # {}
             PROVE  FALSE
  OBVIOUS
<1>1. PICK x \in Nat \ T : \A y \in Nat \ T : x <= y
  BY LeastNumber
<1>2. x - 1 \in Nat /\ ~(x <= x - 1)
  BY <1>1
<1>3. x - 1 \in T
  BY <1>1, <1>2
<1> QED
  BY <1>1, <1>2, <1>3

\* A set of subsets that has the empty one and with each a larger one has the whole.
LEMMA SubsetInduction ==
  ASSUME NEW D, IsFiniteSet(D), NEW T, {} \in T,
         \A s \in SUBSET D : \A x \in D \ s : s \in T => s \cup {x} \in T
  PROVE  \A s \in SUBSET D : s \in T
<1> DEFINE K == {k \in Nat : \A s \in SUBSET D : Cardinality(s) = k => s \in T}
<1>1. \A s \in SUBSET D : IsFiniteSet(s) /\ Cardinality(s) \in Nat
  BY FS_Subset, FS_CardinalityType
<1>2. 0 \in K
  <2>1. \A s \in SUBSET D : Cardinality(s) = 0 => s = {}
    BY <1>1, FS_EmptySet
  <2> QED
    BY <2>1
<1>3. ASSUME NEW k \in Nat, k \in K
      PROVE  k + 1 \in K
  <2>1. ASSUME NEW s \in SUBSET D, Cardinality(s) = k + 1
        PROVE  s \in T
    <3>1. s # {}
      BY <2>1, FS_EmptySet
    <3>2. PICK x \in s : TRUE
      BY <3>1
    <3>3. s \ {x} \in SUBSET D /\ Cardinality(s \ {x}) = k
      <4>1. IsFiniteSet(s)
        BY <1>1
      <4>2. Cardinality(s \ {x}) = Cardinality(s) - 1
        BY <3>2, <4>1, FS_RemoveElement
      <4> QED
        BY <2>1, <4>2
    <3>4. s \ {x} \in T
      BY <1>3, <3>3
    <3>5. x \in D \ (s \ {x}) /\ (s \ {x}) \cup {x} = s
      BY <3>2
    <3> QED
      BY <3>3, <3>4, <3>5
  <2> QED
    BY <2>1
<1> HIDE DEF K
<1>4. Nat \subseteq K
  BY <1>2, <1>3, Induction
<1>5. ASSUME NEW s \in SUBSET D
      PROVE  s \in T
  <2>1. Cardinality(s) \in K
    BY <1>1, <1>4
  <2> QED
    BY <2>1 DEF K
<1> QED
  BY <1>5

\* A finite set of numbers that has some has a greatest one.
LEMMA GreatestNumber ==
  ASSUME NEW T, T \subseteq Nat, T # {}, IsFiniteSet(T)
  PROVE  \E x \in T : \A y \in T : y <= x
<1> DEFINE HasGreatest(s) == \E x \in s : \A y \in s : y <= x
           K == {s \in SUBSET T : s # {} => HasGreatest(s)}
<1>1. ASSUME NEW s \in SUBSET T, NEW n \in T \ s, s \in K
      PROVE  s \cup {n} \in K
  <2>1. CASE s = {}
    BY <2>1
  <2>2. CASE s # {}
    <3>1. PICK x \in s : \A y \in s : y <= x
      BY <1>1, <2>2
    <3>2. CASE n <= x
      BY <3>1, <3>2
    <3>3. CASE x <= n
      BY <3>1, <3>3
    <3> QED
      BY <3>2, <3>3
  <2> QED
    BY <2>1, <2>2
<1>2. {} \in K
  OBVIOUS
<1> HIDE DEF K
<1>3. T \in K
  BY <1>1, <1>2, SubsetInduction
<1> QED
  BY <1>3 DEF K

\* A function has finitely many values on a finite set.
LEMMA FiniteValues ==
  ASSUME NEW D, IsFiniteSet(D), NEW f, NEW T, T = {f[d] : d \in D}
  PROVE  IsFiniteSet(T)
<1> DEFINE g == [d \in D |-> f[d]]
<1>1. g \in Surjection(D, T)
  BY DEF Surjection
<1> HIDE DEF g
<1> QED
  BY <1>1, FS_Surjection

-----------------------------------------------------------------------------
(* Sums.                                                                    *)

\* g tells the sum of f over each subset of D, as the folds define it.
OneOf(s) == CHOOSE x \in s : TRUE
Summand(f, g, s) == IF s = {} THEN 0 ELSE f[OneOf(s)] + g[s \ {OneOf(s)}]
Adds(g, f, D) == g = [s \in SUBSET D |-> Summand(f, g, s)]

SumTo(f, s) == (CHOOSE g : Adds(g, f, DOMAIN f))[s]

\* There is a sum of each subset.
LEMMA SumExists ==
  ASSUME NEW f, NEW D, IsFiniteSet(D)
  PROVE  \E g : Adds(g, f, D)
<1> DEFINE Right(g, k) == \A s \in SUBSET D : Cardinality(s) <= k => g[s] = Summand(f, g, s)
           K == {k \in Nat : \E g : Right(g, k)}
<1>1. \A s \in SUBSET D : IsFiniteSet(s) /\ Cardinality(s) \in Nat
  BY FS_Subset, FS_CardinalityType
<1>2. 0 \in K
  <2> DEFINE z == [s \in SUBSET D |-> 0]
  <2>1. Right(z, 0)
    <3>1. ASSUME NEW s \in SUBSET D, Cardinality(s) <= 0
          PROVE  z[s] = Summand(f, z, s)
      <4>1. s = {}
        BY <1>1, <3>1, FS_EmptySet
      <4> QED
        BY <4>1 DEF Summand
    <3> QED
      BY <3>1
  <2> HIDE DEF z
  <2> QED
    BY <2>1
<1>3. ASSUME NEW k \in Nat, k \in K
      PROVE  k + 1 \in K
  <2>1. PICK g : Right(g, k)
    BY <1>3
  <2> DEFINE h == [s \in SUBSET D |-> IF Cardinality(s) = k + 1 THEN Summand(f, g, s) ELSE g[s]]
  <2>2. ASSUME NEW s \in SUBSET D, Cardinality(s) <= k + 1
        PROVE  h[s] = Summand(f, h, s)
    <3>1. h[s] = Summand(f, g, s)
      <4>1. CASE Cardinality(s) = k + 1
        BY <4>1
      <4>2. CASE Cardinality(s) # k + 1
        <5>1. Cardinality(s) <= k
          BY <1>1, <2>2, <4>2
        <5> QED
          BY <2>1, <4>2, <5>1
      <4> QED
        BY <4>1, <4>2
    <3>2. CASE s = {}
      BY <3>1, <3>2 DEF Summand
    <3>3. CASE s # {}
      <4>1. OneOf(s) \in s
        BY <3>3 DEF OneOf
      <4>2. Cardinality(s \ {OneOf(s)}) = Cardinality(s) - 1
        <5>1. IsFiniteSet(s)
          BY <1>1
        <5> QED
          BY <4>1, <5>1, FS_RemoveElement
      <4>3. Cardinality(s \ {OneOf(s)}) # k + 1 /\ s \ {OneOf(s)} \in SUBSET D
        BY <1>1, <2>2, <4>2
      <4>4. h[s \ {OneOf(s)}] = g[s \ {OneOf(s)}]
        BY <4>3
      <4> QED
        BY <3>1, <3>3, <4>4 DEF Summand
    <3> QED
      BY <3>2, <3>3
  <2> HIDE DEF h
  <2>3. Right(h, k + 1)
    BY <2>2
  <2> QED
    BY <2>3
<1>4. Nat \subseteq K
  <2> HIDE DEF K
  <2> QED
    BY <1>2, <1>3, Induction
<1>5. PICK g : Right(g, Cardinality(D))
  <2>1. Cardinality(D) \in Nat
    BY FS_CardinalityType
  <2> QED
    BY <1>4, <2>1
<1> DEFINE a == [s \in SUBSET D |-> g[s]]
<1>6. ASSUME NEW s \in SUBSET D
      PROVE  a[s] = Summand(f, a, s)
  <2>1. g[s] = Summand(f, g, s)
    <3>1. Cardinality(s) <= Cardinality(D)
      BY FS_Subset
    <3> QED
      BY <1>5, <3>1
  <2>2. s \ {OneOf(s)} \in SUBSET D
    OBVIOUS
  <2> QED
    BY <2>1, <2>2 DEF Summand
<1>7. Adds(a, f, D)
  <2>1. a = [s \in SUBSET D |-> a[s]]
    OBVIOUS
  <2> HIDE DEF a
  <2> QED
    BY <1>6, <2>1 DEF Adds
<1> QED
  BY <1>7

\* In whatever order: the sum grows by what is added.
LEMMA SumGrows ==
  ASSUME NEW f, IsFiniteSet(DOMAIN f), \A x \in DOMAIN f : f[x] \in Int
  PROVE  /\ SumTo(f, {}) = 0
         /\ \A s \in SUBSET DOMAIN f : SumTo(f, s) \in Int
         /\ \A s \in SUBSET DOMAIN f : \A x \in DOMAIN f \ s :
               SumTo(f, s \cup {x}) = f[x] + SumTo(f, s)
<1> DEFINE D == DOMAIN f
<1>1. PICK g : Adds(g, f, D) /\ \A s : SumTo(f, s) = g[s]
  <2>1. \E g : Adds(g, f, D)
    BY SumExists
  <2>2. PICK g : g = CHOOSE h : Adds(h, f, D)
    OBVIOUS
  <2> QED
    BY <2>1, <2>2 DEF SumTo
<1>2. \A s \in SUBSET D : g[s] = Summand(f, g, s)
  BY <1>1 DEF Adds
<1>3. g[{}] = 0
  BY <1>2 DEF Summand
<1> DEFINE Loses(s) == /\ g[s] \in Int
                       /\ \A x \in s : g[s \ {x}] \in Int /\ g[s] = f[x] + g[s \ {x}]
           K == {k \in Nat : \A s \in SUBSET D : Cardinality(s) = k => Loses(s)}
<1>4. \A s \in SUBSET D : IsFiniteSet(s) /\ Cardinality(s) \in Nat
  BY FS_Subset, FS_CardinalityType
<1>5. 0 \in K
  <2>1. \A s \in SUBSET D : Cardinality(s) = 0 => s = {}
    BY <1>4, FS_EmptySet
  <2>2. Loses({})
    BY <1>3
  <2> HIDE DEF Loses
  <2> QED
    BY <2>1, <2>2
<1>6. ASSUME NEW k \in Nat, k \in K
      PROVE  k + 1 \in K
  <2>1. ASSUME NEW s \in SUBSET D, Cardinality(s) = k + 1
        PROVE  Loses(s)
    <3>1. s # {}
      BY <2>1, FS_EmptySet
    <3>2. PICK c \in s : c = OneOf(s)
      BY <3>1 DEF OneOf
    <3>3. ASSUME NEW x \in s
          PROVE  s \ {x} \in SUBSET D /\ Cardinality(s \ {x}) = k
      <4>1. Cardinality(s \ {x}) = Cardinality(s) - 1
        BY <1>4, <3>3, FS_RemoveElement
      <4> QED
        BY <2>1, <4>1
    <3>4. \A x \in s : Loses(s \ {x})
      BY <1>6, <3>3
    <3>5. g[s] = f[c] + g[s \ {c}]
      BY <1>2, <3>1, <3>2 DEF Summand
    <3>6. ASSUME NEW x \in s
          PROVE  g[s] = f[x] + g[s \ {x}]
      <4>1. CASE x = c
        BY <3>5, <4>1
      <4>2. CASE x # c
        <5>1. x \in s \ {c} /\ c \in s \ {x} /\ (s \ {c}) \ {x} = (s \ {x}) \ {c}
          BY <4>2
        <5>2. /\ g[(s \ {c}) \ {x}] \in Int
              /\ g[s \ {c}] = f[x] + g[(s \ {c}) \ {x}]
              /\ g[s \ {x}] = f[c] + g[(s \ {x}) \ {c}]
          BY <3>4, <5>1
        <5>3. PICK i \in Int, j \in Int : i = f[c] /\ j = f[x]
          OBVIOUS
        <5>4. PICK r \in Int : r = g[(s \ {c}) \ {x}] /\ r = g[(s \ {x}) \ {c}]
          BY <5>1, <5>2
        <5>5. g[s \ {c}] = j + r /\ g[s \ {x}] = i + r
          BY <5>2, <5>3, <5>4
        <5>6. g[s] = i + (j + r)
          BY <3>5, <5>3, <5>5
        <5> QED
          BY <5>3, <5>5, <5>6
      <4> QED
        BY <4>1, <4>2
    <3>7. \A x \in s : g[s \ {x}] \in Int
      BY <3>4
    <3>8. g[s] \in Int
      BY <3>5, <3>7
    <3> QED
      BY <3>6, <3>7, <3>8
  <2> QED
    BY <2>1
<1>7. Nat \subseteq K
  <2> HIDE DEF K
  <2> QED
    BY <1>5, <1>6, Induction
<1>8. \A s \in SUBSET D : Loses(s)
  BY <1>4, <1>7
<1>9. ASSUME NEW s \in SUBSET D, NEW x \in D \ s
      PROVE  g[s \cup {x}] = f[x] + g[s]
  <2>1. s \cup {x} \in SUBSET D /\ x \in s \cup {x} /\ (s \cup {x}) \ {x} = s
    OBVIOUS
  <2> QED
    BY <1>8, <2>1
<1> QED
  BY <1>1, <1>3, <1>8, <1>9

\* The sum of sums.
LEMMA SumAdds ==
  ASSUME NEW D, IsFiniteSet(D), NEW f \in [D -> Int], NEW g \in [D -> Int], NEW h \in [D -> Int],
         \A x \in D : h[x] = f[x] + g[x]
  PROVE  SumTo(h, D) = SumTo(f, D) + SumTo(g, D)
<1> DEFINE T == {s \in SUBSET D : SumTo(h, s) = SumTo(f, s) + SumTo(g, s)}
<1>1. {} \in T
  BY SumGrows
<1>2. ASSUME NEW s \in SUBSET D, NEW x \in D \ s, s \in T
      PROVE  s \cup {x} \in T
  <2>1. PICK a \in Int, b \in Int, c \in Int, i \in Int, j \in Int :
           /\ a = f[x] /\ b = g[x] /\ c = h[x] /\ i = SumTo(f, s) /\ j = SumTo(g, s)
    BY SumGrows
  <2>2. /\ SumTo(f, s \cup {x}) = a + i /\ SumTo(g, s \cup {x}) = b + j
        /\ SumTo(h, s \cup {x}) = c + SumTo(h, s)
    BY <2>1, SumGrows
  <2>3. c = a + b /\ SumTo(h, s) = i + j
    BY <1>2, <2>1
  <2> QED
    BY <2>2, <2>3
<1> HIDE DEF T
<1>3. D \in T
  BY <1>1, <1>2, SubsetInduction
<1> QED
  BY <1>3 DEF T

\* Multiplication by a sum.
LEMMA Distributes ==
  ASSUME NEW c \in Int, NEW a \in Int, NEW b \in Int
  PROVE  c * (a + b) = c * a + c * b /\ c * a \in Int
OBVIOUS

\* The sum of multiples.
LEMMA SumScales ==
  ASSUME NEW D, IsFiniteSet(D), NEW f \in [D -> Int], NEW h \in [D -> Int], NEW c \in Int,
         \A x \in D : h[x] = c * f[x]
  PROVE  SumTo(h, D) = c * SumTo(f, D)
<1> DEFINE T == {s \in SUBSET D : SumTo(h, s) = c * SumTo(f, s)}
<1>1. {} \in T
  BY SumGrows
<1>2. ASSUME NEW s \in SUBSET D, NEW x \in D \ s, s \in T
      PROVE  s \cup {x} \in T
  <2>1. PICK a \in Int, i \in Int : a = f[x] /\ i = SumTo(f, s)
    BY SumGrows
  <2>2. SumTo(f, s \cup {x}) = a + i /\ SumTo(h, s \cup {x}) = c * a + c * i
    BY <1>2, <2>1, SumGrows
  <2> QED
    BY <2>2, Distributes
<1> HIDE DEF T
<1>3. D \in T
  BY <1>1, <1>2, SubsetInduction
<1> QED
  BY <1>3 DEF T

\* What is smaller everywhere has the smaller sum.
LEMMA SumBelow ==
  ASSUME NEW D, IsFiniteSet(D), NEW f \in [D -> Int], NEW g \in [D -> Int],
         \A x \in D : f[x] <= g[x]
  PROVE  SumTo(f, D) <= SumTo(g, D)
<1> DEFINE T == {s \in SUBSET D : SumTo(f, s) <= SumTo(g, s)}
<1>1. {} \in T
  BY SumGrows
<1>2. ASSUME NEW s \in SUBSET D, NEW x \in D \ s, s \in T
      PROVE  s \cup {x} \in T
  <2>1. PICK a \in Int, b \in Int, i \in Int, j \in Int :
           a = f[x] /\ b = g[x] /\ i = SumTo(f, s) /\ j = SumTo(g, s)
    BY SumGrows
  <2>2. SumTo(f, s \cup {x}) = a + i /\ SumTo(g, s \cup {x}) = b + j
    BY <2>1, SumGrows
  <2>3. a <= b /\ i <= j
    BY <1>2, <2>1
  <2> QED
    BY <2>2, <2>3
<1> HIDE DEF T
<1>3. D \in T
  BY <1>1, <1>2, SubsetInduction
<1> QED
  BY <1>3 DEF T

\* The same for each of some.
LEMMA SumCounts ==
  ASSUME NEW D, IsFiniteSet(D), NEW A \in SUBSET D, NEW c \in Int, NEW f \in [D -> Int],
         \A x \in D : f[x] = IF x \in A THEN c ELSE 0
  PROVE  SumTo(f, D) = c * Cardinality(A)
<1> DEFINE T == {s \in SUBSET D : SumTo(f, s) = c * Cardinality(A \cap s)}
<1>1. {} \in T
  <2>1. A \cap {} = {} /\ Cardinality({}) = 0
    BY FS_EmptySet
  <2> QED
    BY <2>1, SumGrows
<1>2. ASSUME NEW s \in SUBSET D, NEW x \in D \ s, s \in T
      PROVE  s \cup {x} \in T
  <2>1. PICK i \in Int : i = SumTo(f, s)
    BY SumGrows
  <2>2. SumTo(f, s \cup {x}) = (IF x \in A THEN c ELSE 0) + i
    BY <2>1, SumGrows
  <2>3. IsFiniteSet(A \cap s)
    BY FS_Subset
  <2>4. PICK n \in Nat : n = Cardinality(A \cap s)
    BY <2>3, FS_CardinalityType
  <2>5. CASE x \in A
    <3>1. A \cap (s \cup {x}) = (A \cap s) \cup {x} /\ x \notin A \cap s
      BY <2>5
    <3>2. Cardinality(A \cap (s \cup {x})) = n + 1
      BY <2>3, <2>4, <3>1, FS_AddElement
    <3>3. c * (n + 1) = c * n + c
      OBVIOUS
    <3> QED
      BY <1>2, <2>1, <2>2, <2>4, <2>5, <3>2, <3>3
  <2>6. CASE x \notin A
    <3>1. A \cap (s \cup {x}) = A \cap s
      BY <2>6
    <3>2. SumTo(f, s \cup {x}) = SumTo(f, s)
      BY <2>1, <2>2, <2>6
    <3> QED
      BY <1>2, <3>1, <3>2
  <2> QED
    BY <2>5, <2>6
<1> HIDE DEF T
<1>3. D \in T
  BY <1>1, <1>2, SubsetInduction
<1>4. A \cap D = A
  OBVIOUS
<1> QED
  BY <1>3, <1>4 DEF T

\* What is 0 adds nothing.
LEMMA SumOfSome ==
  ASSUME NEW D, IsFiniteSet(D), NEW f \in [D -> Int], NEW A \in SUBSET D,
         \A x \in D \ A : f[x] = 0
  PROVE  SumTo(f, D) = SumTo(f, A)
<1> DEFINE T == {s \in SUBSET D : SumTo(f, s) = SumTo(f, A \cap s)}
<1>1. {} \in T
  <2>1. A \cap {} = {}
    OBVIOUS
  <2> QED
    BY <2>1
<1>2. ASSUME NEW s \in SUBSET D, NEW x \in D \ s, s \in T
      PROVE  s \cup {x} \in T
  <2>1. PICK i \in Int : i = SumTo(f, s) /\ i = SumTo(f, A \cap s)
    BY <1>2, SumGrows
  <2> SUFFICES SumTo(f, s \cup {x}) = SumTo(f, A \cap (s \cup {x}))
    OBVIOUS
  <2>2. SumTo(f, s \cup {x}) = f[x] + i
    <3> HIDE DEF T
    <3>1. SumTo(f, s \cup {x}) = f[x] + SumTo(f, s)
      BY SumGrows
    <3> QED
      BY <2>1, <3>1
  <2>3. CASE x \in A
    <3>1. A \cap (s \cup {x}) = (A \cap s) \cup {x} /\ x \in D \ (A \cap s) /\ A \cap s \in SUBSET D
      BY <2>3
    <3>2. SumTo(f, A \cap (s \cup {x})) = f[x] + i
      <4> DEFINE t == A \cap s
      <4>1. t \in SUBSET D /\ x \in D \ t
        BY <3>1
      <4> HIDE DEF T, t
      <4>2. SumTo(f, t \cup {x}) = f[x] + SumTo(f, t)
        BY <4>1, SumGrows
      <4> QED
        BY <2>1, <3>1, <4>2 DEF t
    <3> QED
      BY <2>2, <3>2
  <2>4. CASE x \notin A
    <3>1. A \cap (s \cup {x}) = A \cap s /\ f[x] = 0
      BY <2>4
    <3>2. SumTo(f, s \cup {x}) = i
      BY <2>2, <3>1
    <3> QED
      BY <2>1, <3>1, <3>2
  <2> QED
    BY <2>3, <2>4
<1> HIDE DEF T
<1>3. D \in T
  BY <1>1, <1>2, SubsetInduction
<1>4. A \cap D = A
  OBVIOUS
<1> QED
  BY <1>3, <1>4 DEF T

\* What agrees on some has the same sum over them.
LEMMA SumSame ==
  ASSUME NEW D, IsFiniteSet(D), NEW f \in [D -> Int], NEW g \in [D -> Int],
         NEW A \in SUBSET D, \A x \in A : f[x] = g[x]
  PROVE  SumTo(f, A) = SumTo(g, A)
<1> DEFINE T == {s \in SUBSET A : SumTo(f, s) = SumTo(g, s)}
<1>1. {} \in T
  BY SumGrows
<1>2. ASSUME NEW s \in SUBSET A, NEW x \in A \ s, s \in T
      PROVE  s \cup {x} \in T
  <2>1. s \in SUBSET D /\ x \in D \ s
    OBVIOUS
  <2>2. SumTo(f, s \cup {x}) = f[x] + SumTo(f, s) /\ SumTo(g, s \cup {x}) = g[x] + SumTo(g, s)
    <3> HIDE DEF T
    <3> QED
      BY <2>1, SumGrows
  <2> QED
    BY <1>2, <2>2
<1>3. IsFiniteSet(A)
  BY FS_Subset
<1> HIDE DEF T
<1>4. A \in T
  BY <1>1, <1>2, <1>3, SubsetInduction
<1> QED
  BY <1>4 DEF T

\* What is nowhere negative has no negative sum.
LEMMA SumIsNatural ==
  ASSUME NEW D, IsFiniteSet(D), NEW f \in [D -> Nat], NEW A \in SUBSET D
  PROVE  SumTo(f, A) \in Nat
<1> DEFINE T == {s \in SUBSET D : SumTo(f, s) \in Nat}
<1>1. {} \in T
  BY SumGrows
<1>2. ASSUME NEW s \in SUBSET D, NEW x \in D \ s, s \in T
      PROVE  s \cup {x} \in T
  <2>1. SumTo(f, s \cup {x}) = f[x] + SumTo(f, s)
    <3> HIDE DEF T
    <3> QED
      BY SumGrows
  <2> QED
    BY <1>2, <2>1
<1> HIDE DEF T
<1>3. A \in T
  BY <1>1, <1>2, SubsetInduction
<1> QED
  BY <1>3 DEF T

\* f tells the sum of each row of F, and G has the rows of F as columns.
RowSums(f, F, D, E) == f \in [D -> Int] /\ \A x \in D : F[x] \in [E -> Int] /\ f[x] = SumTo(F[x], E)
Transposed(F, G, D, E) == \A x \in D, y \in E : F[x][y] = G[y][x]

\* It does not matter by which of two indices one adds first.
LEMMA SumsSwap ==
  ASSUME NEW D, IsFiniteSet(D), NEW E, IsFiniteSet(E), NEW F, NEW G, Transposed(F, G, D, E),
         NEW f, RowSums(f, F, D, E), NEW g, RowSums(g, G, E, D)
  PROVE  SumTo(f, D) = SumTo(g, E)
<1> DEFINE part(s) == [y \in E |-> SumTo(G[y], s)]
           T == {s \in SUBSET D : SumTo(f, s) = SumTo(part(s), E)}
<1>f. /\ f \in [D -> Int] /\ g \in [E -> Int]
      /\ \A x \in D : F[x] \in [E -> Int] /\ f[x] = SumTo(F[x], E)
      /\ \A y \in E : G[y] \in [D -> Int] /\ g[y] = SumTo(G[y], D)
  BY DEF RowSums
<1>1. ASSUME NEW y \in E
      PROVE  /\ SumTo(G[y], {}) = 0
             /\ \A s \in SUBSET D : SumTo(G[y], s) \in Int
             /\ \A s \in SUBSET D : \A x \in D \ s : SumTo(G[y], s \cup {x}) = G[y][x] + SumTo(G[y], s)
  <2>1. PICK h \in [D -> Int] : h = G[y]
    BY <1>f
  <2> QED
    BY <2>1, SumGrows
<1>2. \A s \in SUBSET D : part(s) \in [E -> Int]
  BY <1>1
<1>3. {} \in T
  <2>1. PICK z \in [E -> Int] : z = part({})
    BY <1>2
  <2>2. \A y \in E : z[y] = IF y \in {} THEN 0 ELSE 0
    BY <1>1, <2>1
  <2>3. SumTo(z, E) = 0 * Cardinality({})
    <3>1. {} \in SUBSET E
      OBVIOUS
    <3> HIDE DEF part, T
    <3> QED
      BY <2>2, <3>1, SumCounts
  <2>4. SumTo(f, {}) = 0 /\ Cardinality({}) = 0
    <3> HIDE DEF T, part
    <3> QED
      BY <1>f, SumGrows, FS_EmptySet
  <2> QED
    BY <2>1, <2>3, <2>4
<1>4. ASSUME NEW s \in SUBSET D, NEW x \in D \ s, s \in T
      PROVE  s \cup {x} \in T
  <2>1. s \cup {x} \in SUBSET D
    OBVIOUS
  <2>2. PICK new \in [E -> Int], old \in [E -> Int] : new = part(s \cup {x}) /\ old = part(s)
    <3> HIDE DEF part
    <3> QED
      BY <1>2, <2>1
  <2>3. PICK row \in [E -> Int] : row = F[x]
    BY <1>f
  <2>4. \A y \in E : new[y] = row[y] + old[y]
    BY <1>1, <2>2, <2>3 DEF Transposed
  <2> HIDE DEF part
  <2>5. SumTo(new, E) = SumTo(row, E) + SumTo(old, E)
    <3> HIDE DEF T
    <3> QED
      BY <2>4, SumAdds
  <2>6. SumTo(f, s \cup {x}) = f[x] + SumTo(f, s)
    <3> HIDE DEF T
    <3> QED
      BY <1>f, SumGrows
  <2> QED
    BY <1>f, <1>4, <2>1, <2>2, <2>3, <2>5, <2>6
<1>5. D \in T
  <2> HIDE DEF T
  <2> QED
    BY <1>3, <1>4, SubsetInduction
<1>6. part(D) = g
  BY <1>f
<1> HIDE DEF part
<1> QED
  BY <1>5, <1>6

\* Pairs are as many, whichever of the two one counts by.
LEMMA CountedBothWays ==
  ASSUME NEW D, IsFiniteSet(D), NEW f \in [D -> Int], NEW g \in [D -> Int],
         NEW to \in [D -> SUBSET D], NEW from \in [D -> SUBSET D],
         \A x, y \in D : y \in to[x] <=> x \in from[y],
         \A x \in D : f[x] = Cardinality(to[x]) /\ g[x] = Cardinality(from[x])
  PROVE  SumTo(f, D) = SumTo(g, D)
<1> DEFINE Of(s, y) == from[y] \cap s
           G(s) == [y \in D |-> Cardinality(Of(s, y))]
           T == {s \in SUBSET D : SumTo(f, s) = SumTo(G(s), D)}
<1>1. \A s \in SUBSET D, y \in D : IsFiniteSet(Of(s, y)) /\ Cardinality(Of(s, y)) \in Nat
  <2> TAKE s \in SUBSET D, y \in D
  <2>1. Of(s, y) \in SUBSET D
    OBVIOUS
  <2> HIDE DEF Of
  <2> QED
    BY <2>1, FS_Subset, FS_CardinalityType
<1>2. \A s \in SUBSET D : G(s) \in [D -> Int]
  <2> HIDE DEF Of
  <2> QED
    BY <1>1
<1>3. {} \in T
  <2>1. \A y \in D : G({})[y] = 0
    <3>1. \A y \in D : Of({}, y) = {}
      OBVIOUS
    <3> HIDE DEF Of
    <3> QED
      BY <3>1, FS_EmptySet
  <2>2. {} \in SUBSET D /\ G({}) \in [D -> Int]
    BY <1>2
  <2> HIDE DEF G
  <2>3. SumTo(G({}), D) = 0 * Cardinality({})
    BY <2>1, <2>2, SumCounts
  <2>4. SumTo(f, {}) = 0
    BY SumGrows
  <2> QED
    BY <2>2, <2>3, <2>4, FS_EmptySet
<1>4. ASSUME NEW s \in SUBSET D, NEW x \in D \ s, s \in T
      PROVE  s \cup {x} \in T
  <2> DEFINE A == to[x]
  <2>1. IsFiniteSet(A) /\ Cardinality(A) \in Nat
    BY FS_Subset, FS_CardinalityType
  <2>2. s \cup {x} \in SUBSET D
    OBVIOUS
  <2>3. PICK one \in [D -> Int] : \A y \in D : one[y] = IF y \in A THEN 1 ELSE 0
    <3>1. [y \in D |-> IF y \in A THEN 1 ELSE 0] \in [D -> Int]
      OBVIOUS
    <3> HIDE DEF A
    <3> QED
      BY <3>1
  <2>4. PICK old \in [D -> Int], new \in [D -> Int] : old = G(s) /\ new = G(s \cup {x})
    <3> HIDE DEF G
    <3> QED
      BY <1>2, <2>2
  <2>5. \A y \in D : old[y] = Cardinality(Of(s, y)) /\ new[y] = Cardinality(Of(s \cup {x}, y))
    <3> HIDE DEF Of
    <3> QED
      BY <2>4
  <2>6. \A y \in D : new[y] = one[y] + old[y]
    <3> TAKE y \in D
    <3>1. CASE y \in A
      <4>1. Of(s \cup {x}, y) = Of(s, y) \cup {x} /\ x \notin Of(s, y)
        BY <3>1
      <4>2. Cardinality(Of(s, y) \cup {x}) = Cardinality(Of(s, y)) + 1
        <5> HIDE DEF Of
        <5> QED
          BY <1>1, <4>1, FS_AddElement
      <4>3. PICK i \in Nat : i = Cardinality(Of(s, y))
        BY <1>1
      <4> HIDE DEF Of, A
      <4>4. new[y] = i + 1 /\ old[y] = i /\ one[y] = 1
        BY <2>3, <2>5, <3>1, <4>1, <4>2, <4>3
      <4> QED
        BY <4>4
    <3>2. CASE y \notin A
      <4>1. Of(s \cup {x}, y) = Of(s, y)
        BY <3>2
      <4>2. PICK i \in Nat : i = Cardinality(Of(s, y))
        BY <1>1
      <4> HIDE DEF Of, A
      <4>3. new[y] = i /\ old[y] = i /\ one[y] = 0
        BY <2>3, <2>5, <3>2, <4>1, <4>2
      <4> QED
        BY <4>3
    <3> QED
      BY <3>1, <3>2
  <2>7. SumTo(one, D) = 1 * Cardinality(A)
    <3>1. A \in SUBSET D
      OBVIOUS
    <3> HIDE DEF A
    <3> QED
      BY <2>3, <3>1, SumCounts
  <2> HIDE DEF G
  <2>8. SumTo(new, D) = SumTo(one, D) + SumTo(old, D)
    BY <2>6, SumAdds
  <2>9. SumTo(f, s \cup {x}) = Cardinality(A) + SumTo(f, s)
    BY SumGrows
  <2>10. SumTo(f, s) = SumTo(old, D) /\ SumTo(old, D) \in Int
    BY <1>4, <2>4, SumGrows
  <2> HIDE DEF A
  <2>11. SumTo(f, s \cup {x}) = SumTo(new, D)
    BY <2>1, <2>7, <2>8, <2>9, <2>10
  <2> QED
    BY <2>2, <2>4, <2>11
<1>5. D \in T
  <2> HIDE DEF T
  <2> QED
    BY <1>3, <1>4, SubsetInduction
<1>6. G(D) = g
  <2>1. \A y \in D : Of(D, y) = from[y]
    OBVIOUS
  <2>2. \A y \in D : G(D)[y] = g[y]
    <3> HIDE DEF Of
    <3> QED
      BY <2>1
  <2>3. G(D) \in [D -> Int]
    BY <1>2
  <2> HIDE DEF G
  <2> QED
    BY <2>2, <2>3
<1> HIDE DEF G
<1> QED
  BY <1>5, <1>6

\* What is built by taking out one element after the other.
LEMMA OneByOne ==
  ASSUME NEW D, IsFiniteSet(D), NEW T, {} \in T,
         \A s \in SUBSET D : s # {} /\ s \ {OneOf(s)} \in T => s \in T
  PROVE  \A s \in SUBSET D : s \in T
<1> DEFINE K == {k \in Nat : \A s \in SUBSET D : Cardinality(s) = k => s \in T}
<1>1. \A s \in SUBSET D : IsFiniteSet(s) /\ Cardinality(s) \in Nat
  BY FS_Subset, FS_CardinalityType
<1>2. 0 \in K
  <2>1. \A s \in SUBSET D : Cardinality(s) = 0 => s = {}
    BY <1>1, FS_EmptySet
  <2> QED
    BY <2>1
<1>3. ASSUME NEW k \in Nat, k \in K
      PROVE  k + 1 \in K
  <2>1. ASSUME NEW s \in SUBSET D, Cardinality(s) = k + 1
        PROVE  s \in T
    <3>1. s # {}
      BY <2>1, FS_EmptySet
    <3>2. OneOf(s) \in s
      BY <3>1 DEF OneOf
    <3>3. s \ {OneOf(s)} \in SUBSET D /\ Cardinality(s \ {OneOf(s)}) = k
      <4>1. IsFiniteSet(s)
        BY <1>1
      <4>2. Cardinality(s \ {OneOf(s)}) = Cardinality(s) - 1
        BY <3>2, <4>1, FS_RemoveElement
      <4> QED
        BY <2>1, <4>2
    <3>4. s \ {OneOf(s)} \in T
      BY <1>3, <3>3
    <3> QED
      BY <3>1, <3>4
  <2> QED
    BY <2>1
<1> HIDE DEF K
<1>4. Nat \subseteq K
  BY <1>2, <1>3, Induction
<1>5. ASSUME NEW s \in SUBSET D
      PROVE  s \in T
  <2>1. Cardinality(s) \in K
    BY <1>1, <1>4
  <2> QED
    BY <2>1 DEF K
<1> QED
  BY <1>5

=============================================================================
