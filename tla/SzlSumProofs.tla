---------------------------- MODULE SzlSumProofs ----------------------------
(***************************************************************************)
(* Sum tables for any number of emitters, indices, elements and emits, and *)
(* any width of an integer.  Sums over finite sets come first, then what   *)
(* each operation does to one entry, then what each step moves between the *)
(* entries and the written strings.                                        *)
(***************************************************************************)
EXTENDS SzlSum, FiniteSetTheorems, NaturalsInduction, TLAPS

-----------------------------------------------------------------------------
(* Sums over finite sets.                                                  *)

\* the sum of f[x] over the elements x of S
Total(f, S) == MapThenSumSet(LAMBDA x : f[x], S)

\* the element a sum takes first
First(s) == CHOOSE x \in s : TRUE

\* g gives the sums over the subsets in D, which is closed under taking away
\* the first element
Adds(f, D, g) ==
  g = [s \in D |-> IF s = {} THEN 0 ELSE f[First(s)] + g[s \ {First(s)}]]

AddsUp(f, S, g) == Adds(f, SUBSET S, g)

LEMMA TotalIs ==
  ASSUME NEW f, NEW S
  PROVE  Total(f, S) = (CHOOSE g : AddsUp(f, S, g))[S]
BY Zenon DEF AddsUp, Total, MapThenSumSet, MapThenFoldSet, Adds, First

LEMMA NatInduct ==
  ASSUME NEW T, 0 \in T, \A n \in Nat : n \in T => n + 1 \in T
  PROVE  Nat \subseteq T
<1> DEFINE U == Nat \ T
<1>1. SUFFICES ASSUME U # {} PROVE FALSE
  BY Zenon
<1>2. PICK x \in U : \A y \in U : ~(<<y, x>> \in OpToRel(<, Nat))
  BY Zenon, <1>1, NatLessThanWellFounded, WFMin
<1>3. x \in Nat /\ x # 0 /\ x - 1 \in Nat
  OBVIOUS
<1>4. CASE x - 1 \in T
  BY <1>3, <1>4
<1>5. CASE x - 1 \notin T
  <2>1. <<x - 1, x>> \in OpToRel(<, Nat)
    BY <1>3 DEF OpToRel
  <2> QED BY Zenon, <2>1, <1>2, <1>3, <1>5
<1> QED BY Zenon, <1>4, <1>5 DEF AddsUp

\* A set of subsets that has every subset whose proper subsets it has, has all.
LEMMA SubsetInduct ==
  ASSUME NEW S, IsFiniteSet(S), NEW T,
         \A U \in SUBSET S : (\A V \in SUBSET U : V # U => V \in T) => U \in T
  PROVE  SUBSET S \subseteq T
<1> DEFINE R == StrictSubsetOrdering(S)
<1> DEFINE Bad == (SUBSET S) \ T
<1>1. SUFFICES ASSUME Bad # {} PROVE FALSE
  BY Zenon
<1>2. IsWellFoundedOn(R, SUBSET S)
  BY Zenon, FS_StrictSubsetOrderingWellFounded, FS_FiniteSubsetsOfFinite
<1>3. PICK x \in Bad : \A y \in Bad : ~(<<y, x>> \in R)
  <2>1. Bad \subseteq SUBSET S
    BY Zenon
  <2> HIDE DEF Bad, R
  <2> QED BY <1>1, <1>2, <2>1, WFMin
<1>4. ASSUME NEW V \in SUBSET x, V # x PROVE V \in T
  <2>1. <<V, x>> \in R
    BY Zenon, <1>4 DEF StrictSubsetOrdering
  <2> QED BY Zenon, <2>1, <1>3
<1> QED BY Zenon, <1>3, <1>4

LEMMA FirstIn == \A s : s # {} => First(s) \in s
BY Zenon DEF First

Small(S, n) == {s \in SUBSET S : Cardinality(s) <= n}

LEMMA AddsExists ==
  ASSUME NEW f, NEW S, IsFiniteSet(S)
  PROVE  \E g : AddsUp(f, S, g)
<1> DEFINE T == {n \in Nat : \E g : Adds(f, Small(S, n), g)}
<1>1. 0 \in T
  <2> DEFINE z == [s \in Small(S, 0) |-> 0]
  <2>1. \A s \in Small(S, 0) : s = {}
    BY FS_Subset, FS_EmptySet, FS_CardinalityType DEF Small
  <2>2. Adds(f, Small(S, 0), z)
    BY Zenon, <2>1 DEF Adds
  <2> QED BY Zenon, <2>2
<1>2. \A n \in Nat : n \in T => n + 1 \in T
  <2> SUFFICES ASSUME NEW n \in Nat, n \in T PROVE n + 1 \in T
    BY Zenon
  <2>1. PICK g : Adds(f, Small(S, n), g)
    BY Zenon
  <2> DEFINE h == [s \in Small(S, n + 1) |->
                     IF s = {} THEN 0 ELSE f[First(s)] + g[s \ {First(s)}]]
  <2>2. ASSUME NEW s \in Small(S, n + 1), s # {}
        PROVE  s \ {First(s)} \in Small(S, n)
    BY <2>2, FirstIn, FS_RemoveElement, FS_Subset, FS_CardinalityType DEF Small
  <2>3. ASSUME NEW s \in Small(S, n)
        PROVE  s \in Small(S, n + 1) /\ h[s] = g[s]
    <3>1. s \in Small(S, n + 1)
      BY FS_Subset, FS_CardinalityType DEF Small
    <3> QED BY Zenon, <3>1, <2>1 DEF Adds
  <2>4. Adds(f, Small(S, n + 1), h)
    BY Zenon, <2>2, <2>3 DEF Adds
  <2> QED BY <2>4
<1>3. Cardinality(S) \in T
  <2>1. Cardinality(S) \in Nat
    BY Zenon, FS_CardinalityType
  <2> HIDE DEF T
  <2> QED BY Zenon, <1>1, <1>2, <2>1, NatInduct
<1>4. Small(S, Cardinality(S)) = SUBSET S
  BY Zenon, FS_Subset DEF Small
<1>5. PICK g : Adds(f, Small(S, Cardinality(S)), g)
  BY Zenon, <1>3
<1> QED BY Zenon, <1>4, <1>5 DEF AddsUp

\* All functions that add up agree on common sets.
LEMMA AddsAgree ==
  ASSUME NEW f, NEW S, IsFiniteSet(S), NEW R \in SUBSET S,
         NEW g, AddsUp(f, S, g), NEW h, AddsUp(f, R, h)
  PROVE  g[R] = h[R]
<1> DEFINE T == {U \in SUBSET R : g[U] = h[U]}
<1>1. ASSUME NEW U \in SUBSET R, \A V \in SUBSET U : V # U => V \in T
      PROVE  U \in T
  <2>1. U \in SUBSET S
    BY Zenon
  <2>2. g[U] = IF U = {} THEN 0 ELSE f[First(U)] + g[U \ {First(U)}]
    BY Zenon, <2>1 DEF AddsUp, Adds
  <2>3. h[U] = IF U = {} THEN 0 ELSE f[First(U)] + h[U \ {First(U)}]
    BY Zenon DEF AddsUp, Adds
  <2>4. CASE U = {}
    BY Zenon, <2>2, <2>3, <2>4
  <2>5. CASE U # {}
    <3>1. U \ {First(U)} \in SUBSET U /\ U \ {First(U)} # U
      BY Zenon, <2>5, FirstIn
    <3>2. g[U \ {First(U)}] = h[U \ {First(U)}]
      BY Zenon, <1>1, <3>1
    <3> QED BY Zenon, <2>2, <2>3, <2>5, <3>2
  <2> QED BY Zenon, <2>4, <2>5
<1>2. IsFiniteSet(R)
  BY Zenon, FS_Subset
<1>3. R \in T
  <2> HIDE DEF T
  <2> QED BY Zenon, <1>1, <1>2, SubsetInduct
<1> QED BY Zenon, <1>3

LEMMA TotalEmpty == \A f : Total(f, {}) = 0
<1> TAKE f
<1> DEFINE g == CHOOSE g : AddsUp(f, {}, g)
<1>1. AddsUp(f, {}, g)
  BY Zenon, AddsExists, FS_EmptySet
<1>2. g[{}] = 0
  BY Zenon, <1>1 DEF AddsUp, Adds
<1> QED BY Zenon, <1>2, TotalIs

LEMMA TotalFirst ==
  ASSUME NEW f, NEW S, IsFiniteSet(S), S # {}
  PROVE  Total(f, S) = f[First(S)] + Total(f, S \ {First(S)})
<1> DEFINE R == S \ {First(S)}
           g == CHOOSE g : AddsUp(f, S, g)
           h == CHOOSE h : AddsUp(f, R, h)
<1>1. R \in SUBSET S /\ IsFiniteSet(R)
  BY Zenon, FS_Subset
<1>2. AddsUp(f, S, g)
  BY Zenon, AddsExists
<1>3. AddsUp(f, R, h)
  BY Zenon, <1>1, AddsExists
<1>4. g[S] = f[First(S)] + g[R]
  <2> HIDE DEF g
  <2> QED BY Zenon, <1>2 DEF AddsUp, Adds
<1>5. ASSUME NEW a, NEW b, AddsUp(f, S, a), AddsUp(f, R, b)
      PROVE  a[R] = b[R]
  BY <1>1, <1>5, AddsAgree
<1>6. Total(f, S) = g[S] /\ Total(f, R) = h[R]
  BY Zenon, TotalIs
<1>7. g[R] = h[R]
  BY ONLY <1>2, <1>3, <1>5
<1> QED BY Zenon, <1>4, <1>6, <1>7

LEMMA TotalInt ==
  ASSUME NEW f, NEW S, IsFiniteSet(S), \A x \in S : f[x] \in Int
  PROVE  Total(f, S) \in Int
<1> DEFINE T == {U \in SUBSET S : Total(f, U) \in Int}
<1>1. ASSUME NEW U \in SUBSET S, \A V \in SUBSET U : V # U => V \in T
      PROVE  U \in T
  <2>1. CASE U = {}
    BY <2>1, TotalEmpty
  <2>2. CASE U # {}
    <3>1. First(U) \in U /\ U \ {First(U)} # U
      BY Zenon, <2>2, FirstIn
    <3>2. Total(f, U \ {First(U)}) \in Int
      BY Zenon, <1>1, <3>1
    <3>3. Total(f, U) = f[First(U)] + Total(f, U \ {First(U)})
      BY Zenon, <2>2, TotalFirst, FS_Subset
    <3>4. f[First(U)] \in Int
      BY Zenon, <3>1
    <3>5. Total(f, U) \in Int
      BY <3>2, <3>3, <3>4
    <3> QED BY Zenon, <3>5
  <2> QED BY Zenon, <2>1, <2>2
<1>2. S \in T
  <2> HIDE DEF T
  <2> QED BY Zenon, <1>1, SubsetInduct
<1> QED BY Zenon, <1>2

\* A total may take any of its elements first.
LEMMA TotalRemove ==
  ASSUME NEW f, NEW S, IsFiniteSet(S), \A x \in S : f[x] \in Int, NEW x \in S
  PROVE  Total(f, S) = f[x] + Total(f, S \ {x})
<1> DEFINE T == {U \in SUBSET S : \A y \in U : Total(f, U) = f[y] + Total(f, U \ {y})}
<1>1. ASSUME NEW U \in SUBSET S, \A V \in SUBSET U : V # U => V \in T
      PROVE  U \in T
  <2> SUFFICES ASSUME NEW y \in U PROVE Total(f, U) = f[y] + Total(f, U \ {y})
    BY Zenon
  <2> DEFINE c == First(U)
  <2>1. c \in U
    BY Zenon, FirstIn
  <2>2. Total(f, U) = f[c] + Total(f, U \ {c})
    BY Zenon, TotalFirst, FS_Subset
  <2>3. CASE y = c
    BY Zenon, <2>2, <2>3
  <2>4. CASE y # c
    <3> HIDE DEF c
    <3>1. Total(f, U \ {c}) = f[y] + Total(f, (U \ {c}) \ {y})
      <4>1. (U \ {c}) \in T
        BY Zenon, <1>1, <2>1
      <4> QED BY Zenon, <4>1, <2>4
    <3>2. Total(f, U \ {y}) = f[c] + Total(f, (U \ {y}) \ {c})
      <4>1. (U \ {y}) \in T
        BY Zenon, <1>1
      <4> QED BY Zenon, <4>1, <2>4, <2>1
    <3>3. (U \ {y}) \ {c} = (U \ {c}) \ {y}
      BY Zenon
    <3>4. Total(f, (U \ {c}) \ {y}) \in Int
      <4>1. IsFiniteSet((U \ {c}) \ {y}) /\ \A z \in (U \ {c}) \ {y} : f[z] \in Int
        BY Zenon, FS_Subset
      <4> QED BY Zenon, <4>1, TotalInt
    <3>5. f[c] \in Int /\ f[y] \in Int
      BY Zenon, <2>1
    <3>6. f[c] + (f[y] + Total(f, (U \ {c}) \ {y})) = f[y] + (f[c] + Total(f, (U \ {c}) \ {y}))
      BY <3>4, <3>5
    <3> QED BY ONLY <2>2, <3>1, <3>2, <3>3, <3>6
  <2> QED BY Zenon, <2>3, <2>4
<1>2. S \in T
  <2> HIDE DEF T
  <2> QED BY Zenon, <1>1, SubsetInduct
<1> QED BY Zenon, <1>2

LEMMA TotalInsert ==
  ASSUME NEW f, NEW S, IsFiniteSet(S), NEW x, x \notin S,
         \A y \in S \cup {x} : f[y] \in Int
  PROVE  Total(f, S \cup {x}) = f[x] + Total(f, S)
<1>1. IsFiniteSet(S \cup {x}) /\ (S \cup {x}) \ {x} = S /\ x \in S \cup {x}
  BY Zenon, FS_AddElement
<1> QED BY <1>1, TotalRemove

LEMMA TotalSame ==
  ASSUME NEW f, NEW g, NEW S, IsFiniteSet(S),
         \A x \in S : f[x] \in Int /\ g[x] = f[x]
  PROVE  Total(g, S) = Total(f, S)
<1> DEFINE T == {U \in SUBSET S : Total(g, U) = Total(f, U)}
<1>1. ASSUME NEW U \in SUBSET S, \A V \in SUBSET U : V # U => V \in T
      PROVE  U \in T
  <2>1. CASE U = {}
    BY Zenon, <2>1, TotalEmpty
  <2>2. CASE U # {}
    <3>1. First(U) \in U /\ U \ {First(U)} # U
      BY Zenon, <2>2, FirstIn
    <3>2. Total(g, U \ {First(U)}) = Total(f, U \ {First(U)})
      BY Zenon, <1>1, <3>1
    <3>3. Total(f, U) = f[First(U)] + Total(f, U \ {First(U)})
      BY Zenon, <2>2, TotalFirst, FS_Subset
    <3>4. Total(g, U) = g[First(U)] + Total(g, U \ {First(U)})
      BY Zenon, <2>2, TotalFirst, FS_Subset
    <3>5. Total(g, U) = Total(f, U)
      BY Zenon, <3>1, <3>2, <3>3, <3>4
    <3> QED BY Zenon, <3>5
  <2> QED BY Zenon, <2>1, <2>2
<1>2. S \in T
  <2> HIDE DEF T
  <2> QED BY Zenon, <1>1, SubsetInduct
<1> QED BY Zenon, <1>2

LEMMA TotalChange ==
  ASSUME NEW f, NEW g, NEW S, IsFiniteSet(S), NEW x \in S,
         \A y \in S : f[y] \in Int /\ g[y] \in Int,
         \A y \in S \ {x} : g[y] = f[y]
  PROVE  Total(g, S) = Total(f, S) - f[x] + g[x]
<1>1. IsFiniteSet(S \ {x}) /\ \A y \in S \ {x} : f[y] \in Int /\ g[y] = f[y]
  BY Zenon, FS_Subset
<1>2. Total(g, S \ {x}) = Total(f, S \ {x}) /\ Total(f, S \ {x}) \in Int
  BY Zenon, <1>1, TotalSame, TotalInt
<1>3. Total(f, S) = f[x] + Total(f, S \ {x})
  BY TotalRemove
<1>4. Total(g, S) = g[x] + Total(g, S \ {x})
  BY TotalRemove
<1>5. f[x] \in Int /\ g[x] \in Int
  BY Zenon
<1> HIDE DEF Total
<1> QED BY ONLY <1>2, <1>3, <1>4, <1>5

LEMMA TotalPlus ==
  ASSUME NEW f, NEW g, NEW h, NEW S, IsFiniteSet(S),
         \A x \in S : f[x] \in Int /\ g[x] \in Int /\ h[x] = f[x] + g[x]
  PROVE  Total(h, S) = Total(f, S) + Total(g, S)
<1> DEFINE T == {U \in SUBSET S : Total(h, U) = Total(f, U) + Total(g, U)}
<1>1. ASSUME NEW U \in SUBSET S, \A V \in SUBSET U : V # U => V \in T
      PROVE  U \in T
  <2>1. CASE U = {}
    BY <2>1, TotalEmpty
  <2>2. CASE U # {}
    <3> DEFINE c == First(U)  R == U \ {c}
    <3>1. c \in U /\ R # U /\ R \in SUBSET S
      BY Zenon, <2>2, FirstIn
    <3>2. Total(h, R) = Total(f, R) + Total(g, R)
      BY Zenon, <1>1, <3>1
    <3>3. IsFiniteSet(U) /\ IsFiniteSet(R)
      BY Zenon, <3>1, FS_Subset
    <3>4. /\ Total(f, U) = f[c] + Total(f, R)
          /\ Total(g, U) = g[c] + Total(g, R)
          /\ Total(h, U) = h[c] + Total(h, R)
      BY Zenon, <2>2, <3>3, TotalFirst
    <3>5. f[c] \in Int /\ g[c] \in Int /\ h[c] = f[c] + g[c]
      BY Zenon, <3>1
    <3>6. Total(f, R) \in Int /\ Total(g, R) \in Int
      BY Zenon, <3>1, <3>3, TotalInt
    <3>7. Total(h, U) = Total(f, U) + Total(g, U)
      <4> HIDE DEF c, R
      <4> QED BY ONLY <3>2, <3>4, <3>5, <3>6
    <3> QED BY Zenon, <3>7
  <2> QED BY Zenon, <2>1, <2>2
<1>2. S \in T
  <2> HIDE DEF T
  <2> QED BY Zenon, <1>1, SubsetInduct
<1> QED BY Zenon, <1>2

\* Elements with nothing to add may be left out.
LEMMA TotalSupport ==
  ASSUME NEW f, NEW S, IsFiniteSet(S), NEW R \in SUBSET S,
         \A x \in S : f[x] \in Int, \A x \in S \ R : f[x] = 0
  PROVE  Total(f, S) = Total(f, R)
<1> DEFINE Q == S \ R
<1> DEFINE T == {U \in SUBSET Q : Total(f, R \cup U) = Total(f, R)}
<1>1. ASSUME NEW U \in SUBSET Q, \A V \in SUBSET U : V # U => V \in T
      PROVE  U \in T
  <2>1. CASE U = {}
    BY Zenon, <2>1
  <2>2. CASE U # {}
    <3>1. PICK y \in U : TRUE
      BY Zenon, <2>2
    <3>2. Total(f, R \cup (U \ {y})) = Total(f, R)
      BY Zenon, <1>1
    <3>3. IsFiniteSet(R \cup (U \ {y})) /\ y \notin R \cup (U \ {y})
          /\ R \cup U = (R \cup (U \ {y})) \cup {y}
      BY Zenon, FS_Subset
    <3>4. Total(f, R \cup U) = f[y] + Total(f, R \cup (U \ {y}))
      BY Zenon, <3>3, TotalInsert
    <3>5. f[y] = 0 /\ Total(f, R) \in Int
      BY Zenon, TotalInt, FS_Subset
    <3>6. Total(f, R \cup U) = Total(f, R)
      BY <3>2, <3>4, <3>5
    <3> QED BY Zenon, <3>6
  <2> QED BY Zenon, <2>1, <2>2
<1>2. IsFiniteSet(Q)
  BY Zenon, FS_Subset
<1>3. Q \in T
  <2> HIDE DEF T, Q
  <2> QED BY Zenon, <1>1, <1>2, SubsetInduct
<1>4. R \cup Q = S
  BY Zenon
<1> QED BY Zenon, <1>3, <1>4

-----------------------------------------------------------------------------
(* What an entry counts.                                                   *)

\* Finitely many emitters and elements; integers are added modulo their width
\* and emitted within it.
SumAssumption ==
  /\ IsFiniteSet(Emitters) /\ IsFiniteSet(Elems)
  /\ Modulus \in Nat \ {0}
  /\ ~Maps => Elems \subseteq 0..Modulus - 1

Counts == [Elems -> Nat]
Worth(s) == SumOf([x \in Elems |-> s[x] * x])

LEMMA SumOfIs == \A f : SumOf(f) = Total(f, DOMAIN f)
BY Zenon DEF SumOf, Total

LEMMA SumOfNat ==
  ASSUME NEW S, IsFiniteSet(S), NEW f \in [S -> Nat]
  PROVE  /\ SumOf(f) \in Nat
         /\ SumOf(f) = 0 => \A x \in S : f[x] = 0
<1> DEFINE T == {U \in SUBSET S : /\ Total(f, U) \in Nat
                                  /\ Total(f, U) = 0 => \A x \in U : f[x] = 0}
<1>1. ASSUME NEW U \in SUBSET S, \A V \in SUBSET U : V # U => V \in T
      PROVE  U \in T
  <2>1. CASE U = {}
    BY <2>1, TotalEmpty
  <2>2. CASE U # {}
    <3> DEFINE c == First(U)  R == U \ {c}
    <3>1. c \in U /\ R # U
      BY Zenon, <2>2, FirstIn
    <3>2. Total(f, U) = f[c] + Total(f, R)
      BY Zenon, <2>2, TotalFirst, FS_Subset
    <3>3. Total(f, R) \in Nat /\ (Total(f, R) = 0 => \A x \in R : f[x] = 0)
      BY Zenon, <1>1, <3>1
    <3>4. f[c] \in Nat
      BY Zenon, <3>1
    <3>5. Total(f, U) \in Nat /\ (Total(f, U) = 0 => f[c] = 0 /\ Total(f, R) = 0)
      BY <3>2, <3>3, <3>4
    <3> QED BY Zenon, <3>5, <3>3, <3>1
  <2> QED BY Zenon, <2>1, <2>2
<1>2. S \in T
  <2> HIDE DEF T
  <2> QED BY Zenon, <1>1, SubsetInduct
<1>3. SumOf(f) = Total(f, S)
  BY Zenon, SumOfIs
<1> QED BY Zenon, <1>2, <1>3

-----------------------------------------------------------------------------
(* Counting.                                                               *)

LEMMA NoneCounts ==
  ASSUME SumAssumption
  PROVE  /\ None \in Counts /\ SumOf(None) = 0
         /\ ~Maps => Worth(None) = 0
<1> USE DEF SumAssumption
<1>1. None \in Counts /\ DOMAIN None = Elems
  BY Zenon DEF None, Counts
<1>2. ASSUME NEW f \in [Elems -> Int], \A x \in Elems : f[x] = 0
      PROVE  SumOf(f) = 0
  <2>1. Total(f, Elems) = Total(f, {})
    BY Zenon, <1>2, TotalSupport
  <2> QED BY Zenon, <2>1, SumOfIs, TotalEmpty
<1>3. SumOf(None) = 0
  BY <1>2 DEF None
<1>4. ASSUME ~Maps PROVE Worth(None) = 0
  <2>1. [x \in Elems |-> None[x] * x] \in [Elems -> Int]
    BY <1>4, <1>1 DEF Counts
  <2>2. \A x \in Elems : [y \in Elems |-> None[y] * y][x] = 0
    BY <1>4 DEF None
  <2> QED BY Zenon, <2>1, <2>2, <1>2 DEF Worth
<1> QED BY Zenon, <1>1, <1>3, <1>4

LEMMA OneCounts ==
  ASSUME SumAssumption, NEW x \in Elems
  PROVE  /\ One(x) \in Counts /\ SumOf(One(x)) = 1
         /\ ~Maps => Worth(One(x)) = x
<1> USE DEF SumAssumption
<1>1. /\ One(x) \in Counts /\ DOMAIN One(x) = Elems
      /\ \A y \in Elems : One(x)[y] = IF y = x THEN 1 ELSE 0
  BY Zenon DEF One, None, Counts
<1>2. ASSUME NEW f \in [Elems -> Int], \A y \in Elems \ {x} : f[y] = 0
      PROVE  SumOf(f) = f[x]
  <2>1. Total(f, Elems) = Total(f, {x})
    BY Zenon, <1>2, TotalSupport
  <2>2. Total(f, {x}) = f[x] + Total(f, {x} \ {x})
    <3> DEFINE S == {x}
    <3>1. IsFiniteSet(S) /\ x \in S /\ \A y \in S : f[y] \in Int
      BY Zenon, FS_Singleton
    <3> HIDE DEF S
    <3>2. Total(f, S) = f[x] + Total(f, S \ {x})
      BY <3>1, TotalRemove
    <3> QED BY Zenon, <3>2 DEF S
  <2>3. {x} \ {x} = {} /\ f[x] \in Int
    BY Zenon
  <2> QED BY <2>1, <2>2, <2>3, SumOfIs, TotalEmpty
<1>3. SumOf(One(x)) = 1
  BY <1>1, <1>2 DEF Counts
<1>4. ASSUME ~Maps PROVE Worth(One(x)) = x
  <2> DEFINE f == [y \in Elems |-> One(x)[y] * y]
  <2>1. f \in [Elems -> Int] /\ (\A y \in Elems \ {x} : f[y] = 0) /\ f[x] = x
    BY <1>4, <1>1
  <2> QED BY Zenon, <2>1, <1>2 DEF Worth
<1> QED BY Zenon, <1>1, <1>3, <1>4

LEMMA PlusCounts ==
  ASSUME SumAssumption, NEW a \in Counts, NEW b \in Counts
  PROVE  /\ Plus(a, b) \in Counts
         /\ \A x \in Elems : Plus(a, b)[x] = a[x] + b[x]
         /\ SumOf(Plus(a, b)) = SumOf(a) + SumOf(b)
         /\ ~Maps => Worth(Plus(a, b)) = Worth(a) + Worth(b)
<1> USE DEF SumAssumption
<1>1. /\ Plus(a, b) \in Counts /\ DOMAIN Plus(a, b) = Elems
      /\ \A x \in Elems : a[x] \in Nat /\ b[x] \in Nat /\ Plus(a, b)[x] = a[x] + b[x]
  BY DEF Plus, Counts
<1>2. SumOf(Plus(a, b)) = SumOf(a) + SumOf(b)
  BY <1>1, TotalPlus, SumOfIs DEF Counts
<1>3. ASSUME ~Maps PROVE Worth(Plus(a, b)) = Worth(a) + Worth(b)
  <2> DEFINE W(s) == [x \in Elems |-> s[x] * x]
  <2>1. ASSUME NEW x \in Elems
        PROVE  W(a)[x] \in Int /\ W(b)[x] \in Int /\ W(Plus(a, b))[x] = W(a)[x] + W(b)[x]
    <3>1. x \in Int /\ a[x] \in Int /\ b[x] \in Int
      BY <1>1, <1>3
    <3>2. (a[x] + b[x]) * x = a[x] * x + b[x] * x /\ a[x] * x \in Int /\ b[x] * x \in Int
      BY <3>1
    <3> QED BY Zenon, <1>1, <3>2
  <2>2. Total(W(Plus(a, b)), Elems) = Total(W(a), Elems) + Total(W(b), Elems)
    <3> HIDE DEF W
    <3> QED BY <2>1, TotalPlus
  <2>3. \A s : Worth(s) = Total(W(s), Elems)
    BY Zenon, SumOfIs DEF Worth
  <2> QED BY Zenon, <2>2, <2>3
<1> QED BY Zenon, <1>1, <1>2, <1>3

LEMMA WorthInt ==
  ASSUME SumAssumption, ~Maps, NEW a \in Counts
  PROVE  Worth(a) \in Int
<1> USE DEF SumAssumption
<1> DEFINE f == [x \in Elems |-> a[x] * x]
<1>1. \A x \in Elems : f[x] \in Int
  BY DEF Counts
<1>2. Total(f, Elems) \in Int
  BY Zenon, <1>1, TotalInt
<1> QED BY Zenon, <1>2, SumOfIs DEF Worth

LEMMA ModUnique ==
  ASSUME NEW m \in Nat \ {0}, NEW q \in Int, NEW r \in 0..m - 1
  PROVE  (m * q + r) % m = r
<1> DEFINE n == m * q + r
<1>1. n \in Int
  OBVIOUS
<1>2. n = m * (n \div m) + (n % m) /\ (n % m) \in 0..m - 1 /\ n \div m \in Int
  <2> HIDE DEF n
  <2> QED BY <1>1
<1>3. PICK d \in Int : d = n \div m
  BY Zenon, <1>2
<1>4. PICK e \in 0..m - 1 : e = n % m
  BY Zenon, <1>2
<1>5. m * (q - d) = e - r
  <2>1. m * q + r = m * d + e
    BY Zenon, <1>2, <1>3, <1>4
  <2>2. m * (q - d) = m * q - m * d
    BY <1>3
  <2>3. m * q \in Int /\ m * d \in Int
    BY <1>3
  <2> QED BY <2>1, <2>2, <2>3
<1>6. q - d = 0
  <2>1. CASE q - d >= 1
    <3>1. m * (q - d) >= m
      BY <2>1
    <3> QED BY <3>1, <1>5
  <2>2. CASE q - d <= -1
    <3>1. m * (q - d) <= -m
      BY <2>2
    <3> QED BY <3>1, <1>5
  <2> QED BY <2>1, <2>2
<1> QED BY <1>4, <1>5, <1>6

LEMMA WrapAdds ==
  ASSUME Modulus \in Nat \ {0}, NEW a \in Int, NEW b \in Int
  PROVE  /\ Wrap(Wrap(a) + Wrap(b)) = Wrap(a + b)
         /\ Wrap(Wrap(a) + b) = Wrap(a + b)
         /\ a \in 0..Modulus - 1 => Wrap(a) = a
<1> DEFINE m == Modulus
<1>1. ASSUME NEW n \in Int
      PROVE  \E q \in Int : n = m * q + Wrap(n) /\ Wrap(n) \in 0..m - 1
  <2>1. n = m * (n \div m) + (n % m) /\ (n % m) \in 0..m - 1 /\ n \div m \in Int
    OBVIOUS
  <2> QED BY Zenon, <2>1 DEF Wrap
<1>2. ASSUME NEW q \in Int, NEW n \in Int
      PROVE  Wrap(m * q + n) = Wrap(n)
  <2>1. PICK p \in Int : n = m * p + Wrap(n) /\ Wrap(n) \in 0..m - 1
    BY Zenon, <1>1
  <2>2. PICK r \in 0..m - 1 : r = Wrap(n)
    BY Zenon, <2>1
  <2>3. m * q + n = m * (q + p) + r
    <3>1. m * (q + p) = m * q + m * p /\ m * q \in Int /\ m * p \in Int
      OBVIOUS
    <3>2. n = m * p + r
      BY Zenon, <2>1, <2>2
    <3> QED BY <3>1, <3>2
  <2>4. (m * (q + p) + r) % m = r
    BY ModUnique
  <2> QED BY Zenon, <2>2, <2>3, <2>4 DEF Wrap
<1>3. PICK p \in Int : a = m * p + Wrap(a) /\ Wrap(a) \in 0..m - 1
  BY Zenon, <1>1
<1>4. PICK q \in Int : b = m * q + Wrap(b) /\ Wrap(b) \in 0..m - 1
  BY Zenon, <1>1
<1>5. PICK u \in Int, v \in Int : u = Wrap(a) /\ v = Wrap(b)
  BY <1>3, <1>4
<1>6. Wrap(a + b) = Wrap(u + b)
  <2>1. PICK w \in Int : w = u + b
    OBVIOUS
  <2>2. a + b = m * p + w
    BY <1>3, <1>5, <2>1
  <2>3. Wrap(m * p + w) = Wrap(w)
    BY Zenon, <1>2
  <2> QED BY Zenon, <2>1, <2>2, <2>3
<1>7. Wrap(u + b) = Wrap(u + v)
  <2>1. PICK w \in Int : w = u + v
    OBVIOUS
  <2>2. u + b = m * q + w
    BY <1>4, <1>5, <2>1
  <2>3. Wrap(m * q + w) = Wrap(w)
    BY Zenon, <1>2
  <2> QED BY Zenon, <2>1, <2>2, <2>3
<1>8. a \in 0..m - 1 => Wrap(a) = a
  BY DEF Wrap
<1> QED BY Zenon, <1>5, <1>6, <1>7, <1>8

-----------------------------------------------------------------------------
(* Entries and strings.                                                    *)

Exact(n) ==
  /\ n.seen \in Counts
  /\ n.entry.tot = SumOf(n.seen)
  /\ ~Maps => n.entry.sum = Wrap(Worth(n.seen))

ExactString(w) ==
  /\ w.seen \in Counts /\ w.key \in Indices
  /\ w.val # <<>>
  /\ w.val[1] = SumOf(w.seen) /\ w.val[1] > 0
  /\ ~Maps => w.val[2] = Wrap(Worth(w.seen))

Node(e, s) == [entry |-> e, seen |-> s]

LEMMA LookupExact ==
  ASSUME SumAssumption, NEW m, NEW k, k \in DOMAIN table[m] => Exact(table[m][k]),
         NEW old \in Lookup(m, k)
  PROVE  Exact(old)
<1>1. CASE k \in DOMAIN table[m]
  BY Zenon, <1>1 DEF Lookup
<1>2. CASE k \notin DOMAIN table[m]
  <2>1. old = [entry |-> [tot |-> 0, sum |-> Nothing], seen |-> None]
    BY Zenon, <1>2 DEF Lookup, CreateEntry
  <2>2. ~Maps => Wrap(0) = 0
    BY WrapAdds DEF SumAssumption
  <2> QED BY Zenon, <2>1, <2>2, NoneCounts DEF Exact, Nothing
<1> QED BY Zenon, <1>1, <1>2

LEMMA AddElemExact ==
  ASSUME SumAssumption, NEW n, Exact(n), NEW x \in Elems, NEW new \in AddElem(n.entry, x)
  PROVE  Exact(Node(new, Plus(n.seen, One(x))))
<1> DEFINE s == Plus(n.seen, One(x))
<1>1. n.seen \in Counts /\ SumOf(n.seen) \in Nat
  BY Zenon, SumOfNat DEF Exact, Counts, SumAssumption
<1>2. s \in Counts /\ SumOf(s) = SumOf(n.seen) + 1
      /\ (~Maps => Worth(s) = Worth(n.seen) + x)
  BY <1>1, PlusCounts, OneCounts
<1>3. new = [tot |-> n.entry.tot + 1,
             sum |-> IF n.entry.tot + 1 = 1 THEN x ELSE Add(x, n.entry.sum)]
  BY Zenon DEF AddElem
<1>4. ASSUME ~Maps PROVE new.sum = Wrap(Worth(s))
  <2>1. x \in 0..Modulus - 1 /\ x \in Int /\ Modulus \in Nat \ {0} /\ Worth(n.seen) \in Int
    BY <1>1, <1>4, WorthInt DEF SumAssumption
  <2>2. CASE n.entry.tot = 0
    <3>1. \A y \in Elems : n.seen[y] = 0
      BY Zenon, <2>2, <1>1, SumOfNat DEF Exact, Counts, SumAssumption
    <3>2. n.seen = None
      BY Zenon, <3>1, <1>1 DEF None, Counts
    <3>3. Worth(s) = x
      BY <3>2, <1>2, <1>4, <2>1, NoneCounts
    <3>4. new.sum = x
      BY <1>3, <2>2
    <3> QED BY Zenon, <3>3, <3>4, <2>1, WrapAdds
  <2>3. CASE n.entry.tot # 0
    <3>1. new.sum = Wrap(Wrap(Worth(n.seen)) + x)
      BY <1>1, <1>3, <1>4, <2>3 DEF Add, Exact
    <3>2. Wrap(Wrap(Worth(n.seen)) + x) = Wrap(Worth(n.seen) + x)
      BY Zenon, <2>1, WrapAdds
    <3> QED BY Zenon, <3>1, <3>2, <1>2, <1>4
  <2> QED BY Zenon, <2>2, <2>3
<1>5. new.tot = SumOf(s)
  BY Zenon, <1>2, <1>3 DEF Exact
<1> HIDE DEF s
<1>6. Node(new, s).entry = new /\ Node(new, s).seen = s
  BY Zenon DEF Node
<1>7. Exact(Node(new, s))
  BY ONLY <1>2, <1>4, <1>5, <1>6 DEF Exact
<1> QED BY Zenon, <1>7 DEF s

LEMMA MergeExact ==
  ASSUME SumAssumption, NEW n, Exact(n), NEW w, ExactString(w), NEW r \in Merge(n.entry, w.val)
  PROVE  r.ok /\ Exact(Node(r.entry, Plus(n.seen, w.seen)))
<1> DEFINE s == Plus(n.seen, w.seen)
<1>1. /\ n.seen \in Counts /\ SumOf(n.seen) \in Nat
      /\ w.seen \in Counts /\ SumOf(w.seen) \in Nat
  BY Zenon, SumOfNat DEF Exact, ExactString, Counts, SumAssumption
<1>2. s \in Counts /\ SumOf(s) = SumOf(n.seen) + SumOf(w.seen)
      /\ (~Maps => Worth(s) = Worth(n.seen) + Worth(w.seen))
  BY Zenon, <1>1, PlusCounts
<1>3. r = [ok |-> TRUE, entry |-> [tot |-> n.entry.tot + w.val[1], sum |-> Add(w.val[2], n.entry.sum)]]
  BY <1>1 DEF Merge, ExactString
<1>4. r.ok /\ r.entry.tot = SumOf(s)
  BY Zenon, <1>2, <1>3 DEF Exact, ExactString
<1>5. ASSUME ~Maps PROVE r.entry.sum = Wrap(Worth(s))
  <2>1. Worth(n.seen) \in Int /\ Worth(w.seen) \in Int /\ Modulus \in Nat \ {0}
    BY Zenon, <1>1, <1>5, WorthInt DEF SumAssumption
  <2>2. r.entry.sum = Wrap(Wrap(Worth(n.seen)) + Wrap(Worth(w.seen)))
    BY Zenon, <1>3, <1>5 DEF Add, Exact, ExactString
  <2> QED BY <2>1, <2>2, <1>2, <1>5, WrapAdds
<1> HIDE DEF s
<1>6. Node(r.entry, s).entry = r.entry /\ Node(r.entry, s).seen = s
  BY Zenon DEF Node
<1>7. Exact(Node(r.entry, s))
  BY ONLY <1>2, <1>4, <1>5, <1>6 DEF Exact
<1> QED BY Zenon, <1>4, <1>7 DEF s

LEMMA FlushExact ==
  ASSUME SumAssumption, NEW n, Exact(n), NEW k \in Indices
  PROVE  /\ Flush(n.entry) = <<>> => \A x \in Elems : n.seen[x] = 0
         /\ Flush(n.entry) # <<>> =>
              ExactString([key |-> k, val |-> Flush(n.entry), seen |-> n.seen])
<1>1. n.seen \in Counts /\ SumOf(n.seen) \in Nat
      /\ (SumOf(n.seen) = 0 => \A x \in Elems : n.seen[x] = 0)
  BY Zenon, SumOfNat DEF Exact, Counts, SumAssumption
<1>2. CASE n.entry.tot = 0
  BY Zenon, <1>1, <1>2 DEF Flush, Exact
<1>3. CASE n.entry.tot # 0
  <2>1. Flush(n.entry) = <<n.entry.tot, n.entry.sum>>
    BY Zenon, <1>3 DEF Flush
  <2>2. n.entry.tot > 0
    BY <1>1, <1>3 DEF Exact
  <2> QED BY <2>1, <2>2, <1>1 DEF Exact, ExactString
<1> QED BY Zenon, <1>2, <1>3

-----------------------------------------------------------------------------
(* Tables and the bag of written strings.                                  *)

TableExact(t) ==
  /\ t = [m \in Emitters |-> t[m]]
  /\ \A m \in Emitters :
       /\ IsFiniteSet(DOMAIN t[m]) /\ DOMAIN t[m] \subseteq Indices
       /\ \A k \in DOMAIN t[m] : Exact(t[m][k])

BagExact(b) ==
  /\ b \in [DOMAIN b -> Nat \ {0}]
  /\ IsFiniteSet(DOMAIN b)
  /\ \A w \in DOMAIN b : ExactString(w)

LEMMA StoreExact ==
  ASSUME SumAssumption, TableExact(table), NEW m \in Emitters, NEW k \in Indices,
         NEW e, NEW s, Exact(Node(e, s))
  PROVE  TableExact(Store(m, k, e, s))
<1> DEFINE t == Store(m, k, e, s)
<1>1. t = [i \in Emitters |-> t[i]]
  BY Zenon DEF Store, TableExact
<1>2. \A i \in Emitters \ {m} : t[i] = table[i]
  BY Zenon DEF Store, TableExact
<1>3. t[m] = [i \in DOMAIN table[m] \cup {k} |->
                IF i = k THEN Node(e, s) ELSE table[m][i]]
  BY Zenon DEF Store, TableExact, Node
<1>4. IsFiniteSet(DOMAIN table[m] \cup {k})
  BY Zenon, FS_AddElement DEF TableExact
<1>5. \A i \in DOMAIN t[m] : Exact(t[m][i])
  BY Zenon, <1>3 DEF TableExact
<1> HIDE DEF t
<1>6. TableExact(t)
  BY <1>1, <1>2, <1>3, <1>4, <1>5 DEF TableExact
<1> QED BY Zenon, <1>6 DEF t

\* Replacing an entry adds to the stored emits of its index what the new
\* entry has seen and the old one has not.
LEMMA StoreMoves ==
  ASSUME SumAssumption, TableExact(table), NEW m \in Emitters, NEW k \in Indices,
         NEW old \in Lookup(m, k), NEW e, NEW s \in Counts, NEW i \in Indices, NEW x \in Elems
  PROVE  SumOf(Stored(Store(m, k, e, s), i, x)) =
           SumOf(Stored(table, i, x)) + (IF i = k THEN s[x] - old.seen[x] ELSE 0)
<1> DEFINE t == Store(m, k, e, s)
           f == Stored(table, i, x)
           g == Stored(t, i, x)
<1>1. \A j \in Emitters \ {m} : t[j] = table[j]
  BY Zenon DEF Store, TableExact
<1>2. t[m] = [j \in DOMAIN table[m] \cup {k} |->
                IF j = k THEN Node(e, s) ELSE table[m][j]]
  BY Zenon DEF Store, TableExact, Node
<1>3. \A j \in Emitters : f[j] \in Int
  BY DEF Stored, TableExact, Exact, Counts
<1> HIDE DEF t
<1>4. \A j \in Emitters \ {m} : g[j] = f[j]
  BY Zenon, <1>1 DEF Stored
<1>5. s[x] \in Int
  BY DEF Counts
<1>6. CASE i = k
  <2>1. g[m] = s[x]
    BY <1>2, <1>6 DEF Stored, Node
  <2>2. f[m] = old.seen[x]
    BY <1>6 DEF Stored, Lookup, None
  <2>3. \A j \in Emitters : g[j] \in Int
    BY Zenon, <1>3, <1>4, <1>5, <2>1
  <2>4. DOMAIN f = Emitters /\ DOMAIN g = Emitters
    BY Zenon DEF Stored
  <2> HIDE DEF f, g
  <2>5. Total(g, Emitters) = Total(f, Emitters) - f[m] + g[m]
    BY <1>3, <1>4, <2>3, TotalChange DEF SumAssumption
  <2>6. Total(f, Emitters) \in Int
    BY Zenon, <1>3, TotalInt DEF SumAssumption
  <2>7. f[m] \in Int /\ g[m] \in Int
    BY Zenon, <1>3, <2>3
  <2>8. SumOf(g) = SumOf(f) + (s[x] - old.seen[x])
    BY <2>1, <2>2, <2>4, <2>5, <2>6, <2>7, SumOfIs
  <2> QED BY Zenon, <2>8, <1>6 DEF t, f, g
<1>7. CASE i # k
  <2>1. g[m] = f[m]
    BY Zenon, <1>2, <1>7 DEF Stored
  <2>2. DOMAIN f = Emitters /\ DOMAIN g = Emitters
    BY Zenon DEF Stored
  <2> HIDE DEF f, g
  <2>3. \A j \in Emitters : f[j] \in Int /\ g[j] = f[j]
    BY Zenon, <1>3, <1>4, <2>1
  <2>4. Total(g, Emitters) = Total(f, Emitters)
    BY Zenon, <2>3, TotalSame DEF SumAssumption
  <2>5. Total(f, Emitters) \in Int
    BY Zenon, <1>3, TotalInt DEF SumAssumption
  <2>6. SumOf(g) = SumOf(f) + 0
    BY <2>2, <2>4, <2>5, SumOfIs
  <2> QED BY Zenon, <2>6, <1>7 DEF t, f, g
<1> QED BY Zenon, <1>6, <1>7

\* Taking a string for a merge takes its emits.
LEMMA TakeMoves ==
  ASSUME SumAssumption, NEW b, BagExact(b), NEW w \in DOMAIN b
  PROVE  /\ BagExact(b (-) SetToBag({w}))
         /\ \A k \in Indices, x \in Elems :
              SumOf(Pending(b (-) SetToBag({w}), k, x)) =
                SumOf(Pending(b, k, x)) - (IF w.key = k THEN w.seen[x] ELSE 0)
<1> DEFINE c == b (-) SetToBag({w})
           Left(v) == IF v = w THEN b[v] - 1 ELSE b[v]
           D == {v \in DOMAIN b : Left(v) > 0}
<1>1. c = [v \in D |-> Left(v)]
  BY Zenon DEF SetToBag, (-)
<1>2. \A v \in DOMAIN b : b[v] \in Nat \ {0} /\ Left(v) \in Nat
  BY DEF BagExact
<1>3. BagExact(c)
  <2>1. IsFiniteSet(D)
    BY Zenon, FS_Subset DEF BagExact
  <2> HIDE DEF c, Left
  <2>2. DOMAIN c = D /\ c \in [D -> Nat \ {0}]
    BY <1>1, <1>2
  <2>3. \A v \in D : ExactString(v)
    BY Zenon DEF BagExact
  <2> QED BY Zenon, <2>1, <2>2, <2>3 DEF BagExact
<1>4. ASSUME NEW k \in Indices, NEW x \in Elems
      PROVE  SumOf(Pending(c, k, x)) =
               SumOf(Pending(b, k, x)) - (IF w.key = k THEN w.seen[x] ELSE 0)
  <2> DEFINE f == Pending(b, k, x)
             g == [v \in DOMAIN b |-> IF v.key = k THEN Left(v) * v.seen[x] ELSE 0]
             h == Pending(c, k, x)
  <2>1. \A v \in DOMAIN b : v.seen[x] \in Nat
    BY Zenon DEF BagExact, ExactString, Counts
  <2>2. /\ DOMAIN f = DOMAIN b /\ DOMAIN h = D
        /\ \A v \in DOMAIN b : f[v] = IF v.key = k THEN b[v] * v.seen[x] ELSE 0
        /\ \A v \in D : h[v] = IF v.key = k THEN Left(v) * v.seen[x] ELSE 0
    BY Zenon, <1>1 DEF Pending, BagToSet
  <2>3. \A v \in DOMAIN b : f[v] \in Int /\ g[v] \in Int
    BY <1>2, <2>1, <2>2
  <2>4. \A v \in DOMAIN b \ {w} : g[v] = f[v]
    BY Zenon, <2>2
  <2>5. f[w] - g[w] = IF w.key = k THEN w.seen[x] ELSE 0
    <3>1. b[w] * w.seen[x] - (b[w] - 1) * w.seen[x] = w.seen[x]
      BY <1>2, <2>1
    <3> QED BY <3>1, <2>2
  <2>6. \A v \in DOMAIN b \ D : g[v] = 0
    <3>1. \A v \in DOMAIN b \ D : Left(v) = 0
      BY <1>2
    <3> QED BY <3>1, <2>1
  <2>7. \A v \in D : h[v] = g[v]
    BY Zenon, <2>2
  <2>8. D \in SUBSET DOMAIN b /\ IsFiniteSet(DOMAIN b) /\ IsFiniteSet(D)
    BY Zenon, FS_Subset DEF BagExact
  <2> HIDE DEF f, g, h, D, c, Left
  <2>9. Total(g, DOMAIN b) = Total(f, DOMAIN b) - f[w] + g[w]
    BY <2>3, <2>4, <2>8, TotalChange
  <2>10. Total(g, DOMAIN b) = Total(g, D)
    BY Zenon, <2>3, <2>6, <2>8, TotalSupport
  <2>11. Total(h, D) = Total(g, D)
    BY Zenon, <2>3, <2>7, <2>8, TotalSame
  <2>12. Total(f, DOMAIN b) \in Int /\ f[w] \in Int /\ g[w] \in Int
    BY Zenon, <2>3, <2>8, TotalInt
  <2>13. SumOf(f) = Total(f, DOMAIN b) /\ SumOf(h) = Total(h, D)
    BY Zenon, <2>2, SumOfIs
  <2>14. SumOf(h) = SumOf(f) - (f[w] - g[w])
    BY ONLY <2>9, <2>10, <2>11, <2>12, <2>13
  <2> QED BY Zenon, <2>5, <2>14 DEF f, h
<1> QED BY Zenon, <1>3, <1>4

\* what Flusher writes for the entries of emitter m
String(m, k) == [key |-> k, val |-> Flush(table[m][k].entry), seen |-> table[m][k].seen]
Full(m) == {i \in DOMAIN table[m] : Flush(table[m][i].entry) # <<>>}
Strings(m) == {String(m, k) : k \in Full(m)}
\* the emits of x in the entry of index k
InEntry(m, k, x) == IF k \in DOMAIN table[m] THEN table[m][k].seen[x] ELSE 0

LEMMA StringsExact ==
  ASSUME SumAssumption, TableExact(table), NEW m \in Emitters
  PROVE  /\ IsFiniteSet(Strings(m))
         /\ \A w \in Strings(m) : ExactString(w)
<1>1. Full(m) \in SUBSET DOMAIN table[m] /\ IsFiniteSet(Full(m))
  BY Zenon, FS_Subset DEF Full, TableExact
<1>2. [k \in Full(m) |-> String(m, k)] \in Surjection(Full(m), Strings(m))
  BY Zenon DEF Strings, Surjection
<1>3. IsFiniteSet(Strings(m))
  BY Zenon, <1>1, <1>2, FS_Surjection
<1>4. ASSUME NEW k \in Full(m) PROVE ExactString(String(m, k))
  <2>1. Exact(table[m][k]) /\ k \in Indices /\ Flush(table[m][k].entry) # <<>>
    BY Zenon DEF Full, TableExact
  <2> QED BY Zenon, <2>1, FlushExact DEF String
<1> QED BY Zenon, <1>3, <1>4 DEF Strings

LEMMA WriteExact ==
  ASSUME SumAssumption, TableExact(table), NEW m \in Emitters, NEW b, BagExact(b)
  PROVE  BagExact(b (+) SetToBag(Strings(m)))
<1> DEFINE R == Strings(m)
           c == b (+) SetToBag(R)
<1>1. c = [v \in DOMAIN b \cup R |-> (IF v \in DOMAIN b THEN b[v] ELSE 0) + (IF v \in R THEN 1 ELSE 0)]
  BY Zenon DEF SetToBag, (+)
<1>2. IsFiniteSet(DOMAIN b \cup R) /\ \A v \in R : ExactString(v)
  BY Zenon, StringsExact, FS_Union DEF BagExact
<1> HIDE DEF R, c
<1>3. DOMAIN c = DOMAIN b \cup R /\ c \in [DOMAIN c -> Nat \ {0}]
  BY <1>1 DEF BagExact
<1>4. BagExact(c)
  BY Zenon, <1>2, <1>3 DEF BagExact
<1> QED BY Zenon, <1>4 DEF c, R

LEMMA WriteMoves ==
  ASSUME SumAssumption, TableExact(table), NEW m \in Emitters, NEW b, BagExact(b),
         NEW k \in Indices, NEW x \in Elems
  PROVE  SumOf(Pending(b (+) SetToBag(Strings(m)), k, x)) =
           SumOf(Pending(b, k, x)) + InEntry(m, k, x)
<1> DEFINE R == Strings(m)
           c == b (+) SetToBag(R)
           f == Pending(b, k, x)
           h == Pending(c, k, x)
           D == DOMAIN b
<1>1. c = [v \in D \cup R |-> (IF v \in D THEN b[v] ELSE 0) + (IF v \in R THEN 1 ELSE 0)]
  BY Zenon DEF SetToBag, (+)
<1>2. IsFiniteSet(D) /\ IsFiniteSet(D \cup R) /\ \A v \in D \cup R : v.seen[x] \in Nat
  BY Zenon, StringsExact, FS_Union DEF BagExact, ExactString, Counts
<1>3. /\ DOMAIN f = D /\ DOMAIN h = D \cup R
      /\ \A v \in D : f[v] = IF v.key = k THEN b[v] * v.seen[x] ELSE 0
      /\ \A v \in D \cup R : h[v] = IF v.key = k THEN c[v] * v.seen[x] ELSE 0
  BY Zenon, <1>1 DEF Pending, BagToSet
<1>4. \A v \in D : b[v] \in Nat
  BY Zenon DEF BagExact
<1>5. \A v \in D \cup R : c[v] \in Nat
  BY <1>1, <1>4
<1>6. (\A v \in D : f[v] \in Int) /\ (\A v \in D \cup R : h[v] \in Int)
  BY <1>2, <1>3, <1>4, <1>5
<1>7. SumOf(f) = Total(f, D) /\ SumOf(h) = Total(h, D \cup R) /\ Total(f, D) \in Int
  BY Zenon, <1>2, <1>3, <1>6, TotalInt, SumOfIs
<1>8. \A v \in R : v.key = k => k \in Full(m) /\ v = String(m, k)
  BY DEF Strings, String
<1>9. CASE k \in Full(m)
  <2> DEFINE r == String(m, k)
             E == D \cup {r}
             g == [v \in E |-> IF v \in D THEN f[v] ELSE 0]
  <2>1. r \in R /\ r.key = k /\ r.seen[x] = InEntry(m, k, x)
    BY Zenon, <1>9 DEF Strings, String, InEntry, Full
  <2>2. /\ E \in SUBSET (D \cup R) /\ r \in E
        /\ IsFiniteSet(E) /\ D \in SUBSET E
    BY Zenon, <1>2, <2>1, FS_AddElement
  <2>3. \A v \in (D \cup R) \ E : h[v] = 0
    BY Zenon, <1>3, <1>8
  <2>4. \A v \in E : g[v] \in Int /\ h[v] \in Int
    BY <1>6, <2>1
  <2>5. \A v \in E \ {r} : h[v] = g[v]
    <3>1. \A v \in D \ {r} : v.key = k => c[v] = b[v]
      BY <1>1, <1>4, <1>8
    <3> QED BY Zenon, <3>1, <1>3
  <2>6. h[r] = g[r] + r.seen[x]
    <3>1. CASE r \in D
      <4>1. c[r] = b[r] + 1
        BY Zenon, <1>1, <2>1, <3>1
      <4>2. (b[r] + 1) * r.seen[x] = b[r] * r.seen[x] + r.seen[x]
        BY <1>2, <1>4, <3>1
      <4>3. h[r] = c[r] * r.seen[x] /\ g[r] = b[r] * r.seen[x]
        BY Zenon, <1>3, <2>1, <3>1
      <4> QED BY ONLY <4>1, <4>2, <4>3
    <3>2. CASE r \notin D
      <4>1. c[r] = 1
        BY <1>1, <2>1, <3>2
      <4>2. g[r] = 0
        BY Zenon, <3>2
      <4>3. h[r] = c[r] * r.seen[x] /\ r.seen[x] \in Nat
        BY Zenon, <1>2, <1>3, <2>1
      <4> QED BY ONLY <4>1, <4>2, <4>3
    <3> QED BY Zenon, <3>1, <3>2
  <2>7. (\A v \in E \ D : g[v] = 0) /\ (\A v \in D : f[v] \in Int /\ g[v] = f[v])
    BY Zenon, <1>6
  <2> HIDE DEF R, c, f, h, D, r, E, g
  <2>8. Total(h, D \cup R) = Total(h, E)
    <3> DEFINE DR == D \cup R
    <3>1. IsFiniteSet(DR) /\ E \in SUBSET DR /\ (\A v \in DR : h[v] \in Int) /\ \A v \in DR \ E : h[v] = 0
      BY Zenon, <1>2, <1>6, <2>2, <2>3
    <3> HIDE DEF DR
    <3>2. Total(h, DR) = Total(h, E)
      BY Zenon, <3>1, TotalSupport
    <3> QED BY Zenon, <3>2 DEF DR
  <2>9. Total(h, E) = Total(g, E) - g[r] + h[r]
    BY <2>2, <2>4, <2>5, TotalChange
  <2>10. Total(g, E) = Total(g, D)
    BY Zenon, <2>2, <2>4, <2>7, TotalSupport
  <2>11. Total(g, D) = Total(f, D)
    BY Zenon, <1>2, <2>7, TotalSame
  <2>12. g[r] \in Int /\ r.seen[x] \in Int
    BY <1>2, <2>1, <2>2, <2>4
  <2>13. SumOf(h) = SumOf(f) + r.seen[x]
    BY ONLY <1>7, <2>6, <2>8, <2>9, <2>10, <2>11, <2>12
  <2> QED BY Zenon, <2>1, <2>13 DEF f, h, c, R
<1>10. CASE k \notin Full(m)
  <2>1. InEntry(m, k, x) = 0
    <3>1. k \in DOMAIN table[m] => table[m][k].seen[x] = 0
      BY Zenon, <1>10, FlushExact DEF Full, TableExact
    <3> QED BY Zenon, <3>1 DEF InEntry
  <2>2. \A v \in (D \cup R) \ D : h[v] = 0
    BY Zenon, <1>3, <1>8, <1>10
  <2>3. \A v \in D : f[v] \in Int /\ h[v] = f[v]
    <3>1. \A v \in D : v.key = k => c[v] = b[v]
      BY <1>1, <1>4, <1>8, <1>10
    <3> QED BY Zenon, <3>1, <1>3, <1>6
  <2> HIDE DEF R, c, f, h, D
  <2>4. Total(h, D \cup R) = Total(h, D)
    <3> DEFINE DR == D \cup R
    <3>1. IsFiniteSet(DR) /\ D \in SUBSET DR /\ (\A v \in DR : h[v] \in Int) /\ \A v \in DR \ D : h[v] = 0
      BY Zenon, <1>2, <1>6, <2>2
    <3> HIDE DEF DR
    <3>2. Total(h, DR) = Total(h, D)
      BY Zenon, <3>1, TotalSupport
    <3> QED BY Zenon, <3>2 DEF DR
  <2>5. Total(h, D) = Total(f, D)
    BY Zenon, <1>2, <2>3, TotalSame
  <2>6. SumOf(h) = SumOf(f) + 0
    BY ONLY <1>7, <2>4, <2>5
  <2> QED BY Zenon, <2>1, <2>6 DEF f, h, c, R
<1> QED BY Zenon, <1>9, <1>10

LEMMA ClearMoves ==
  ASSUME SumAssumption, TableExact(table), NEW m \in Emitters
  PROVE  /\ TableExact([table EXCEPT ![m] = <<>>])
         /\ \A k \in Indices, x \in Elems :
              SumOf(Stored([table EXCEPT ![m] = <<>>], k, x)) =
                SumOf(Stored(table, k, x)) - InEntry(m, k, x)
<1> DEFINE t == [table EXCEPT ![m] = <<>>]
<1>1. /\ t = [i \in Emitters |-> t[i]]
      /\ \A i \in Emitters \ {m} : t[i] = table[i]
      /\ t[m] = <<>> /\ DOMAIN t[m] = {}
  BY DEF TableExact
<1> HIDE DEF t
<1>2. TableExact(t)
  BY Zenon, <1>1, FS_EmptySet DEF TableExact
<1>3. ASSUME NEW k \in Indices, NEW x \in Elems
      PROVE  SumOf(Stored(t, k, x)) = SumOf(Stored(table, k, x)) - InEntry(m, k, x)
  <2> DEFINE f == Stored(table, k, x)
             g == Stored(t, k, x)
  <2>1. \A i \in Emitters : f[i] \in Int
    BY DEF Stored, TableExact, Exact, Counts
  <2>2. (\A i \in Emitters \ {m} : g[i] = f[i]) /\ g[m] = 0 /\ f[m] = InEntry(m, k, x)
    BY Zenon, <1>1 DEF Stored, InEntry
  <2>3. DOMAIN f = Emitters /\ DOMAIN g = Emitters
    BY Zenon DEF Stored
  <2> HIDE DEF f, g
  <2>4. \A i \in Emitters : f[i] \in Int /\ g[i] \in Int
    BY <2>1, <2>2
  <2>5. Total(g, Emitters) = Total(f, Emitters) - f[m] + g[m]
    BY <2>2, <2>4, TotalChange DEF SumAssumption
  <2>6. Total(f, Emitters) \in Int /\ f[m] \in Int
    BY Zenon, <2>1, TotalInt DEF SumAssumption
  <2>7. SumOf(f) = Total(f, Emitters) /\ SumOf(g) = Total(g, Emitters)
    BY Zenon, <2>3, SumOfIs
  <2>8. SumOf(g) = SumOf(f) - f[m]
    BY ONLY <2>2, <2>5, <2>6, <2>7
  <2> QED BY Zenon, <2>2, <2>8 DEF f, g
<1> QED BY Zenon, <1>2, <1>3 DEF t

-----------------------------------------------------------------------------
(* The inductive invariant and its proof.                                  *)

IInv ==
  /\ TableExact(table)
  /\ BagExact(written)
  /\ emitted \in [Indices -> Counts]
  /\ failed = FALSE
  /\ EmitsConserved

LEMMA InitExact ==
  ASSUME SumAssumption, Init PROVE IInv
<1> USE DEF SumAssumption
<1>1. TableExact(table)
  BY FS_EmptySet DEF Init, TableExact
<1>2. BagExact(written) /\ DOMAIN written = {}
  BY Zenon, FS_EmptySet DEF Init, BagExact, EmptyBag, SetToBag
<1>3. emitted \in [Indices -> Counts] /\ failed = FALSE
  BY Zenon, NoneCounts DEF Init
<1>4. ASSUME NEW k \in Indices, NEW x \in Elems
      PROVE  emitted[k][x] = SumOf(Stored(table, k, x)) + SumOf(Pending(written, k, x))
  <2> DEFINE f == Stored(table, k, x)
             g == Pending(written, k, x)
  <2>1. emitted[k][x] = 0
    BY Zenon DEF Init, None
  <2>2. DOMAIN f = Emitters /\ DOMAIN g = {} /\ \A m \in Emitters : f[m] = 0
    BY <1>2 DEF Init, Stored, Pending, BagToSet
  <2> HIDE DEF f, g
  <2>3. Total(f, Emitters) = Total(f, {})
    BY <2>2, TotalSupport
  <2>4. SumOf(f) = 0 /\ SumOf(g) = 0
    BY Zenon, <2>2, <2>3, TotalEmpty, SumOfIs
  <2> QED BY <2>1, <2>4 DEF f, g
<1> QED BY Zenon, <1>1, <1>2, <1>3, <1>4 DEF IInv, EmitsConserved

\* the two sums of EmitsConserved are integers
LEMMA SumsAreInt ==
  ASSUME SumAssumption, TableExact(table), BagExact(written), NEW k \in Indices, NEW x \in Elems
  PROVE  SumOf(Stored(table, k, x)) \in Int /\ SumOf(Pending(written, k, x)) \in Int
<1> DEFINE f == Stored(table, k, x)
           g == Pending(written, k, x)
<1>1. DOMAIN f = Emitters /\ \A m \in Emitters : f[m] \in Int
  BY DEF Stored, TableExact, Exact, Counts
<1>2. DOMAIN g = DOMAIN written /\ \A w \in DOMAIN written : g[w] \in Int
  <2>1. \A w \in DOMAIN written : written[w] \in Nat /\ w.seen[x] \in Nat
    BY Zenon DEF BagExact, ExactString, Counts
  <2> QED BY <2>1 DEF Pending, BagToSet
<1>3. IsFiniteSet(Emitters) /\ IsFiniteSet(DOMAIN written)
  BY Zenon DEF SumAssumption, BagExact
<1> HIDE DEF f, g
<1>4. SumOf(f) \in Int /\ SumOf(g) \in Int
  BY Zenon, <1>1, <1>2, <1>3, TotalInt, SumOfIs
<1> QED BY Zenon, <1>4 DEF f, g

LEMMA EndExact ==
  ASSUME SumAssumption, IInv, NEW m \in Emitters, NEW k \in Indices, NEW x \in Elems, End(m, k, x)
  PROVE  IInv'
<1> USE DEF IInv
<1>1. PICK old \in Lookup(m, k) : \E new \in AddElem(old.entry, x) :
        table' = Store(m, k, new, Plus(old.seen, One(x)))
  BY Zenon DEF End
<1>2. PICK new \in AddElem(old.entry, x) : table' = Store(m, k, new, Plus(old.seen, One(x)))
  BY Zenon, <1>1
<1> DEFINE s == Plus(old.seen, One(x))
<1>3. Exact(old)
  BY Zenon, LookupExact DEF TableExact
<1>4. Exact(Node(new, s))
  BY Zenon, <1>3, AddElemExact
<1>5. s \in Counts /\ \A y \in Elems : s[y] = old.seen[y] + One(x)[y] /\ old.seen[y] \in Nat /\ One(x)[y] \in Nat
  BY Zenon, <1>3, OneCounts, PlusCounts DEF Exact, Counts
<1> HIDE DEF s
<1>6. TableExact(table')
  BY Zenon, <1>2, <1>4, StoreExact DEF s
<1>7. /\ written' = written /\ failed' = failed
      /\ emitted' = [emitted EXCEPT ![k] = Plus(emitted[k], One(x))]
  BY Zenon DEF End
<1>8. emitted' \in [Indices -> Counts]
  BY Zenon, <1>7, PlusCounts, OneCounts
<1>9. ASSUME NEW i \in Indices, NEW y \in Elems
      PROVE  emitted'[i][y] = SumOf(Stored(table', i, y)) + SumOf(Pending(written, i, y))
  <2> DEFINE d == IF i = k THEN s[y] - old.seen[y] ELSE 0
  <2>1. SumOf(Stored(table', i, y)) = SumOf(Stored(table, i, y)) + d
    BY <1>2, <1>5, StoreMoves DEF s
  <2>2. emitted[i][y] = SumOf(Stored(table, i, y)) + SumOf(Pending(written, i, y))
    BY Zenon DEF EmitsConserved
  <2>3. emitted'[i][y] = emitted[i][y] + d /\ d \in Int
    <3>1. emitted[i] \in Counts /\ emitted[i][y] \in Nat
      BY Zenon DEF Counts
    <3>2. CASE i = k
      <4>1. emitted'[i][y] = emitted[i][y] + One(x)[y]
        BY Zenon, <1>7, <3>1, <3>2, OneCounts, PlusCounts
      <4>2. d = One(x)[y] /\ d \in Int
        BY <1>5, <3>2
      <4> QED BY Zenon, <4>1, <4>2
    <3>3. CASE i # k
      BY <1>7, <3>1, <3>3
    <3> QED BY Zenon, <3>2, <3>3
  <2>4. SumOf(Stored(table, i, y)) \in Int /\ SumOf(Pending(written, i, y)) \in Int
    BY Zenon, SumsAreInt
  <2> HIDE DEF d
  <2> QED BY ONLY <2>1, <2>2, <2>3, <2>4
<1>10. EmitsConserved'
  BY Zenon, <1>7, <1>9 DEF EmitsConserved
<1> QED BY Zenon, <1>6, <1>7, <1>8, <1>10

LEMMA FlusherExact ==
  ASSUME SumAssumption, IInv, NEW m \in Emitters, Flusher(m)
  PROVE  IInv'
<1> USE DEF IInv
<1>1. /\ written' = written (+) SetToBag(Strings(m))
      /\ table' = [table EXCEPT ![m] = <<>>]
      /\ emitted' = emitted /\ failed' = failed
  BY Zenon DEF Flusher, Strings, String, Full
<1>2. TableExact(table') /\ BagExact(written')
  BY Zenon, <1>1, ClearMoves, WriteExact
<1>3. ASSUME NEW k \in Indices, NEW x \in Elems
      PROVE  emitted'[k][x] = SumOf(Stored(table', k, x)) + SumOf(Pending(written', k, x))
  <2>1. SumOf(Stored(table', k, x)) = SumOf(Stored(table, k, x)) - InEntry(m, k, x)
    BY Zenon, <1>1, ClearMoves
  <2>2. SumOf(Pending(written', k, x)) = SumOf(Pending(written, k, x)) + InEntry(m, k, x)
    BY Zenon, <1>1, WriteMoves
  <2>3. emitted'[k][x] = SumOf(Stored(table, k, x)) + SumOf(Pending(written, k, x))
    BY Zenon, <1>1 DEF EmitsConserved
  <2>4. SumOf(Stored(table, k, x)) \in Int /\ SumOf(Pending(written, k, x)) \in Int
    BY Zenon, SumsAreInt
  <2>5. InEntry(m, k, x) \in Int
    BY DEF InEntry, TableExact, Exact, Counts
  <2> QED BY ONLY <2>1, <2>2, <2>3, <2>4, <2>5
<1>4. EmitsConserved'
  BY Zenon, <1>3 DEF EmitsConserved
<1> QED BY Zenon, <1>1, <1>2, <1>4

LEMMA MergeIntoExact ==
  ASSUME SumAssumption, IInv, NEW m \in Emitters, NEW w \in BagToSet(written), MergeInto(m, w)
  PROVE  IInv'
<1> USE DEF IInv
<1>1. w \in DOMAIN written /\ ExactString(w) /\ w.key \in Indices /\ w.seen \in Counts
  BY Zenon DEF BagToSet, BagExact, ExactString
<1> DEFINE k == w.key
<1>2. PICK old \in Lookup(m, k) : \E r \in Merge(old.entry, w.val) :
        /\ table' = Store(m, k, r.entry, IF r.ok THEN Plus(old.seen, w.seen) ELSE old.seen)
        /\ failed' = (failed \/ ~r.ok)
  BY Zenon DEF MergeInto
<1>3. PICK r \in Merge(old.entry, w.val) :
        /\ table' = Store(m, k, r.entry, IF r.ok THEN Plus(old.seen, w.seen) ELSE old.seen)
        /\ failed' = (failed \/ ~r.ok)
  BY Zenon, <1>2
<1> DEFINE s == Plus(old.seen, w.seen)
<1>4. Exact(old)
  BY Zenon, LookupExact DEF TableExact
<1>5. r.ok /\ Exact(Node(r.entry, s))
  BY Zenon, <1>1, <1>4, MergeExact
<1>6. s \in Counts /\ \A y \in Elems : s[y] = old.seen[y] + w.seen[y] /\ old.seen[y] \in Nat /\ w.seen[y] \in Nat
  BY Zenon, <1>1, <1>4, PlusCounts DEF Exact, Counts
<1>7. table' = Store(m, k, r.entry, s) /\ failed' = FALSE
  BY Zenon, <1>3, <1>5
<1>8. written' = written (-) SetToBag({w}) /\ emitted' = emitted
  BY Zenon DEF MergeInto
<1> HIDE DEF s, k
<1>9. k \in Indices /\ k = w.key
  BY Zenon, <1>1 DEF k
<1>10. TableExact(table')
  BY <1>5, <1>7, <1>9, StoreExact
<1>11. BagExact(written')
  BY Zenon, <1>1, <1>8, TakeMoves
<1>12. ASSUME NEW i \in Indices, NEW y \in Elems
      PROVE  emitted'[i][y] = SumOf(Stored(table', i, y)) + SumOf(Pending(written', i, y))
  <2> DEFINE d == IF i = k THEN s[y] - old.seen[y] ELSE 0
  <2>1. SumOf(Stored(table', i, y)) = SumOf(Stored(table, i, y)) + d
    BY <1>2, <1>6, <1>7, <1>9, StoreMoves
  <2>2. SumOf(Pending(written', i, y)) = SumOf(Pending(written, i, y)) - (IF w.key = i THEN w.seen[y] ELSE 0)
    BY Zenon, <1>1, <1>8, TakeMoves
  <2>3. d = (IF w.key = i THEN w.seen[y] ELSE 0) /\ d \in Int
    BY <1>6, <1>9
  <2>4. emitted'[i][y] = SumOf(Stored(table, i, y)) + SumOf(Pending(written, i, y))
    BY Zenon, <1>8 DEF EmitsConserved
  <2>5. SumOf(Stored(table, i, y)) \in Int /\ SumOf(Pending(written, i, y)) \in Int
    BY Zenon, SumsAreInt
  <2> HIDE DEF d
  <2>6. SumOf(Pending(written', i, y)) = SumOf(Pending(written, i, y)) - d
    BY Zenon, <2>2, <2>3
  <2> QED BY ONLY <2>1, <2>3, <2>4, <2>5, <2>6
<1>13. EmitsConserved'
  BY Zenon, <1>12 DEF EmitsConserved
<1> QED BY Zenon, <1>7, <1>8, <1>10, <1>11, <1>13

LEMMA DisplayExact ==
  ASSUME SumAssumption, IInv, NEW m \in Emitters, DisplayResults(m)
  PROVE  IInv'
<1> USE DEF IInv
<1>1. /\ table' = [table EXCEPT ![m] = [k \in DOMAIN table[m] |->
                     Node(table[m][k].entry, table[m][k].seen)]]
      /\ written' = written /\ emitted' = emitted /\ failed' = failed
  BY Zenon DEF DisplayResults, AfterDisplay, Node
<1>2. /\ table' = [i \in Emitters |-> table'[i]]
      /\ \A i \in Emitters \ {m} : table'[i] = table[i]
      /\ table'[m] = [k \in DOMAIN table[m] |-> Node(table[m][k].entry, table[m][k].seen)]
  BY Zenon, <1>1 DEF TableExact
<1>3. \A k \in DOMAIN table[m] : Exact(Node(table[m][k].entry, table[m][k].seen))
  BY Zenon DEF TableExact, Exact, Node
<1>4. TableExact(table')
  BY <1>2, <1>3 DEF TableExact
<1>5. ASSUME NEW k \in Indices, NEW x \in Elems
      PROVE  Stored(table', k, x) = Stored(table, k, x)
  <2>1. \A i \in Emitters : Stored(table', k, x)[i] = Stored(table, k, x)[i]
    BY <1>2 DEF Stored, Node
  <2> QED BY Zenon, <2>1 DEF Stored
<1>6. EmitsConserved'
  BY Zenon, <1>1, <1>5 DEF EmitsConserved
<1> QED BY Zenon, <1>1, <1>4, <1>6

LEMMA StepExact ==
  ASSUME SumAssumption, IInv, [Next]_vars
  PROVE  IInv'
<1>1. CASE UNCHANGED vars
  BY Zenon, <1>1 DEF vars, IInv, EmitsConserved
<1>2. ASSUME NEW m \in Emitters, NEW k \in Indices, NEW x \in Elems, End(m, k, x)
      PROVE  IInv'
  BY Zenon, <1>2, EndExact
<1>3. ASSUME NEW m \in Emitters, Flusher(m) PROVE IInv'
  BY Zenon, <1>3, FlusherExact
<1>4. ASSUME NEW m \in Emitters, DisplayResults(m) PROVE IInv'
  BY Zenon, <1>4, DisplayExact
<1>5. ASSUME NEW m \in Emitters, NEW w \in BagToSet(written), MergeInto(m, w) PROVE IInv'
  BY Zenon, <1>5, MergeIntoExact
<1> QED BY <1>1, <1>2, <1>3, <1>4, <1>5 DEF Next

LEMMA SumInvariant ==
  ASSUME SumAssumption PROVE Spec => []IInv
<1>1. Init => IInv
  BY Zenon, InitExact
<1>2. IInv /\ [Next]_vars => IInv'
  BY Zenon, StepExact
<1> QED BY <1>1, <1>2, PTL DEF Spec

LEMMA EntriesExact ==
  ASSUME IInv, NEW n \in Entries PROVE Exact(n)
BY DEF Entries, Held, IInv, TableExact

\* Merge never refuses a string that Flush made (SzlSum::Merge, szlsum.cc): its
\* count is positive, because an empty entry is not written.
THEOREM MergeAcceptsAlways ==
  ASSUME SumAssumption PROVE Spec => []MergeAccepts
<1>1. IInv => MergeAccepts
  BY Zenon DEF IInv, MergeAccepts
<1> QED BY <1>1, SumInvariant, PTL

\* Every complete emit is in exactly one entry or one written string of its
\* index, for any number of emitters, flushes and merges in any order
\* (SzlEmitter::End, Flusher, Merge): none is lost, none is doubled.
THEOREM EmitsConservedAlways ==
  ASSUME SumAssumption PROVE Spec => []EmitsConserved
<1>1. IInv => EmitsConserved
  BY Zenon DEF IInv
<1> QED BY <1>1, SumInvariant, PTL

\* tot_elems_ of an entry is the number of emits in it, and SzlSumResults reads
\* from the flushed string what the entry displays.
THEOREM CountsAndResultsAlways ==
  ASSUME SumAssumption PROVE Spec => []CountsAndResultsAgree
<1>1. ASSUME IInv PROVE CountsAndResultsAgree
  <2> SUFFICES ASSUME NEW n \in Entries
               PROVE  /\ n.entry.tot = Count(n.seen)
                      /\ n.entry.tot > 0 => ParseFromString(Flush(n.entry)) = FlushForDisplay(n.entry)
    BY Zenon DEF CountsAndResultsAgree
  <2>1. n.entry.tot = Count(n.seen)
    BY Zenon, <1>1, EntriesExact DEF Exact, Count
  <2>2. ASSUME n.entry.tot > 0
        PROVE  ParseFromString(Flush(n.entry)) = FlushForDisplay(n.entry)
    <3>1. n.entry.tot # 0
      BY <2>2
    <3>2. Flush(n.entry) = <<n.entry.tot, n.entry.sum>> /\ FlushForDisplay(n.entry) = <<n.entry.sum>>
      BY Zenon, <3>1 DEF Flush, FlushForDisplay
    <3> QED BY <3>2 DEF ParseFromString
  <2> QED BY Zenon, <2>1, <2>2
<1> QED BY <1>1, SumInvariant, PTL

\* The sum of an entry is the sum of the emits in it modulo the width of an
\* integer, however they were spread over emitters, flushed and merged
\* (SzlSum::AddElem, Merge; SzlOps::Add).
THEOREM SumExactAlways ==
  ASSUME SumAssumption, ~Maps PROVE Spec => []SumExact
<1>1. ASSUME IInv PROVE SumExact
  BY Zenon, <1>1, EntriesExact DEF SumExact, Exact, Worth
<1> QED BY <1>1, SumInvariant, PTL
=============================================================================
