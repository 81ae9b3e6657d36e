--------------------------- MODULE SamplingProofs ---------------------------
(***************************************************************************)
(* Proofs about the two halves of a sampling round.  The search over the   *)
(* download sink: for any buckets, pools and pairs, any targets, limits    *)
(* and order of answers, it waits only for answers that will come, keeps   *)
(* every pool at its target and takes pairs in the order of the visits.    *)
(* The threads that feed it: for any profiles, any number of pool threads  *)
(* and any batch size, no match is lost between them.                      *)
(***************************************************************************)
EXTENDS SampleCollector, ProbeRound, FiniteSetTheorems, WellFoundedInduction, TLAPS

-----------------------------------------------------------------------------
(* Induction over finite sets, and sums.                                   *)

LEMMA LeastNumber ==
    ASSUME NEW T \in SUBSET Nat, T # {}
    PROVE  \E x \in T : \A y \in T : x <= y
  <1> DEFINE U == {1..x : x \in T}
             R == StrictSubsetOrdering(Nat)
  <1>1. U \subseteq FiniteSubsetsOf(Nat) /\ U # {}
    <2>1. \A x \in T : (1..x) \subseteq Nat /\ IsFiniteSet(1..x)
      BY FS_Interval
    <2> QED  BY <2>1 DEF FiniteSubsetsOf
  <1>2. IsWellFoundedOn(R, FiniteSubsetsOf(Nat))
    BY FS_StrictSubsetOrderingWellFounded
  <1>3. PICK u \in U : \A v \in U : ~(<<v, u>> \in R)
    <2> HIDE DEF R, U
    <2> QED BY <1>1, <1>2, WFMin
  <1>4. PICK x \in T : u = 1..x
    OBVIOUS
  <1>5. ASSUME NEW y \in T PROVE x <= y
    <2>1. ~(<<1..y, 1..x>> \in R)
      BY <1>3, <1>4
    <2>2. SUFFICES ASSUME y < x PROVE FALSE
      OBVIOUS
    <2>3. (1..y) \subseteq (1..x) /\ x \in 1..x /\ x \notin 1..y
      BY <2>2
    <2>4. <<1..y, 1..x>> \in R
      BY <2>3 DEF StrictSubsetOrdering
    <2> QED BY <2>1, <2>4
  <1> QED BY <1>5

LEMMA Induction ==
    ASSUME NEW T, 0 \in T, \A n \in Nat : n \in T => n + 1 \in T
    PROVE  Nat \subseteq T
  <1>1. SUFFICES ASSUME Nat \ T # {} PROVE FALSE
    OBVIOUS
  <1>2. PICK x \in Nat \ T : \A y \in Nat \ T : x <= y
    BY <1>1, LeastNumber
  <1> QED BY <1>2

\* The sum of f over a part T of its domain.
Over(f, T) == MapThenSumSet(LAMBDA b : f[b], T)

Pick(s) == CHOOSE x \in s : TRUE

Summing(f, S, g) ==
    g = [s \in SUBSET S |-> IF s = {} THEN 0 ELSE f[Pick(s)] + g[s \ {Pick(s)}]]

LEMMA Picked ==
    ASSUME NEW S, IsFiniteSet(S), S # {}
    PROVE  /\ Pick(S) \in S /\ IsFiniteSet(S \ {Pick(S)})
           /\ Cardinality(S) \in Nat \ {0}
           /\ Cardinality(S \ {Pick(S)}) = Cardinality(S) - 1
  BY FS_RemoveElement, FS_CardinalityType, FS_EmptySet DEF Pick

LEMMA SummingExists ==
    ASSUME NEW S, IsFiniteSet(S), NEW f
    PROVE  \E g : Summing(f, S, g)
  <1> DEFINE Value(g, s) == IF s = {} THEN 0 ELSE f[Pick(s)] + g[s \ {Pick(s)}]
             Upto(n, g) == \A s \in SUBSET S : Cardinality(s) <= n => g[s] = Value(g, s)
             T == {n \in Nat : \E g : Upto(n, g)}
  <1>1. \A s \in SUBSET S : IsFiniteSet(s) /\ Cardinality(s) \in Nat
    BY FS_Subset, FS_CardinalityType
  <1>2. 0 \in T
    <2>1. \A s \in SUBSET S : Cardinality(s) <= 0 => s = {}
      BY <1>1, FS_EmptySet
    <2>2. Upto(0, [s \in SUBSET S |-> 0])
      BY <2>1
    <2> QED  BY <2>2
  <1>3. ASSUME NEW n \in Nat, n \in T PROVE n + 1 \in T
    <2>1. PICK g : Upto(n, g)
      BY <1>3
    <2> DEFINE h == [s \in SUBSET S |-> IF Cardinality(s) <= n THEN g[s] ELSE Value(g, s)]
    <2>2. ASSUME NEW s \in SUBSET S, Cardinality(s) <= n + 1
          PROVE  h[s] = Value(h, s)
      <3>1. CASE s = {}
        <4>1. Cardinality(s) <= n
          BY <3>1, FS_EmptySet
        <4> QED  BY <2>1, <3>1, <4>1
      <3>2. CASE s # {}
        <4>1. /\ s \ {Pick(s)} \in SUBSET S
              /\ Cardinality(s \ {Pick(s)}) = Cardinality(s) - 1
          BY <1>1, <3>2, Picked
        <4>2. Cardinality(s \ {Pick(s)}) <= n
          BY <1>1, <2>2, <4>1
        <4>3. h[s \ {Pick(s)}] = g[s \ {Pick(s)}]
          BY <4>1, <4>2
        <4>4. h[s] = Value(g, s)
          BY <2>1
        <4> QED  BY <3>2, <4>3, <4>4
      <3> QED  BY <3>1, <3>2
    <2>3. Upto(n + 1, h)
      BY <2>2
    <2> QED
      <3> HIDE DEF h, Upto
      <3> QED  BY <2>3
  <1>4. Nat \subseteq T
    <2> HIDE DEF T
    <2> QED  BY <1>2, <1>3, Induction
  <1>5. PICK g : Upto(Cardinality(S), g)
    BY <1>1, <1>4
  <1> DEFINE h == [s \in SUBSET S |-> g[s]]
  <1>6. ASSUME NEW s \in SUBSET S PROVE h[s] = Value(h, s)
    <2>1. Cardinality(s) <= Cardinality(S)
      BY FS_Subset
    <2>2. g[s] = Value(g, s)
      BY <1>5, <2>1
    <2>3. s # {} => s \ {Pick(s)} \in SUBSET S
      OBVIOUS
    <2> QED  BY <2>2, <2>3
  <1>7. Summing(f, S, h)
    BY <1>6 DEF Summing
  <1> QED  BY <1>7

LEMMA SummingUnique ==
    ASSUME NEW S, IsFiniteSet(S), NEW T \in SUBSET S, NEW f, NEW g, NEW h,
           Summing(f, S, g), Summing(f, T, h)
    PROVE  g[T] = h[T]
  <1> DEFINE N == {n \in Nat : \A s \in SUBSET T : Cardinality(s) <= n => g[s] = h[s]}
  <1>1. \A s \in SUBSET S : IsFiniteSet(s) /\ Cardinality(s) \in Nat
    BY FS_Subset, FS_CardinalityType
  <1>2. \A s \in SUBSET T :
           /\ g[s] = IF s = {} THEN 0 ELSE f[Pick(s)] + g[s \ {Pick(s)}]
           /\ h[s] = IF s = {} THEN 0 ELSE f[Pick(s)] + h[s \ {Pick(s)}]
    BY DEF Summing
  <1>3. 0 \in N
    BY <1>1, <1>2, FS_EmptySet
  <1>4. ASSUME NEW n \in Nat, n \in N PROVE n + 1 \in N
    <2>1. ASSUME NEW s \in SUBSET T, Cardinality(s) <= n + 1 PROVE g[s] = h[s]
      <3>1. CASE s = {}
        BY <1>2, <3>1
      <3>2. CASE s # {}
        <4>1. s \ {Pick(s)} \in SUBSET T /\ Cardinality(s \ {Pick(s)}) <= n
          BY <1>1, <2>1, <3>2, Picked
        <4> QED  BY <1>2, <1>4, <3>2, <4>1
      <3> QED  BY <3>1, <3>2
    <2> QED  BY <2>1
  <1>5. Nat \subseteq N
    <2> HIDE DEF N
    <2> QED  BY <1>3, <1>4, Induction
  <1> QED  BY <1>1, <1>5

LEMMA OverSumming ==
    ASSUME NEW f, NEW S, IsFiniteSet(S)
    PROVE  \E g : Summing(f, S, g) /\ Over(f, S) = g[S]
  <1> DEFINE Value(g, s) == IF s = {} THEN 0 ELSE f[Pick(s)] + g[s \ {Pick(s)}]
             it == CHOOSE g : g = [s \in SUBSET S |-> Value(g, s)]
  <1>1. Over(f, S) = it[S]
    BY DEF Over, MapThenSumSet, MapThenFoldSet, Pick
  <1>2. \E g : g = [s \in SUBSET S |-> Value(g, s)]
    <2>1. PICK g : Summing(f, S, g)
      BY SummingExists
    <2> QED  BY <2>1 DEF Summing
  <1>3. it = [s \in SUBSET S |-> Value(it, s)]
    BY <1>2
  <1> QED  BY <1>1, <1>3 DEF Summing

LEMMA OverEmpty == \A f : Over(f, {}) = 0
  <1> TAKE f
  <1>1. IsFiniteSet({})
    BY FS_EmptySet
  <1> QED  BY <1>1, OverSumming DEF Summing

LEMMA OverPick ==
    ASSUME NEW f, NEW S, IsFiniteSet(S), S # {}
    PROVE  Over(f, S) = f[Pick(S)] + Over(f, S \ {Pick(S)})
  <1> DEFINE R == S \ {Pick(S)}
  <1>1. PICK g : Summing(f, S, g) /\ Over(f, S) = g[S]
    BY OverSumming
  <1>2. IsFiniteSet(R)
    BY Picked
  <1>3. PICK h : Summing(f, R, h) /\ Over(f, R) = h[R]
    BY <1>2, OverSumming
  <1>4. g[R] = h[R]
    BY <1>1, <1>3, SummingUnique
  <1>5. g[S] = f[Pick(S)] + g[R]
    BY <1>1 DEF Summing
  <1> QED  BY <1>1, <1>3, <1>4, <1>5

LEMMA OverType ==
    ASSUME NEW S, IsFiniteSet(S), NEW f, \A x \in S : f[x] \in Int
    PROVE  Over(f, S) \in Int
  <1> DEFINE N == {n \in Nat : \A T \in SUBSET S :
                       Cardinality(T) <= n => Over(f, T) \in Int}
  <1>1. \A T \in SUBSET S : IsFiniteSet(T) /\ Cardinality(T) \in Nat
    BY FS_Subset, FS_CardinalityType
  <1>2. 0 \in N
    BY <1>1, OverEmpty, FS_EmptySet
  <1>3. ASSUME NEW n \in Nat, n \in N PROVE n + 1 \in N
    <2>1. ASSUME NEW T \in SUBSET S, Cardinality(T) <= n + 1
          PROVE  Over(f, T) \in Int
      <3>1. CASE T = {}
        BY <3>1, OverEmpty
      <3>2. CASE T # {}
        <4>1. /\ Pick(T) \in S /\ T \ {Pick(T)} \in SUBSET S
              /\ Cardinality(T \ {Pick(T)}) <= n
          BY <1>1, <2>1, <3>2, Picked
        <4>2. Over(f, T \ {Pick(T)}) \in Int
          BY <1>3, <4>1
        <4> QED  BY <1>1, <3>2, <4>1, <4>2, OverPick
      <3> QED  BY <3>1, <3>2
    <2> QED  BY <2>1
  <1>4. Nat \subseteq N
    <2> HIDE DEF N
    <2> QED  BY <1>2, <1>3, Induction
  <1> QED  BY <1>1, <1>4

\* The order in which the elements are added does not matter.
LEMMA OverSplit ==
    ASSUME NEW S, IsFiniteSet(S), NEW f, \A y \in S : f[y] \in Int, NEW x \in S
    PROVE  Over(f, S) = f[x] + Over(f, S \ {x})
  <1> DEFINE Q(T) == \A y \in T : Over(f, T) = f[y] + Over(f, T \ {y})
             N == {n \in Nat : \A T \in SUBSET S : Cardinality(T) <= n => Q(T)}
  <1>1. \A T \in SUBSET S : /\ IsFiniteSet(T) /\ Cardinality(T) \in Nat
                           /\ Over(f, T) \in Int
    BY FS_Subset, FS_CardinalityType, OverType
  <1>2. 0 \in N
    BY <1>1, FS_EmptySet
  <1>3. ASSUME NEW n \in Nat, n \in N PROVE n + 1 \in N
    <2>1. ASSUME NEW T \in SUBSET S, Cardinality(T) <= n + 1, NEW y \in T
          PROVE  Over(f, T) = f[y] + Over(f, T \ {y})
      <3> DEFINE c == Pick(T)
      <3>1. /\ c \in T /\ T \ {c} \in SUBSET S
            /\ Over(f, T) = f[c] + Over(f, T \ {c})
        BY <1>1, <2>1, Picked, OverPick
      <3>2. Cardinality(T \ {c}) <= n /\ Cardinality(T \ {y}) <= n
        BY <1>1, <2>1, <3>1, FS_RemoveElement
      <3> HIDE DEF c
      <3>3. CASE y # c
        <4>1. Over(f, T \ {c}) = f[y] + Over(f, (T \ {c}) \ {y})
          BY <1>3, <2>1, <3>1, <3>2, <3>3
        <4>2. Over(f, T \ {y}) = f[c] + Over(f, (T \ {y}) \ {c})
          BY <1>3, <2>1, <3>1, <3>2, <3>3
        <4>3. (T \ {c}) \ {y} = (T \ {y}) \ {c} /\ (T \ {c}) \ {y} \in SUBSET S
          OBVIOUS
        <4> DEFINE w == Over(f, (T \ {c}) \ {y})
        <4>4. w \in Int /\ f[c] \in Int /\ f[y] \in Int
          BY <1>1, <2>1, <3>1, <4>3
        <4>5. Over(f, (T \ {y}) \ {c}) = w
          BY <4>3
        <4>6. Over(f, T \ {c}) = f[y] + w /\ Over(f, T \ {y}) = f[c] + w
          BY <4>1, <4>2, <4>5
        <4> HIDE DEF w
        <4> QED  BY <3>1, <4>4, <4>6
      <3> QED  BY <3>1, <3>3
    <2> QED  BY <2>1
  <1>4. Nat \subseteq N
    <2> HIDE DEF N
    <2> QED  BY <1>2, <1>3, Induction
  <1> QED  BY <1>1, <1>4

\* Sums of functions that are related point by point.
LEMMA OverSame ==
    ASSUME NEW S, IsFiniteSet(S), NEW f, NEW g, \A x \in S : f[x] = g[x]
    PROVE  Over(f, S) = Over(g, S)
  <1> DEFINE N == {n \in Nat : \A T \in SUBSET S :
                       Cardinality(T) <= n => Over(f, T) = Over(g, T)}
  <1>1. \A T \in SUBSET S : IsFiniteSet(T) /\ Cardinality(T) \in Nat
    BY FS_Subset, FS_CardinalityType
  <1>2. 0 \in N
    BY <1>1, OverEmpty, FS_EmptySet
  <1>3. ASSUME NEW n \in Nat, n \in N PROVE n + 1 \in N
    <2>1. ASSUME NEW T \in SUBSET S, Cardinality(T) <= n + 1
          PROVE  Over(f, T) = Over(g, T)
      <3>1. CASE T = {}
        BY <3>1, OverEmpty
      <3>2. CASE T # {}
        <4>1. /\ Pick(T) \in S /\ T \ {Pick(T)} \in SUBSET S
              /\ Cardinality(T \ {Pick(T)}) <= n
          BY <1>1, <2>1, <3>2, Picked
        <4>2. Over(f, T \ {Pick(T)}) = Over(g, T \ {Pick(T)})
          BY <1>3, <4>1
        <4> QED  BY <1>1, <3>2, <4>1, <4>2, OverPick
      <3> QED  BY <3>1, <3>2
    <2> QED  BY <2>1
  <1>4. Nat \subseteq N
    <2> HIDE DEF N
    <2> QED  BY <1>2, <1>3, Induction
  <1> QED  BY <1>1, <1>4

\* T holds the empty set and grows by the elements of S, one at a time.
Inductive(T, S) ==
    /\ {} \in T
    /\ \A s \in SUBSET S : s \in T => \A x \in S \ s : s \union {x} \in T

LEMMA SetInduction ==
    ASSUME NEW S, IsFiniteSet(S), NEW T, Inductive(T, S)
    PROVE  S \in T
  <1> DEFINE N == {n \in Nat : \A s \in SUBSET S : Cardinality(s) = n => s \in T}
  <1>1. \A s \in SUBSET S : IsFiniteSet(s) /\ Cardinality(s) \in Nat
    BY FS_Subset, FS_CardinalityType
  <1>2. 0 \in N
    BY <1>1, FS_EmptySet DEF Inductive
  <1>3. ASSUME NEW n \in Nat, n \in N PROVE n + 1 \in N
    <2>1. SUFFICES ASSUME NEW s \in SUBSET S, Cardinality(s) = n + 1 PROVE s \in T
      OBVIOUS
    <2>2. s # {}
      BY <2>1, FS_EmptySet
    <2>3. PICK x : x \in s
      BY <2>2
    <2>4. Cardinality(s \ {x}) = n
      <3>1. IsFiniteSet(s)
        BY <1>1
      <3>2. Cardinality(s \ {x}) = Cardinality(s) - 1
        BY <2>3, <3>1, FS_RemoveElement
      <3> QED  BY <2>1, <3>2
    <2> DEFINE r == s \ {x}
    <2>5. r \in SUBSET S /\ r \in T /\ x \in S \ r
      BY <1>3, <2>3, <2>4
    <2>6. r \union {x} = s
      BY <2>3
    <2>7. r \union {x} \in T
      <3> HIDE DEF r
      <3> QED  BY <2>5 DEF Inductive
    <2> QED  BY <2>6, <2>7
  <1>4. Nat \subseteq N
    <2> HIDE DEF N
    <2> QED  BY <1>2, <1>3, Induction
  <1> QED  BY <1>1, <1>4

LEMMA OverInsert ==
    ASSUME NEW S, IsFiniteSet(S), NEW f, \A y \in S : f[y] \in Int,
           NEW s \in SUBSET S, NEW x \in S \ s
    PROVE  /\ Over(f, s \union {x}) = f[x] + Over(f, s)
           /\ Over(f, s) \in Int
  <1>1. IsFiniteSet(s \union {x}) /\ IsFiniteSet(s)
    BY FS_Subset
  <1>2. (s \union {x}) \ {x} = s
    OBVIOUS
  <1> QED  BY <1>1, <1>2, OverSplit, OverType

LEMMA OverAdd ==
    ASSUME NEW S, IsFiniteSet(S), NEW f, NEW g, NEW h,
           \A x \in S : f[x] \in Int, \A x \in S : g[x] \in Int,
           \A x \in S : h[x] = f[x] + g[x]
    PROVE  Over(h, S) = Over(f, S) + Over(g, S)
  <1> DEFINE T == {s \in SUBSET S : Over(h, s) = Over(f, s) + Over(g, s)}
  <1>1. {} \in T
    BY OverEmpty
  <1>2. ASSUME NEW s \in SUBSET S, s \in T, NEW x \in S \ s PROVE s \union {x} \in T
    <2>1. \A y \in S : h[y] \in Int
      OBVIOUS
    <2>2. /\ Over(h, s \union {x}) = h[x] + Over(h, s)
          /\ Over(f, s \union {x}) = f[x] + Over(f, s) /\ Over(f, s) \in Int
          /\ Over(g, s \union {x}) = g[x] + Over(g, s) /\ Over(g, s) \in Int
      <3>1. Over(h, s \union {x}) = h[x] + Over(h, s)
        BY <2>1, OverInsert
      <3>2. Over(f, s \union {x}) = f[x] + Over(f, s) /\ Over(f, s) \in Int
        BY OverInsert
      <3>3. Over(g, s \union {x}) = g[x] + Over(g, s) /\ Over(g, s) \in Int
        BY OverInsert
      <3> QED  BY <3>1, <3>2, <3>3
    <2>3. Over(h, s) = Over(f, s) + Over(g, s)
      BY <1>2
    <2>4. h[x] = f[x] + g[x] /\ f[x] \in Int /\ g[x] \in Int
      OBVIOUS
    <2> QED  BY <2>2, <2>3, <2>4
  <1>3. S \in T
    <2> HIDE DEF T
    <2> QED  BY <1>1, <1>2, SetInduction DEF Inductive
  <1> QED  BY <1>3

LEMMA OverConstant ==
    ASSUME NEW S, IsFiniteSet(S), NEW f, NEW c \in Int, \A x \in S : f[x] = c
    PROVE  Over(f, S) = c * Cardinality(S)
  <1> DEFINE T == {s \in SUBSET S : Over(f, s) = c * Cardinality(s)}
  <1>1. {} \in T
    BY OverEmpty, FS_EmptySet
  <1>2. ASSUME NEW s \in SUBSET S, s \in T, NEW x \in S \ s PROVE s \union {x} \in T
    <2>1. Over(f, s \union {x}) = c + Over(f, s)
      <3>1. \A y \in S : f[y] \in Int
        OBVIOUS
      <3>2. f[x] = c
        OBVIOUS
      <3> QED  BY <3>1, <3>2, OverInsert
    <2>2. Cardinality(s \union {x}) = Cardinality(s) + 1 /\ Cardinality(s) \in Nat
      BY FS_Subset, FS_AddElement, FS_CardinalityType
    <2>3. Over(f, s) = c * Cardinality(s)
      BY <1>2
    <2> QED  BY <2>1, <2>2, <2>3
  <1>3. S \in T
    <2> HIDE DEF T
    <2> QED  BY <1>1, <1>2, SetInduction DEF Inductive
  <1> QED  BY <1>3

LEMMA OverPart ==
    ASSUME NEW S, IsFiniteSet(S), NEW f, \A x \in S : f[x] \in Int,
           NEW P \in SUBSET S, \A x \in S \ P : f[x] = 0
    PROVE  Over(f, S) = Over(f, P)
  <1> DEFINE T == {s \in SUBSET S : Over(f, s) = Over(f, s \intersect P)}
  <1>1. {} \in T
    BY OverEmpty
  <1>2. ASSUME NEW s \in SUBSET S, s \in T, NEW x \in S \ s PROVE s \union {x} \in T
    <2>1. Over(f, s \union {x}) = f[x] + Over(f, s) /\ Over(f, s) \in Int
      BY OverInsert
    <2>2. CASE x \in P
      <3>1. (s \union {x}) \intersect P = (s \intersect P) \union {x}
        BY <2>2
      <3>2. Over(f, (s \intersect P) \union {x}) = f[x] + Over(f, s \intersect P)
        BY OverInsert
      <3> QED  BY <1>2, <2>1, <3>1, <3>2
    <2>3. CASE x \notin P
      <3>1. (s \union {x}) \intersect P = s \intersect P
        BY <2>3
      <3>2. f[x] = 0 /\ Over(f, s) = Over(f, s \intersect P)
        BY <1>2, <2>3
      <3>3. Over(f, s \union {x}) = Over(f, s)
        BY <2>1, <3>2
      <3>4. Over(f, s \union {x}) = Over(f, (s \union {x}) \intersect P)
        BY <3>1, <3>2, <3>3
      <3> QED  BY <3>4
    <2> QED  BY <2>2, <2>3
  <1>3. S \in T
    <2> HIDE DEF T
    <2> QED  BY <1>1, <1>2, SetInduction DEF Inductive
  <1>4. S \intersect P = P
    OBVIOUS
  <1> QED  BY <1>3, <1>4

LEMMA OverCount ==
    ASSUME NEW S, IsFiniteSet(S), NEW f, NEW E \in SUBSET S,
           \A x \in S : f[x] = IF x \in E THEN 1 ELSE 0
    PROVE  Over(f, S) = Cardinality(E)
  <1>1. IsFiniteSet(E) /\ Cardinality(E) \in Nat
    BY FS_Subset, FS_CardinalityType
  <1>2. Over(f, S) = Over(f, E)
    BY OverPart
  <1>3. Over(f, E) = 1 * Cardinality(E)
    <2>1. \A x \in E : f[x] = 1
      OBVIOUS
    <2> QED  BY <1>1, <2>1, OverConstant
  <1> QED  BY <1>1, <1>2, <1>3

LEMMA OverBounds ==
    ASSUME NEW S, IsFiniteSet(S), NEW f, \A x \in S : f[x] \in Nat
    PROVE  Over(f, S) \in Nat /\ \A x \in S : f[x] <= Over(f, S)
  <1> DEFINE T == {s \in SUBSET S : Over(f, s) \in Nat /\ \A x \in s : f[x] <= Over(f, s)}
  <1>1. {} \in T
    BY OverEmpty
  <1>2. ASSUME NEW s \in SUBSET S, s \in T, NEW x \in S \ s PROVE s \union {x} \in T
    <2>1. \A y \in S : f[y] \in Int
      OBVIOUS
    <2>2. Over(f, s \union {x}) = f[x] + Over(f, s)
      BY <2>1, OverInsert
    <2> QED  BY <1>2, <2>2
  <1>3. S \in T
    <2> HIDE DEF T
    <2> QED  BY <1>1, <1>2, SetInduction DEF Inductive
  <1> QED  BY <1>3

\* The largest number of a bounded set.
LEMMA LargestNumber ==
    ASSUME NEW n \in Nat, NEW T \in SUBSET (0..n), T # {}
    PROVE  Max(T) \in T /\ \A y \in T : y <= Max(T)
  <1> DEFINE U == {n - x : x \in T}
  <1>1. U \in SUBSET Nat /\ U # {}
    <2>1. ASSUME NEW x \in T PROVE n - x \in Nat
      OBVIOUS
    <2> QED  BY <2>1
  <1>2. PICK u \in U : \A v \in U : u <= v
    BY <1>1, LeastNumber
  <1>3. PICK x \in T : u = n - x
    BY <1>2
  <1>4. ASSUME NEW y \in T PROVE x >= y
    <2>1. n - y \in U
      OBVIOUS
    <2>2. n - x <= n - y
      BY <1>2, <1>3, <2>1
    <2>3. x \in Nat /\ y \in Nat
      OBVIOUS
    <2> QED  BY <2>2, <2>3
  <1>5. Max(T) = CHOOSE z \in T : \A y \in T : z >= y
    BY DEF Max
  <1>6. Max(T) \in T /\ \A y \in T : Max(T) >= y
    BY <1>4, <1>5
  <1> QED  BY <1>6

LEMMA Division ==
    ASSUME NEW n \in Nat, NEW m \in Nat \ {0}
    PROVE  n \div m \in Nat /\ n % m \in Nat /\ n = (n \div m) * m + (n % m)
  OBVIOUS

-----------------------------------------------------------------------------
(* The search.                                                             *)
(***************************************************************************)
(* Redistribution inside a pool P: every donor gives its deficit to R.     *)
(***************************************************************************)

Split(t, a, R, d) == (t[d] - a[d]) \div Cardinality(R)

\* What x gets from each of the donors.
Gifts(t, a, R, e, D, x) ==
    [d \in D |-> Split(t, a, R, d) + (IF x \in e[d] THEN 1 ELSE 0)]

\* The targets once the donors in s have given.
Given(t, a, R, e, D, s, x) ==
    IF x \in s THEN a[x]
    ELSE IF x \in R THEN t[x] + Over(Gifts(t, a, R, e, D, x), s) ELSE t[x]

Exchange(P, t, a, R, e, D) ==
    /\ IsFiniteSet(P)
    /\ \A x \in P : t[x] \in Nat /\ a[x] \in Nat /\ a[x] <= t[x]
    /\ R \in SUBSET P /\ R # {}
    /\ D \in SUBSET P /\ D \intersect R = {}
    /\ \A d \in D : /\ e[d] \subseteq R
                    /\ Cardinality(e[d]) = (t[d] - a[d]) % Cardinality(R)

LEMMA GiftsTyped ==
    ASSUME NEW P, NEW t, NEW a, NEW R, NEW e, NEW D, Exchange(P, t, a, R, e, D),
           NEW x \in P
    PROVE  /\ IsFiniteSet(P) /\ IsFiniteSet(D) /\ IsFiniteSet(R)
           /\ Cardinality(R) \in Nat \ {0}
           /\ \A d \in D : Split(t, a, R, d) \in Nat
           /\ \A d \in D : Gifts(t, a, R, e, D, x)[d] \in Nat
           /\ \A s \in SUBSET D : Over(Gifts(t, a, R, e, D, x), s) \in Nat
  <1>1. IsFiniteSet(P) /\ IsFiniteSet(D) /\ IsFiniteSet(R)
    BY FS_Subset DEF Exchange
  <1>2. Cardinality(R) \in Nat \ {0}
    BY <1>1, FS_CardinalityType, FS_EmptySet DEF Exchange
  <1>3. ASSUME NEW d \in D PROVE Split(t, a, R, d) \in Nat
    <2>1. t[d] - a[d] \in Nat
      BY DEF Exchange
    <2> QED  BY <1>2, <2>1, Division DEF Split
  <1>4. \A d \in D : Gifts(t, a, R, e, D, x)[d] \in Nat
    BY <1>3 DEF Gifts
  <1>5. \A s \in SUBSET D : Over(Gifts(t, a, R, e, D, x), s) \in Nat
    BY <1>1, <1>4, FS_Subset, OverBounds
  <1> QED  BY <1>1, <1>2, <1>3, <1>4, <1>5

\* One more donor changes no total.
LEMMA OneMoreDonor ==
    ASSUME NEW P, NEW t, NEW a, NEW R, NEW e, NEW D, Exchange(P, t, a, R, e, D),
           NEW s \in SUBSET D, NEW d \in D \ s
    PROVE  Over([x \in P |-> Given(t, a, R, e, D, s \union {d}, x)], P)
             = Over([x \in P |-> Given(t, a, R, e, D, s, x)], P)
  <1> DEFINE before == [x \in P |-> Given(t, a, R, e, D, s, x)]
             after == [x \in P |-> Given(t, a, R, e, D, s \union {d}, x)]
             change == [x \in P |-> IF x = d THEN a[d] - t[d]
                                    ELSE IF x \in R THEN Gifts(t, a, R, e, D, x)[d]
                                    ELSE 0]
             deficit == t[d] - a[d]
             even == [x \in R |-> Split(t, a, R, d)]
             extra == [x \in R |-> IF x \in e[d] THEN 1 ELSE 0]
  <1>1. /\ IsFiniteSet(P) /\ IsFiniteSet(D) /\ IsFiniteSet(R)
        /\ Cardinality(R) \in Nat \ {0} /\ Split(t, a, R, d) \in Nat
        /\ d \in P /\ d \notin R /\ R \subseteq P /\ D \subseteq P
    <2>1. d \in P
      BY DEF Exchange
    <2>2. d \notin R /\ R \subseteq P /\ D \subseteq P
      BY DEF Exchange
    <2>3. /\ IsFiniteSet(P) /\ IsFiniteSet(D) /\ IsFiniteSet(R)
          /\ Cardinality(R) \in Nat \ {0} /\ Split(t, a, R, d) \in Nat
      BY <2>1, GiftsTyped
    <2> QED  BY <2>1, <2>2, <2>3
  <1>2. deficit \in Nat /\ t[d] \in Nat /\ a[d] \in Nat
    BY DEF Exchange
  <1>3. \A x \in P : before[x] \in Int /\ after[x] \in Int
    <2>1. \A x \in P : t[x] \in Int /\ a[x] \in Int
      BY DEF Exchange
    <2>2. s \union {d} \in SUBSET D
      OBVIOUS
    <2>3. SUFFICES ASSUME NEW x \in P PROVE before[x] \in Int /\ after[x] \in Int
      OBVIOUS
    <2>4. /\ Over(Gifts(t, a, R, e, D, x), s) \in Int
          /\ Over(Gifts(t, a, R, e, D, x), s \union {d}) \in Int
      BY <2>2, GiftsTyped
    <2> QED  BY <2>1, <2>4 DEF Given
  <1>4. \A x \in P : change[x] \in Int
    BY <1>2, GiftsTyped
  <1>5. ASSUME NEW x \in P PROVE after[x] = before[x] + change[x]
    <2>1. t[x] \in Int /\ a[x] \in Int
      BY DEF Exchange
    <2>2. CASE x = d
      BY <1>1, <1>2, <2>1, <2>2 DEF Given
    <2>3. CASE x # d /\ x \in R
      <3>1. x \notin s
        BY <2>3 DEF Exchange
      <3>2. Over(Gifts(t, a, R, e, D, x), s \union {d})
              = Gifts(t, a, R, e, D, x)[d] + Over(Gifts(t, a, R, e, D, x), s)
        <4>1. \A y \in D : Gifts(t, a, R, e, D, x)[y] \in Int
          BY GiftsTyped
        <4> QED  BY <1>1, <4>1, OverInsert
      <3>3. Gifts(t, a, R, e, D, x)[d] \in Int /\ Over(Gifts(t, a, R, e, D, x), s) \in Int
        BY GiftsTyped
      <3>4. before[x] = t[x] + Over(Gifts(t, a, R, e, D, x), s)
        BY <2>3, <3>1 DEF Given
      <3>5. after[x] = t[x] + Over(Gifts(t, a, R, e, D, x), s \union {d})
        BY <2>3, <3>1 DEF Given
      <3>6. change[x] = Gifts(t, a, R, e, D, x)[d]
        BY <2>3
      <3> QED  BY <2>1, <3>2, <3>3, <3>4, <3>5, <3>6
    <2>4. CASE x # d /\ x \notin R
      BY <2>1, <2>4 DEF Given
    <2> QED  BY <2>2, <2>3, <2>4
  <1>6. Over(after, P) = Over(before, P) + Over(change, P)
    <2> HIDE DEF after, before, change
    <2> QED  BY <1>1, <1>3, <1>4, <1>5, OverAdd
  <1>7. Over(change, R) = deficit
    <2>1. Over(even, R) = Split(t, a, R, d) * Cardinality(R)
      <3>1. \A x \in R : even[x] = Split(t, a, R, d)
        OBVIOUS
      <3> HIDE DEF even
      <3> QED  BY <1>1, <3>1, OverConstant
    <2>2. Over(extra, R) = deficit % Cardinality(R)
      <3>1. \A x \in R : extra[x] = IF x \in e[d] THEN 1 ELSE 0
        OBVIOUS
      <3>2. e[d] \in SUBSET R /\ Cardinality(e[d]) = deficit % Cardinality(R)
        BY DEF Exchange
      <3>3. Over(extra, R) = Cardinality(e[d])
        <4> HIDE DEF extra
        <4> QED  BY <1>1, <3>1, <3>2, OverCount
      <3> QED  BY <3>2, <3>3
    <2>3. Over(change, R) = Over(even, R) + Over(extra, R)
      <3>1. \A x \in R : change[x] = even[x] + extra[x]
        BY <1>1 DEF Gifts
      <3>2. \A x \in R : even[x] \in Int
        BY <1>1
      <3>3. \A x \in R : extra[x] \in Int
        OBVIOUS
      <3> HIDE DEF change, even, extra
      <3> QED  BY <1>1, <3>1, <3>2, <3>3, OverAdd
    <2>4. deficit = Split(t, a, R, d) * Cardinality(R) + (deficit % Cardinality(R))
      BY <1>1, <1>2, Division DEF Split
    <2> HIDE DEF change, even, extra, deficit
    <2> QED  BY <2>1, <2>2, <2>3, <2>4
  <1>8. Over(change, P) = change[d] + Over(change, P \ {d})
    <2> HIDE DEF change
    <2> QED  BY <1>1, <1>4, OverSplit
  <1>9. Over(change, P \ {d}) = Over(change, R)
    <2>1. \A x \in (P \ {d}) \ R : change[x] = 0
      OBVIOUS
    <2>2. IsFiniteSet(P \ {d}) /\ R \in SUBSET (P \ {d})
      BY <1>1, FS_Subset
    <2> HIDE DEF change
    <2> QED  BY <1>4, <2>1, <2>2, OverPart
  <1>10. change[d] = a[d] - t[d]
    BY <1>1
  <1>11. Over(change, P) = 0
    BY <1>2, <1>7, <1>8, <1>9, <1>10
  <1>12. Over(before, P) \in Int
    <2> HIDE DEF before
    <2> QED  BY <1>1, <1>3, OverType
  <1>13. Over(after, P) = Over(before, P)
    <2> HIDE DEF before, after, change
    <2> QED  BY <1>6, <1>11, <1>12
  <1> QED  BY <1>13

LEMMA ExchangeKeepsTotal ==
    ASSUME NEW P, NEW t, NEW a, NEW R, NEW e, NEW D, Exchange(P, t, a, R, e, D)
    PROVE  Over([x \in P |-> Given(t, a, R, e, D, D, x)], P) = Over(t, P)
  <1> DEFINE total(s) == Over([x \in P |-> Given(t, a, R, e, D, s, x)], P)
             T == {s \in SUBSET D : total(s) = Over(t, P)}
  <1>1. IsFiniteSet(P) /\ IsFiniteSet(D)
    BY FS_Subset DEF Exchange
  <1>2. {} \in T
    <2>1. ASSUME NEW x \in P PROVE Given(t, a, R, e, D, {}, x) = t[x]
      BY OverEmpty DEF Given, Exchange
    <2> DEFINE f == [x \in P |-> Given(t, a, R, e, D, {}, x)]
    <2>2. \A x \in P : f[x] = t[x]
      BY <2>1
    <2>3. Over(f, P) = Over(t, P)
      <3> HIDE DEF f
      <3> QED  BY <1>1, <2>2, OverSame
    <2> QED  BY <2>3
  <1>3. ASSUME NEW s \in SUBSET D, s \in T, NEW d \in D \ s PROVE s \union {d} \in T
    BY <1>3, OneMoreDonor
  <1>4. D \in T
    <2> HIDE DEF T
    <2> QED  BY <1>1, <1>2, <1>3, SetInduction DEF Inductive
  <1> QED  BY <1>4

(***************************************************************************)
(* The targets of a pool.                                                  *)
(***************************************************************************)

TargetsTyped ==
    /\ targets \in [Buckets -> Nat]
    /\ \A b \in Buckets : Accepted(b) \in Nat /\ Accepted(b) <= targets[b]

PoolsAddUp == \A b \in Buckets : Over(targets, PoolBuckets(b)) = Target

LEMMA SumIsOver == \A f : Sum(f) = Over(f, DOMAIN f)
  BY DEF Sum, Over

LEMMA PoolsFinite == \A b \in Buckets : /\ IsFiniteSet(PoolBuckets(b))
                                        /\ b \in PoolBuckets(b)
                                        /\ PoolBuckets(b) \subseteq Buckets
  BY SampleAssumption, FS_Subset DEF PoolBuckets

LEMMA AcceptedTyped == taken \subseteq Pairs => \A b \in Buckets : Accepted(b) \in Nat
  <1> SUFFICES ASSUME taken \subseteq Pairs, NEW b \in Buckets PROVE Accepted(b) \in Nat
    OBVIOUS
  <1>1. {p \in taken : BucketOf[p] = b} \subseteq Candidates
    BY DEF Pairs
  <1> QED  BY <1>1, SampleAssumption, FS_Subset, FS_CardinalityType DEF Accepted

\* The deficit of a donor is split over its recipients, whoever gets the rest.
LEMMA TotalKept ==
    ASSUME TargetsTyped, Redistribute, NEW b \in Buckets
    PROVE  Over(targets', PoolBuckets(b)) = Over(targets, PoolBuckets(b))
  <1> DEFINE P == PoolBuckets(b)
             R == P \ Incomplete
             D == Donors \intersect P
             a == [x \in Buckets |-> Accepted(x)]
  <1>1. PICK extra \in [Donors -> SUBSET (Buckets \ Incomplete)] :
          /\ \A d \in Donors :
               /\ extra[d] \subseteq Recipients(d)
               /\ Cardinality(extra[d]) = Deficit(d) % Cardinality(Recipients(d))
          /\ targets' = [x \in Buckets |->
               IF x \in Donors THEN Accepted(x)
               ELSE targets[x] + Sum([d \in {y \in Donors : x \in Recipients(y)} |->
                        Deficit(d) \div Cardinality(Recipients(d))
                        + (IF x \in extra[d] THEN 1 ELSE 0)])]
    BY DEF Redistribute
  <1>2. IsFiniteSet(P) /\ P \subseteq Buckets
    BY PoolsFinite
  <1>3. Donors \subseteq Incomplete /\ Incomplete \subseteq Buckets
    BY DEF Donors, Incomplete
  <1>4. \A d \in D : PoolBuckets(d) = P /\ Recipients(d) = R /\ R # {}
    BY DEF PoolBuckets, Recipients, Donors
  <1>5. \A x \in P : targets[x] \in Nat /\ a[x] \in Nat /\ a[x] <= targets[x]
    BY <1>2 DEF TargetsTyped
  <1>6. \A d \in D : Deficit(d) = targets[d] - a[d]
    BY <1>2 DEF Deficit
  <1>7. CASE D = {}
    <2>1. ASSUME NEW x \in P PROVE targets'[x] = targets[x]
      <3>1. x \notin Donors
        BY <1>7
      <3>2. {y \in Donors : x \in Recipients(y)} = {}
        BY <1>3, <1>7 DEF Recipients, PoolBuckets
      <3> DEFINE none == [d \in {} |->
                        Deficit(d) \div Cardinality(Recipients(d))
                        + (IF x \in extra[d] THEN 1 ELSE 0)]
      <3>3. targets'[x] = targets[x] + Sum(none)
        BY <1>1, <1>2, <3>1, <3>2
      <3>4. DOMAIN none = {}
        OBVIOUS
      <3>5. Sum(none) = 0
        <4> HIDE DEF none
        <4> QED  BY <3>4, SumIsOver, OverEmpty
      <3>6. targets[x] \in Nat
        BY <1>5
      <3> HIDE DEF none
      <3> QED  BY <3>3, <3>5, <3>6
    <2> QED  BY <1>2, <2>1, OverSame
  <1>8. CASE D # {}
    <2>1. R \in SUBSET P /\ R # {} /\ D \in SUBSET P /\ D \intersect R = {}
      BY <1>3, <1>4, <1>8
    <2>2. \A d \in D : /\ extra[d] \subseteq R
                      /\ Cardinality(extra[d]) = (targets[d] - a[d]) % Cardinality(R)
      BY <1>1, <1>4, <1>6
    <2>3. Exchange(P, targets, a, R, extra, D)
      <3> HIDE DEF P, R, D, a
      <3> QED  BY <1>2, <1>5, <2>1, <2>2 DEF Exchange
    <2>4. ASSUME NEW x \in P PROVE targets'[x] = Given(targets, a, R, extra, D, D, x)
      <3>1. x \in Buckets
        BY <1>2
      <3>2. CASE x \in D
        BY <1>1, <3>1, <3>2 DEF Given
      <3>3. CASE x \in R
        <4>1. x \notin Donors /\ x \notin D
          BY <1>3, <3>3
        <4>2. {y \in Donors : x \in Recipients(y)} = D
          BY <1>3, <3>3 DEF Recipients, PoolBuckets
        <4> DEFINE gift == [d \in D |-> Deficit(d) \div Cardinality(Recipients(d))
                                        + (IF x \in extra[d] THEN 1 ELSE 0)]
        <4>3. targets'[x] = targets[x] + Sum(gift)
          BY <1>1, <3>1, <4>1, <4>2
        <4>4. \A d \in D : gift[d] = Gifts(targets, a, R, extra, D, x)[d]
          BY <1>4, <1>6 DEF Gifts, Split
        <4>5. DOMAIN gift = D
          OBVIOUS
        <4>6. IsFiniteSet(D)
          BY <1>2, FS_Subset
        <4>7. Sum(gift) = Over(Gifts(targets, a, R, extra, D, x), D)
          <5> HIDE DEF gift, D, R, a
          <5> QED  BY <4>4, <4>5, <4>6, SumIsOver, OverSame
        <4> HIDE DEF gift, D
        <4> QED  BY <3>3, <4>1, <4>3, <4>7 DEF Given
      <3>4. CASE x \notin D /\ x \notin R
        <4>1. x \notin Donors
          BY <3>4
        <4>2. {y \in Donors : x \in Recipients(y)} = {}
          BY <3>4 DEF Recipients, PoolBuckets
        <4> DEFINE none == [d \in {} |->
                          Deficit(d) \div Cardinality(Recipients(d))
                          + (IF x \in extra[d] THEN 1 ELSE 0)]
        <4>3. targets'[x] = targets[x] + Sum(none)
          BY <1>1, <3>1, <4>1, <4>2
        <4>4. DOMAIN none = {}
          OBVIOUS
        <4>5. Sum(none) = 0
          <5> HIDE DEF none
          <5> QED  BY <4>4, SumIsOver, OverEmpty
        <4> QED  BY <1>5, <3>4, <4>3, <4>5 DEF Given
      <3> QED  BY <3>2, <3>3, <3>4
    <2>5. Over(targets', P) = Over([x \in P |-> Given(targets, a, R, extra, D, D, x)], P)
      <3> DEFINE f == [x \in P |-> Given(targets, a, R, extra, D, D, x)]
      <3>1. \A x \in P : targets'[x] = f[x]
        BY <2>4
      <3>2. Over(targets', P) = Over(f, P)
        <4> HIDE DEF f, P
        <4> QED  BY <1>2, <3>1, OverSame
      <3> QED  BY <3>2
    <2>6. Over([x \in P |-> Given(targets, a, R, extra, D, D, x)], P) = Over(targets, P)
      <3> HIDE DEF P, D, R, a
      <3> QED  BY <2>3, ExchangeKeepsTotal
    <2> QED  BY <2>5, <2>6
  <1> QED  BY <1>7, <1>8

\* No other bucket loses: a target falls only to what its bucket has.
LEMMA TargetsStayTyped ==
    ASSUME TargetsTyped, Redistribute
    PROVE  /\ targets' \in [Buckets -> Nat]
           /\ \A b \in Buckets : Accepted(b) <= targets'[b]
  <1>1. PICK extra \in [Donors -> SUBSET (Buckets \ Incomplete)] :
          /\ \A d \in Donors :
               /\ extra[d] \subseteq Recipients(d)
               /\ Cardinality(extra[d]) = Deficit(d) % Cardinality(Recipients(d))
          /\ targets' = [x \in Buckets |->
               IF x \in Donors THEN Accepted(x)
               ELSE targets[x] + Sum([d \in {y \in Donors : x \in Recipients(y)} |->
                        Deficit(d) \div Cardinality(Recipients(d))
                        + (IF x \in extra[d] THEN 1 ELSE 0)])]
    BY DEF Redistribute
  <1>2. Donors \subseteq Buckets /\ IsFiniteSet(Donors)
    <2>1. Donors \subseteq Buckets
      BY DEF Donors, Incomplete
    <2> QED  BY <2>1, SampleAssumption, FS_Subset
  <1>3. ASSUME NEW d \in Donors
        PROVE  Deficit(d) \div Cardinality(Recipients(d)) \in Nat
    <2>1. d \in Buckets /\ Recipients(d) # {} /\ Recipients(d) \subseteq Buckets
      BY <1>2 DEF Donors, Recipients, PoolBuckets
    <2>2. Cardinality(Recipients(d)) \in Nat \ {0}
      BY <2>1, SampleAssumption, FS_Subset, FS_CardinalityType, FS_EmptySet
    <2>3. Deficit(d) \in Nat
      BY <2>1 DEF TargetsTyped, Deficit
    <2> QED  BY <2>2, <2>3, Division
  <1>4. ASSUME NEW b \in Buckets PROVE targets'[b] \in Nat /\ Accepted(b) <= targets'[b]
    <2>1. targets[b] \in Nat /\ Accepted(b) \in Nat /\ Accepted(b) <= targets[b]
      BY DEF TargetsTyped
    <2> DEFINE givers == {y \in Donors : b \in Recipients(y)}
               gift == [d \in givers |-> Deficit(d) \div Cardinality(Recipients(d))
                                        + (IF b \in extra[d] THEN 1 ELSE 0)]
    <2>2. \A d \in givers : gift[d] \in Nat
      BY <1>3
    <2>3. IsFiniteSet(givers) /\ DOMAIN gift = givers
      BY <1>2, FS_Subset
    <2>4. Sum(gift) \in Nat
      <3> HIDE DEF gift, givers
      <3> QED  BY <2>2, <2>3, SumIsOver, OverBounds
    <2>5. targets'[b] = IF b \in Donors THEN Accepted(b) ELSE targets[b] + Sum(gift)
      BY <1>1
    <2> HIDE DEF gift
    <2> QED  BY <2>1, <2>4, <2>5
  <1>5. DOMAIN targets' = Buckets
    BY <1>1
  <1>6. targets' = [b \in Buckets |-> targets'[b]]
    BY <1>1
  <1> QED  BY <1>4, <1>6

(***************************************************************************)
(* The invariant.                                                          *)
(***************************************************************************)

Decided(b) == {visited[b][i] : i \in 1..committed[b]}

StillViable(b) == {p \in Undecided(b) : p \notin reported \/ Success(p)}

\* A pair has one place, in the order of its bucket, and is known to the sink
\* once it is there.
VisitsTyped ==
    /\ media \in [Candidates -> {"new", "requested"} \union Outcomes]
    /\ visited \in [Buckets -> Seq(Candidates)]
    /\ committed \in [Buckets -> Nat]
    /\ \A b \in Buckets : committed[b] <= Len(visited[b])

VisitsDistinct ==
    /\ \A b \in Buckets : \A i, j \in 1..Len(visited[b]) :
          visited[b][i] = visited[b][j] => i = j
    /\ \A b \in Buckets : \A i \in 1..Len(visited[b]) : BucketOf[visited[b][i]] = b
    /\ \A p \in Candidates : media[p] # "new" <=> p \in SeenPairs

\* What is decided was reported; the first undecided pair was not.
DecidedReported ==
    /\ reported \subseteq Answered
    /\ \A b \in Buckets : \A i \in 1..committed[b] : visited[b][i] \in reported
    /\ \A b \in Buckets : committed[b] < Len(visited[b]) =>
          visited[b][committed[b] + 1] \notin reported

ViableExact == viable = [b \in Buckets |-> Cardinality(StillViable(b))]

\* Only decided successes are taken, and the sink holds them.
TakenDecided ==
    /\ \A p \in taken : p \in Candidates /\ Success(p) /\ p \in Decided(BucketOf[p])
    /\ IF pc = "done" THEN kept = taken ELSE {p \in Candidates : Success(p)} \subseteq kept

\* A success is dropped by a full bucket, and a bucket whose target is never
\* raised stays full.
TakenInOrder ==
    \A b \in Buckets \ raised :
        /\ \A i, j \in 1..committed[b] :
              i < j /\ visited[b][j] \in taken /\ Success(visited[b][i])
                => visited[b][i] \in taken
        /\ \A i \in 1..committed[b] :
              Success(visited[b][i]) /\ visited[b][i] \notin taken => Full(b)

TasksTyped ==
    /\ batch \subseteq Task
    /\ current = NoTask \/ current \in Task
    /\ fallback \in Seq(Task)
    /\ current # NoTask => pc = "search" /\ ~fresh
    /\ fresh => pc \in {"search", "fallback"}

NotFailed == pc # "error"

SampleInv ==
    /\ VisitsTyped /\ VisitsDistinct /\ DecidedReported /\ ViableExact
    /\ TakenDecided /\ TakenInOrder
    /\ TargetsTyped /\ PoolsAddUp
    /\ TasksTyped /\ NotFailed

(***************************************************************************)
(* Collecting answers.                                                     *)
(***************************************************************************)

\* The decided prefix ends before the first pair without an answer.
LEMMA CommitPointIs ==
    ASSUME VisitsTyped, NEW b \in Buckets, NEW S
    PROVE  /\ CommitPoint(b, S) \in committed[b]..Len(visited[b])
           /\ \A i \in committed[b] + 1..CommitPoint(b, S) : visited[b][i] \in S
           /\ CommitPoint(b, S) < Len(visited[b]) =>
                 visited[b][CommitPoint(b, S) + 1] \notin S
  <1> DEFINE T == {k \in committed[b]..Len(visited[b]) :
                     \A i \in committed[b] + 1..k : visited[b][i] \in S}
  <1>1. committed[b] \in Nat /\ Len(visited[b]) \in Nat /\ committed[b] <= Len(visited[b])
    BY DEF VisitsTyped
  <1>2. T \in SUBSET (0..Len(visited[b])) /\ committed[b] \in T
    BY <1>1
  <1>3. CommitPoint(b, S) \in T /\ \A k \in T : k <= CommitPoint(b, S)
    <2>1. CommitPoint(b, S) = Max(T)
      BY DEF CommitPoint
    <2> HIDE DEF T
    <2> QED  BY <1>1, <1>2, <2>1, LargestNumber
  <1>4. ASSUME CommitPoint(b, S) < Len(visited[b]),
               visited[b][CommitPoint(b, S) + 1] \in S
        PROVE  FALSE
    <2>1. CommitPoint(b, S) + 1 \in T
      BY <1>1, <1>3, <1>4
    <2>2. CommitPoint(b, S) + 1 <= CommitPoint(b, S)
      BY <1>3, <2>1
    <2> QED  BY <1>1, <1>3, <2>2
  <1> QED  BY <1>3, <1>4

LEMMA SuccessesFinite ==
    ASSUME VisitsTyped, NEW b \in Buckets, NEW k \in committed[b]..Len(visited[b])
    PROVE  /\ Successes(b, k) \subseteq Candidates
           /\ IsFiniteSet(Successes(b, k)) /\ Cardinality(Successes(b, k)) \in Nat
  <1>1. Successes(b, k) \subseteq Candidates
    BY DEF VisitsTyped, Successes
  <1> QED  BY <1>1, SampleAssumption, FS_Subset, FS_CardinalityType

\* What is taken fits, and nothing that would still fit is dropped.
LEMMA TakePointIs ==
    ASSUME VisitsTyped, TargetsTyped, NEW b \in Buckets, NEW S
    PROVE  /\ TakePoint(b, S) \in committed[b]..CommitPoint(b, S)
           /\ Cardinality(Successes(b, TakePoint(b, S))) <= targets[b] - Accepted(b)
           /\ TakePoint(b, S) < CommitPoint(b, S) =>
                 Cardinality(Successes(b, TakePoint(b, S))) = targets[b] - Accepted(b)
  <1> DEFINE c == CommitPoint(b, S)
             k == TakePoint(b, S)
             T == {n \in committed[b]..c : Cardinality(Successes(b, n)) <= Room(b)}
  <1>1. committed[b] \in Nat /\ c \in committed[b]..Len(visited[b]) /\ Len(visited[b]) \in Nat
    BY CommitPointIs DEF VisitsTyped
  <1>2. Room(b) = targets[b] - Accepted(b) /\ Room(b) \in Nat
    BY DEF TargetsTyped, Room, Full
  <1>3. committed[b] \in T
    <2>1. Successes(b, committed[b]) = {}
      BY <1>1 DEF Successes
    <2>2. Cardinality(Successes(b, committed[b])) <= Room(b)
      <3>1. Cardinality(Successes(b, committed[b])) = 0
        BY <2>1, FS_EmptySet
      <3> QED  BY <1>2, <3>1
    <2>3. committed[b] \in committed[b]..c
      BY <1>1
    <2> HIDE DEF c
    <2> QED  BY <2>2, <2>3
  <1>4. k \in T /\ \A n \in T : n <= k
    <2>1. k = Max(T)
      BY DEF TakePoint
    <2>2. c \in Nat /\ T \in SUBSET (0..c)
      BY <1>1
    <2> HIDE DEF T, k, c
    <2> QED  BY <1>3, <2>1, <2>2, LargestNumber
  <1>5. ASSUME k < c PROVE Cardinality(Successes(b, k)) = Room(b)
    <2>1. k \in Nat /\ k \in committed[b]..Len(visited[b]) /\ k + 1 \in committed[b]..c
      BY <1>1, <1>4, <1>5
    <2>2. Successes(b, k + 1) \subseteq Successes(b, k) \union {visited[b][k + 1]}
      BY <2>1 DEF Successes
    <2>3. IsFiniteSet(Successes(b, k)) /\ Cardinality(Successes(b, k)) \in Nat
      BY <2>1, SuccessesFinite
    <2>4. Cardinality(Successes(b, k + 1)) <= Cardinality(Successes(b, k)) + 1
      <3> DEFINE U == Successes(b, k) \union {visited[b][k + 1]}
      <3>1. IsFiniteSet(U) /\ Cardinality(U) <= Cardinality(Successes(b, k)) + 1
        BY <2>3, FS_AddElement
      <3>2. Cardinality(Successes(b, k + 1)) <= Cardinality(U)
        BY <2>2, <3>1, FS_Subset
      <3>3. Cardinality(U) \in Nat /\ Cardinality(Successes(b, k + 1)) \in Nat
        <4>1. k + 1 \in committed[b]..Len(visited[b])
          BY <1>1, <2>1
        <4> QED  BY <3>1, <4>1, SuccessesFinite, FS_CardinalityType
      <3> QED  BY <2>3, <3>1, <3>2, <3>3
    <2>5. ~(Cardinality(Successes(b, k + 1)) <= Room(b))
      <3>1. k + 1 \notin T
        BY <1>4, <2>1
      <3> QED  BY <2>1, <3>1
    <2>6. Cardinality(Successes(b, k)) <= Room(b)
      BY <1>4
    <2>7. Cardinality(Successes(b, k + 1)) \in Nat
      BY <1>1, <2>1, SuccessesFinite
    <2> HIDE DEF k
    <2> QED  BY <1>2, <2>3, <2>4, <2>5, <2>6, <2>7
  <1> QED  BY <1>2, <1>4, <1>5

LEMMA CollectCommits ==
    ASSUME VisitsTyped, Collect
    PROVE  /\ media' = media /\ kept' = kept /\ reported' = Answered
           /\ targets' = targets /\ visited' = visited /\ raised' = raised
           /\ committed' \in [Buckets -> Nat]
           /\ \A b \in Buckets :
                /\ committed'[b] = CommitPoint(b, Answered)
                /\ committed[b] <= committed'[b] /\ committed'[b] <= Len(visited[b])
                /\ \A i \in committed[b] + 1..committed'[b] : visited[b][i] \in Answered
                /\ committed'[b] < Len(visited[b]) =>
                      visited[b][committed'[b] + 1] \notin Answered
  <1>1. committed' = [b \in Buckets |-> CommitPoint(b, Answered)]
    BY DEF Collect
  <1>2. ASSUME NEW b \in Buckets
        PROVE  /\ committed'[b] \in Nat /\ committed'[b] = CommitPoint(b, Answered)
               /\ committed[b] <= committed'[b] /\ committed'[b] <= Len(visited[b])
               /\ \A i \in committed[b] + 1..committed'[b] : visited[b][i] \in Answered
               /\ committed'[b] < Len(visited[b]) =>
                     visited[b][committed'[b] + 1] \notin Answered
    <2>1. committed'[b] = CommitPoint(b, Answered)
      BY <1>1
    <2>2. committed[b] \in Nat /\ Len(visited[b]) \in Nat
      BY DEF VisitsTyped
    <2> QED  BY <2>1, <2>2, CommitPointIs
  <1>3. committed' \in [Buckets -> Nat]
    BY <1>1, <1>2
  <1> QED  BY <1>2, <1>3 DEF Collect, Report

\* A bucket takes the successes of a part of what is decided now, and has
\* room for no more if there is another.
LEMMA CollectTakes ==
    ASSUME VisitsTyped, VisitsDistinct, TakenDecided, TargetsTyped, Collect,
           NEW b \in Buckets
    PROVE  \E k \in committed[b]..committed'[b] :
              /\ \A p \in Candidates : BucketOf[p] = b =>
                    (p \in taken' <=> p \in taken \/ p \in Successes(b, k))
              /\ Accepted(b)' \in Nat /\ Accepted(b) <= Accepted(b)'
              /\ Accepted(b)' <= targets[b]
              /\ k < committed'[b] => Accepted(b)' = targets[b]
              /\ Full(b) => Successes(b, k) = {}
  <1> DEFINE k == TakePoint(b, Answered)
             old == {p \in taken : BucketOf[p] = b}
             new == Successes(b, k)
  <1>1. committed'[b] = CommitPoint(b, Answered) /\ committed'[b] <= Len(visited[b])
        /\ committed[b] \in Nat /\ committed'[b] \in Nat
    BY CollectCommits DEF VisitsTyped
  <1>2. /\ k \in committed[b]..committed'[b]
        /\ Cardinality(new) <= targets[b] - Accepted(b)
        /\ k < committed'[b] => Cardinality(new) = targets[b] - Accepted(b)
    BY <1>1, TakePointIs
  <1>3. k \in committed[b]..Len(visited[b]) /\ Len(visited[b]) \in Nat
    BY <1>1, <1>2 DEF VisitsTyped
  <1>4. /\ new \subseteq Candidates /\ IsFiniteSet(new) /\ Cardinality(new) \in Nat
    BY <1>3, SuccessesFinite
  <1>5. \A c \in Buckets : \A p \in NewlyTaken(c, Answered) : BucketOf[p] = c
    <2> SUFFICES ASSUME NEW c \in Buckets, NEW p \in NewlyTaken(c, Answered)
                 PROVE  BucketOf[p] = c
      OBVIOUS
    <2>1. TakePoint(c, Answered) \in committed[c]..CommitPoint(c, Answered)
          /\ CommitPoint(c, Answered) \in committed[c]..Len(visited[c])
          /\ committed[c] \in Nat /\ Len(visited[c]) \in Nat
      BY TakePointIs, CommitPointIs DEF VisitsTyped
    <2>2. PICK i \in committed[c] + 1..TakePoint(c, Answered) : p = visited[c][i]
      BY DEF NewlyTaken, Successes
    <2>3. i \in 1..Len(visited[c])
      BY <2>1, <2>2
    <2> QED  BY <2>2, <2>3 DEF VisitsDistinct
  <1>6. taken' = taken \union UNION {NewlyTaken(c, Answered) : c \in Buckets}
    BY DEF Collect
  <1>7. NewlyTaken(b, Answered) = new
    BY DEF NewlyTaken
  <1>8. ASSUME NEW p \in Candidates, BucketOf[p] = b
        PROVE  p \in taken' <=> p \in taken \/ p \in new
    BY <1>5, <1>6, <1>7, <1>8
  <1>9. taken' \subseteq Candidates
    <2>1. ASSUME NEW c \in Buckets PROVE NewlyTaken(c, Answered) \subseteq Candidates
      <3>1. TakePoint(c, Answered) \in committed[c]..Len(visited[c])
        <4>1. TakePoint(c, Answered) \in committed[c]..CommitPoint(c, Answered)
              /\ CommitPoint(c, Answered) \in committed[c]..Len(visited[c])
              /\ committed[c] \in Nat /\ Len(visited[c]) \in Nat
          BY TakePointIs, CommitPointIs DEF VisitsTyped
        <4> QED  BY <4>1
      <3> QED  BY <3>1, SuccessesFinite DEF NewlyTaken
    <2>2. taken \subseteq Candidates
      BY DEF TakenDecided
    <2> QED  BY <1>6, <2>1, <2>2
  <1>10. {p \in taken' : BucketOf[p] = b} = old \union new
    <2>1. \A p \in new : BucketOf[p] = b
      BY <1>5, <1>7
    <2>2. taken \subseteq Candidates
      BY DEF TakenDecided
    <2> HIDE DEF new
    <2> QED  BY <1>4, <1>8, <1>9, <2>1, <2>2
  <1>11. old \intersect new = {}
    <2> SUFFICES ASSUME NEW p \in old, p \in new PROVE FALSE
      OBVIOUS
    <2>1. PICK i \in 1..committed[b] : p = visited[b][i]
      BY DEF TakenDecided, Decided
    <2>2. PICK j \in committed[b] + 1..k : p = visited[b][j]
      BY DEF Successes
    <2>3. i \in 1..Len(visited[b]) /\ j \in 1..Len(visited[b]) /\ i # j
      <3> HIDE DEF k
      <3> QED  BY <1>1, <1>3, <2>1, <2>2
    <2> QED  BY <2>1, <2>2, <2>3 DEF VisitsDistinct
  <1>12. IsFiniteSet(old) /\ Accepted(b) = Cardinality(old) /\ Accepted(b) \in Nat
         /\ targets[b] \in Nat
    <2>1. old \subseteq Candidates
      BY DEF TakenDecided
    <2> QED  BY <2>1, SampleAssumption, FS_Subset DEF Accepted, TargetsTyped
  <1>13. Accepted(b)' = Accepted(b) + Cardinality(new)
    <2>1. Accepted(b)' = Cardinality({p \in taken' : BucketOf[p] = b})
      BY DEF Accepted
    <2>2. Cardinality(old \union new) = Cardinality(old) + Cardinality(new)
                                          - Cardinality(old \intersect new)
      BY <1>4, <1>12, FS_Union
    <2>3. Cardinality(old \intersect new) = 0
      BY <1>11, FS_EmptySet
    <2>4. Accepted(b)' = Cardinality(old \union new)
      BY <1>10, <2>1
    <2> HIDE DEF old, new
    <2> QED  BY <1>4, <1>12, <2>2, <2>3, <2>4
  <1> HIDE DEF k, new, old
  <1>14. /\ Accepted(b)' \in Nat /\ Accepted(b) <= Accepted(b)'
         /\ Accepted(b)' <= targets[b]
         /\ k < committed'[b] => Accepted(b)' = targets[b]
    BY <1>2, <1>4, <1>12, <1>13
  <1>15. Full(b) => new = {}
    <2>1. Full(b) => Cardinality(new) = 0
      BY <1>2, <1>4, <1>12 DEF Full
    <2> QED  BY <1>4, <2>1, FS_EmptySet
  <1> QED  BY <1>2, <1>8, <1>14, <1>15 DEF new

LEMMA CollectKeepsVisits ==
    ASSUME VisitsTyped, VisitsDistinct, DecidedReported, Collect
    PROVE  VisitsTyped' /\ VisitsDistinct' /\ DecidedReported'
  <1>1. VisitsTyped'
    BY CollectCommits DEF VisitsTyped
  <1>2. VisitsDistinct'
    BY CollectCommits DEF VisitsDistinct, SeenPairs
  <1>3. Answered' = Answered /\ reported' = Answered
    BY CollectCommits DEF Answered
  <1>4. ASSUME NEW b \in Buckets, NEW i \in 1..committed'[b]
        PROVE  visited'[b][i] \in reported'
    <2>1. committed[b] \in Nat /\ committed'[b] \in Nat
      BY CollectCommits DEF VisitsTyped
    <2>2. CASE i <= committed[b]
      BY <1>3, <2>1, <2>2, CollectCommits DEF DecidedReported
    <2>3. CASE i > committed[b]
      BY <1>3, <2>1, <2>3, CollectCommits
    <2> QED  BY <2>1, <2>2, <2>3
  <1>5. ASSUME NEW b \in Buckets, committed'[b] < Len(visited'[b])
        PROVE  visited'[b][committed'[b] + 1] \notin reported'
    BY <1>3, <1>5, CollectCommits
  <1> QED  BY <1>1, <1>2, <1>3, <1>4, <1>5 DEF DecidedReported

LEMMA UndecidedTyped ==
    ASSUME VisitsTyped, NEW b \in Buckets
    PROVE  /\ Undecided(b) \subseteq Candidates /\ StillViable(b) \subseteq Candidates
           /\ IsFiniteSet(StillViable(b)) /\ Cardinality(StillViable(b)) \in Nat
  <1>1. Undecided(b) \subseteq Candidates
    BY DEF Undecided, VisitsTyped
  <1>2. StillViable(b) \subseteq Candidates
    BY <1>1 DEF StillViable
  <1> QED  BY <1>1, <1>2, SampleAssumption, FS_Subset, FS_CardinalityType

LEMMA CollectKeepsViable ==
    ASSUME VisitsTyped, VisitsDistinct, DecidedReported, ViableExact, Collect
    PROVE  ViableExact'
  <1> SUFFICES ASSUME NEW b \in Buckets
               PROVE  viable'[b] = Cardinality(StillViable(b)')
    BY DEF ViableExact, Collect
  <1> DEFINE old == StillViable(b)
             lost == NewFailures(b)
             new == NewSuccesses(b, Answered)
  <1>1. /\ viable'[b] = viable[b] - Cardinality(lost) - Cardinality(new)
        /\ viable[b] = Cardinality(old)
    BY DEF Collect, ViableExact
  <1>2. /\ committed[b] \in Nat /\ committed'[b] \in Nat /\ Len(visited[b]) \in Nat
        /\ committed[b] <= committed'[b] /\ committed'[b] <= Len(visited[b])
        /\ committed'[b] = CommitPoint(b, Answered)
    BY CollectCommits DEF VisitsTyped
  <1>3. \A i \in committed[b] + 1..committed'[b] : visited[b][i] \in Answered
    BY CollectCommits
  <1>4. visited' = visited /\ media' = media /\ reported' = Answered
    BY CollectCommits
  <1>5. lost \subseteq old
    <2> SUFFICES ASSUME NEW p \in lost PROVE p \in old
      OBVIOUS
    <2>1. p \in Candidates /\ media[p] = "failure" /\ p \notin reported /\ BucketOf[p] = b
      BY DEF NewFailures, Answered
    <2>2. p \in SeenPairs
      BY <2>1 DEF VisitsDistinct
    <2>3. PICK c \in Buckets : \E i \in DOMAIN visited[c] : p = visited[c][i]
      BY <2>2 DEF SeenPairs
    <2>4. PICK i \in 1..Len(visited[c]) : p = visited[c][i]
      BY <2>3 DEF VisitsTyped
    <2>5. c = b
      BY <2>1, <2>4 DEF VisitsDistinct
    <2>6. i \notin 1..committed[b]
      BY <2>1, <2>4, <2>5 DEF DecidedReported
    <2>7. i \in committed[b] + 1..Len(visited[b])
      BY <1>2, <2>4, <2>5, <2>6
    <2> QED  BY <2>1, <2>4, <2>5, <2>7 DEF StillViable, Undecided
  <1>6. new \subseteq old
    <2> SUFFICES ASSUME NEW p \in new PROVE p \in old
      OBVIOUS
    <2>1. PICK i \in committed[b] + 1..committed'[b] : p = visited[b][i] /\ Success(p)
      BY <1>2 DEF NewSuccesses, Successes
    <2>2. i \in committed[b] + 1..Len(visited[b])
      BY <1>2
    <2> QED  BY <2>1, <2>2 DEF StillViable, Undecided
  <1>7. lost \intersect new = {}
    BY DEF NewFailures, NewSuccesses, Successes, Success
  <1>8. StillViable(b)' = old \ (lost \union new)
    <2>1. ASSUME NEW p \in StillViable(b)' PROVE p \in old /\ p \notin lost /\ p \notin new
      <3>1. PICK i \in committed'[b] + 1..Len(visited[b]) : p = visited[b][i]
        BY <1>4 DEF StillViable, Undecided
      <3>2. p \notin Answered \/ Success(p)
        BY <1>4 DEF StillViable, Success
      <3>3. i \in committed[b] + 1..Len(visited[b]) /\ i \in 1..Len(visited[b])
        BY <1>2
      <3>4. p \notin reported \/ Success(p)
        BY <3>2 DEF DecidedReported
      <3>5. p \notin lost
        BY <3>2 DEF NewFailures, Success
      <3>6. p \notin new
        <4>1. SUFFICES ASSUME p \in new PROVE FALSE
          OBVIOUS
        <4>2. PICK j \in committed[b] + 1..committed'[b] : p = visited[b][j]
          BY <1>2, <4>1 DEF NewSuccesses, Successes
        <4>3. j \in 1..Len(visited[b]) /\ i # j
          BY <1>2, <3>1
        <4> QED  BY <3>1, <3>3, <4>2, <4>3 DEF VisitsDistinct
      <3> QED  BY <3>1, <3>3, <3>4, <3>5, <3>6 DEF StillViable, Undecided
    <2>2. ASSUME NEW p \in old, p \notin lost, p \notin new PROVE p \in StillViable(b)'
      <3>1. PICK i \in committed[b] + 1..Len(visited[b]) : p = visited[b][i]
        BY DEF StillViable, Undecided
      <3>2. p \in Candidates /\ BucketOf[p] = b
        <4>1. i \in 1..Len(visited[b])
          BY <1>2
        <4> QED  BY <3>1, <4>1 DEF VisitsDistinct, VisitsTyped
      <3>3. p \notin Answered \/ Success(p)
        BY <2>2, <3>2 DEF StillViable, NewFailures, Success, Answered, Outcomes
      <3>4. ~(i <= committed'[b])
        <4>1. SUFFICES ASSUME i <= committed'[b] PROVE FALSE
          OBVIOUS
        <4>2. i \in committed[b] + 1..committed'[b]
          BY <1>2, <4>1
        <4>3. p \in Answered
          BY <1>3, <3>1, <4>2
        <4>4. p \in new
          BY <1>2, <3>1, <3>3, <4>2, <4>3 DEF NewSuccesses, Successes
        <4> QED  BY <2>2, <4>4
      <3>5. i \in committed'[b] + 1..Len(visited[b])
        BY <1>2, <3>4
      <3> QED  BY <1>4, <3>1, <3>3, <3>5 DEF StillViable, Undecided, Success
    <2> HIDE DEF lost, new, old
    <2> QED  BY <2>1, <2>2 DEF old
  <1>9. IsFiniteSet(old) /\ IsFiniteSet(lost) /\ IsFiniteSet(new)
        /\ Cardinality(old) \in Nat
    <2>1. IsFiniteSet(old) /\ Cardinality(old) \in Nat
      BY UndecidedTyped
    <2> QED  BY <1>5, <1>6, <2>1, FS_Subset
  <1> HIDE DEF lost, new, old
  <1>10. Cardinality(lost \union new) = Cardinality(lost) + Cardinality(new)
    <2>1. Cardinality(lost \union new) = Cardinality(lost) + Cardinality(new)
                                             - Cardinality(lost \intersect new)
      BY <1>9, FS_Union
    <2>2. Cardinality(lost \intersect new) = 0
      BY <1>7, FS_EmptySet
    <2>3. Cardinality(lost) \in Nat /\ Cardinality(new) \in Nat
      BY <1>9, FS_CardinalityType
    <2> QED  BY <2>1, <2>2, <2>3
  <1>11. Cardinality(old \ (lost \union new))
           = Cardinality(old) - Cardinality(lost \union new)
    <2>1. Cardinality(old \ (lost \union new))
           = Cardinality(old) - Cardinality(old \intersect (lost \union new))
      BY <1>9, FS_Difference
    <2>2. old \intersect (lost \union new) = lost \union new
      BY <1>5, <1>6
    <2> QED  BY <2>1, <2>2
  <1>12. Cardinality(lost) \in Nat /\ Cardinality(new) \in Nat
    BY <1>9, FS_CardinalityType
  <1> QED  BY <1>1, <1>8, <1>9, <1>10, <1>11, <1>12

LEMMA CollectKeepsTaken ==
    ASSUME VisitsTyped, VisitsDistinct, TakenDecided, TargetsTyped, Collect,
           pc' = pc, pc # "done"
    PROVE  TakenDecided' /\ TargetsTyped'
  <1>1. media' = media /\ kept' = kept /\ targets' = targets /\ visited' = visited
    BY CollectCommits
  <1>2. \A b \in Buckets : Accepted(b)' \in Nat /\ Accepted(b)' <= targets[b]
    BY CollectTakes
  <1>3. TargetsTyped'
    BY <1>1, <1>2 DEF TargetsTyped
  <1>4. taken' \subseteq Candidates
    <2>1. ASSUME NEW c \in Buckets PROVE NewlyTaken(c, Answered) \subseteq Candidates
      <3>1. TakePoint(c, Answered) \in committed[c]..CommitPoint(c, Answered)
            /\ CommitPoint(c, Answered) \in committed[c]..Len(visited[c])
            /\ committed[c] \in Nat /\ Len(visited[c]) \in Nat
        BY TakePointIs, CommitPointIs DEF VisitsTyped
      <3>2. TakePoint(c, Answered) \in committed[c]..Len(visited[c])
        BY <3>1
      <3> QED  BY <3>2, SuccessesFinite DEF NewlyTaken
    <2>2. taken \subseteq Candidates
      BY DEF TakenDecided
    <2> QED  BY <2>1, <2>2 DEF Collect
  <1>5. ASSUME NEW p \in taken'
        PROVE  p \in Candidates /\ Success(p)' /\ p \in Decided(BucketOf[p])'
    <2> DEFINE b == BucketOf[p]
    <2>1. p \in Candidates /\ b \in Buckets
      BY <1>4, SampleAssumption
    <2>2. PICK k \in committed[b]..committed'[b] : p \in taken \/ p \in Successes(b, k)
      <3> HIDE DEF b
      <3>1. \E k \in committed[b]..committed'[b] :
              \A q \in Candidates : BucketOf[q] = b =>
                    (q \in taken' <=> q \in taken \/ q \in Successes(b, k))
        BY <2>1, CollectTakes
      <3> QED  BY <2>1, <3>1 DEF b
    <2>3. committed[b] \in Nat /\ committed'[b] \in Nat /\ committed[b] <= committed'[b]
      BY <2>1, CollectCommits DEF VisitsTyped
    <2>4. CASE p \in taken
      <3>1. Success(p) /\ p \in Decided(b)
        BY <2>4 DEF TakenDecided
      <3>2. PICK i \in 1..committed[b] : p = visited[b][i]
        BY <3>1 DEF Decided
      <3>3. i \in 1..committed'[b]
        BY <2>3
      <3> QED  BY <1>1, <2>1, <3>1, <3>2, <3>3 DEF Decided, Success
    <2>5. CASE p \in Successes(b, k)
      <3>1. PICK i \in committed[b] + 1..k : p = visited[b][i] /\ Success(p)
        BY <2>5 DEF Successes
      <3>2. i \in 1..committed'[b]
        BY <2>2, <2>3
      <3> QED  BY <1>1, <2>1, <3>1, <3>2 DEF Decided, Success
    <2> QED  BY <2>2, <2>4, <2>5
  <1>6. {p \in Candidates : Success(p)}' \subseteq kept'
    BY <1>1 DEF TakenDecided, Success
  <1> QED  BY <1>3, <1>5, <1>6 DEF TakenDecided

LEMMA CollectKeepsOrder ==
    ASSUME VisitsTyped, VisitsDistinct, DecidedReported, TakenDecided, TakenInOrder,
           TargetsTyped, Collect
    PROVE  TakenInOrder'
  <1> SUFFICES ASSUME NEW b \in Buckets, b \notin raised'
               PROVE  /\ \A i, j \in 1..committed'[b] :
                           i < j /\ visited'[b][j] \in taken' /\ Success(visited[b][i])'
                             => visited'[b][i] \in taken'
                      /\ \A i \in 1..committed'[b] :
                           Success(visited[b][i])' /\ visited'[b][i] \notin taken'
                             => Full(b)'
    BY DEF TakenInOrder
  <1>1. visited' = visited /\ media' = media /\ targets' = targets /\ raised' = raised
    BY CollectCommits
  <1>2. PICK k \in committed[b]..committed'[b] :
              /\ \A p \in Candidates : BucketOf[p] = b =>
                    (p \in taken' <=> p \in taken \/ p \in Successes(b, k))
              /\ Accepted(b)' \in Nat /\ Accepted(b) <= Accepted(b)'
              /\ Accepted(b)' <= targets[b]
              /\ k < committed'[b] => Accepted(b)' = targets[b]
              /\ Full(b) => Successes(b, k) = {}
    BY CollectTakes
  <1>3. /\ committed[b] \in Nat /\ committed'[b] \in Nat /\ Len(visited[b]) \in Nat
        /\ committed[b] <= committed'[b] /\ committed'[b] <= Len(visited[b])
        /\ k \in Nat /\ committed[b] <= k /\ k <= committed'[b]
        /\ targets[b] \in Nat /\ Accepted(b) \in Nat
    BY <1>2, CollectCommits DEF VisitsTyped, TargetsTyped
  <1>4. Full(b) => Full(b)' /\ Accepted(b)' = Accepted(b)
    BY <1>1, <1>2, <1>3 DEF Full, TargetsTyped
  <1>5. ASSUME NEW i \in 1..committed'[b]
        PROVE  /\ visited[b][i] \in Candidates /\ BucketOf[visited[b][i]] = b
               /\ \A j \in 1..committed'[b] : visited[b][i] = visited[b][j] => i = j
    <2>1. i \in 1..Len(visited[b]) /\ \A j \in 1..committed'[b] : j \in 1..Len(visited[b])
      BY <1>3
    <2> QED  BY <2>1 DEF VisitsTyped, VisitsDistinct
  <1>6. ASSUME NEW i \in 1..committed'[b], Success(visited[b][i])
        PROVE  /\ i <= committed[b] => (visited[b][i] \in taken' <=> visited[b][i] \in taken)
               /\ i > committed[b] => (visited[b][i] \in taken' <=> i <= k)
    <2>1. visited[b][i] \in taken' <=> visited[b][i] \in taken
                                       \/ visited[b][i] \in Successes(b, k)
      BY <1>2, <1>5
    <2>2. visited[b][i] \in Successes(b, k) <=> i \in committed[b] + 1..k
      <3>1. ASSUME visited[b][i] \in Successes(b, k) PROVE i \in committed[b] + 1..k
        <4>1. PICK j \in committed[b] + 1..k : visited[b][i] = visited[b][j]
          BY <3>1 DEF Successes
        <4>2. j \in 1..committed'[b]
          BY <1>3
        <4> QED  BY <1>5, <4>1, <4>2
      <3>2. ASSUME i \in committed[b] + 1..k PROVE visited[b][i] \in Successes(b, k)
        BY <1>6, <3>2 DEF Successes
      <3> QED  BY <3>1, <3>2
    <2>3. i > committed[b] => visited[b][i] \notin taken
      <3> SUFFICES ASSUME i > committed[b], visited[b][i] \in taken PROVE FALSE
        OBVIOUS
      <3>1. PICK j \in 1..committed[b] : visited[b][i] = visited[b][j]
        BY <1>5 DEF TakenDecided, Decided
      <3>2. j \in 1..committed'[b]
        BY <1>3
      <3> QED  BY <1>3, <1>5, <3>1, <3>2
    <2> QED  BY <1>3, <2>1, <2>2, <2>3
  <1>7. \A i, j \in 1..committed[b] :
              i < j /\ visited[b][j] \in taken /\ Success(visited[b][i])
                => visited[b][i] \in taken
    BY <1>1 DEF TakenInOrder
  <1>8. \A i \in 1..committed[b] :
              Success(visited[b][i]) /\ visited[b][i] \notin taken => Full(b)
    BY <1>1 DEF TakenInOrder
  <1>9. ASSUME NEW i \in 1..committed'[b], Success(visited[b][i]),
               visited[b][i] \notin taken'
        PROVE  Full(b)'
    <2>1. CASE i <= committed[b]
      <3>1. Full(b)
        BY <1>3, <1>6, <1>8, <1>9, <2>1
      <3> QED  BY <1>4, <3>1
    <2>2. CASE i > committed[b]
      <3>1. k < committed'[b]
        BY <1>3, <1>6, <1>9, <2>2
      <3>2. Accepted(b)' = targets'[b]
        BY <1>1, <1>2, <3>1
      <3> QED  BY <1>1, <1>3, <3>2 DEF Full
    <2> QED  BY <1>3, <2>1, <2>2
  <1>10. ASSUME NEW i \in 1..committed'[b], NEW j \in 1..committed'[b], i < j,
                visited[b][j] \in taken', Success(visited[b][i])
         PROVE  visited[b][i] \in taken'
    <2>1. visited[b][j] \in taken \/ visited[b][j] \in Successes(b, k)
      BY <1>2, <1>5, <1>10
    <2>2. CASE visited[b][j] \in taken
      <3>1. PICK n \in 1..committed[b] : visited[b][j] = visited[b][n]
        BY <1>5, <2>2 DEF TakenDecided, Decided
      <3>2. n \in 1..committed'[b]
        BY <1>3
      <3>3. j = n
        BY <1>5, <3>1, <3>2
      <3>4. i \in 1..committed[b] /\ j \in 1..committed[b]
        BY <1>3, <1>10, <3>1, <3>3
      <3>5. visited[b][i] \in taken
        BY <1>7, <1>10, <2>2, <3>4
      <3> QED  BY <1>6, <1>10, <3>4, <3>5
    <2>3. CASE visited[b][j] \in Successes(b, k) /\ visited[b][j] \notin taken
      <3>1. PICK n \in committed[b] + 1..k : visited[b][j] = visited[b][n]
        BY <2>3 DEF Successes
      <3>2. n \in 1..committed'[b]
        BY <1>3
      <3>3. j = n
        BY <1>5, <3>1, <3>2
      <3>4. CASE i > committed[b]
        BY <1>3, <1>6, <1>10, <3>1, <3>3, <3>4
      <3>5. CASE i <= committed[b]
        <4>1. SUFFICES ASSUME visited[b][i] \notin taken' PROVE FALSE
          OBVIOUS
        <4>2. Full(b)
          BY <1>3, <1>6, <1>8, <1>10, <3>5, <4>1
        <4> QED  BY <1>2, <2>3, <4>2
      <3> QED  BY <1>3, <3>4, <3>5
    <2> QED  BY <2>1, <2>2, <2>3
  <1> QED  BY <1>1, <1>9, <1>10 DEF Success

(***************************************************************************)
(* Answers and submissions.                                                *)
(***************************************************************************)

\* What the sink does between polls: only pairs it has no answer for change,
\* and a new success is kept.
MediaGrows(P) ==
    /\ media' \in [Candidates -> {"new", "requested"} \union Outcomes]
    /\ \A p \in Candidates \ P : media'[p] = media[p]
    /\ \A p \in P : media'[p] # "new" /\ p \in Candidates
    /\ \A p \in P : media[p] \notin Outcomes
    /\ reported' = reported /\ kept \subseteq kept'
    /\ \A p \in P : media'[p] = "success" => p \in kept'

LEMMA AnswerSomeGrows ==
    ASSUME VisitsTyped, AnswerSome
    PROVE  \E P \in SUBSET {p \in Candidates : media[p] # "new"} : MediaGrows(P)
  <1>0. PICK S \in (SUBSET Requested) \ {{}} : \E answers \in [S -> Outcomes] : Answer(answers)
    BY DEF AnswerSome
  <1>1. PICK answers \in [S -> Outcomes] : Answer(answers)
    BY <1>0
  <1>2. S \subseteq Candidates /\ \A p \in S : media[p] = "requested"
    BY DEF Requested
  <1>3. media' = [c \in Candidates |-> IF c \in S THEN answers[c] ELSE media[c]]
    BY <1>1 DEF Answer
  <1>4. media' \in [Candidates -> {"new", "requested"} \union Outcomes]
    BY <1>1, <1>3 DEF VisitsTyped
  <1>5. \A p \in S : media'[p] # "new"
    BY <1>1, <1>2, <1>3 DEF Outcomes
  <1>6. \A p \in S : media'[p] = "success" => p \in kept'
    BY <1>1, <1>2, <1>3 DEF Answer
  <1>7. reported' = reported /\ kept \subseteq kept'
    BY <1>1 DEF Answer
  <1>8. MediaGrows(S)
    BY <1>2, <1>3, <1>4, <1>5, <1>6, <1>7 DEF MediaGrows, Outcomes
  <1> QED  BY <1>2, <1>8

LEMMA SubmitGrows ==
    ASSUME VisitsTyped, NEW p \in Candidates, Submit(p) \/ SubmitKnown(p)
    PROVE  MediaGrows({p}) /\ media[p] = "new"
  <1>1. CASE Submit(p)
    BY <1>1 DEF Submit, MediaGrows, VisitsTyped, Outcomes
  <1>2. CASE SubmitKnown(p)
    <2>1. PICK o \in Outcomes : Answer([x \in {p} |-> o])
      BY <1>2 DEF SubmitKnown
    <2>2. media' = [c \in Candidates |-> IF c = p THEN o ELSE media[c]]
      BY <2>1 DEF Answer
    <2>3. media[p] = "new"
      BY <1>2 DEF SubmitKnown
    <2>4. reported' = reported /\ kept \subseteq kept' /\ (o = "success" => p \in kept')
      BY <2>1 DEF Answer
    <2> QED  BY <2>2, <2>3, <2>4 DEF MediaGrows, VisitsTyped, Outcomes
  <1> QED  BY <1>1, <1>2

\* Nobody's successes, answers or reports are taken back.
LEMMA GrowthKeeps ==
    ASSUME VisitsTyped, DecidedReported, NEW P, MediaGrows(P)
    PROVE  /\ Answered \subseteq Answered' /\ reported' \subseteq Answered'
           /\ \A p \in Candidates : Success(p) => Success(p)'
           /\ \A p \in reported : p \in Candidates /\ p \notin P /\ media'[p] = media[p]
           /\ \A p \in reported : Success(p)' <=> Success(p)
           /\ ({q \in Candidates : Success(q)} \subseteq kept
                 => {q \in Candidates : Success(q)}' \subseteq kept')
  <1>1. \A p \in Candidates : media[p] \in Outcomes => media'[p] = media[p]
    BY DEF MediaGrows
  <1>2. Answered \subseteq Answered'
    BY <1>1 DEF Answered
  <1>3. \A p \in Candidates : Success(p) => Success(p)'
    BY <1>1 DEF Success, Outcomes
  <1>4. \A p \in reported : p \in Candidates /\ p \notin P /\ media'[p] = media[p]
    BY DEF MediaGrows, DecidedReported, Answered
  <1>5. {q \in Candidates : Success(q)} \subseteq kept
                 => {q \in Candidates : Success(q)}' \subseteq kept'
    BY DEF MediaGrows, Success
  <1>6. reported' \subseteq Answered'
    BY <1>2 DEF MediaGrows, DecidedReported
  <1> QED  BY <1>2, <1>3, <1>4, <1>5, <1>6 DEF Success

LEMMA AnswersKeep ==
    ASSUME VisitsTyped, VisitsDistinct, DecidedReported, ViableExact, TakenDecided,
           TakenInOrder, TargetsTyped, AnswerSome, UNCHANGED targetVars,
           pc' = pc, pc # "done"
    PROVE  /\ VisitsTyped' /\ VisitsDistinct' /\ DecidedReported' /\ ViableExact'
           /\ TakenDecided' /\ TakenInOrder' /\ TargetsTyped'
  <1>1. PICK P \in SUBSET {p \in Candidates : media[p] # "new"} : MediaGrows(P)
    BY AnswerSomeGrows
  <1>2. /\ targets' = targets /\ visited' = visited /\ committed' = committed
        /\ viable' = viable /\ taken' = taken /\ raised' = raised
    BY DEF targetVars
  <1>3. /\ Answered \subseteq Answered' /\ reported' \subseteq Answered' /\ reported' = reported
        /\ \A p \in Candidates : Success(p) => Success(p)'
        /\ \A p \in reported : Success(p)' <=> Success(p)
        /\ ({q \in Candidates : Success(q)} \subseteq kept
                 => {q \in Candidates : Success(q)}' \subseteq kept')
    BY <1>1, GrowthKeeps DEF MediaGrows
  <1>4. VisitsTyped'
    BY <1>1, <1>2 DEF VisitsTyped, MediaGrows
  <1>5. VisitsDistinct'
    <2>1. \A p \in Candidates : media'[p] # "new" <=> media[p] # "new"
      BY <1>1 DEF MediaGrows
    <2>2. SeenPairs' = SeenPairs
      BY <1>2 DEF SeenPairs
    <2> QED  BY <1>2, <2>1, <2>2 DEF VisitsDistinct
  <1>6. DecidedReported'
    BY <1>2, <1>3 DEF DecidedReported
  <1>7. ViableExact'
    <2>1. ASSUME NEW b \in Buckets PROVE StillViable(b)' = StillViable(b)
      <3>1. Undecided(b)' = Undecided(b)
        BY <1>2 DEF Undecided
      <3> QED  BY <1>3, <3>1 DEF StillViable
    <2>2. ASSUME NEW b \in Buckets PROVE viable'[b] = Cardinality(StillViable(b)')
      BY <1>2, <2>1 DEF ViableExact
    <2> QED  BY <1>2, <2>2 DEF ViableExact
  <1>8. TakenDecided'
    <2>1. \A p \in taken : p \in Decided(BucketOf[p])' <=> p \in Decided(BucketOf[p])
      BY <1>2 DEF Decided
    <2> QED  BY <1>2, <1>3, <2>1 DEF TakenDecided
  <1>9. \A b \in Buckets : Accepted(b)' = Accepted(b) /\ (Full(b)' <=> Full(b))
    BY <1>2 DEF Accepted, Full
  <1>10. TakenInOrder'
    <2> SUFFICES ASSUME NEW b \in Buckets, b \notin raised
                 PROVE  /\ \A i, j \in 1..committed[b] :
                           i < j /\ visited[b][j] \in taken /\ Success(visited[b][i])'
                             => visited[b][i] \in taken
                        /\ \A i \in 1..committed[b] :
                           Success(visited[b][i])' /\ visited[b][i] \notin taken
                             => Full(b)
      BY <1>2, <1>9 DEF TakenInOrder, Success
    <2>1. \A i \in 1..committed[b] : Success(visited[b][i])' <=> Success(visited[b][i])
      BY <1>2, <1>3 DEF DecidedReported, Success
    <2> QED  BY <2>1 DEF TakenInOrder
  <1>11. TargetsTyped'
    BY <1>2, <1>9 DEF TargetsTyped
  <1> QED  BY <1>4, <1>5, <1>6, <1>7, <1>8, <1>10, <1>11

LEMMA ObserveKeeps ==
    ASSUME VisitsTyped, VisitsDistinct, DecidedReported, ViableExact, TakenDecided,
           TakenInOrder, TargetsTyped, NEW p \in Candidates, p \notin SeenPairs,
           Observe(p), pc' = pc, pc # "done"
    PROVE  /\ VisitsTyped' /\ VisitsDistinct' /\ DecidedReported' /\ ViableExact'
           /\ TakenDecided' /\ TakenInOrder' /\ TargetsTyped'
  <1> DEFINE home == BucketOf[p]
             n == Len(visited[home])
  <1>1. MediaGrows({p}) /\ media[p] = "new"
    BY SubmitGrows DEF Observe
  <1>2. /\ targets' = targets /\ committed' = committed
        /\ taken' = taken /\ raised' = raised
    BY DEF Observe
  <1>3. /\ Answered \subseteq Answered' /\ reported' \subseteq Answered' /\ reported' = reported
        /\ \A q \in Candidates : Success(q) => Success(q)'
        /\ \A q \in reported : Success(q)' <=> Success(q)
        /\ p \notin reported
        /\ ({q \in Candidates : Success(q)} \subseteq kept
                 => {q \in Candidates : Success(q)}' \subseteq kept')
    <2>1. MediaGrows({p})
      BY <1>1
    <2>2. /\ Answered \subseteq Answered' /\ reported' \subseteq Answered'
          /\ \A q \in Candidates : Success(q) => Success(q)'
          /\ \A q \in reported : q \in Candidates /\ q \notin {p} /\ media'[q] = media[q]
          /\ \A q \in reported : Success(q)' <=> Success(q)
          /\ ({q \in Candidates : Success(q)} \subseteq kept
                 => {q \in Candidates : Success(q)}' \subseteq kept')
      BY <2>1, GrowthKeeps
    <2>3. reported' = reported
      BY <2>1 DEF MediaGrows
    <2>4. p \notin reported
      BY <2>2
    <2> QED  BY <2>2, <2>3, <2>4
  <1>4. /\ home \in Buckets /\ visited[home] \in Seq(Candidates) /\ n \in Nat
        /\ committed[home] \in Nat /\ committed[home] <= n
    BY SampleAssumption DEF VisitsTyped
  <1>5. visited' = [visited EXCEPT ![home] = Append(@, p)]
    BY DEF Observe
  <1>6. visited' \in [Buckets -> Seq(Candidates)]
    BY <1>4, <1>5 DEF VisitsTyped
  <1>7. /\ Len(visited'[home]) = n + 1 /\ visited'[home][n + 1] = p
        /\ \A i \in 1..n : visited'[home][i] = visited[home][i]
        /\ \A b \in Buckets \ {home} : visited'[b] = visited[b]
    BY <1>4, <1>5 DEF VisitsTyped
  <1>8. \A b \in Buckets : \A i \in 1..Len(visited[b]) : visited[b][i] \in SeenPairs
    BY DEF SeenPairs, VisitsTyped
  <1>9. ASSUME NEW b \in Buckets
        PROVE  /\ Len(visited[b]) \in Nat /\ Len(visited'[b]) \in Nat
               /\ Len(visited[b]) <= Len(visited'[b])
               /\ committed[b] \in Nat /\ committed[b] <= Len(visited[b])
               /\ \A i \in 1..Len(visited[b]) : visited'[b][i] = visited[b][i]
    <2>1. /\ Len(visited[b]) \in Nat
          /\ committed[b] \in Nat /\ committed[b] <= Len(visited[b])
      BY DEF VisitsTyped
    <2>2. CASE b = home
      BY <1>4, <1>7, <2>1, <2>2
    <2>3. CASE b # home
      BY <1>7, <2>1, <2>3
    <2> QED  BY <2>2, <2>3
  <1>10. VisitsTyped'
    BY <1>1, <1>2, <1>6, <1>9 DEF VisitsTyped, MediaGrows
  <1>11. SeenPairs' = SeenPairs \union {p}
    <2>1. ASSUME NEW b \in Buckets
          PROVE  {visited'[b][i] : i \in DOMAIN visited'[b]}
                   = IF b = home THEN {visited[b][i] : i \in DOMAIN visited[b]} \union {p}
                     ELSE {visited[b][i] : i \in DOMAIN visited[b]}
      <3>1. CASE b # home
        BY <1>7, <3>1
      <3>2. CASE b = home
        <4>1. DOMAIN visited[home] = 1..n /\ DOMAIN visited'[home] = 1..(n + 1)
          BY <1>4, <1>6, <1>7
        <4>2. 1..(n + 1) = (1..n) \union {n + 1}
          BY <1>4
        <4> HIDE DEF n, home
        <4> QED  BY <1>7, <3>2, <4>1, <4>2
      <3> QED  BY <3>1, <3>2
    <2> DEFINE in(b) == {visited[b][i] : i \in DOMAIN visited[b]}
               after(b) == {visited'[b][i] : i \in DOMAIN visited'[b]}
    <2>2. SeenPairs = UNION {in(b) : b \in Buckets} /\ SeenPairs' = UNION {after(b) : b \in Buckets}
      BY DEF SeenPairs
    <2>3. \A b \in Buckets : after(b) = IF b = home THEN in(b) \union {p} ELSE in(b)
      BY <2>1
    <2> HIDE DEF home, in, after
    <2> QED  BY <1>4, <2>2, <2>3
  <1>12. VisitsDistinct'
    <2>1. ASSUME NEW q \in Candidates PROVE media'[q] # "new" <=> q \in SeenPairs'
      BY <1>1, <1>11 DEF MediaGrows, VisitsDistinct
    <2>2. ASSUME NEW b \in Buckets, NEW i \in 1..Len(visited'[b])
          PROVE  /\ BucketOf[visited'[b][i]] = b
                 /\ \A j \in 1..Len(visited'[b]) : visited'[b][i] = visited'[b][j] => i = j
      <3>1. CASE b # home
        BY <1>7, <3>1 DEF VisitsDistinct
      <3>2. CASE b = home
        <4>1. \A j \in 1..n : visited[home][j] # p /\ BucketOf[visited[home][j]] = home
          BY <1>4, <1>8 DEF VisitsDistinct
        <4>2. \A j \in 1..(n + 1) : j \in 1..n \/ j = n + 1
          BY <1>4
        <4>3. \A j, m \in 1..n : visited[home][j] = visited[home][m] => j = m
          BY <1>4 DEF VisitsDistinct
        <4>4. i \in 1..(n + 1)
          BY <1>7, <3>2
        <4>5. BucketOf[visited'[b][i]] = b
          BY <1>7, <3>2, <4>1, <4>2, <4>4
        <4>6. ASSUME NEW j \in 1..Len(visited'[b]), visited'[b][i] = visited'[b][j]
              PROVE  i = j
          <5>1. j \in 1..(n + 1)
            BY <1>7, <3>2
          <5> HIDE DEF n, home
          <5> QED  BY <1>7, <3>2, <4>1, <4>2, <4>3, <4>4, <4>6, <5>1
        <4> QED  BY <4>5, <4>6
      <3> QED  BY <3>1, <3>2
    <2> QED  BY <2>1, <2>2 DEF VisitsDistinct
  <1>13. DecidedReported'
    <2>1. ASSUME NEW b \in Buckets, NEW i \in 1..committed'[b]
          PROVE  visited'[b][i] \in reported'
      <3>1. i \in 1..committed[b] /\ i \in 1..Len(visited[b])
        BY <1>2, <1>9
      <3> QED  BY <1>3, <1>9, <3>1 DEF DecidedReported
    <2>2. ASSUME NEW b \in Buckets, committed'[b] < Len(visited'[b])
          PROVE  visited'[b][committed'[b] + 1] \notin reported'
      <3>1. CASE committed[b] < Len(visited[b])
        <4>1. committed[b] + 1 \in 1..Len(visited[b])
          BY <1>9, <3>1
        <4> QED  BY <1>2, <1>3, <1>9, <3>1, <4>1 DEF DecidedReported
      <3>2. CASE ~(committed[b] < Len(visited[b]))
        <4>1. b = home /\ committed[b] = n
          BY <1>2, <1>4, <1>7, <1>9, <2>2, <3>2
        <4> QED  BY <1>2, <1>3, <1>7, <4>1
      <3> QED  BY <3>1, <3>2
    <2> QED  BY <1>3, <2>1, <2>2 DEF DecidedReported
  <1>14. viable' = [viable EXCEPT ![home] = @ + 1]
    BY DEF Observe
  <1>15. ASSUME NEW b \in Buckets, b # home PROVE StillViable(b)' = StillViable(b)
    <2>1. Undecided(b)' = Undecided(b)
      BY <1>2, <1>7, <1>15 DEF Undecided
    <2> QED  BY <1>3, <2>1 DEF StillViable
  <1>16. StillViable(home)' = StillViable(home) \union {p} /\ p \notin StillViable(home)
    <2>1. Undecided(home)' = Undecided(home) \union {p}
      <3>1. Undecided(home)' = {visited'[home][i] : i \in committed[home] + 1..(n + 1)}
        BY <1>2, <1>7 DEF Undecided
      <3>2. committed[home] + 1..(n + 1) = (committed[home] + 1..n) \union {n + 1}
        BY <1>4
      <3>3. \A i \in committed[home] + 1..n : i \in 1..n
        BY <1>4
      <3>4. Undecided(home) = {visited[home][i] : i \in committed[home] + 1..n}
        BY DEF Undecided
      <3> HIDE DEF n, home
      <3> QED  BY <1>7, <3>1, <3>2, <3>3, <3>4
    <2>2. p \notin Undecided(home)
      <3>1. \A i \in committed[home] + 1..n : i \in 1..n
        BY <1>4
      <3> QED  BY <1>4, <1>8, <3>1 DEF Undecided
    <2>3. StillViable(home)' = {q \in Undecided(home)' : q \notin reported' \/ Success(q)'}
      BY DEF StillViable, Success
    <2>4. StillViable(home) = {q \in Undecided(home) : q \notin reported \/ Success(q)}
      BY DEF StillViable
    <2> HIDE DEF n, home
    <2> QED  BY <1>3, <2>1, <2>2, <2>3, <2>4
  <1>17. ViableExact'
    <2>1. ASSUME NEW b \in Buckets PROVE viable'[b] = Cardinality(StillViable(b)')
      <3>1. viable[b] = Cardinality(StillViable(b)) /\ viable \in [Buckets -> Nat]
        BY UndecidedTyped DEF ViableExact
      <3>2. CASE b # home
        BY <1>14, <1>15, <3>1, <3>2
      <3>3. CASE b = home
        <4>1. IsFiniteSet(StillViable(home))
          BY <1>4, UndecidedTyped
        <4>2. Cardinality(StillViable(home) \union {p}) = Cardinality(StillViable(home)) + 1
          BY <1>16, <4>1, FS_AddElement
        <4>3. viable'[home] = viable[home] + 1
          BY <1>4, <1>14, <3>1
        <4> HIDE DEF home
        <4> QED  BY <1>16, <3>1, <3>3, <4>2, <4>3
      <3> QED  BY <3>2, <3>3
    <2>2. DOMAIN viable' = Buckets /\ viable' = [b \in DOMAIN viable |-> viable'[b]]
      BY <1>14 DEF ViableExact
    <2> QED  BY <2>1, <2>2 DEF ViableExact
  <1>18. TakenDecided'
    <2>1. ASSUME NEW q \in taken
          PROVE  q \in Candidates /\ Success(q)' /\ q \in Decided(BucketOf[q])'
      <3>1. q \in Candidates /\ BucketOf[q] \in Buckets /\ Success(q)
        BY SampleAssumption DEF TakenDecided
      <3>2. PICK i \in 1..committed[BucketOf[q]] : q = visited[BucketOf[q]][i]
        BY DEF TakenDecided, Decided
      <3>3. i \in 1..Len(visited[BucketOf[q]])
        BY <1>9, <3>1
      <3>4. q = visited'[BucketOf[q]][i]
        BY <1>9, <3>1, <3>2, <3>3
      <3> QED  BY <1>2, <1>3, <3>1, <3>2, <3>4 DEF Decided
    <2> QED  BY <1>2, <1>3, <2>1 DEF TakenDecided
  <1>19. \A b \in Buckets : Accepted(b)' = Accepted(b) /\ (Full(b)' <=> Full(b))
    BY <1>2 DEF Accepted, Full
  <1>20. TakenInOrder'
    <2> SUFFICES ASSUME NEW b \in Buckets, b \notin raised
                 PROVE  /\ \A i, j \in 1..committed[b] :
                           i < j /\ visited'[b][j] \in taken /\ Success(visited[b][i])'
                             => visited'[b][i] \in taken
                        /\ \A i \in 1..committed[b] :
                           Success(visited[b][i])' /\ visited'[b][i] \notin taken
                             => Full(b)
      BY <1>2, <1>19 DEF TakenInOrder, Success
    <2>1. \A i \in 1..committed[b] :
             /\ visited'[b][i] = visited[b][i]
             /\ media'[visited[b][i]] = "success" <=> Success(visited[b][i])
      <3> SUFFICES ASSUME NEW i \in 1..committed[b]
                   PROVE  /\ visited'[b][i] = visited[b][i]
                          /\ media'[visited[b][i]] = "success" <=> Success(visited[b][i])
        OBVIOUS
      <3>1. i \in 1..Len(visited[b])
        BY <1>9
      <3>2. visited[b][i] \in reported
        BY DEF DecidedReported
      <3> QED  BY <1>3, <1>9, <3>1, <3>2 DEF Success
    <2> QED  BY <2>1 DEF TakenInOrder, Success
  <1>21. TargetsTyped'
    BY <1>2, <1>19 DEF TargetsTyped
  <1> QED  BY <1>10, <1>12, <1>13, <1>17, <1>18, <1>20, <1>21

(***************************************************************************)
(* The steps of the collector.                                             *)
(***************************************************************************)

Restful == UNCHANGED <<sinkVars, targetVars>> /\ pc # "done" /\ pc' # "done"

Collecting == Collect /\ pc' = pc /\ pc # "done"

Observing ==
    /\ \E p \in Candidates \ SeenPairs : Observe(p)
    /\ pc' = pc /\ pc # "done"

Answering == AnswerSome /\ UNCHANGED targetVars /\ pc' = pc /\ pc # "done"

MovingTargets ==
    /\ Redistribute
    /\ UNCHANGED <<sinkVars, visited, committed, viable, taken>>
    /\ pc # "done" /\ pc' # "done"

Retaining ==
    /\ taken \subseteq kept /\ Retain(taken)
    /\ UNCHANGED targetVars
    /\ pc # "done" /\ pc' = "done"

LEMMA TaskPairs ==
    ASSUME NEW task \in Task, NEW rest \in SUBSET task.pairs
    PROVE  /\ task.pairs \subseteq Candidates /\ task.bucket \in Buckets
           /\ [task EXCEPT !.pairs = rest] \in Task
  BY DEF Task, Pairs

LEMMA SubmissionObserves ==
    ASSUME NEW task \in Task, NEW rest, SubmitNext(task, rest)
    PROVE  \E p \in Candidates \ SeenPairs : Observe(p)
  BY TaskPairs DEF SubmitNext

\* Each step does one of six things to the sink and the targets.
LEMMA StepKinds ==
    ASSUME TasksTyped, SampleNext
    PROVE  Restful \/ Collecting \/ Observing \/ Answering \/ MovingTargets \/ Retaining
  <1>1. CASE BeginMatch
    BY <1>1 DEF BeginMatch, Collecting
  <1>2. CASE TakeTask \/ DropTask \/ DeferTask
    BY <1>2 DEF TakeTask, DropTask, DeferTask, Processing, Restful
  <1>3. CASE AwaitSlot
    <2>1. pc = "search"
      BY <1>3 DEF AwaitSlot, Processing
    <2>2. CASE HasOutstanding
      BY <1>3, <2>1, <2>2 DEF AwaitSlot, CollectWaiting, Collecting
    <2>3. CASE ~HasOutstanding
      BY <1>3, <2>1, <2>3 DEF AwaitSlot, Restful
    <2> QED  BY <2>2, <2>3
  <1>4. CASE SubmitTask
    <2>1. pc = "search" /\ pc' = pc /\ current \in Task
      BY <1>4 DEF SubmitTask, Processing, TasksTyped
    <2>2. CASE Exhausted(current)
      BY <1>4, <2>1, <2>2 DEF SubmitTask, Restful
    <2>3. CASE ~Exhausted(current)
      <3>1. \E rest \in SUBSET current.pairs : SubmitNext(current, rest)
        BY <1>4, <2>3 DEF SubmitTask
      <3> QED  BY <2>1, <3>1, SubmissionObserves DEF Observing
    <2> QED  BY <2>2, <2>3
  <1>5. CASE PollAfterSubmit
    BY <1>5 DEF PollAfterSubmit, Collecting, TasksTyped
  <1>6. CASE EndSearch \/ DrainEnds \/ FallbackEnds
    BY <1>6 DEF EndSearch, DrainEnds, FallbackEnds, Restful
  <1>7. CASE Drain
    BY <1>7 DEF Drain, Draining, CollectWaiting, Collecting
  <1>8. CASE DropDeferred
    BY <1>8 DEF DropDeferred, FallbackTurn, Restful
  <1>9. CASE RotateDeferred
    <2>1. pc = "fallback"
      BY <1>9 DEF RotateDeferred, FallbackTurn
    <2>2. CASE deferred + 1 < Len(fallback)
      BY <1>9, <2>1, <2>2 DEF RotateDeferred, Restful
    <2>3. CASE ~(deferred + 1 < Len(fallback)) /\ HasOutstanding
      BY <1>9, <2>1, <2>3 DEF RotateDeferred, CollectWaiting, Collecting
    <2>4. CASE ~(deferred + 1 < Len(fallback)) /\ ~HasOutstanding
      BY <1>9, <2>1, <2>4 DEF RotateDeferred, Restful
    <2> QED  BY <2>2, <2>3, <2>4
  <1>10. CASE SubmitDeferred
    <2> DEFINE task == Head(fallback)
    <2>1. pc = "fallback" /\ pc' = pc /\ fallback # <<>>
      BY <1>10 DEF SubmitDeferred, FallbackTurn
    <2>2. task \in Task
      BY <2>1 DEF TasksTyped
    <2>3. CASE Exhausted(task)
      BY <1>10, <2>1, <2>3 DEF SubmitDeferred, Restful
    <2>4. CASE ~Exhausted(task)
      <3>1. \E rest \in SUBSET task.pairs : SubmitNext(task, rest)
        BY <1>10, <2>4 DEF SubmitDeferred
      <3> HIDE DEF task
      <3> QED  BY <2>1, <2>2, <3>1, SubmissionObserves DEF Observing
    <2> QED  BY <2>3, <2>4
  <1>11. CASE CloseRound
    BY <1>11 DEF CloseRound, MovingTargets
  <1>12. CASE CloseSearch
    BY <1>12 DEF CloseSearch, Restful
  <1>13. CASE RetainTaken
    <2>1. CASE taken \subseteq kept
      BY <1>13, <2>1 DEF RetainTaken, Retaining
    <2>2. CASE ~(taken \subseteq kept)
      BY <1>13, <2>2 DEF RetainTaken, Restful
    <2> QED  BY <2>1, <2>2
  <1>14. CASE SinkAnswers
    BY <1>14 DEF SinkAnswers, Answering
  <1> QED  BY <1>1, <1>2, <1>3, <1>4, <1>5, <1>6, <1>7, <1>8, <1>9, <1>10, <1>11, <1>12,
              <1>13, <1>14 DEF SampleNext, CollectorNext

\* With nothing outstanding no pair is in flight and none is viable.
LEMMA NothingOutstanding ==
    ASSUME VisitsTyped, VisitsDistinct, DecidedReported, ViableExact, TargetsTyped,
           ~HasOutstanding
    PROVE  InFlight = {} /\ UncommittedTotal = 0 /\ \A b \in Buckets : viable[b] = 0
  <1> DEFINE open == [b \in Buckets |-> Len(visited[b]) - committed[b]]
  <1>1. UncommittedTotal = Over(open, Buckets) /\ UncommittedTotal = 0
    <2>1. UncommittedTotal = Sum(open) /\ DOMAIN open = Buckets
      BY DEF UncommittedTotal
    <2>2. UncommittedTotal = 0
      BY DEF HasOutstanding
    <2> HIDE DEF open
    <2> QED  BY <2>1, <2>2, SumIsOver
  <1>2. \A b \in Buckets : open[b] \in Nat
    BY DEF VisitsTyped
  <1>3. \A b \in Buckets : open[b] <= 0
    <2> HIDE DEF open
    <2> QED  BY <1>1, <1>2, SampleAssumption, OverBounds
  <1>4. \A b \in Buckets : Len(visited[b]) = committed[b] /\ committed[b] \in Nat
    BY <1>2, <1>3 DEF VisitsTyped
  <1>5. InFlight = {}
    <2> SUFFICES ASSUME NEW p \in SeenPairs PROVE p \in reported
      BY DEF InFlight
    <2>1. PICK b \in Buckets : \E i \in DOMAIN visited[b] : p = visited[b][i]
      BY DEF SeenPairs
    <2>2. PICK i \in 1..Len(visited[b]) : p = visited[b][i]
      BY <2>1 DEF VisitsTyped
    <2> QED  BY <1>4, <2>2 DEF DecidedReported
  <1>6. ASSUME NEW b \in Buckets PROVE viable[b] = 0
    <2>1. StillViable(b) = {}
      BY <1>4 DEF StillViable, Undecided
    <2> QED  BY <2>1, FS_EmptySet DEF ViableExact
  <1> QED  BY <1>1, <1>5, <1>6

\* The search never waits for an answer with none to come.
LEMMA AwaitSlotHasWork ==
    ASSUME VisitsTyped, VisitsDistinct, DecidedReported, ViableExact, TargetsTyped,
           TasksTyped, AwaitSlot
    PROVE  HasOutstanding
  <1> SUFFICES ASSUME ~HasOutstanding PROVE FALSE
    OBVIOUS
  <1> DEFINE b == current.bucket
             missing == [x \in Buckets |-> IF Full(x) THEN 0 ELSE targets[x] - Accepted(x)]
  <1>1. current \in Task /\ b \in Buckets /\ ~Full(b)
    <2>1. current \in Task /\ ~Full(b)
      BY DEF AwaitSlot, Processing, TasksTyped
    <2> QED  BY <2>1 DEF Task
  <1>2. InFlight = {} /\ UncommittedTotal = 0 /\ \A x \in Buckets : viable[x] = 0
    BY NothingOutstanding
  <1>3. HasOpenSlot
    BY <1>2, FS_EmptySet, SampleAssumption DEF HasOpenSlot
  <1>4. Remaining \in Nat \ {0}
    <2>1. \A x \in Buckets : missing[x] \in Nat
      BY DEF Full, TargetsTyped
    <2>2. missing[b] # 0
      BY <1>1 DEF Full, TargetsTyped
    <2>3. Remaining = Sum(missing) /\ DOMAIN missing = Buckets
      BY DEF Remaining
    <2> HIDE DEF missing
    <2>4. Remaining \in Nat /\ missing[b] <= Remaining
      BY <1>1, <2>1, <2>3, SampleAssumption, SumIsOver, OverBounds
    <2> QED  BY <1>1, <2>1, <2>2, <2>4
  <1>5. HasCommitCapacity
    BY <1>2, <1>4, SampleAssumption DEF HasCommitCapacity
  <1>6. \A x \in Buckets : Covered(x) => Full(x)
    BY <1>2 DEF Covered, Full, TargetsTyped
  <1>7. ~Covered(b)
    BY <1>1, <1>6
  <1>8. Wants(b)
    BY <1>1, <1>5, <1>7 DEF Wants
  <1> QED  BY <1>3, <1>8 DEF AwaitSlot

LEMMA TasksStayTyped ==
    ASSUME SampleInv, SampleNext
    PROVE  TasksTyped'
  <1> TasksTyped
    BY DEF SampleInv
  <1> NoTask \notin Task
    BY SampleAssumption
  <1>1. CASE BeginMatch
    <2>1. batch' \subseteq Task
      BY <1>1, SampleAssumption DEF BeginMatch
    <2> QED  BY <1>1, <2>1 DEF BeginMatch, TasksTyped
  <1>2. CASE TakeTask
    BY <1>2 DEF TakeTask, TasksTyped
  <1>3. CASE DropTask
    BY <1>3 DEF DropTask, TasksTyped
  <1>4. CASE DeferTask
    <2>1. fallback' \in Seq(Task)
      BY <1>4 DEF DeferTask, Processing, TasksTyped
    <2> QED  BY <1>4, <2>1 DEF DeferTask, TasksTyped
  <1>5. CASE AwaitSlot
    <2>1. HasOutstanding
      BY <1>5, AwaitSlotHasWork DEF SampleInv
    <2>2. UNCHANGED searchVars /\ pc' = pc
      BY <1>5, <2>1 DEF AwaitSlot
    <2> QED  BY <2>2 DEF searchVars, TasksTyped
  <1>6. CASE SubmitTask
    <2>1. /\ current \in Task /\ current' = NoTask /\ batch' = batch /\ pc' = pc
          /\ pc = "search"
      BY <1>6 DEF SubmitTask, Processing, TasksTyped
    <2>2. CASE Exhausted(current)
      BY <1>6, <2>1, <2>2 DEF SubmitTask, TasksTyped
    <2>3. CASE ~Exhausted(current)
      <3>1. PICK rest \in SUBSET current.pairs :
              /\ fallback' = IF rest # {} /\ FallbackHasRoom
                             THEN Append(fallback, [current EXCEPT !.pairs = rest])
                             ELSE fallback
              /\ fresh' = TRUE
        BY <1>6, <2>3 DEF SubmitTask
      <3>2. [current EXCEPT !.pairs = rest] \in Task
        BY <2>1, TaskPairs
      <3>3. fallback' \in Seq(Task)
        BY <3>1, <3>2 DEF TasksTyped
      <3> QED  BY <2>1, <3>1, <3>3 DEF TasksTyped
    <2> QED  BY <2>2, <2>3
  <1>7. CASE PollAfterSubmit
    BY <1>7 DEF PollAfterSubmit, TasksTyped
  <1>8. CASE EndSearch
    BY <1>8 DEF EndSearch, TasksTyped, searchVars
  <1>9. CASE Drain
    BY <1>9 DEF Drain, TasksTyped, searchVars
  <1>10. CASE DrainEnds
    BY <1>10 DEF DrainEnds, TasksTyped
  <1>11. CASE FallbackEnds
    BY <1>11 DEF FallbackEnds, TasksTyped, searchVars
  <1>12. CASE DropDeferred
    <2>1. fallback' \in Seq(Task)
      BY <1>12 DEF DropDeferred, FallbackTurn, TasksTyped
    <2> QED  BY <1>12, <2>1 DEF DropDeferred, TasksTyped
  <1>13. CASE RotateDeferred
    <2>1. fallback # <<>> /\ fallback' = Append(Tail(fallback), Head(fallback)) /\ ~fresh
          /\ batch' = batch /\ current' = current /\ fresh' = fresh /\ pc = "fallback"
      BY <1>13 DEF RotateDeferred, FallbackTurn
    <2>2. fallback' \in Seq(Task)
      BY <2>1 DEF TasksTyped
    <2> QED  BY <2>1, <2>2 DEF TasksTyped
  <1>14. CASE SubmitDeferred
    <2> DEFINE task == Head(fallback)
    <2>1. /\ fallback # <<>> /\ batch' = batch /\ current' = current /\ pc' = pc
          /\ pc = "fallback"
      BY <1>14 DEF SubmitDeferred, FallbackTurn
    <2>2. task \in Task /\ Tail(fallback) \in Seq(Task)
      BY <2>1 DEF TasksTyped
    <2>3. CASE Exhausted(task)
      BY <1>14, <2>1, <2>2, <2>3 DEF SubmitDeferred, TasksTyped
    <2>4. CASE ~Exhausted(task)
      <3>1. PICK rest \in SUBSET task.pairs :
              /\ fallback' = IF rest # {}
                             THEN Append(Tail(fallback), [task EXCEPT !.pairs = rest])
                             ELSE Tail(fallback)
              /\ fresh' = TRUE
        BY <1>14, <2>4 DEF SubmitDeferred
      <3>2. [task EXCEPT !.pairs = rest] \in Task
        <4> HIDE DEF task
        <4> QED  BY <2>2, TaskPairs
      <3>3. fallback' \in Seq(Task)
        <4> HIDE DEF task
        <4> QED  BY <2>2, <3>1, <3>2
      <3> QED  BY <2>1, <3>1, <3>3 DEF TasksTyped
    <2> QED  BY <2>3, <2>4
  <1>15. CASE CloseRound
    BY <1>15 DEF CloseRound, TasksTyped
  <1>16. CASE CloseSearch
    BY <1>16 DEF CloseSearch, TasksTyped, searchVars
  <1>17. CASE RetainTaken
    BY <1>17 DEF RetainTaken, TasksTyped, searchVars
  <1>18. CASE SinkAnswers
    BY <1>18 DEF SinkAnswers, TasksTyped, searchVars
  <1> QED  BY <1>1, <1>2, <1>3, <1>4, <1>5, <1>6, <1>7, <1>8, <1>9, <1>10, <1>11, <1>12,
              <1>13, <1>14, <1>15, <1>16, <1>17, <1>18 DEF SampleNext, CollectorNext

LEMMA NeverFails ==
    ASSUME SampleInv, SampleNext
    PROVE  NotFailed'
  <1> USE DEF SampleInv
  <1>1. CASE AwaitSlot
    <2>1. HasOutstanding
      BY <1>1, AwaitSlotHasWork
    <2> QED  BY <1>1, <2>1 DEF AwaitSlot, NotFailed
  <1>2. CASE RetainTaken
    <2>1. taken \subseteq kept
      BY <1>2 DEF RetainTaken, TakenDecided
    <2> QED  BY <1>2, <2>1 DEF RetainTaken, NotFailed
  <1>3. CASE CloseRound
    BY <1>3 DEF CloseRound, NotFailed
  <1>4. CASE BeginMatch \/ TakeTask \/ DropTask \/ DeferTask \/ SubmitTask \/ PollAfterSubmit
    BY <1>4 DEF BeginMatch, TakeTask, DropTask, DeferTask, SubmitTask, PollAfterSubmit,
                NotFailed
  <1>5. CASE EndSearch \/ Drain \/ DrainEnds \/ FallbackEnds \/ CloseSearch \/ SinkAnswers
    BY <1>5 DEF EndSearch, Drain, DrainEnds, FallbackEnds, CloseSearch, SinkAnswers, NotFailed
  <1>6. CASE DropDeferred \/ RotateDeferred \/ SubmitDeferred
    BY <1>6 DEF DropDeferred, RotateDeferred, SubmitDeferred, NotFailed
  <1> QED  BY <1>1, <1>2, <1>3, <1>4, <1>5, <1>6 DEF SampleNext, CollectorNext

\* Steps that leave sink and targets alone, and the last step.
LEMMA RestKeeps ==
    ASSUME VisitsTyped, VisitsDistinct, DecidedReported, ViableExact, TakenDecided,
           TakenInOrder, TargetsTyped, PoolsAddUp,
           Restful \/ UNCHANGED sampleVars
    PROVE  /\ VisitsTyped' /\ VisitsDistinct' /\ DecidedReported' /\ ViableExact'
           /\ TakenDecided' /\ TakenInOrder' /\ TargetsTyped' /\ PoolsAddUp'
  <1>1. /\ media' = media /\ reported' = reported /\ kept' = kept
        /\ targets' = targets /\ visited' = visited /\ committed' = committed
        /\ viable' = viable /\ taken' = taken /\ raised' = raised
    BY DEF Restful, sampleVars, sinkVars, targetVars
  <1>2. pc' = "done" <=> pc = "done"
    BY DEF Restful, sampleVars
  <1>3. VisitsTyped' /\ VisitsDistinct'
    BY <1>1 DEF VisitsTyped, VisitsDistinct, SeenPairs
  <1>4. DecidedReported'
    BY <1>1 DEF DecidedReported, Answered
  <1>5. ViableExact'
    BY <1>1 DEF ViableExact, StillViable, Undecided, Success
  <1>6. TakenDecided'
    BY <1>1, <1>2 DEF TakenDecided, Success, Decided
  <1>7. TakenInOrder'
    BY <1>1 DEF TakenInOrder, Success, Full, Accepted
  <1>8. TargetsTyped' /\ PoolsAddUp'
    BY <1>1 DEF TargetsTyped, PoolsAddUp, Accepted
  <1> QED  BY <1>3, <1>4, <1>5, <1>6, <1>7, <1>8

LEMMA RetainingKeeps ==
    ASSUME VisitsTyped, VisitsDistinct, DecidedReported, ViableExact, TakenDecided,
           TakenInOrder, TargetsTyped, PoolsAddUp, Retaining
    PROVE  /\ VisitsTyped' /\ VisitsDistinct' /\ DecidedReported' /\ ViableExact'
           /\ TakenDecided' /\ TakenInOrder' /\ TargetsTyped' /\ PoolsAddUp'
  <1>1. /\ media' = media /\ reported' = reported /\ kept' = taken
        /\ targets' = targets /\ visited' = visited /\ committed' = committed
        /\ viable' = viable /\ taken' = taken /\ raised' = raised
    BY DEF Retaining, Retain, targetVars
  <1>2. pc' = "done"
    BY DEF Retaining
  <1>3. VisitsTyped' /\ VisitsDistinct'
    BY <1>1 DEF VisitsTyped, VisitsDistinct, SeenPairs
  <1>4. DecidedReported'
    BY <1>1 DEF DecidedReported, Answered
  <1>5. ViableExact'
    BY <1>1 DEF ViableExact, StillViable, Undecided, Success
  <1>6. TakenDecided'
    BY <1>1, <1>2 DEF TakenDecided, Success, Decided
  <1>7. TakenInOrder'
    BY <1>1 DEF TakenInOrder, Success, Full, Accepted
  <1>8. TargetsTyped' /\ PoolsAddUp'
    BY <1>1 DEF TargetsTyped, PoolsAddUp, Accepted
  <1> QED  BY <1>3, <1>4, <1>5, <1>6, <1>7, <1>8

LEMMA MovingKeeps ==
    ASSUME VisitsTyped, VisitsDistinct, DecidedReported, ViableExact, TakenDecided,
           TakenInOrder, TargetsTyped, PoolsAddUp, MovingTargets
    PROVE  /\ VisitsTyped' /\ VisitsDistinct' /\ DecidedReported' /\ ViableExact'
           /\ TakenDecided' /\ TakenInOrder' /\ TargetsTyped' /\ PoolsAddUp'
  <1>1. /\ media' = media /\ reported' = reported /\ kept' = kept
        /\ visited' = visited /\ committed' = committed
        /\ viable' = viable /\ taken' = taken
    BY DEF MovingTargets, sinkVars
  <1>2. pc # "done" /\ pc' # "done"
    BY DEF MovingTargets
  <1>3. VisitsTyped' /\ VisitsDistinct'
    <2>1. VisitsTyped'
      BY <1>1 DEF VisitsTyped
    <2>2. SeenPairs' = SeenPairs
      BY <1>1 DEF SeenPairs
    <2> QED  BY <1>1, <2>1, <2>2 DEF VisitsDistinct
  <1>4. DecidedReported'
    BY <1>1 DEF DecidedReported, Answered
  <1>5. ViableExact'
    BY <1>1 DEF ViableExact, StillViable, Undecided, Success
  <1>6. TakenDecided'
    BY <1>1, <1>2 DEF TakenDecided, Success, Decided
  <1>7. \A b \in Buckets : Accepted(b)' = Accepted(b)
    BY <1>1 DEF Accepted
  <1>8. TargetsTyped'
    BY <1>7, TargetsStayTyped DEF TargetsTyped, MovingTargets
  <1>9. PoolsAddUp'
    BY TotalKept DEF PoolsAddUp, MovingTargets
  <1>10. raised' = raised \union {b \in Buckets : targets'[b] > targets[b]}
    BY DEF MovingTargets, Redistribute, Raise
  <1>11. TakenInOrder'
    <2> SUFFICES ASSUME NEW b \in Buckets, b \notin raised'
                 PROVE  /\ \A i, j \in 1..committed[b] :
                           i < j /\ visited[b][j] \in taken /\ Success(visited[b][i])
                             => visited[b][i] \in taken
                        /\ \A i \in 1..committed[b] :
                           Success(visited[b][i]) /\ visited[b][i] \notin taken
                             => Full(b)'
      BY <1>1 DEF TakenInOrder, Success
    <2>1. b \notin raised /\ ~(targets'[b] > targets[b])
      BY <1>10
    <2>2. Full(b) => Full(b)'
      BY <1>7, <1>8, <2>1 DEF Full, TargetsTyped
    <2> QED  BY <2>1, <2>2 DEF TakenInOrder
  <1> QED  BY <1>3, <1>4, <1>5, <1>6, <1>8, <1>9, <1>11

LEMMA SampleInit_Inv ==
    ASSUME SampleInit
    PROVE  SampleInv
  <1> USE DEF SampleInit, SinkInit
  <1>1. VisitsTyped
    BY DEF VisitsTyped, Outcomes
  <1>2. VisitsDistinct
    BY DEF VisitsDistinct, SeenPairs
  <1>3. DecidedReported
    BY DEF DecidedReported
  <1>4. ViableExact
    <2>1. ASSUME NEW b \in Buckets PROVE Cardinality(StillViable(b)) = 0
      <3>1. StillViable(b) = {}
        BY DEF StillViable, Undecided
      <3> QED  BY <3>1, FS_EmptySet
    <2> QED  BY <2>1 DEF ViableExact
  <1>5. TakenDecided
    BY DEF TakenDecided, Success
  <1>6. TakenInOrder
    BY DEF TakenInOrder
  <1>7. TargetsTyped /\ PoolsAddUp
    <2>1. targets \in [Buckets -> 0..Target]
      BY DEF BalancedTargets
    <2>2. \A b \in Buckets : Sum([x \in PoolBuckets(b) |-> targets[x]]) = Target
      BY DEF BalancedTargets
    <2>3. ASSUME NEW b \in Buckets PROVE Accepted(b) = 0
      <3>1. {p \in taken : BucketOf[p] = b} = {}
        OBVIOUS
      <3> QED  BY <3>1, FS_EmptySet DEF Accepted
    <2>4. ASSUME NEW b \in Buckets PROVE Over(targets, PoolBuckets(b)) = Target
      <3> DEFINE f == [x \in PoolBuckets(b) |-> targets[x]]
      <3>1. Sum(f) = Target
        BY <2>2
      <3>2. \A x \in PoolBuckets(b) : targets[x] = f[x]
        OBVIOUS
      <3>3. DOMAIN f = PoolBuckets(b) /\ IsFiniteSet(PoolBuckets(b))
        BY PoolsFinite
      <3>4. Over(targets, PoolBuckets(b)) = Over(f, PoolBuckets(b))
        <4> HIDE DEF f
        <4> QED  BY <3>2, <3>3, OverSame
      <3> HIDE DEF f
      <3> QED  BY <3>1, <3>3, <3>4, SumIsOver
    <2>5. targets \in [Buckets -> Nat]
      BY <2>1, SampleAssumption
    <2> QED  BY <2>3, <2>4, <2>5 DEF TargetsTyped, PoolsAddUp
  <1>8. TasksTyped /\ NotFailed
    BY DEF TasksTyped, NotFailed
  <1> QED  BY <1>1, <1>2, <1>3, <1>4, <1>5, <1>6, <1>7, <1>8 DEF SampleInv

LEMMA SampleNext_Inv ==
    ASSUME SampleInv, [SampleNext]_sampleVars
    PROVE  SampleInv'
  <1>1. CASE UNCHANGED sampleVars
    <2>1. TasksTyped' /\ NotFailed'
      BY <1>1 DEF SampleInv, TasksTyped, NotFailed, sampleVars, searchVars
    <2> QED  BY <1>1, <2>1, RestKeeps DEF SampleInv
  <1>2. CASE SampleNext
    <2>1. TasksTyped' /\ NotFailed'
      BY <1>2, TasksStayTyped, NeverFails DEF SampleInv
    <2>2. CASE Restful
      BY <2>1, <2>2, RestKeeps DEF SampleInv
    <2>3. CASE Collecting
      <3>1. PoolsAddUp'
        BY <2>3 DEF SampleInv, Collecting, Collect, PoolsAddUp
      <3> QED  BY <2>1, <2>3, <3>1, CollectKeepsVisits, CollectKeepsViable, CollectKeepsTaken,
                  CollectKeepsOrder DEF SampleInv, Collecting
    <2>4. CASE Observing
      <3>1. PICK p \in Candidates \ SeenPairs : Observe(p)
        BY <2>4 DEF Observing
      <3>2. PoolsAddUp'
        BY <3>1 DEF SampleInv, Observe, PoolsAddUp
      <3> QED  BY <2>1, <2>4, <3>1, <3>2, ObserveKeeps DEF SampleInv, Observing
    <2>5. CASE Answering
      <3>1. PoolsAddUp'
        BY <2>5 DEF SampleInv, Answering, targetVars, PoolsAddUp
      <3> QED  BY <2>1, <2>5, <3>1, AnswersKeep DEF SampleInv, Answering
    <2>6. CASE MovingTargets
      BY <2>1, <2>6, MovingKeeps DEF SampleInv
    <2>7. CASE Retaining
      BY <2>1, <2>7, RetainingKeeps DEF SampleInv
    <2> QED  BY <1>2, <2>2, <2>3, <2>4, <2>5, <2>6, <2>7, StepKinds DEF SampleInv
  <1> QED  BY <1>1, <1>2

LEMMA SampleInvHolds == SampleSpec => []SampleInv
  <1>1. SampleInit => SampleInv
    BY SampleInit_Inv
  <1>2. SampleInv /\ [SampleNext]_sampleVars => SampleInv'
    BY SampleNext_Inv
  <1> QED  BY <1>1, <1>2, PTL DEF SampleSpec

(***************************************************************************)
(* The theorems.                                                           *)
(***************************************************************************)

\* The sampler's internal errors (no work under backpressure, a selection the
\* sink does not hold) cannot occur, and a bucket that waits, waits for a pair
\* that is still to be answered.
THEOREM SamplerWaitsForDownloads == SampleSpec => []WaitsOnlyForDownloads
  <1>1. SampleInv => WaitsOnlyForDownloads
    <2> SUFFICES ASSUME SampleInv, NEW b \in Buckets, CommitOrder(b) # <<>>
                 PROVE  Head(CommitOrder(b)) \notin reported
      BY DEF WaitsOnlyForDownloads, SampleInv, NotFailed
    <2>1. /\ visited[b] \in Seq(Candidates) /\ committed[b] \in Nat
          /\ committed[b] <= Len(visited[b])
      BY DEF SampleInv, VisitsTyped
    <2>2. committed[b] < Len(visited[b])
      BY <2>1 DEF CommitOrder
    <2>3. Head(CommitOrder(b)) = visited[b][committed[b] + 1]
      BY <2>1, <2>2 DEF CommitOrder
    <2> QED  BY <2>2, <2>3 DEF SampleInv, DecidedReported
  <1> QED  BY <1>1, SampleInvHolds, PTL

\* Moving the targets of exhausted buckets neither creates nor loses any: a
\* pool is always asked for as many pairs as the command line says, and the
\* search ends with the media of exactly the accepted pairs.
THEOREM PoolsKeepTheirTarget == SampleSpec => []PoolTargetsConserved
  <1>1. SampleInv => PoolTargetsConserved
    <2> SUFFICES ASSUME SampleInv PROVE PoolTargetsConserved
      OBVIOUS
    <2>1. ASSUME NEW b \in Buckets PROVE Sum([x \in PoolBuckets(b) |-> targets[x]]) = Target
      <3> DEFINE f == [x \in PoolBuckets(b) |-> targets[x]]
      <3>1. Over(targets, PoolBuckets(b)) = Target
        BY DEF SampleInv, PoolsAddUp
      <3>2. \A x \in PoolBuckets(b) : targets[x] = f[x]
        OBVIOUS
      <3>3. DOMAIN f = PoolBuckets(b) /\ IsFiniteSet(PoolBuckets(b))
        BY PoolsFinite
      <3>4. Over(targets, PoolBuckets(b)) = Over(f, PoolBuckets(b))
        <4> HIDE DEF f
        <4> QED  BY <3>2, <3>3, OverSame
      <3>5. Sum(f) = Target
        <4> HIDE DEF f
        <4> QED  BY <3>1, <3>3, <3>4, SumIsOver
      <3> QED  BY <3>5
    <2>2. pc = "done" => kept = taken
      BY DEF SampleInv, TakenDecided
    <2> QED  BY <2>1, <2>2 DEF PoolTargetsConserved
  <1> QED  BY <1>1, SampleInvHolds, PTL

\* Which pairs are sampled depends on the order of the visits, not on which
\* downloads finish first.
THEOREM VisitOrderDecides == SampleSpec => []NoEarlierSuccessPassedOver
  <1>1. SampleInv => NoEarlierSuccessPassedOver
    <2> SUFFICES ASSUME SampleInv, NEW b \in Buckets \ raised,
                        NEW i \in DOMAIN visited[b], NEW j \in DOMAIN visited[b],
                        i < j, visited[b][j] \in taken
                 PROVE  /\ media[visited[b][i]] \in Outcomes
                        /\ Success(visited[b][i]) => visited[b][i] \in taken
      BY DEF NoEarlierSuccessPassedOver
    <2>1. DOMAIN visited[b] = 1..Len(visited[b])
      BY DEF SampleInv, VisitsTyped
    <2>2. BucketOf[visited[b][j]] = b
      BY <2>1 DEF SampleInv, VisitsDistinct
    <2>3. PICK n \in 1..committed[b] : visited[b][j] = visited[b][n]
      BY <2>2 DEF SampleInv, TakenDecided, Decided
    <2>4. committed[b] \in Nat /\ committed[b] <= Len(visited[b]) /\ Len(visited[b]) \in Nat
      BY DEF SampleInv, VisitsTyped
    <2>5. j = n
      <3>1. n \in 1..Len(visited[b])
        BY <2>4
      <3> QED  BY <2>1, <2>3, <3>1 DEF SampleInv, VisitsDistinct
    <2>6. i \in 1..committed[b] /\ j \in 1..committed[b]
      BY <2>1, <2>3, <2>4, <2>5
    <2>7. visited[b][i] \in Answered
      BY <2>6 DEF SampleInv, DecidedReported
    <2> QED  BY <2>6, <2>7 DEF SampleInv, TakenInOrder, Answered
  <1> QED  BY <1>1, SampleInvHolds, PTL

\* The sampler uses the sink as a DownloadSink may be used: it submits a pair
\* once, polls, and retains only what the sink holds.
THEOREM SamplerUsesSink == SampleSpec => SinkSpec
  <1>1. SampleInit => SinkInit
    BY DEF SampleInit
  <1>2. SampleInv /\ [SampleNext]_sampleVars => [SinkNext]_sinkVars
    <2> SUFFICES ASSUME SampleInv, SampleNext PROVE SinkNext \/ UNCHANGED sinkVars
      BY DEF sampleVars
    <2>1. CASE Restful \/ MovingTargets
      BY <2>1 DEF Restful, MovingTargets
    <2>2. CASE Collecting
      BY <2>2 DEF Collecting, Collect, SinkNext
    <2>3. CASE Observing
      BY <2>3 DEF Observing, Observe, SinkNext
    <2>4. CASE Answering
      BY <2>4 DEF Answering, SinkNext
    <2>5. CASE Retaining
      <3>1. taken \in SUBSET Candidates
        BY DEF SampleInv, TakenDecided
      <3> QED  BY <2>5, <3>1 DEF Retaining, SinkNext
    <2> QED  BY <2>1, <2>2, <2>3, <2>4, <2>5, StepKinds DEF SampleInv
  <1> QED  BY <1>1, <1>2, SampleInvHolds, PTL DEF SampleSpec, SinkSpec


-----------------------------------------------------------------------------
(* The threads of a round.                                                 *)

Elems(s) == {s[i] : i \in DOMAIN s}

\* No profile stands in s twice; errors may.
Distinct(s) ==
    \A i, j \in DOMAIN s : s[i] = s[j] /\ s[i] \in Lefts => i = j

Message == Lefts \union {Error}

RoundTypes ==
    /\ prod \in {"next", "scope", "done"}
    /\ left \subseteq Lefts
    /\ tasks \subseteq Lefts
    /\ thread \in [PoolThreads -> Lefts \union {"free", "forward"}]
    /\ found \in Seq(Message)
    /\ fwd \in {"idle", "head", "receive", "send", "joining"}
    /\ ready \subseteq Lefts /\ IsFiniteSet(ready) /\ Cardinality(ready) <= Capacity
    /\ sending \in Message
    /\ matches \in Seq(Message) /\ Len(matches) <= 1
    /\ con \in {"receive", "try", "work", "ended"}
    /\ buffer \in Seq(Lefts)
    /\ {drained, stop, complete, failed} \subseteq BOOLEAN
    /\ tried \in [Lefts -> Nat]

Places == {"left", "tasks", "probe", "found", "ready", "sending", "matches", "buffer"}

\* Where profile l or its match is.
In(p, l) ==
    \/ p = "left" /\ l \in left
    \/ p = "tasks" /\ l \in tasks
    \/ p = "probe" /\ \E t \in PoolThreads : thread[t] = l
    \/ p = "found" /\ l \in Elems(found)
    \/ p = "ready" /\ l \in ready
    \/ p = "sending" /\ l = sending
    \/ p = "matches" /\ l \in Elems(matches)
    \/ p = "buffer" /\ l \in Elems(buffer)

Held(l) == \E p \in Places : In(p, l)

\* A profile is in one place at most, and there once.
Unique ==
    /\ \A l \in Lefts : \A p, q \in Places : In(p, l) /\ In(q, l) => p = q
    /\ \A t, u \in PoolThreads : thread[t] = thread[u] /\ thread[t] \in Lefts => t = u
    /\ Distinct(found) /\ Distinct(matches) /\ Distinct(buffer)

\* A profile that is somewhere has a partner left to try.
PartnersLeft ==
    \A l \in Lefts : tried[l] <= Partners[l] /\ (Held(l) => tried[l] < Partners[l])

ErrorOnItsWay ==
    Error \in Elems(found) \union Elems(matches) \/ (fwd = "send" /\ sending = Error)

\* Profiles disappear only after an error or when the search is over.
Conserved ==
    con = "ended" \/ complete \/ ErrorOnItsWay
    \/ \A l \in Lefts : tried[l] = Partners[l] \/ Held(l)

\* The forwarder.
ForwardInv ==
    /\ fwd # "send" => sending = NoLeft
    /\ stop => con = "ended" \/ Error \in Elems(matches)
    /\ prod # "scope" <=> fwd = "idle"
    /\ fwd = "idle" => /\ tasks = {} /\ found = <<>> /\ ready = {}
                       /\ \A t \in PoolThreads : thread[t] = "free"
    /\ fwd \in {"idle", "joining"} => \A t \in PoolThreads : thread[t] # "forward"
    /\ fwd = "joining" =>
        \/ con = "ended" \/ Error \in Elems(matches)
        \/ /\ tasks = {} /\ found = <<>> /\ ready = {}
           /\ \A t \in PoolThreads : thread[t] = "free"

\* The consumer.
ConsumerInv ==
    /\ drained => matches = <<>> /\ prod = "done"
    /\ prod = "done" => left = {} \/ con = "ended" \/ Error \in Elems(matches)
    /\ con = "ended" => stop /\ matches = <<>>
    /\ complete => con \in {"receive", "ended"}
    /\ failed => con = "ended"

RoundInv ==
    /\ RoundTypes /\ Unique /\ PartnersLeft /\ Conserved /\ ForwardInv /\ ConsumerInv
    /\ EveryMatchTried

-----------------------------------------------------------------------------
(* Sequences.                                                              *)

\* Appending adds an element, at the end.
LEMMA Appending ==
    ASSUME NEW S, NEW s \in Seq(S), NEW e \in S
    PROVE  /\ Append(s, e) \in Seq(S)
           /\ Elems(Append(s, e)) = Elems(s) \union {e}
           /\ Distinct(s) /\ e \notin Elems(s) \intersect Lefts => Distinct(Append(s, e))
  <1>1. /\ Append(s, e) \in Seq(S) /\ Len(Append(s, e)) = Len(s) + 1
        /\ \A i \in 1..Len(s) : Append(s, e)[i] = s[i]
        /\ Append(s, e)[Len(s) + 1] = e
        /\ DOMAIN Append(s, e) = 1..Len(s) + 1 /\ DOMAIN s = 1..Len(s) /\ Len(s) \in Nat
    OBVIOUS
  <1>2. Elems(Append(s, e)) = Elems(s) \union {e}
    <2>1. Elems(s) \union {e} \subseteq Elems(Append(s, e))
      BY <1>1 DEF Elems
    <2>2. Elems(Append(s, e)) \subseteq Elems(s) \union {e}
      BY <1>1 DEF Elems
    <2> QED
      BY <2>1, <2>2
  <1>3. Distinct(s) /\ e \notin Elems(s) \intersect Lefts => Distinct(Append(s, e))
    BY <1>1 DEF Distinct, Elems
  <1> QED
    BY <1>1, <1>2, <1>3

\* What a sequence without its first n elements holds.
LEMMA Dropping ==
    ASSUME NEW S, NEW s \in Seq(S), NEW n \in 0..Len(s)
    PROVE  /\ SubSeq(s, n + 1, Len(s)) \in Seq(S)
           /\ Len(SubSeq(s, n + 1, Len(s))) = Len(s) - n
           /\ Elems(s) = {s[i] : i \in 1..n} \union Elems(SubSeq(s, n + 1, Len(s)))
           /\ Distinct(s) =>
                /\ Distinct(SubSeq(s, n + 1, Len(s)))
                /\ {s[i] : i \in 1..n} \intersect Elems(SubSeq(s, n + 1, Len(s)))
                     \intersect Lefts = {}
  <1> DEFINE first == {s[i] : i \in 1..n}
             rest == SubSeq(s, n + 1, Len(s))
  <1>1. /\ rest \in Seq(S) /\ Len(rest) = Len(s) - n /\ Len(s) \in Nat
        /\ DOMAIN rest = 1..Len(s) - n /\ DOMAIN s = 1..Len(s)
        /\ \A i \in 1..Len(s) - n : rest[i] = s[i + n]
    OBVIOUS
  <1> HIDE DEF rest
  <1>2. Elems(s) \subseteq first \union Elems(rest)
    <2>0. Elems(s) = {s[i] : i \in 1..Len(s)}
      BY <1>1 DEF Elems
    <2> SUFFICES ASSUME NEW i \in 1..Len(s), ~(i \in 1..n)
                 PROVE  s[i] \in Elems(rest)
      BY <2>0
    <2>1. i - n \in 1..Len(s) - n /\ (i - n) + n = i
      BY <1>1
    <2>2. rest[i - n] = s[i]
      BY <1>1, <2>1
    <2> QED
      BY <1>1, <2>1, <2>2 DEF Elems
  <1>3. first \union Elems(rest) \subseteq Elems(s)
    <2>1. \A i \in 1..n : s[i] \in Elems(s)
      BY <1>1 DEF Elems
    <2>2. ASSUME NEW j \in 1..Len(s) - n PROVE rest[j] \in Elems(s)
      <3>1. j + n \in DOMAIN s /\ rest[j] = s[j + n]
        BY <1>1
      <3> QED
        BY <3>1 DEF Elems
    <2> QED
      BY <1>1, <2>1, <2>2 DEF Elems
  <1>4. ASSUME Distinct(s)
        PROVE  Distinct(rest) /\ first \intersect Elems(rest) \intersect Lefts = {}
    <2>1. ASSUME NEW i \in 1..Len(s), NEW j \in 1..Len(s), s[i] = s[j], s[i] \in Lefts
          PROVE  i = j
      BY <1>1, <1>4, <2>1 DEF Distinct
    <2>2. ASSUME NEW i \in 1..Len(s) - n, NEW j \in 1..Len(s) - n,
                 rest[i] = rest[j], rest[i] \in Lefts
          PROVE  i = j
      <3>1. i + n \in 1..Len(s) /\ j + n \in 1..Len(s)
        BY <1>1
      <3>2. s[i + n] = s[j + n] /\ s[i + n] \in Lefts
        BY <1>1, <2>2
      <3>3. i + n = j + n
        BY <2>1, <3>1, <3>2
      <3> QED
        BY <3>3
    <2>3. ASSUME NEW i \in 1..n, NEW j \in 1..Len(s) - n, s[i] = rest[j], s[i] \in Lefts
          PROVE  FALSE
      <3>1. i \in 1..Len(s) /\ j + n \in 1..Len(s) /\ s[i] = s[j + n]
        BY <1>1, <2>3
      <3>2. i = j + n
        BY <2>1, <2>3, <3>1
      <3> QED
        BY <3>2
    <2>4. Distinct(rest)
      BY <1>1, <2>2 DEF Distinct
    <2> QED
      BY <1>1, <2>3, <2>4 DEF Elems
  <1> QED
    BY <1>1, <1>2, <1>3, <1>4 DEF rest

\* The head of a sequence and its tail.
LEMMA Taking ==
    ASSUME NEW S, NEW s \in Seq(S), s # <<>>
    PROVE  /\ Head(s) \in S /\ Tail(s) \in Seq(S) /\ Len(Tail(s)) = Len(s) - 1
           /\ Elems(s) = {Head(s)} \union Elems(Tail(s))
           /\ Distinct(s) => /\ Distinct(Tail(s))
                             /\ Head(s) \in Lefts => Head(s) \notin Elems(Tail(s))
  <1>1. /\ Len(s) \in Nat \ {0} /\ 1 \in 0..Len(s) /\ Head(s) = s[1] /\ Head(s) \in S
        /\ Tail(s) = SubSeq(s, 2, Len(s))
    OBVIOUS
  <1>2. {s[i] : i \in 1..1} = {Head(s)}
    BY <1>1
  <1>3. SubSeq(s, 1 + 1, Len(s)) = Tail(s)
    BY <1>1
  <1>4. /\ SubSeq(s, 1 + 1, Len(s)) \in Seq(S)
        /\ Len(SubSeq(s, 1 + 1, Len(s))) = Len(s) - 1
        /\ Elems(s) = {s[i] : i \in 1..1} \union Elems(SubSeq(s, 1 + 1, Len(s)))
        /\ Distinct(s) =>
             /\ Distinct(SubSeq(s, 1 + 1, Len(s)))
             /\ {s[i] : i \in 1..1} \intersect Elems(SubSeq(s, 1 + 1, Len(s)))
                  \intersect Lefts = {}
    BY <1>1, Dropping
  <1> QED
    BY <1>1, <1>2, <1>3, <1>4

LEMMA EmptySequence ==
    Elems(<<>>) = {} /\ Distinct(<<>>)
  BY DEF Elems, Distinct

LEMMA OneMessage ==
    ASSUME NEW e \in Message
    PROVE  <<e>> \in Seq(Message) /\ Len(<<e>>) = 1 /\ Elems(<<e>>) = {e} /\ Distinct(<<e>>)
  BY DEF Elems, Distinct

-----------------------------------------------------------------------------
(* Places.                                                                 *)

OnePlace == \A l \in Lefts : \A p, q \in Places : In(p, l) /\ In(q, l) => p = q

\* The profiles X go from place a to place b, and nothing else moves.
LEMMA Transfer ==
    ASSUME NEW X, NEW a \in Places, NEW b \in Places, a # b,
           OnePlace,
           \A l \in X : In(a, l),
           \A l \in Lefts : In(a, l)' <=> (In(a, l) /\ l \notin X),
           \A l \in Lefts : In(b, l)' <=> (In(b, l) \/ l \in X),
           \A l \in Lefts : \A p \in Places \ {a, b} : In(p, l)' <=> In(p, l)
    PROVE  OnePlace' /\ \A l \in Lefts : Held(l)' <=> Held(l)
  <1>1. \A l \in Lefts : \A p \in Places :
            In(p, l)' => \/ p = b /\ l \in X
                         \/ In(p, l) /\ l \notin X
    BY DEF OnePlace
  <1>2. OnePlace'
    BY <1>1 DEF OnePlace
  <1>3. \A l \in Lefts : Held(l)' <=> Held(l)
    BY DEF Held
  <1> QED
    BY <1>2, <1>3

\* Nothing arrives anywhere.
LEMMA Shrinking ==
    ASSUME OnePlace,
           \A l \in Lefts : \A p \in Places : In(p, l)' => In(p, l)
    PROVE  OnePlace' /\ \A l \in Lefts : Held(l)' => Held(l)
  BY DEF OnePlace, Held

\* A step that leaves the consumer's results alone keeps what they say as
\* long as it drops a profile only behind an error.
LEMMA Calm ==
    ASSUME RoundInv, UNCHANGED <<con, complete, failed, tried>>,
           \A l \in Lefts : Held(l)' => Held(l),
           \/ con = "ended" \/ complete \/ ErrorOnItsWay'
           \/ ~ErrorOnItsWay /\ \A l \in Lefts : Held(l) => Held(l)'
    PROVE  PartnersLeft' /\ Conserved' /\ EveryMatchTried'
  <1>1. PartnersLeft'
    BY DEF RoundInv, PartnersLeft
  <1>2. Conserved'
    BY DEF RoundInv, Conserved
  <1>3. EveryMatchTried'
    BY DEF RoundInv, EveryMatchTried
  <1> QED
    BY <1>1, <1>2, <1>3

\* Which places the actors' variables are.
LEMMA Unmoved ==
    /\ UNCHANGED left => \A l \in Lefts : In("left", l)' <=> In("left", l)
    /\ UNCHANGED tasks => \A l \in Lefts : In("tasks", l)' <=> In("tasks", l)
    /\ UNCHANGED thread => \A l \in Lefts : In("probe", l)' <=> In("probe", l)
    /\ UNCHANGED found => \A l \in Lefts : In("found", l)' <=> In("found", l)
    /\ UNCHANGED ready => \A l \in Lefts : In("ready", l)' <=> In("ready", l)
    /\ UNCHANGED sending => \A l \in Lefts : In("sending", l)' <=> In("sending", l)
    /\ UNCHANGED matches => \A l \in Lefts : In("matches", l)' <=> In("matches", l)
    /\ UNCHANGED buffer => \A l \in Lefts : In("buffer", l)' <=> In("buffer", l)
  BY DEF In, Elems

LEMMA NoWord == /\ "free" \notin Lefts /\ "forward" \notin Lefts /\ NoLeft \notin Lefts
                /\ Error \notin Lefts /\ Error = NoLeft
  BY ProbeAssumption DEF Error

-----------------------------------------------------------------------------
(* The producer.                                                           *)

LEMMA NextBatchKeeps ==
    ASSUME RoundInv, NextBatch
    PROVE  RoundInv'
  <1>1. PICK t \in FreeThreads, B \in SUBSET left :
            /\ left' = left \ B /\ tasks' = B
            /\ thread' = [thread EXCEPT ![t] = "forward"]
    BY DEF NextBatch
  <1>2. /\ prod = "next" /\ ~stop /\ prod' = "scope" /\ fwd' = "head"
        /\ UNCHANGED <<found, ready, sending, matches, con, buffer, drained, complete,
                       failed, tried, stop>>
    BY DEF NextBatch, consumerVars
  <1>3. /\ RoundTypes /\ Unique /\ ForwardInv /\ ConsumerInv
    BY DEF RoundInv
  <1>4. /\ fwd = "idle" /\ tasks = {} /\ found = <<>> /\ ready = {} /\ ~drained
        /\ \A u \in PoolThreads : thread[u] = "free"
        /\ sending = NoLeft
    BY <1>2, <1>3 DEF ForwardInv, ConsumerInv
  <1>5. /\ t \in PoolThreads /\ thread' \in [PoolThreads -> Lefts \union {"free", "forward"}]
        /\ \A u \in PoolThreads : thread'[u] = IF u = t THEN "forward" ELSE "free"
    BY <1>1, <1>3, <1>4 DEF RoundTypes, FreeThreads
  <1>6. OnePlace' /\ \A l \in Lefts : Held(l)' <=> Held(l)
    <2>1. OnePlace
      BY <1>3 DEF Unique, OnePlace
    <2>2. \A l \in B : In("left", l)
      BY DEF In
    <2>3. /\ \A l \in Lefts : In("left", l)' <=> (In("left", l) /\ l \notin B)
          /\ \A l \in Lefts : In("tasks", l)' <=> (In("tasks", l) \/ l \in B)
      BY <1>1, <1>4 DEF In
    <2>4. \A l \in Lefts : In("probe", l)' <=> In("probe", l)
      BY <1>4, <1>5, NoWord DEF In
    <2>5. \A l \in Lefts : \A p \in Places \ {"left", "tasks"} : In(p, l)' <=> In(p, l)
      BY <1>2, <2>4, Unmoved DEF Places
    <2>6. "left" \in Places /\ "tasks" \in Places /\ "left" # "tasks"
      BY DEF Places
    <2> QED
      BY <2>1, <2>2, <2>3, <2>5, <2>6, Transfer
  <1>7. RoundTypes'
    BY <1>1, <1>2, <1>3, <1>5 DEF RoundTypes
  <1>8. Unique'
    BY <1>2, <1>3, <1>5, <1>6, NoWord DEF Unique, OnePlace, Distinct
  <1>9. PartnersLeft' /\ Conserved' /\ EveryMatchTried'
    <2>1. ErrorOnItsWay => ErrorOnItsWay'
      BY <1>2, <1>4 DEF ErrorOnItsWay, Elems
    <2> QED
      BY <1>2, <1>6, <2>1, Calm
  <1>10. ForwardInv'
    BY <1>2, <1>4 DEF ForwardInv
  <1>11. ConsumerInv'
    BY <1>2, <1>3, <1>4 DEF ConsumerInv
  <1> QED
    BY <1>7, <1>8, <1>9, <1>10, <1>11 DEF RoundInv

LEMMA ScopeEndsKeeps ==
    ASSUME RoundInv, ScopeEnds
    PROVE  RoundInv'
  <1>1. /\ prod = "scope" /\ fwd = "joining" /\ tasks = {} /\ Probing = {}
        /\ prod' = "next" /\ fwd' = "idle" /\ found' = <<>> /\ ready' = {}
        /\ UNCHANGED <<left, tasks, thread, sending, matches, con, buffer, drained, complete,
                       failed, tried, stop>>
    BY DEF ScopeEnds, consumerVars
  <1>2. /\ RoundTypes /\ Unique /\ ForwardInv /\ ConsumerInv
    BY DEF RoundInv
  <1>3. \A t \in PoolThreads : thread[t] = "free"
    BY <1>1, <1>2 DEF ForwardInv, Probing
  <1>4. sending = NoLeft /\ ~drained
    BY <1>1, <1>2 DEF ForwardInv, ConsumerInv
  <1>5. OnePlace' /\ \A l \in Lefts : Held(l)' => Held(l)
    <2>1. OnePlace
      BY <1>2 DEF Unique, OnePlace
    <2>2. \A l \in Lefts : ~In("found", l)' /\ ~In("ready", l)'
      BY <1>1 DEF In, Elems
    <2>3. \A l \in Lefts : \A p \in Places : In(p, l)' => In(p, l)
      BY <1>1, <2>2, Unmoved DEF Places
    <2> QED
      BY <2>1, <2>3, Shrinking
  <1>6. RoundTypes'
    BY <1>1, <1>2, FS_EmptySet, ProbeAssumption DEF RoundTypes, Capacity
  <1>7. Unique'
    BY <1>1, <1>2, <1>5 DEF Unique, OnePlace, Distinct
  <1>8. PartnersLeft' /\ Conserved' /\ EveryMatchTried'
    <2>1. CASE con = "ended"
      BY <1>1, <1>5, <2>1, Calm
    <2>2. CASE Error \in Elems(matches)
      <3>1. ErrorOnItsWay'
        BY <1>1, <2>2 DEF ErrorOnItsWay, Elems
      <3> QED
        BY <1>1, <1>5, <3>1, Calm
    <2>3. CASE found = <<>> /\ ready = {}
      <3>1. \A l \in Lefts : \A p \in Places : In(p, l)' <=> In(p, l)
        BY <1>1, <2>3, Unmoved DEF Places
      <3>2. \A l \in Lefts : Held(l) => Held(l)'
        BY <3>1 DEF Held
      <3>3. ErrorOnItsWay => ErrorOnItsWay'
        BY <1>1, <2>3 DEF ErrorOnItsWay, Elems
      <3> QED
        BY <1>1, <1>5, <3>2, <3>3, Calm
    <2> QED
      BY <1>1, <1>2, <2>1, <2>2, <2>3 DEF ForwardInv
  <1>9. ForwardInv'
    BY <1>1, <1>2, <1>3, <1>4 DEF ForwardInv, Elems
  <1>10. ConsumerInv'
    BY <1>1, <1>2, <1>4 DEF ConsumerInv
  <1> QED
    BY <1>6, <1>7, <1>8, <1>9, <1>10 DEF RoundInv

LEMMA ProducerEndsKeeps ==
    ASSUME RoundInv, ProducerEnds
    PROVE  RoundInv'
  <1>1. /\ prod = "next" /\ (stop \/ left = {}) /\ prod' = "done"
        /\ UNCHANGED <<left, tasks, thread, found, fwd, ready, sending, matches, con, buffer,
                       drained, complete, failed, tried, stop>>
    BY DEF ProducerEnds, poolVars, forwardVars, consumerVars
  <1>2. /\ RoundTypes /\ Unique /\ ForwardInv /\ ConsumerInv
    BY DEF RoundInv
  <1>3. \A l \in Lefts : \A p \in Places : In(p, l)' <=> In(p, l)
    BY <1>1, Unmoved DEF Places
  <1>4. \A l \in Lefts : Held(l)' <=> Held(l)
    BY <1>3 DEF Held
  <1>5. RoundTypes'
    BY <1>1, <1>2 DEF RoundTypes
  <1>6. Unique'
    BY <1>1, <1>2, <1>3 DEF Unique, Distinct
  <1>7. PartnersLeft' /\ Conserved' /\ EveryMatchTried'
    <2>1. ErrorOnItsWay => ErrorOnItsWay'
      BY <1>1 DEF ErrorOnItsWay, Elems
    <2> QED
      BY <1>1, <1>4, <2>1, Calm
  <1>8. ForwardInv'
    BY <1>1, <1>2 DEF ForwardInv, Elems
  <1>9. ConsumerInv'
    BY <1>1, <1>2 DEF ConsumerInv, ForwardInv, Elems
  <1> QED
    BY <1>5, <1>6, <1>7, <1>8, <1>9 DEF RoundInv

LEMMA ProducerCancelledKeeps ==
    ASSUME RoundInv, ProducerCancelled
    PROVE  RoundInv'
  <1>1. /\ prod = "next" /\ ~stop /\ prod' = "done"
        /\ \/ con = "ended" /\ UNCHANGED matches
           \/ con # "ended" /\ matches = <<>> /\ matches' = <<Error>>
        /\ UNCHANGED <<left, tasks, thread, found, fwd, ready, sending, con, buffer,
                       drained, complete, failed, tried, stop>>
    BY DEF ProducerCancelled, poolVars, forwardVars, consumerVars
  <1>2. /\ RoundTypes /\ Unique /\ ForwardInv /\ ConsumerInv
    BY DEF RoundInv
  <1>3. con # "ended" /\ matches = <<>> /\ matches' = <<Error>>
    BY <1>1, <1>2 DEF ConsumerInv
  <1>4. matches' \in Seq(Message) /\ Len(matches') = 1 /\ Error \in Elems(matches)'
    BY <1>3 DEF Message, Elems
  <1>5. OnePlace' /\ \A l \in Lefts : Held(l)' => Held(l)
    <2>1. OnePlace
      BY <1>2 DEF Unique, OnePlace
    <2>2. \A l \in Lefts : ~In("matches", l)'
      BY <1>3, NoWord DEF In, Elems
    <2>3. \A l \in Lefts : \A p \in Places : In(p, l)' => In(p, l)
      BY <1>1, <2>2, Unmoved DEF Places
    <2> QED
      BY <2>1, <2>3, Shrinking
  <1>6. RoundTypes'
    BY <1>1, <1>2, <1>4 DEF RoundTypes
  <1>7. Unique'
    BY <1>1, <1>2, <1>3, <1>5 DEF Unique, OnePlace, Distinct
  <1>8. PartnersLeft' /\ Conserved' /\ EveryMatchTried'
    <2>1. ErrorOnItsWay'
      BY <1>4 DEF ErrorOnItsWay
    <2> QED
      BY <1>1, <1>5, <2>1, Calm
  <1>9. ForwardInv'
    BY <1>1, <1>2, <1>4 DEF ForwardInv
  <1>10. ConsumerInv'
    BY <1>1, <1>2, <1>3, <1>4 DEF ConsumerInv
  <1> QED
    BY <1>6, <1>7, <1>8, <1>9, <1>10 DEF RoundInv

-----------------------------------------------------------------------------
(* The tasks of the pool.                                                  *)

LEMMA StartProbeKeeps ==
    ASSUME RoundInv, NEW t \in PoolThreads, StartProbe(t)
    PROVE  RoundInv'
  <1>1. PICK x \in tasks : tasks' = tasks \ {x} /\ thread' = [thread EXCEPT ![t] = x]
    BY DEF StartProbe
  <1>2. /\ thread[t] = "free"
        /\ UNCHANGED <<prod, left, found, fwd, ready, sending, matches, con, buffer,
                       drained, complete, failed, tried, stop>>
    BY DEF StartProbe, producerVars, forwardVars, consumerVars
  <1>3. /\ RoundTypes /\ Unique /\ ForwardInv /\ ConsumerInv
    BY DEF RoundInv
  <1>4. /\ x \in Lefts
        /\ thread' \in [PoolThreads -> Lefts \union {"free", "forward"}]
        /\ \A u \in PoolThreads : thread'[u] = IF u = t THEN x ELSE thread[u]
    BY <1>1, <1>3 DEF RoundTypes
  <1>5. OnePlace /\ In("tasks", x)
    BY <1>1, <1>3 DEF Unique, OnePlace, In
  <1>6. OnePlace' /\ \A l \in Lefts : Held(l)' <=> Held(l)
    <2>1. \A l \in {x} : In("tasks", l)
      BY <1>5
    <2>2. /\ \A l \in Lefts : In("tasks", l)' <=> (In("tasks", l) /\ l \notin {x})
          /\ \A l \in Lefts : In("probe", l)' <=> (In("probe", l) \/ l \in {x})
      BY <1>1, <1>2, <1>4, NoWord DEF In
    <2>3. \A l \in Lefts : \A p \in Places \ {"tasks", "probe"} : In(p, l)' <=> In(p, l)
      BY <1>2, Unmoved DEF Places
    <2>4. "tasks" \in Places /\ "probe" \in Places /\ "tasks" # "probe"
      BY DEF Places
    <2> QED
      BY <1>5, <2>1, <2>2, <2>3, <2>4, Transfer
  <1>7. RoundTypes'
    BY <1>1, <1>2, <1>3, <1>4 DEF RoundTypes
  <1>8. Unique'
    <2>1. \A u \in PoolThreads : thread[u] # x
      BY <1>4, <1>5 DEF OnePlace, In, Places
    <2>2. \A u, w \in PoolThreads : thread'[u] = thread'[w] /\ thread'[u] \in Lefts => u = w
      BY <1>3, <1>4, <2>1 DEF Unique
    <2> QED
      BY <1>2, <1>3, <1>6, <2>2 DEF Unique, OnePlace, Distinct
  <1>9. PartnersLeft' /\ Conserved' /\ EveryMatchTried'
    <2>1. ErrorOnItsWay => ErrorOnItsWay'
      BY <1>2 DEF ErrorOnItsWay, Elems
    <2> QED
      BY <1>2, <1>6, <2>1, Calm
  <1>10. ForwardInv'
    BY <1>1, <1>2, <1>3, <1>4, NoWord DEF ForwardInv, Elems
  <1>11. ConsumerInv'
    BY <1>2, <1>3 DEF ConsumerInv, Elems
  <1> QED
    BY <1>7, <1>8, <1>9, <1>10, <1>11 DEF RoundInv

\* What the end of a task means for the threads.
LEMMA Released ==
    ASSUME RoundInv, NEW t \in PoolThreads, NEW x \in Lefts, thread[t] = x,
           thread' = [thread EXCEPT ![t] = "free"]
    PROVE  /\ thread' \in [PoolThreads -> Lefts \union {"free", "forward"}]
           /\ \A u \in PoolThreads : thread'[u] = IF u = t THEN "free" ELSE thread[u]
           /\ In("probe", x)
           /\ \A l \in Lefts : In("probe", l)' <=> (In("probe", l) /\ l # x)
           /\ \A u, w \in PoolThreads : thread'[u] = thread'[w] /\ thread'[u] \in Lefts => u = w
           /\ fwd # "idle"
           /\ fwd = "joining" => con = "ended" \/ Error \in Elems(matches)
  <1>1. /\ RoundTypes /\ Unique /\ ForwardInv
    BY DEF RoundInv
  <1>2. /\ thread' \in [PoolThreads -> Lefts \union {"free", "forward"}]
        /\ \A u \in PoolThreads : thread'[u] = IF u = t THEN "free" ELSE thread[u]
    BY <1>1 DEF RoundTypes
  <1>3. In("probe", x)
    BY DEF In
  <1>4. \A u, w \in PoolThreads : thread[u] = thread[w] /\ thread[u] \in Lefts => u = w
    BY <1>1 DEF Unique
  <1>5. \A l \in Lefts : In("probe", l)' <=> (In("probe", l) /\ l # x)
    BY <1>2, <1>4, NoWord DEF In
  <1>6. \A u, w \in PoolThreads : thread'[u] = thread'[w] /\ thread'[u] \in Lefts => u = w
    BY <1>2, <1>4, NoWord
  <1>7. /\ fwd # "idle"
        /\ fwd = "joining" => con = "ended" \/ Error \in Elems(matches)
    BY <1>1, NoWord DEF ForwardInv
  <1> QED
    BY <1>2, <1>3, <1>5, <1>6, <1>7

LEMMA ProbeFindsKeeps ==
    ASSUME RoundInv, NEW t \in PoolThreads, ProbeFinds(t)
    PROVE  RoundInv'
  <1>1. /\ thread' = [thread EXCEPT ![t] = "free"]
        /\ UNCHANGED <<prod, left, tasks, fwd, ready, sending, matches, con, buffer,
                       drained, complete, failed, tried, stop>>
    BY DEF ProbeFinds, producerVars, forwardVars, consumerVars
  <1>2. PICK x \in Lefts : thread[t] = x
    BY DEF ProbeFinds
  <1>3. \/ fwd = "joining" /\ UNCHANGED found
        \/ fwd # "joining" /\ found' = Append(found, x)
    BY <1>2 DEF ProbeFinds, SendFound
  <1>4. /\ RoundTypes /\ Unique /\ ForwardInv /\ ConsumerInv /\ OnePlace
    BY DEF RoundInv, Unique, OnePlace
  <1>5. /\ thread' \in [PoolThreads -> Lefts \union {"free", "forward"}]
        /\ \A u \in PoolThreads : thread'[u] = IF u = t THEN "free" ELSE thread[u]
        /\ In("probe", x)
        /\ \A l \in Lefts : In("probe", l)' <=> (In("probe", l) /\ l # x)
        /\ \A u, w \in PoolThreads : thread'[u] = thread'[w] /\ thread'[u] \in Lefts => u = w
        /\ fwd # "idle"
        /\ fwd = "joining" => con = "ended" \/ Error \in Elems(matches)
    BY <1>1, <1>2, Released
  <1>6. PICK f : f = found
    OBVIOUS
  <1>7. PICK g : g = found'
    OBVIOUS
  <1>8. f \in Seq(Message) /\ x \in Message /\ Distinct(f) /\ x \notin Elems(f)
    BY <1>4, <1>5, <1>6 DEF RoundTypes, Message, Unique, OnePlace, Places, In
  <1>9. /\ g \in Seq(Message) /\ Distinct(g)
        /\ Elems(g) = IF fwd = "joining" THEN Elems(f) ELSE Elems(f) \union {x}
    <2>1. /\ Append(f, x) \in Seq(Message) /\ Distinct(Append(f, x))
          /\ Elems(Append(f, x)) = Elems(f) \union {x}
      BY <1>8, Appending
    <2> QED
      BY <1>3, <1>6, <1>7, <1>8, <2>1
  <1>10. /\ OnePlace' /\ \A l \in Lefts : Held(l)' => Held(l)
         /\ fwd # "joining" => \A l \in Lefts : Held(l) => Held(l)'
    <2>1. /\ \A l \in Lefts : In("found", l) <=> l \in Elems(f)
          /\ \A l \in Lefts : In("found", l)' <=> l \in Elems(g)
      BY <1>6, <1>7 DEF In, Elems
    <2>2. \A l \in Lefts : \A p \in Places \ {"probe", "found"} : In(p, l)' <=> In(p, l)
      BY <1>1, Unmoved DEF Places
    <2>3. CASE fwd = "joining"
      <3>1. \A l \in Lefts : \A p \in Places : In(p, l)' => In(p, l)
        BY <1>5, <1>9, <2>1, <2>2, <2>3 DEF Places
      <3> QED
        BY <1>4, <2>3, <3>1, Shrinking
    <2>4. CASE fwd # "joining"
      <3>1. \A l \in {x} : In("probe", l)
        BY <1>5
      <3>2. /\ \A l \in Lefts : In("probe", l)' <=> (In("probe", l) /\ l \notin {x})
            /\ \A l \in Lefts : In("found", l)' <=> (In("found", l) \/ l \in {x})
        BY <1>5, <1>9, <2>1, <2>4
      <3>3. "probe" \in Places /\ "found" \in Places /\ "probe" # "found"
        BY DEF Places
      <3>4. OnePlace' /\ \A l \in Lefts : Held(l)' <=> Held(l)
        BY <1>4, <2>2, <3>1, <3>2, <3>3, Transfer
      <3> QED
        BY <3>4
    <2> QED
      BY <2>3, <2>4
  <1>11. RoundTypes'
    BY <1>1, <1>4, <1>5, <1>7, <1>9 DEF RoundTypes
  <1>12. Unique'
    <2>1. Distinct(found)'
      BY <1>7, <1>9 DEF Distinct
    <2> QED
      BY <1>1, <1>4, <1>5, <1>10, <2>1 DEF Unique, OnePlace, Distinct
  <1>13. PartnersLeft' /\ Conserved' /\ EveryMatchTried'
    <2>1. ErrorOnItsWay => ErrorOnItsWay'
      <3>1. Elems(found) = Elems(f) /\ Elems(found)' = Elems(g) /\ UNCHANGED Elems(matches)
        BY <1>1, <1>6, <1>7 DEF Elems
      <3> QED
        BY <1>1, <1>9, <3>1 DEF ErrorOnItsWay
    <2>2. fwd = "joining" => con = "ended" \/ ErrorOnItsWay
      BY <1>5 DEF ErrorOnItsWay
    <2> QED
      BY <1>1, <1>10, <2>1, <2>2, Calm
  <1>14. ForwardInv'
    BY <1>1, <1>4, <1>5, NoWord DEF ForwardInv, Elems
  <1>15. ConsumerInv'
    BY <1>1, <1>4 DEF ConsumerInv, Elems
  <1> QED
    BY <1>11, <1>12, <1>13, <1>14, <1>15 DEF RoundInv

LEMMA ProbeFailsKeeps ==
    ASSUME RoundInv, NEW t \in PoolThreads, ProbeFails(t)
    PROVE  RoundInv'
  <1>1. /\ thread' = [thread EXCEPT ![t] = "free"]
        /\ UNCHANGED <<prod, left, tasks, fwd, ready, sending, matches, con, buffer,
                       drained, complete, failed, tried, stop>>
    BY DEF ProbeFails, producerVars, forwardVars, consumerVars
  <1>2. PICK x \in Lefts : thread[t] = x
    BY DEF ProbeFails
  <1>3. \/ fwd = "joining" /\ UNCHANGED found
        \/ fwd # "joining" /\ found' = Append(found, Error)
    BY DEF ProbeFails, SendFound
  <1>4. /\ RoundTypes /\ Unique /\ ForwardInv /\ ConsumerInv /\ OnePlace
    BY DEF RoundInv, Unique, OnePlace
  <1>5. /\ thread' \in [PoolThreads -> Lefts \union {"free", "forward"}]
        /\ \A u \in PoolThreads : thread'[u] = IF u = t THEN "free" ELSE thread[u]
        /\ \A l \in Lefts : In("probe", l)' <=> (In("probe", l) /\ l # x)
        /\ \A u, w \in PoolThreads : thread'[u] = thread'[w] /\ thread'[u] \in Lefts => u = w
        /\ fwd # "idle"
        /\ fwd = "joining" => con = "ended" \/ Error \in Elems(matches)
    BY <1>1, <1>2, Released
  <1>6. PICK f : f = found
    OBVIOUS
  <1>7. PICK g : g = found'
    OBVIOUS
  <1>8. f \in Seq(Message) /\ Error \in Message /\ Distinct(f) /\ Error \notin Lefts
    BY <1>4, <1>6, NoWord DEF RoundTypes, Message, Unique
  <1>9. /\ g \in Seq(Message) /\ Distinct(g)
        /\ Elems(g) = IF fwd = "joining" THEN Elems(f) ELSE Elems(f) \union {Error}
    <2>1. /\ Append(f, Error) \in Seq(Message) /\ Distinct(Append(f, Error))
          /\ Elems(Append(f, Error)) = Elems(f) \union {Error}
      BY <1>8, Appending
    <2> QED
      BY <1>3, <1>6, <1>7, <1>8, <2>1
  <1>10. OnePlace' /\ \A l \in Lefts : Held(l)' => Held(l)
    <2>1. /\ \A l \in Lefts : In("found", l) <=> l \in Elems(f)
          /\ \A l \in Lefts : In("found", l)' <=> l \in Elems(g)
      BY <1>6, <1>7 DEF In, Elems
    <2>2. \A l \in Lefts : In("found", l)' => In("found", l)
      BY <1>8, <1>9, <2>1
    <2>3. \A l \in Lefts : \A p \in Places : In(p, l)' => In(p, l)
      BY <1>1, <1>5, <2>2, Unmoved DEF Places
    <2> QED
      BY <1>4, <2>3, Shrinking
  <1>11. RoundTypes'
    BY <1>1, <1>4, <1>5, <1>7, <1>9 DEF RoundTypes
  <1>12. Unique'
    <2>1. Distinct(found)'
      BY <1>7, <1>9 DEF Distinct
    <2> QED
      BY <1>1, <1>4, <1>5, <1>10, <2>1 DEF Unique, OnePlace, Distinct
  <1>13. PartnersLeft' /\ Conserved' /\ EveryMatchTried'
    <2>1. Elems(found)' = Elems(g) /\ UNCHANGED Elems(matches)
      BY <1>1, <1>7 DEF Elems
    <2>2. con = "ended" \/ ErrorOnItsWay'
      BY <1>5, <1>9, <2>1 DEF ErrorOnItsWay
    <2> QED
      BY <1>1, <1>10, <2>2, Calm
  <1>14. ForwardInv'
    BY <1>1, <1>4, <1>5, NoWord DEF ForwardInv, Elems
  <1>15. ConsumerInv'
    BY <1>1, <1>4 DEF ConsumerInv, Elems
  <1> QED
    BY <1>11, <1>12, <1>13, <1>14, <1>15 DEF RoundInv

LEMMA ProbeSkipsKeeps ==
    ASSUME RoundInv, NEW t \in PoolThreads, ProbeSkips(t)
    PROVE  RoundInv'
  <1>1. /\ thread' = [thread EXCEPT ![t] = "free"] /\ (stop \/ complete)
        /\ UNCHANGED <<prod, left, tasks, found, fwd, ready, sending, matches, con, buffer,
                       drained, complete, failed, tried, stop>>
    BY DEF ProbeSkips, producerVars, forwardVars, consumerVars
  <1>2. PICK x \in Lefts : thread[t] = x
    BY DEF ProbeSkips
  <1>3. /\ RoundTypes /\ Unique /\ ForwardInv /\ ConsumerInv /\ OnePlace
    BY DEF RoundInv, Unique, OnePlace
  <1>4. /\ thread' \in [PoolThreads -> Lefts \union {"free", "forward"}]
        /\ \A u \in PoolThreads : thread'[u] = IF u = t THEN "free" ELSE thread[u]
        /\ \A l \in Lefts : In("probe", l)' <=> (In("probe", l) /\ l # x)
        /\ \A u, w \in PoolThreads : thread'[u] = thread'[w] /\ thread'[u] \in Lefts => u = w
        /\ fwd # "idle"
        /\ fwd = "joining" => con = "ended" \/ Error \in Elems(matches)
    BY <1>1, <1>2, Released
  <1>5. OnePlace' /\ \A l \in Lefts : Held(l)' => Held(l)
    <2>1. \A l \in Lefts : \A p \in Places : In(p, l)' => In(p, l)
      BY <1>1, <1>4, Unmoved DEF Places
    <2> QED
      BY <1>3, <2>1, Shrinking
  <1>6. RoundTypes'
    BY <1>1, <1>3, <1>4 DEF RoundTypes
  <1>7. Unique'
    BY <1>1, <1>3, <1>4, <1>5 DEF Unique, OnePlace, Distinct
  <1>8. PartnersLeft' /\ Conserved' /\ EveryMatchTried'
    <2>1. con = "ended" \/ complete \/ ErrorOnItsWay
      BY <1>1, <1>3 DEF ForwardInv, ErrorOnItsWay
    <2>2. con = "ended" \/ complete \/ ErrorOnItsWay'
      BY <1>1, <2>1 DEF ErrorOnItsWay, Elems
    <2> QED
      BY <1>1, <1>5, <2>2, Calm
  <1>9. ForwardInv'
    BY <1>1, <1>3, <1>4, NoWord DEF ForwardInv, Elems
  <1>10. ConsumerInv'
    BY <1>1, <1>3 DEF ConsumerInv, Elems
  <1> QED
    BY <1>6, <1>7, <1>8, <1>9, <1>10 DEF RoundInv

-----------------------------------------------------------------------------
(* The forwarder.                                                          *)

\* What leaving the loop means for the threads.
LEMMA Leaving ==
    ASSUME RoundInv, LeaveForward
    PROVE  /\ thread' \in [PoolThreads -> Lefts \union {"free", "forward"}]
           /\ \A u \in PoolThreads :
                thread'[u] = IF thread[u] = "forward" THEN "free" ELSE thread[u]
           /\ \A u \in PoolThreads : thread'[u] # "forward"
           /\ \A l \in Lefts : In("probe", l)' <=> In("probe", l)
           /\ \A u, w \in PoolThreads : thread'[u] = thread'[w] /\ thread'[u] \in Lefts => u = w
  <1>1. /\ RoundTypes /\ Unique
    BY DEF RoundInv
  <1>2. /\ thread' \in [PoolThreads -> Lefts \union {"free", "forward"}]
        /\ \A u \in PoolThreads :
                thread'[u] = IF thread[u] = "forward" THEN "free" ELSE thread[u]
    BY <1>1 DEF RoundTypes, LeaveForward
  <1>3. \A u \in PoolThreads : thread'[u] # "forward"
    BY <1>2
  <1>4. \A l \in Lefts : In("probe", l)' <=> In("probe", l)
    BY <1>2, NoWord DEF In
  <1>5. \A u, w \in PoolThreads : thread'[u] = thread'[w] /\ thread'[u] \in Lefts => u = w
    BY <1>1, <1>2, NoWord DEF Unique
  <1> QED
    BY <1>2, <1>3, <1>4, <1>5

LEMMA ForwardHeadKeeps ==
    ASSUME RoundInv, ForwardHead
    PROVE  RoundInv'
  <1>1. /\ fwd = "head"
        /\ \/ stop /\ LeaveForward
           \/ fwd' = "receive" /\ UNCHANGED thread
        /\ UNCHANGED <<prod, left, tasks, found, ready, sending, matches, con, buffer,
                       drained, complete, failed, tried, stop>>
    BY DEF ForwardHead, producerVars, consumerVars
  <1>2. /\ RoundTypes /\ Unique /\ ForwardInv /\ ConsumerInv
    BY DEF RoundInv
  <1>3. /\ thread' \in [PoolThreads -> Lefts \union {"free", "forward"}]
        /\ \A l \in Lefts : In("probe", l)' <=> In("probe", l)
        /\ \A u, w \in PoolThreads : thread'[u] = thread'[w] /\ thread'[u] \in Lefts => u = w
    BY <1>1, <1>2, Leaving, Unmoved DEF RoundTypes, Unique
  <1>4. \A l \in Lefts : \A p \in Places : In(p, l)' <=> In(p, l)
    BY <1>1, <1>3, Unmoved DEF Places
  <1>5. \A l \in Lefts : Held(l)' <=> Held(l)
    BY <1>4 DEF Held
  <1>6. fwd' \in {"receive", "joining"}
    BY <1>1 DEF LeaveForward
  <1>7. RoundTypes'
    BY <1>1, <1>2, <1>3, <1>6 DEF RoundTypes
  <1>8. Unique'
    BY <1>1, <1>2, <1>3, <1>4 DEF Unique, Distinct
  <1>9. PartnersLeft' /\ Conserved' /\ EveryMatchTried'
    <2>1. ErrorOnItsWay => ErrorOnItsWay'
      BY <1>1 DEF ErrorOnItsWay, Elems
    <2> QED
      BY <1>1, <1>5, <2>1, Calm
  <1>10. ForwardInv'
    <2>1. CASE stop /\ LeaveForward
      <3>1. /\ \A u \in PoolThreads : thread'[u] # "forward"
            /\ fwd' = "joining"
        BY <2>1, Leaving DEF LeaveForward
      <3>2. con = "ended" \/ Error \in Elems(matches)
        BY <1>2, <2>1 DEF ForwardInv
      <3> QED
        BY <1>1, <1>2, <3>1, <3>2 DEF ForwardInv, Elems
    <2>2. CASE fwd' = "receive" /\ UNCHANGED thread
      BY <1>1, <1>2, <2>2 DEF ForwardInv, Elems
    <2> QED
      BY <1>1, <2>1, <2>2
  <1>11. ConsumerInv'
    BY <1>1, <1>2 DEF ConsumerInv, Elems
  <1> QED
    BY <1>7, <1>8, <1>9, <1>10, <1>11 DEF RoundInv

\* What one receipt leaves in the channel and in the forwarder.
LEMMA Receipt ==
    ASSUME RoundInv, ForwardReceive
    PROVE  \E read \in SUBSET Message :
             /\ Elems(found) \union ready = read \union Elems(found')
             /\ read \intersect Elems(found') \intersect Lefts = {}
             /\ found' \in Seq(Message) /\ Distinct(found')
             /\ IsFiniteSet(ready') /\ Cardinality(ready') <= Capacity
             /\ sending' \in read /\ ready' = read \ {sending'}
             /\ Error \in read => sending' = Error
  <1> DEFINE room == Capacity - Cardinality(ready)
             n == IF Len(found) < room THEN Len(found) ELSE room
             first == {found[i] : i \in 1..n}
             read == ready \union first
  <1>1. /\ RoundTypes /\ Unique /\ OnePlace
    BY DEF RoundInv, Unique, OnePlace
  <1>2. /\ found \in Seq(Message) /\ ready \subseteq Lefts /\ IsFiniteSet(ready)
        /\ Cardinality(ready) <= Capacity /\ Cardinality(ready) \in Nat /\ Capacity \in Nat
    BY <1>1, FS_CardinalityType, ProbeAssumption DEF RoundTypes, Capacity
  <1>3. n \in 0..Len(found) /\ n <= room /\ Len(found) \in Nat
    BY <1>2
  <1>4. /\ found' = SubSeq(found, n + 1, Len(found))
        /\ IF Error \in read THEN ready' = read \ {Error} /\ sending' = Error
           ELSE \E l \in read : ready' = read \ {l} /\ sending' = l
    BY DEF ForwardReceive
  <1>5. sending' \in read /\ ready' = read \ {sending'} /\ (Error \in read => sending' = Error)
    BY <1>4
  <1>6. /\ found' \in Seq(Message)
        /\ Elems(found) = first \union Elems(found')
        /\ Distinct(found) =>
             /\ Distinct(found')
             /\ first \intersect Elems(found') \intersect Lefts = {}
    <2>1. PICK f \in Seq(Message) : f = found
      BY <1>2
    <2>2. PICK k \in 0..Len(f) : k = n
      BY <1>3, <2>1
    <2>3. /\ SubSeq(f, k + 1, Len(f)) \in Seq(Message)
          /\ Elems(f) = {f[i] : i \in 1..k} \union Elems(SubSeq(f, k + 1, Len(f)))
          /\ Distinct(f) =>
                /\ Distinct(SubSeq(f, k + 1, Len(f)))
                /\ {f[i] : i \in 1..k} \intersect Elems(SubSeq(f, k + 1, Len(f)))
                     \intersect Lefts = {}
      BY Dropping
    <2> QED
      BY <1>4, <2>1, <2>2, <2>3
  <1>7. IsFiniteSet(first) /\ Cardinality(first) <= n /\ Cardinality(first) \in Nat
    <2>1. IsFiniteSet(1..n) /\ Cardinality(1..n) = n
      <3>1. n \in Nat
        BY <1>3
      <3> HIDE DEF n
      <3> QED
        BY <3>1, FS_Interval
    <2> DEFINE g == [i \in 1..n |-> found[i]]
    <2>2. g \in [1..n -> first] /\ \A y \in first : \E i \in 1..n : g[i] = y
      OBVIOUS
    <2>3. g \in Surjection(1..n, first)
      BY <2>2 DEF Surjection
    <2> QED
      BY <2>1, <2>3, FS_Surjection, FS_CardinalityType
  <1>8. IsFiniteSet(read) /\ Cardinality(read) <= Capacity /\ Cardinality(read) \in Nat
    <2>1. /\ IsFiniteSet(ready \union first)
          /\ Cardinality(ready \union first) \in Nat
          /\ Cardinality(ready \union first)
              = Cardinality(ready) + Cardinality(first) - Cardinality(ready \intersect first)
          /\ Cardinality(ready \intersect first) \in Nat
      BY <1>2, <1>7, FS_Union, FS_Intersection, FS_CardinalityType
    <2> QED
      BY <1>2, <1>3, <1>7, <2>1
  <1>9. IsFiniteSet(ready') /\ Cardinality(ready') <= Capacity
    <2>1. ready' \subseteq read
      BY <1>5
    <2>2. IsFiniteSet(ready') /\ Cardinality(ready') <= Cardinality(read)
          /\ Cardinality(ready') \in Nat
      BY <1>8, <2>1, FS_Subset, FS_CardinalityType
    <2> QED
      BY <1>2, <1>8, <2>2
  <1>10. read \in SUBSET Message
    BY <1>2, <1>6 DEF Message, Elems
  <1>11. ready \intersect Elems(found') \intersect Lefts = {}
    <2>1. \A l \in Lefts : ~(In("ready", l) /\ In("found", l))
      BY <1>1 DEF OnePlace, Places
    <2>2. \A l \in Lefts : l \in Elems(found) => In("found", l)
      BY DEF In
    <2>3. \A l \in Lefts : l \in ready => In("ready", l)
      BY DEF In
    <2> QED
      BY <1>6, <2>1, <2>2, <2>3
  <1> QED
    <2>1. Distinct(found)
      BY <1>1 DEF Unique
    <2>2. /\ Elems(found) \union ready = read \union Elems(found')
          /\ read \intersect Elems(found') \intersect Lefts = {}
      BY <1>6, <1>11, <2>1
    <2> HIDE DEF read
    <2> QED
      BY <1>5, <1>6, <1>9, <1>10, <2>1, <2>2

LEMMA ForwardReceiveKeeps ==
    ASSUME RoundInv, ForwardReceive
    PROVE  RoundInv'
  <1>1. /\ fwd = "receive" /\ fwd' = "send"
        /\ UNCHANGED <<prod, left, tasks, thread, matches, con, buffer, drained, complete,
                       failed, tried, stop>>
    BY DEF ForwardReceive, producerVars, consumerVars
  <1>2. /\ RoundTypes /\ Unique /\ ForwardInv /\ ConsumerInv /\ OnePlace
    BY DEF RoundInv, Unique, OnePlace
  <1>3. PICK read \in SUBSET Message :
             /\ Elems(found) \union ready = read \union Elems(found')
             /\ read \intersect Elems(found') \intersect Lefts = {}
             /\ found' \in Seq(Message) /\ Distinct(found')
             /\ IsFiniteSet(ready') /\ Cardinality(ready') <= Capacity
             /\ sending' \in read /\ ready' = read \ {sending'}
             /\ (Error \in read => sending' = Error)
    BY Receipt
  <1>4. sending = NoLeft
    BY <1>1, <1>2 DEF ForwardInv
  <1>5. /\ \A l \in Lefts : In("found", l) \/ In("ready", l) <=> l \in read \/ In("found", l)'
        /\ \A l \in Lefts : ~(l \in read /\ In("found", l)')
        /\ \A l \in Lefts : In("sending", l)' <=> l \in read /\ l = sending'
        /\ \A l \in Lefts : In("ready", l)' <=> l \in read /\ l # sending'
        /\ \A l \in Lefts : ~In("sending", l)
    <2>1. \A l \in Lefts : /\ In("found", l) <=> l \in Elems(found)
                           /\ In("ready", l) <=> l \in ready
                           /\ In("found", l)' <=> l \in Elems(found')
                           /\ In("ready", l)' <=> l \in ready'
                           /\ In("sending", l)' <=> l = sending'
                           /\ In("sending", l) <=> l = sending
      BY DEF In, Elems
    <2> QED
      BY <1>3, <1>4, <2>1, NoWord
  <1>6. \A l \in Lefts : \A p \in Places \ {"found", "ready", "sending"} :
            In(p, l)' <=> In(p, l)
    BY <1>1, Unmoved DEF Places
  <1>7. OnePlace'
    <2> SUFFICES ASSUME NEW l \in Lefts, NEW p \in Places, NEW q \in Places,
                        In(p, l)', In(q, l)'
                 PROVE  p = q
      BY DEF OnePlace
    <2>1. \A r, s \in Places : In(r, l) /\ In(s, l) => r = s
      BY <1>2 DEF OnePlace
    <2>2. "found" \in Places /\ "ready" \in Places /\ "sending" \in Places
      BY DEF Places
    <2>3. CASE p \in {"found", "ready", "sending"} /\ q \in {"found", "ready", "sending"}
      BY <1>5, <2>3
    <2>4. CASE p \notin {"found", "ready", "sending"} /\ q \notin {"found", "ready", "sending"}
      BY <1>6, <2>1, <2>4
    <2>5. \A r \in Places : r \in {"found", "ready", "sending"} /\ In(r, l)' =>
            In("found", l) \/ In("ready", l)
      BY <1>5
    <2>6. CASE p \in {"found", "ready", "sending"} /\ q \notin {"found", "ready", "sending"}
      BY <1>6, <2>1, <2>2, <2>5, <2>6
    <2>7. CASE p \notin {"found", "ready", "sending"} /\ q \in {"found", "ready", "sending"}
      BY <1>6, <2>1, <2>2, <2>5, <2>7
    <2> QED
      BY <2>3, <2>4, <2>6, <2>7
  <1>8. \A l \in Lefts : Held(l)' <=> Held(l)
    BY <1>5, <1>6 DEF Held, Places
  <1>9. RoundTypes'
    BY <1>1, <1>2, <1>3 DEF RoundTypes, Message
  <1>10. Unique'
    <2>1. Distinct(found)'
      BY <1>3 DEF Distinct
    <2> QED
      BY <1>1, <1>2, <1>7, <2>1 DEF Unique, OnePlace, Distinct
  <1>11. PartnersLeft' /\ Conserved' /\ EveryMatchTried'
    <2>1. ErrorOnItsWay => ErrorOnItsWay'
      <3>1. UNCHANGED Elems(matches) /\ Elems(found)' = Elems(found')
        BY <1>1 DEF Elems
      <3> QED
        BY <1>1, <1>3, <3>1 DEF ErrorOnItsWay
    <2> QED
      BY <1>1, <1>8, <2>1, Calm
  <1>12. ForwardInv'
    BY <1>1, <1>2 DEF ForwardInv, Elems
  <1>13. ConsumerInv'
    BY <1>1, <1>2 DEF ConsumerInv, Elems
  <1> QED
    BY <1>9, <1>10, <1>11, <1>12, <1>13 DEF RoundInv

LEMMA ForwardEndsKeeps ==
    ASSUME RoundInv, ForwardEnds
    PROVE  RoundInv'
  <1>1. /\ fwd = "receive" /\ LeaveForward /\ fwd' = "joining"
        /\ ready = {} /\ found = <<>> /\ tasks = {} /\ Probing = {}
        /\ UNCHANGED <<prod, left, tasks, found, ready, sending, matches, con, buffer,
                       drained, complete, failed, tried, stop>>
    BY DEF ForwardEnds, LeaveForward, producerVars, consumerVars
  <1>2. /\ RoundTypes /\ Unique /\ ForwardInv /\ ConsumerInv
    BY DEF RoundInv
  <1>3. /\ thread' \in [PoolThreads -> Lefts \union {"free", "forward"}]
        /\ \A u \in PoolThreads :
                thread'[u] = IF thread[u] = "forward" THEN "free" ELSE thread[u]
        /\ \A u \in PoolThreads : thread'[u] # "forward"
        /\ \A l \in Lefts : In("probe", l)' <=> In("probe", l)
        /\ \A u, w \in PoolThreads : thread'[u] = thread'[w] /\ thread'[u] \in Lefts => u = w
    BY <1>1, Leaving
  <1>4. \A l \in Lefts : \A p \in Places : In(p, l)' <=> In(p, l)
    BY <1>1, <1>3, Unmoved DEF Places
  <1>5. \A l \in Lefts : Held(l)' <=> Held(l)
    BY <1>4 DEF Held
  <1>6. RoundTypes'
    BY <1>1, <1>2, <1>3 DEF RoundTypes
  <1>7. Unique'
    BY <1>1, <1>2, <1>3, <1>4 DEF Unique, Distinct
  <1>8. PartnersLeft' /\ Conserved' /\ EveryMatchTried'
    <2>1. ErrorOnItsWay => ErrorOnItsWay'
      BY <1>1 DEF ErrorOnItsWay, Elems
    <2> QED
      BY <1>1, <1>5, <2>1, Calm
  <1>9. ForwardInv'
    <2>1. \A u \in PoolThreads : thread'[u] = "free"
      BY <1>1, <1>3 DEF Probing
    <2> QED
      BY <1>1, <1>2, <1>3, <2>1 DEF ForwardInv, Elems
  <1>10. ConsumerInv'
    BY <1>1, <1>2 DEF ConsumerInv, Elems
  <1> QED
    BY <1>6, <1>7, <1>8, <1>9, <1>10 DEF RoundInv

LEMMA ForwardSendKeeps ==
    ASSUME RoundInv, ForwardSend
    PROVE  RoundInv'
  <1>1. /\ fwd = "send" /\ sending' = NoLeft
        /\ IF con = "ended"
           THEN stop' = TRUE /\ LeaveForward /\ UNCHANGED matches
           ELSE /\ matches = <<>> /\ matches' = <<sending>>
                /\ IF sending = Error
                   THEN stop' = TRUE /\ LeaveForward
                   ELSE fwd' = "head" /\ UNCHANGED <<stop, thread>>
        /\ UNCHANGED <<prod, left, tasks, found, ready, con, buffer, drained, complete,
                       failed, tried>>
    BY DEF ForwardSend, producerVars, consumerVars
  <1>2. /\ RoundTypes /\ Unique /\ ForwardInv /\ ConsumerInv /\ OnePlace
    BY DEF RoundInv, Unique, OnePlace
  <1>3. /\ thread' \in [PoolThreads -> Lefts \union {"free", "forward"}]
        /\ \A l \in Lefts : In("probe", l)' <=> In("probe", l)
        /\ \A u, w \in PoolThreads : thread'[u] = thread'[w] /\ thread'[u] \in Lefts => u = w
    BY <1>1, <1>2, Leaving, Unmoved DEF RoundTypes, Unique
  <1>4. \A l \in Lefts : ~In("sending", l)'
    BY <1>1, NoWord DEF In
  <1>5. \A l \in Lefts : \A p \in Places \ {"sending", "matches"} : In(p, l)' <=> In(p, l)
    BY <1>1, <1>3, Unmoved DEF Places
  <1>6. /\ fwd' \in {"head", "joining"}
        /\ fwd' = "joining" =>
            stop' = TRUE /\ \A u \in PoolThreads : thread'[u] # "forward"
        /\ stop' \in BOOLEAN
    BY <1>1, <1>2, Leaving DEF LeaveForward, RoundTypes
  <1>7. prod = "scope" /\ ~drained
    BY <1>1, <1>2 DEF ForwardInv, ConsumerInv
  <1>8. CASE con = "ended"
    <2>1. UNCHANGED matches /\ fwd' = "joining" /\ stop' = TRUE
      BY <1>1, <1>8 DEF LeaveForward
    <2>2. OnePlace' /\ \A l \in Lefts : Held(l)' => Held(l)
      <3>1. \A l \in Lefts : \A p \in Places : In(p, l)' => In(p, l)
        BY <1>4, <1>5, <2>1, Unmoved
      <3> QED
        BY <1>2, <3>1, Shrinking
    <2>3. RoundTypes'
      BY <1>1, <1>2, <1>3, <2>1 DEF RoundTypes, Message, Error
    <2>4. Unique'
      BY <1>1, <1>2, <1>3, <2>1, <2>2 DEF Unique, OnePlace, Distinct
    <2>5. PartnersLeft' /\ Conserved' /\ EveryMatchTried'
      BY <1>1, <1>8, <2>2, Calm
    <2>6. ForwardInv'
      BY <1>1, <1>2, <1>6, <1>7, <1>8, <2>1 DEF ForwardInv, Elems
    <2>7. ConsumerInv'
      BY <1>1, <1>2, <1>7, <1>8, <2>1 DEF ConsumerInv, Elems
    <2> QED
      BY <2>3, <2>4, <2>5, <2>6, <2>7 DEF RoundInv
  <1>9. CASE con # "ended"
    <2>1. matches = <<>> /\ matches' = <<sending>>
      BY <1>1, <1>9
    <2>2. PICK e \in Message : e = sending
      BY <1>2 DEF RoundTypes
    <2>3. /\ matches' \in Seq(Message) /\ Len(matches') = 1 /\ Distinct(matches)'
          /\ Elems(matches)' = {e}
      BY <2>1, <2>2, OneMessage DEF Elems, Distinct
    <2>4. /\ \A l \in Lefts : ~In("matches", l)
          /\ \A l \in Lefts : In("matches", l)' <=> l = e
          /\ \A l \in Lefts : In("sending", l) <=> l = e
      BY <2>1, <2>2, <2>3 DEF In, Elems
    <2>5. OnePlace' /\ \A l \in Lefts : Held(l)' <=> Held(l)
      <3>1. \A l \in {e} \intersect Lefts : In("sending", l)
        BY <2>4
      <3>2. /\ \A l \in Lefts : In("sending", l)' <=>
                    (In("sending", l) /\ l \notin {e} \intersect Lefts)
            /\ \A l \in Lefts : In("matches", l)' <=>
                    (In("matches", l) \/ l \in {e} \intersect Lefts)
        BY <1>4, <2>4
      <3>3. "sending" \in Places /\ "matches" \in Places /\ "sending" # "matches"
        BY DEF Places
      <3> QED
        BY <1>2, <1>5, <3>1, <3>2, <3>3, Transfer
    <2>6. RoundTypes'
      BY <1>1, <1>2, <1>3, <1>6, <2>3 DEF RoundTypes, Message, Error
    <2>7. Unique'
      BY <1>1, <1>2, <1>3, <2>3, <2>5 DEF Unique, OnePlace, Distinct
    <2>8. PartnersLeft' /\ Conserved' /\ EveryMatchTried'
      <3>1. ErrorOnItsWay => ErrorOnItsWay'
        <4>1. Elems(found)' = Elems(found) /\ Elems(matches) = {}
          BY <1>1, <2>1 DEF Elems
        <4> QED
          BY <1>1, <2>2, <2>3, <4>1 DEF ErrorOnItsWay
      <3> QED
        BY <1>1, <2>5, <3>1, Calm
    <2>9. ForwardInv'
      <3>1. CASE e = Error
        BY <1>1, <1>6, <1>7, <1>9, <2>2, <2>3, <3>1 DEF ForwardInv
      <3>2. CASE e # Error
        <4>1. fwd' = "head" /\ UNCHANGED stop
          BY <1>1, <1>9, <2>2, <3>2
        <4>2. ~stop
          BY <1>2, <1>9, <2>1 DEF ForwardInv, Elems
        <4> QED
          BY <1>1, <1>7, <4>1, <4>2 DEF ForwardInv
      <3> QED
        BY <3>1, <3>2
    <2>10. ConsumerInv'
      BY <1>1, <1>2, <1>7, <1>9 DEF ConsumerInv
    <2> QED
      BY <2>6, <2>7, <2>8, <2>9, <2>10 DEF RoundInv
  <1> QED
    BY <1>8, <1>9

-----------------------------------------------------------------------------
(* The consumer.                                                           *)

\* The search has ended in an error.
LEMMA EndedByError ==
    ASSUME RoundInv, con # "ended", ConsumerEnds, failed' = TRUE,
           UNCHANGED <<prod, left, tasks, thread, found, fwd, ready, sending, buffer,
                       drained, complete, tried>>
    PROVE  RoundInv'
  <1>1. con' = "ended" /\ stop' = TRUE /\ matches' = <<>>
    BY DEF ConsumerEnds
  <1>2. /\ RoundTypes /\ Unique /\ ForwardInv /\ ConsumerInv /\ OnePlace /\ PartnersLeft
    BY DEF RoundInv, Unique, OnePlace
  <1>3. OnePlace' /\ \A l \in Lefts : Held(l)' => Held(l)
    <2>1. \A l \in Lefts : ~In("matches", l)'
      BY <1>1 DEF In, Elems
    <2>2. \A l \in Lefts : \A p \in Places : In(p, l)' => In(p, l)
      BY <2>1, Unmoved DEF Places
    <2> QED
      BY <1>2, <2>2, Shrinking
  <1>4. RoundTypes'
    BY <1>1, <1>2 DEF RoundTypes
  <1>5. Unique'
    BY <1>1, <1>2, <1>3 DEF Unique, OnePlace, Distinct
  <1>6. PartnersLeft'
    BY <1>2, <1>3 DEF PartnersLeft
  <1>7. Conserved' /\ EveryMatchTried'
    BY <1>1 DEF Conserved, EveryMatchTried
  <1>8. ForwardInv'
    BY <1>1, <1>2 DEF ForwardInv
  <1>9. ConsumerInv'
    BY <1>1, <1>2 DEF ConsumerInv
  <1> QED
    BY <1>4, <1>5, <1>6, <1>7, <1>8, <1>9 DEF RoundInv

\* A match enters the buffer, or an error ends the search.
LEMMA TakeMatchKeeps ==
    ASSUME RoundInv, con # "ended", ~complete, NEW next \in {"try", "work"},
           TakeMatch(next),
           UNCHANGED <<prod, left, tasks, thread, found, fwd, ready, sending,
                       drained, complete, tried>>
    PROVE  RoundInv'
  <1>1. /\ RoundTypes /\ Unique /\ ForwardInv /\ ConsumerInv /\ OnePlace
    BY DEF RoundInv, Unique, OnePlace
  <1>2. CASE Head(matches) = Error
    <2>1. failed' = TRUE /\ ConsumerEnds /\ UNCHANGED buffer
      BY <1>2 DEF TakeMatch
    <2> QED
      BY <2>1, EndedByError
  <1>3. CASE Head(matches) # Error
    <2>1. PICK m \in Seq(Message) : m = matches
      BY <1>1 DEF RoundTypes
    <2>2. PICK b \in Seq(Lefts) : b = buffer
      BY <1>1 DEF RoundTypes
    <2>3. PICK c : c = buffer'
      OBVIOUS
    <2>4. /\ m # <<>> /\ buffer' = Append(b, Head(m)) /\ matches' = Tail(m) /\ con' = next
          /\ UNCHANGED <<failed, stop>> /\ Len(m) <= 1
      BY <1>1, <1>3, <2>1, <2>2 DEF TakeMatch, RoundTypes
    <2>5. /\ Head(m) \in Message /\ Tail(m) \in Seq(Message) /\ Len(Tail(m)) = Len(m) - 1
          /\ Elems(m) = {Head(m)} \union Elems(Tail(m))
          /\ Head(m) \in Lefts
      BY <1>3, <2>1, <2>4, Taking DEF Message
    <2>6. matches' = <<>> /\ Elems(m) = {Head(m)}
      <3>1. Len(m) \in Nat /\ Len(Tail(m)) = 0
        BY <2>4, <2>5
      <3>2. \A r \in Seq(Message) : Len(r) = 0 => r = <<>>
        OBVIOUS
      <3> QED
        BY <2>4, <2>5, <3>1, <3>2, EmptySequence
    <2>7. PICK x \in Lefts : x = Head(m)
      BY <2>5
    <2>8. Distinct(b) /\ x \notin Elems(b)
      <3>1. In("matches", x)
        BY <2>1, <2>6, <2>7 DEF In, Elems
      <3>2. In("buffer", x) <=> x \in Elems(b)
        BY <2>2 DEF In, Elems
      <3> QED
        BY <1>1, <2>2, <3>1, <3>2 DEF Unique, OnePlace, Places
    <2>9. c \in Seq(Lefts) /\ Distinct(c) /\ Elems(c) = Elems(b) \union {x}
      BY <2>3, <2>4, <2>7, <2>8, Appending
    <2>10. OnePlace' /\ \A l \in Lefts : Held(l)' <=> Held(l)
      <3>1. /\ \A l \in {x} : In("matches", l)
            /\ \A l \in Lefts : In("matches", l) <=> l = x
            /\ \A l \in Lefts : ~In("matches", l)'
        <4>1. \A l \in Lefts : In("matches", l) <=> l \in Elems(m)
          BY <2>1 DEF In, Elems
        <4>2. \A l \in Lefts : ~In("matches", l)'
          BY <2>6 DEF In, Elems
        <4> QED
          BY <2>6, <2>7, <4>1, <4>2
      <3>2. /\ \A l \in Lefts : In("matches", l)' <=> (In("matches", l) /\ l \notin {x})
            /\ \A l \in Lefts : In("buffer", l)' <=> (In("buffer", l) \/ l \in {x})
        <4>1. /\ \A l \in Lefts : In("buffer", l) <=> l \in Elems(b)
              /\ \A l \in Lefts : In("buffer", l)' <=> l \in Elems(c)
          BY <2>2, <2>3 DEF In, Elems
        <4> QED
          BY <2>9, <3>1, <4>1
      <3>3. \A l \in Lefts : \A p \in Places \ {"matches", "buffer"} : In(p, l)' <=> In(p, l)
        BY Unmoved DEF Places
      <3>4. "matches" \in Places /\ "buffer" \in Places /\ "matches" # "buffer"
        BY DEF Places
      <3> QED
        BY <1>1, <3>1, <3>2, <3>3, <3>4, Transfer
    <2>11. RoundTypes'
      BY <1>1, <2>3, <2>4, <2>5, <2>6, <2>9 DEF RoundTypes
    <2>12. Unique'
      <3>1. Distinct(buffer)' /\ Distinct(matches)'
        BY <2>3, <2>6, <2>9 DEF Distinct
      <3> QED
        BY <1>1, <2>10, <3>1 DEF Unique, OnePlace, Distinct
    <2>13. Error \notin Elems(matches)
      BY <2>1, <2>6, <2>7, NoWord DEF Elems
    <2>14. PartnersLeft' /\ EveryMatchTried'
      BY <2>4, <2>10 DEF RoundInv, PartnersLeft, EveryMatchTried
    <2>15. Conserved'
      <3>1. ErrorOnItsWay => ErrorOnItsWay'
        BY <2>13 DEF ErrorOnItsWay, Elems
      <3> QED
        BY <2>10, <3>1 DEF RoundInv, Conserved
    <2>16. ForwardInv'
      BY <1>1, <2>4, <2>13 DEF ForwardInv
    <2>17. ConsumerInv'
      BY <1>1, <2>4, <2>6, <2>13 DEF ConsumerInv
    <2> QED
      BY <2>11, <2>12, <2>14, <2>15, <2>16, <2>17 DEF RoundInv
  <1> QED
    BY <1>2, <1>3

\* The consumer goes on with the matches it has.
LEMMA GoesOn ==
    ASSUME RoundInv, con # "ended", ~complete, con' \in {"try", "work"},
           drained' \in BOOLEAN,
           drained' => drained \/ (matches = <<>> /\ prod = "done"),
           UNCHANGED <<prod, left, tasks, thread, found, fwd, ready, sending, matches,
                       buffer, stop, complete, failed, tried>>
    PROVE  RoundInv'
  <1>1. /\ RoundTypes /\ Unique /\ ForwardInv /\ ConsumerInv
    BY DEF RoundInv
  <1>2. \A l \in Lefts : \A p \in Places : In(p, l)' <=> In(p, l)
    BY Unmoved DEF Places
  <1>3. \A l \in Lefts : Held(l)' <=> Held(l)
    BY <1>2 DEF Held
  <1>4. RoundTypes'
    BY <1>1 DEF RoundTypes
  <1>5. Unique'
    BY <1>1, <1>2 DEF Unique, Distinct
  <1>6. PartnersLeft' /\ EveryMatchTried'
    BY <1>3 DEF RoundInv, PartnersLeft, EveryMatchTried
  <1>7. Conserved'
    <2>1. ErrorOnItsWay => ErrorOnItsWay'
      BY DEF ErrorOnItsWay, Elems
    <2> QED
      BY <1>3, <2>1 DEF RoundInv, Conserved
  <1>8. ForwardInv'
    BY <1>1 DEF ForwardInv, Elems
  <1>9. ConsumerInv'
    BY <1>1 DEF ConsumerInv, Elems
  <1> QED
    BY <1>4, <1>5, <1>6, <1>7, <1>8, <1>9 DEF RoundInv

LEMMA ConsumerReceivesKeeps ==
    ASSUME RoundInv, ConsumerReceives
    PROVE  RoundInv'
  <1>1. /\ con = "receive" /\ ~complete
        /\ UNCHANGED <<prod, left, tasks, thread, found, fwd, ready, sending, complete, tried>>
    BY DEF ConsumerReceives, producerVars, poolVars, forwardVars
  <1>2. drained \in BOOLEAN
    BY DEF RoundInv, RoundTypes
  <1>3. CASE /\ buffer # <<>> \/ drained
             /\ con' = "try"
             /\ UNCHANGED <<buffer, matches, drained, failed, stop>>
    BY <1>1, <1>2, <1>3, GoesOn
  <1>4. CASE TakeMatch("try") /\ UNCHANGED drained
    BY <1>1, <1>4, TakeMatchKeeps
  <1>5. CASE /\ matches = <<>> /\ prod = "done" /\ drained' = TRUE /\ con' = "try"
             /\ UNCHANGED <<buffer, matches, failed, stop>>
    BY <1>1, <1>5, GoesOn
  <1> QED
    BY <1>3, <1>4, <1>5 DEF ConsumerReceives

LEMMA ConsumerTriesKeeps ==
    ASSUME RoundInv, ConsumerTries
    PROVE  RoundInv'
  <1>1. /\ con = "try"
        /\ UNCHANGED <<prod, left, tasks, thread, found, fwd, ready, sending, drained,
                       complete, tried>>
    BY DEF ConsumerTries, producerVars, poolVars, forwardVars
  <1>2. drained \in BOOLEAN /\ ~complete
    BY <1>1 DEF RoundInv, RoundTypes, ConsumerInv
  <1>3. CASE TakeMatch("work")
    BY <1>1, <1>2, <1>3, TakeMatchKeeps
  <1>4. CASE con' = "work" /\ UNCHANGED <<buffer, matches, failed, stop>>
    BY <1>1, <1>2, <1>4, GoesOn
  <1> QED
    BY <1>3, <1>4 DEF ConsumerTries

LEMMA ConsumerWorksKeeps ==
    ASSUME RoundInv, ConsumerWorks
    PROVE  RoundInv'
  <1>1. /\ RoundTypes /\ Unique /\ ForwardInv /\ ConsumerInv /\ OnePlace /\ PartnersLeft
        /\ Conserved
    BY DEF RoundInv, Unique, OnePlace
  <1>2. PICK b \in Seq(Lefts) : b = buffer
    BY <1>1 DEF RoundTypes
  <1>3. PICK c : c = buffer'
    OBVIOUS
  <1>4. b # <<>> /\ con = "work" /\ con' = "receive"
        /\ UNCHANGED <<prod, left, tasks, thread, found, fwd, ready, sending, matches,
                       drained, failed, stop>>
    BY <1>2 DEF ConsumerWorks, producerVars, poolVars, forwardVars
  <1>5. /\ Head(b) \in Lefts /\ Tail(b) \in Seq(Lefts)
        /\ Elems(b) = {Head(b)} \union Elems(Tail(b))
        /\ Distinct(b) => Distinct(Tail(b)) /\ (Head(b) \in Lefts => Head(b) \notin Elems(Tail(b)))
    BY <1>4, Taking
  <1>6. PICK x \in Lefts : x = Head(b)
    BY <1>5
  <1>7. Distinct(b)
    BY <1>1, <1>2 DEF Unique
  <1>8. PICK r \in Seq(Lefts) : /\ r = Tail(b) /\ Distinct(r) /\ x \notin Elems(r)
                                /\ Elems(b) = {x} \union Elems(r)
    BY <1>5, <1>6, <1>7
  <1>9. /\ tried' = [tried EXCEPT ![x] = @ + 1] /\ complete' \in BOOLEAN
        /\ c = IF tried'[x] < Partners[x] /\ ~complete' THEN Append(r, x) ELSE r
    BY <1>2, <1>3, <1>6, <1>8 DEF ConsumerWorks
  <1>10. /\ tried \in [Lefts -> Nat] /\ tried' \in [Lefts -> Nat]
         /\ tried'[x] = tried[x] + 1
         /\ \A l \in Lefts : l # x => tried'[l] = tried[l]
    BY <1>1, <1>9 DEF RoundTypes
  <1>11. /\ c \in Seq(Lefts) /\ Distinct(c)
         /\ Elems(c) = IF tried'[x] < Partners[x] /\ ~complete' THEN Elems(b) ELSE Elems(r)
    <2>1. /\ Append(r, x) \in Seq(Lefts) /\ Distinct(Append(r, x))
          /\ Elems(Append(r, x)) = Elems(r) \union {x}
      <3>1. r \in Seq(Lefts) /\ x \in Lefts /\ Distinct(r) /\ x \notin Elems(r)
        BY <1>8
      <3> QED
        BY <3>1, Appending
    <2> QED
      BY <1>8, <1>9, <2>1
  <1>12. /\ \A l \in Lefts : In("buffer", l) <=> l \in Elems(b)
         /\ \A l \in Lefts : In("buffer", l)' <=> l \in Elems(c)
         /\ \A l \in Lefts : \A p \in Places \ {"buffer"} : In(p, l)' <=> In(p, l)
    <2>1. /\ \A l \in Lefts : In("buffer", l) <=> l \in Elems(b)
          /\ \A l \in Lefts : In("buffer", l)' <=> l \in Elems(c)
      BY <1>2, <1>3 DEF In, Elems
    <2>2. \A l \in Lefts : \A p \in Places \ {"buffer"} : In(p, l)' <=> In(p, l)
      BY <1>4, Unmoved DEF Places
    <2> QED
      BY <2>1, <2>2
  <1>13. /\ OnePlace' /\ \A l \in Lefts : Held(l)' => Held(l)
         /\ \A l \in Lefts : l # x => (Held(l) => Held(l)')
         /\ Held(x) /\ \A p \in Places : In(p, x) => p = "buffer"
    <2>1. \A l \in Lefts : \A p \in Places : In(p, l)' => In(p, l)
      BY <1>8, <1>11, <1>12
    <2>2. OnePlace' /\ \A l \in Lefts : Held(l)' => Held(l)
      BY <1>1, <2>1, Shrinking
    <2>3. "buffer" \in Places /\ In("buffer", x)
      BY <1>8, <1>12 DEF Places
    <2>4. \A l \in Lefts : l # x => \A p \in Places : In(p, l) => In(p, l)'
      BY <1>8, <1>11, <1>12
    <2> QED
      BY <1>1, <2>2, <2>3, <2>4 DEF Held, OnePlace
  <1>14. tried[x] < Partners[x] /\ Partners[x] \in Nat
    BY <1>1, <1>13, ProbeAssumption DEF PartnersLeft
  <1>15. IF tried'[x] < Partners[x] /\ ~complete' THEN Held(x)' ELSE ~Held(x)'
    <2>1. CASE tried'[x] < Partners[x] /\ ~complete'
      <3>1. In("buffer", x)'
        BY <1>8, <1>11, <1>12, <2>1
      <3> QED
        BY <2>1, <3>1 DEF Held, Places
    <2>2. CASE ~(tried'[x] < Partners[x] /\ ~complete')
      <3>1. ~In("buffer", x)'
        BY <1>8, <1>11, <1>12, <2>2
      <3>2. \A p \in Places : ~In(p, x)'
        BY <1>12, <1>13, <3>1
      <3> QED
        BY <2>2, <3>2 DEF Held
    <2> QED
      BY <2>1, <2>2
  <1>16. RoundTypes'
    BY <1>1, <1>3, <1>4, <1>9, <1>10, <1>11 DEF RoundTypes
  <1>17. Unique'
    <2>1. Distinct(buffer)'
      BY <1>3, <1>11 DEF Distinct
    <2> QED
      BY <1>1, <1>4, <1>13, <2>1 DEF Unique, OnePlace, Distinct
  <1>18. PartnersLeft'
    <2> SUFFICES ASSUME NEW l \in Lefts
                 PROVE  tried'[l] <= Partners[l] /\ (Held(l)' => tried'[l] < Partners[l])
      BY DEF PartnersLeft
    <2>1. CASE l = x
      BY <1>10, <1>14, <1>15, <2>1
    <2>2. CASE l # x
      BY <1>1, <1>10, <1>13, <2>2 DEF PartnersLeft
    <2> QED
      BY <2>1, <2>2
  <1>19. Conserved'
    <2>1. UNCHANGED ErrorOnItsWay
      BY <1>4 DEF ErrorOnItsWay, Elems
    <2>2. con # "ended" /\ ~complete
      BY <1>1, <1>4 DEF ConsumerInv
    <2>3. ASSUME ~complete', ~ErrorOnItsWay', NEW l \in Lefts
          PROVE  tried'[l] = Partners[l] \/ Held(l)'
      <3>1. CASE l = x
        BY <1>10, <1>14, <1>15, <2>3, <3>1
      <3>2. CASE l # x
        <4>1. tried[l] = Partners[l] \/ Held(l)
          BY <1>1, <2>1, <2>2, <2>3 DEF Conserved
        <4> QED
          BY <1>10, <1>13, <3>2, <4>1
      <3> QED
        BY <3>1, <3>2
    <2> QED
      BY <2>3 DEF Conserved
  <1>20. EveryMatchTried'
    BY <1>4 DEF EveryMatchTried
  <1>21. ForwardInv'
    BY <1>1, <1>4 DEF ForwardInv, Elems
  <1>22. ConsumerInv'
    BY <1>1, <1>4 DEF ConsumerInv, Elems
  <1> QED
    BY <1>16, <1>17, <1>18, <1>19, <1>20, <1>21, <1>22 DEF RoundInv

LEMMA ConsumerFailsKeeps ==
    ASSUME RoundInv, ConsumerFails
    PROVE  RoundInv'
  BY EndedByError DEF ConsumerFails, producerVars, poolVars, forwardVars

LEMMA ConsumerLeavesKeeps ==
    ASSUME RoundInv, ConsumerLeaves
    PROVE  RoundInv'
  <1>1. /\ \/ con = "receive" /\ complete
           \/ con = "work" /\ buffer = <<>> /\ drained
        /\ con' = "ended" /\ stop' = TRUE /\ matches' = <<>>
        /\ UNCHANGED <<prod, left, tasks, thread, found, fwd, ready, sending, buffer,
                       drained, complete, failed, tried>>
    BY DEF ConsumerLeaves, ConsumerEnds, producerVars, poolVars, forwardVars
  <1>2. /\ RoundTypes /\ Unique /\ ForwardInv /\ ConsumerInv /\ OnePlace /\ PartnersLeft
        /\ Conserved
    BY DEF RoundInv, Unique, OnePlace
  <1>3. OnePlace' /\ \A l \in Lefts : Held(l)' => Held(l)
    <2>1. \A l \in Lefts : ~In("matches", l)'
      BY <1>1 DEF In, Elems
    <2>2. \A l \in Lefts : \A p \in Places : In(p, l)' => In(p, l)
      BY <1>1, <2>1, Unmoved DEF Places
    <2> QED
      BY <1>2, <2>2, Shrinking
  <1>4. RoundTypes'
    BY <1>1, <1>2 DEF RoundTypes
  <1>5. Unique'
    BY <1>1, <1>2, <1>3 DEF Unique, OnePlace, Distinct
  <1>6. PartnersLeft'
    BY <1>1, <1>2, <1>3 DEF PartnersLeft
  <1>7. Conserved'
    BY <1>1 DEF Conserved
  <1>8. EveryMatchTried'
    <2>1. CASE con = "work" /\ buffer = <<>> /\ drained
      <3>1. /\ matches = <<>> /\ prod = "done" /\ fwd = "idle" /\ ~complete
            /\ tasks = {} /\ found = <<>> /\ ready = {} /\ sending = NoLeft
            /\ \A t \in PoolThreads : thread[t] = "free"
        BY <1>2, <2>1 DEF ConsumerInv, ForwardInv
      <3>2. left = {}
        BY <1>2, <2>1, <3>1 DEF ConsumerInv, Elems
      <3>3. \A l \in Lefts : \A p \in Places : ~In(p, l)
        BY <2>1, <3>1, <3>2, NoWord DEF In, Elems
      <3>4. \A l \in Lefts : ~Held(l)
        BY <3>3 DEF Held
      <3>5. ~ErrorOnItsWay
        BY <3>1 DEF ErrorOnItsWay, Elems
      <3>6. \A l \in Lefts : tried[l] = Partners[l]
        BY <1>2, <2>1, <3>1, <3>4, <3>5 DEF Conserved
      <3>7. tried \in [Lefts -> Nat] /\ Partners \in [Lefts -> Nat \ {0}]
        BY <1>2, ProbeAssumption DEF RoundTypes
      <3>8. tried = Partners
        BY <3>6, <3>7
      <3> QED
        BY <1>1, <3>8 DEF EveryMatchTried
    <2>2. CASE complete
      BY <1>1, <2>2 DEF EveryMatchTried
    <2> QED
      BY <1>1, <2>1, <2>2
  <1>9. ForwardInv'
    BY <1>1, <1>2 DEF ForwardInv
  <1>10. ConsumerInv'
    BY <1>1, <1>2 DEF ConsumerInv
  <1> QED
    BY <1>4, <1>5, <1>6, <1>7, <1>8, <1>9, <1>10 DEF RoundInv

-----------------------------------------------------------------------------
LEMMA RoundBegins ==
    ProbeInit => RoundInv
  <1> SUFFICES ASSUME ProbeInit PROVE RoundInv
    OBVIOUS
  <1>1. IsFiniteSet({}) /\ Cardinality({}) = 0 /\ Capacity \in Nat
    BY FS_EmptySet, ProbeAssumption DEF Capacity
  <1>2. RoundTypes
    <2>1. <<>> \in Seq(Message) /\ <<>> \in Seq(Lefts) /\ Len(<<>>) = 0
      OBVIOUS
    <2>2. {} \subseteq Lefts /\ NoLeft \in Message
      BY DEF Message, Error
    <2>3. thread \in [PoolThreads -> Lefts \union {"free", "forward"}] /\ tried \in [Lefts -> Nat]
      BY DEF ProbeInit
    <2>4. /\ found \in Seq(Message) /\ matches \in Seq(Message) /\ Len(matches) <= 1
          /\ buffer \in Seq(Lefts)
      BY <2>1 DEF ProbeInit
    <2>5. ready \subseteq Lefts /\ IsFiniteSet(ready) /\ Cardinality(ready) <= Capacity
      BY <1>1 DEF ProbeInit
    <2> QED
      BY <2>2, <2>3, <2>4, <2>5 DEF ProbeInit, RoundTypes
  <1>3. \A l \in Lefts : \A p \in Places : In(p, l) <=> p = "left"
    BY NoWord DEF ProbeInit, In, Places, Elems
  <1>4. Unique
    BY <1>3, NoWord DEF ProbeInit, Unique, Distinct
  <1>5. \A l \in Lefts : Held(l) /\ tried[l] = 0
    BY <1>3 DEF Held, Places, ProbeInit
  <1>6. PartnersLeft /\ Conserved
    BY <1>5, ProbeAssumption DEF PartnersLeft, Conserved
  <1>7. ForwardInv /\ ConsumerInv /\ EveryMatchTried
    BY DEF ProbeInit, ForwardInv, ConsumerInv, EveryMatchTried
  <1> QED
    BY <1>2, <1>4, <1>6, <1>7 DEF RoundInv

LEMMA RoundStep ==
    RoundInv /\ [ProbeNext]_probeVars => RoundInv'
  <1> SUFFICES ASSUME RoundInv, [ProbeNext]_probeVars PROVE RoundInv'
    OBVIOUS
  <1>1. CASE ProducerStep
    BY <1>1, NextBatchKeeps, ScopeEndsKeeps, ProducerEndsKeeps, ProducerCancelledKeeps
       DEF ProducerStep
  <1>2. ASSUME NEW t \in PoolThreads, PoolStep(t) PROVE RoundInv'
    BY <1>2, StartProbeKeeps, ProbeFindsKeeps, ProbeFailsKeeps, ProbeSkipsKeeps DEF PoolStep
  <1>3. CASE ForwardStep
    BY <1>3, ForwardHeadKeeps, ForwardReceiveKeeps, ForwardEndsKeeps, ForwardSendKeeps
       DEF ForwardStep
  <1>4. CASE ConsumerStep
    BY <1>4, ConsumerReceivesKeeps, ConsumerTriesKeeps, ConsumerWorksKeeps,
       ConsumerFailsKeeps, ConsumerLeavesKeeps DEF ConsumerStep
  <1>5. CASE UNCHANGED probeVars
    <2>1. UNCHANGED <<prod, left, tasks, thread, found, fwd, ready, sending, matches, con,
                      buffer, drained, complete, failed, tried, stop>>
      BY <1>5 DEF probeVars, producerVars, poolVars, forwardVars, consumerVars
    <2>2. /\ RoundTypes /\ Unique /\ ForwardInv /\ ConsumerInv
      BY DEF RoundInv
    <2>3. \A l \in Lefts : \A p \in Places : In(p, l)' <=> In(p, l)
      BY <2>1, Unmoved DEF Places
    <2>4. \A l \in Lefts : Held(l)' <=> Held(l)
      BY <2>3 DEF Held
    <2>5. ErrorOnItsWay => ErrorOnItsWay'
      BY <2>1 DEF ErrorOnItsWay, Elems
    <2>6. PartnersLeft' /\ Conserved' /\ EveryMatchTried'
      BY <2>1, <2>4, <2>5, Calm
    <2>7. RoundTypes' /\ ConsumerInv'
      BY <2>1, <2>2 DEF RoundTypes, ConsumerInv, Elems
    <2>8. Unique'
      BY <2>1, <2>2, <2>3 DEF Unique, Distinct
    <2>9. ForwardInv'
      BY <2>1, <2>2 DEF ForwardInv, Elems
    <2> QED
      BY <2>6, <2>7, <2>8, <2>9 DEF RoundInv
  <1> QED
    BY <1>1, <1>2, <1>3, <1>4, <1>5 DEF ProbeNext

\* A round of the sample search that ends without an error and short of its
\* targets has tried every partner of every match, however its producer, its
\* tasks, its forwarder and its consumer interleave.
THEOREM RoundTriesEveryMatch == ProbeSpec => []EveryMatchTried
  <1>1. RoundInv => EveryMatchTried
    BY DEF RoundInv
  <1> QED
    BY <1>1, RoundBegins, RoundStep, PTL DEF ProbeSpec
=============================================================================
