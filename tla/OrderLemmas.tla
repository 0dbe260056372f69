----------------------------- MODULE OrderLemmas -----------------------------
(***************************************************************************)
(* Facts about the least and the greatest element of a set of numbers,     *)
(* about counting, about what enters and leaves a queue, and about sums,   *)
(* that the proofs of the components cite.  The library's induction        *)
(* theorems take an operator, which the provers cannot instantiate; the    *)
(* two here take a set, which they can.                                    *)
(***************************************************************************)
EXTENDS FiniteSetsExt, FiniteSetTheorems, SequenceTheorems, TLAPS

\* A set of natural numbers that is not empty has a least element, and Min
\* is it: the head at which expiry stops, the oldest chain a name fits.
LEMMA MinOf ==
    ASSUME NEW S \in SUBSET Nat, S # {}
    PROVE  Min(S) \in S /\ \A y \in S : Min(S) <= y
<1>1. PICK x \in S : \A y \in S : <<y, x>> \notin OpToRel(<, Nat)
  BY NatLessThanWellFounded, WFMin
<1>2. \A y \in S : ~(y < x)
  BY <1>1 DEF OpToRel
<1>3. \A y \in S : x <= y
  BY <1>2
<1>4. QED
  BY <1>3 DEF Min

\* A set of numbers with a bound that is not empty has a greatest element,
\* and Max is it: the newest chain that may claim an echo, the knee.
LEMMA MaxOf ==
    ASSUME NEW n \in Nat, NEW S \in SUBSET (0 .. n), S # {}
    PROVE  Max(S) \in S /\ \A y \in S : Max(S) >= y
<1> DEFINE T == {n - y : y \in S}
<1>1. \A y \in S : y \in Nat /\ n - y \in Nat
  OBVIOUS
<1>2. T \in SUBSET Nat /\ T # {}
  BY <1>1
<1>3. Min(T) \in T /\ \A z \in T : Min(T) <= z
  <2> HIDE DEF T
  <2> QED
    BY <1>2, MinOf
<1>4. PICK x \in S : Min(T) = n - x
  BY <1>3
<1>5. \A y \in S : n - x <= n - y
  BY <1>3, <1>4
<1>6. \A y \in S : x >= y
  BY <1>1, <1>5
<1>7. QED
  BY <1>6 DEF Max

\* The larger and the smaller of two numbers: the caps on ages, echoes and
\* lateness.
LEMMA MinOfTwo ==
    ASSUME NEW a \in Nat, NEW b \in Nat
    PROVE  /\ Min({a, b}) = IF a <= b THEN a ELSE b
           /\ Max({a, b}) = IF a <= b THEN b ELSE a
<1>1. Min({a, b}) \in {a, b} /\ \A y \in {a, b} : Min({a, b}) <= y
  BY MinOf
<1>2. Max({a, b}) \in {a, b} /\ \A y \in {a, b} : Max({a, b}) >= y
  <2>1. CASE a <= b
    <3>1. {a, b} \in SUBSET (0 .. b)
      BY <2>1
    <3>2. QED
      BY <3>1, MaxOf
  <2>2. CASE b <= a
    <3>1. {a, b} \in SUBSET (0 .. a)
      BY <2>2
    <3>2. QED
      BY <3>1, MaxOf
  <2>3. QED
    BY <2>1, <2>2
<1>3. QED
  BY <1>1, <1>2

\* Two finite sets that share nothing are counted apart.
LEMMA CountApart ==
    ASSUME NEW S, NEW T, IsFiniteSet(S), IsFiniteSet(T), S \cap T = {}
    PROVE  /\ IsFiniteSet(S \cup T)
           /\ Cardinality(S \cup T) = Cardinality(S) + Cardinality(T)
           /\ Cardinality(S) \in Nat /\ Cardinality(T) \in Nat
<1>1. Cardinality(S) \in Nat /\ Cardinality(T) \in Nat
  BY FS_CardinalityType
<1>2. Cardinality(S \cap T) = 0
  BY FS_EmptySet
<1>3. /\ IsFiniteSet(S \cup T)
      /\ Cardinality(S \cup T)
           = Cardinality(S) + Cardinality(T) - Cardinality(S \cap T)
  BY FS_Union
<1>4. QED
  BY <1>1, <1>2, <1>3

\* In a set of positions each has a rank of its own, and every rank is
\* somebody's: the n-th entry that a cap leaves is one of them.
LEMMA Ranks ==
    ASSUME NEW n \in Nat, NEW S \in SUBSET (1 .. n)
    PROVE  /\ IsFiniteSet(S) /\ Cardinality(S) \in Nat
           /\ \A i, j \in S : i < j =>
                Cardinality({k \in S : k < i}) < Cardinality({k \in S : k < j})
           /\ \A i \in S : Cardinality({k \in S : k < i}) \in 0 .. Cardinality(S) - 1
           /\ \A m \in 1 .. Cardinality(S) :
                \E i \in S : Cardinality({k \in S : k < i}) = m - 1
<1> DEFINE Below(i) == {k \in S : k < i}
           c == Cardinality(S)
<1>1. IsFiniteSet(S) /\ c \in Nat
  <2>1. IsFiniteSet(1 .. n)
    BY FS_Interval
  <2>2. IsFiniteSet(S)
    BY <2>1, FS_Subset
  <2>3. QED
    BY <2>2, FS_CardinalityType
<1>2. \A i \in S : IsFiniteSet(Below(i)) /\ Cardinality(Below(i)) \in Nat
  BY <1>1, FS_Subset, FS_CardinalityType
<1>3. ASSUME NEW i \in S, NEW j \in S, i < j
      PROVE  Cardinality(Below(i)) < Cardinality(Below(j))
  <2>1. /\ i \notin Below(i) /\ Below(i) \cup {i} \in SUBSET Below(j)
    <3>1. \A k \in S : k \in Int
      OBVIOUS
    <3>2. ~(i < i) /\ \A k \in S : k < i => k < j
      BY <1>3, <3>1
    <3>3. QED
      BY <1>3, <3>2
  <2>2. Cardinality(Below(i) \cup {i}) = Cardinality(Below(i)) + 1
    BY <1>2, <2>1, FS_AddElement
  <2>3. Cardinality(Below(i) \cup {i}) <= Cardinality(Below(j))
    BY <1>2, <2>1, FS_Subset
  <2>4. QED
    <3> HIDE DEF Below
    <3> QED
      BY <1>2, <2>2, <2>3
<1>4. ASSUME NEW i \in S PROVE Cardinality(Below(i)) \in 0 .. c - 1
  <2>1. Below(i) \in SUBSET (S \ {i})
    OBVIOUS
  <2>2. IsFiniteSet(S \ {i}) /\ Cardinality(S \ {i}) = c - 1
    BY <1>1, FS_RemoveElement
  <2>3. Cardinality(Below(i)) <= Cardinality(S \ {i})
    BY <2>1, <2>2, FS_Subset
  <2>4. QED
    <3> HIDE DEF Below, c
    <3> QED
      BY <1>1, <1>2, <2>2, <2>3
<1>5. \A m \in 1 .. c : \E i \in S : Cardinality(Below(i)) = m - 1
  <2> DEFINE T == 0 .. c - 1
             rank == [i \in S |-> Cardinality(Below(i))]
  <2>1. rank \in Injection(S, T)
    <3>1. rank \in [S -> T]
      BY <1>4
    <3>2. ASSUME NEW i \in S, NEW j \in S, rank[i] = rank[j] PROVE i = j
      <4>1. i \in 1 .. n /\ j \in 1 .. n
        OBVIOUS
      <4>2. ~(Cardinality(Below(i)) < Cardinality(Below(j)))
            /\ ~(Cardinality(Below(j)) < Cardinality(Below(i)))
        <5>1. Cardinality(Below(i)) = Cardinality(Below(j))
          BY <3>2
        <5> HIDE DEF Below
        <5>2. QED
          BY <1>2, <5>1
      <4>3. ~(i < j) /\ ~(j < i)
        BY <1>3, <4>2
      <4>4. QED
        BY <4>1, <4>3
    <3>3. QED
      BY <3>1, <3>2 DEF Injection, IsInjective
  <2>2. IsFiniteSet(T) /\ Cardinality(T) = c
    BY <1>1, FS_Interval
  <2>3. rank \in Surjection(S, T)
    BY <2>1, <2>2, FS_Injection
  <2>4. ASSUME NEW m \in 1 .. c PROVE \E i \in S : rank[i] = m - 1
    <3>1. m - 1 \in T
      BY <1>1
    <3>2. QED
      BY <2>3, <3>1 DEF Surjection
  <2>5. QED
    BY <2>4
<1>6. QED
  BY <1>1, <1>3, <1>4, <1>5

\* A set has at most one element when any two of its elements are equal: the
\* scans in progress.
LEMMA AtMostOne ==
    ASSUME NEW S
    PROVE  /\ (\A x, y \in S : x = y) => IsFiniteSet(S) /\ Cardinality(S) <= 1
           /\ IsFiniteSet(S) /\ Cardinality(S) <= 1 => \A x, y \in S : x = y
<1>1. ASSUME \A x, y \in S : x = y PROVE IsFiniteSet(S) /\ Cardinality(S) <= 1
  <2>1. CASE S = {}
    BY <2>1, FS_EmptySet
  <2>2. CASE S # {}
    <3>1. PICK x \in S : S = {x}
      BY <1>1, <2>2
    <3>2. IsFiniteSet({x}) /\ Cardinality({x}) = 1
      BY FS_Singleton
    <3>3. QED
      BY <3>1, <3>2
  <2>3. QED
    BY <2>1, <2>2
<1>2. ASSUME IsFiniteSet(S), Cardinality(S) <= 1, NEW x \in S, NEW y \in S
      PROVE  x = y
  <2>1. IsFiniteSet(S \ {x}) /\ Cardinality(S \ {x}) = Cardinality(S) - 1
    BY <1>2, FS_RemoveElement
  <2>2. Cardinality(S) \in Nat /\ Cardinality(S \ {x}) \in Nat
    BY <1>2, <2>1, FS_CardinalityType
  <2>3. Cardinality(S \ {x}) = 0
    BY <1>2, <2>1, <2>2
  <2>4. S \ {x} = {}
    BY <2>1, <2>3, FS_EmptySet
  <2>5. QED
    BY <1>2, <2>4
<1>3. QED
  BY <1>1, <1>2


\* What is sent at the end of a queue that has no duplicates, and does not
\* have it, leaves it without: a request to the tile.
LEMMA OneSent ==
    ASSUME NEW S, NEW q \in Seq(S), IsInjective(q), NEW x \in S, x \notin Range(q)
    PROVE  /\ Append(q, x) \in Seq(S) /\ IsInjective(Append(q, x))
           /\ Range(Append(q, x)) = Range(q) \cup {x}
<1>1. /\ Append(q, x) \in Seq(S) /\ Len(q) \in Nat /\ DOMAIN q = 1 .. Len(q)
      /\ Len(Append(q, x)) = Len(q) + 1
      /\ \A i \in 1 .. Len(q) : Append(q, x)[i] = q[i]
      /\ Append(q, x)[Len(q) + 1] = x
  BY AppendProperties, LenProperties
<1>2. DOMAIN Append(q, x) = 1 .. Len(q) + 1
  BY <1>1, LenProperties
<1> DEFINE after == Append(q, x)
<1>3. /\ after \in Seq(S) /\ Len(q) \in Nat /\ DOMAIN q = 1 .. Len(q)
      /\ DOMAIN after = 1 .. Len(q) + 1
      /\ \A i \in 1 .. Len(q) : after[i] = q[i]
      /\ after[Len(q) + 1] = x
  BY <1>1, <1>2
<1> HIDE DEF after
<1>4. IsInjective(after)
  BY <1>3 DEF IsInjective, Range
<1>5. Range(after) = Range(q) \cup {x}
  BY <1>3 DEF Range
<1>6. QED
  BY <1>3, <1>4, <1>5 DEF after


\* What is taken from the front of a queue that has no duplicates is in it no
\* more.
LEMMA OneTaken ==
    ASSUME NEW S, NEW q \in Seq(S), IsInjective(q), q # << >>
    PROVE  /\ Head(q) \in S /\ Head(q) \in Range(q)
           /\ Tail(q) \in Seq(S) /\ IsInjective(Tail(q))
           /\ Range(Tail(q)) = Range(q) \ {Head(q)}
<1>1. /\ Len(q) \in Nat \ {0} /\ DOMAIN q = 1 .. Len(q) /\ Head(q) = q[1]
      /\ Tail(q) \in Seq(S) /\ Len(Tail(q)) = Len(q) - 1
      /\ \A i \in 1 .. Len(q) - 1 : Tail(q)[i] = q[i + 1]
      /\ Head(q) \in S
  BY EmptySeq, LenProperties, HeadTailProperties
<1>2. DOMAIN Tail(q) = 1 .. Len(q) - 1
  BY <1>1, LenProperties
<1> DEFINE after == Tail(q)
           first == Head(q)
           n == Len(q)
<1>3. /\ n \in Nat \ {0} /\ DOMAIN q = 1 .. n /\ first = q[1]
      /\ after \in Seq(S) /\ DOMAIN after = 1 .. n - 1
      /\ \A i \in 1 .. n - 1 : after[i] = q[i + 1]
      /\ first \in S
  BY <1>1, <1>2
<1> HIDE DEF after, first, n
<1>4. IsInjective(after)
  <2>1. ASSUME NEW i \in 1 .. n - 1, NEW j \in 1 .. n - 1, after[i] = after[j]
        PROVE  i = j
    <3>1. i + 1 \in 1 .. n /\ j + 1 \in 1 .. n /\ q[i + 1] = q[j + 1]
      BY <1>3, <2>1
    <3>2. i + 1 = j + 1
      BY <1>3, <3>1 DEF IsInjective
    <3>3. QED
      BY <3>2
  <2>2. QED
    BY <1>3, <2>1 DEF IsInjective
<1>5. first \in Range(q)
  BY <1>3 DEF Range
<1>6. Range(after) = Range(q) \ {first}
  <2>1. ASSUME NEW i \in 1 .. n - 1 PROVE after[i] \in Range(q) \ {first}
    <3>1. i + 1 \in 1 .. n /\ 1 \in 1 .. n /\ i + 1 # 1
      BY <1>3
    <3>2. QED
      BY <1>3, <3>1 DEF IsInjective, Range
  <2>2. ASSUME NEW y \in Range(q), y # first PROVE y \in Range(after)
    <3>1. PICK j \in 1 .. n : q[j] = y
      BY <1>3 DEF Range
    <3>2. j # 1
      BY <1>3, <2>2, <3>1
    <3>3. j - 1 \in 1 .. n - 1 /\ after[j - 1] = q[j]
      BY <1>3, <3>1, <3>2
    <3>4. QED
      BY <1>3, <3>1, <3>3 DEF Range
  <2>3. Range(after) \subseteq Range(q) \ {first}
    <3>1. Range(after) = {after[i] : i \in 1 .. n - 1}
      BY <1>3 DEF Range
    <3>2. QED
      BY <2>1, <3>1
  <2>4. QED
    BY <2>2, <2>3
<1>7. QED
  BY <1>3, <1>4, <1>5, <1>6 DEF after, first

-----------------------------------------------------------------------------
(* Induction, and sums over finite sets *)

\* A set that has 0 and with every number the next has them all: one that
\* lacked some would have no least one that it lacks.
LEMMA SetInduction ==
    ASSUME NEW S, 0 \in S, \A n \in Nat : n \in S => n + 1 \in S
    PROVE  Nat \subseteq S
<1> DEFINE U == Nat \ S
<1> SUFFICES ASSUME U # {} PROVE FALSE
  OBVIOUS
<1>1. U \in SUBSET Nat
  OBVIOUS
<1>2. Min(U) \in U /\ \A y \in U : Min(U) <= y
  <2> HIDE DEF U
  <2> QED BY <1>1, MinOf
<1>3. PICK m \in U : \A y \in U : m <= y
  BY <1>2
<1>4. m - 1 \in Nat /\ m - 1 \notin S
  BY <1>3
<1>5. QED
  BY <1>3, <1>4

\* What the empty set has, and every set with one element more keeps, every
\* finite set has.
LEMMA FiniteInduction ==
    ASSUME NEW S, IsFiniteSet(S), NEW P, {} \in P,
           \A T \in SUBSET S : \A x \in S \ T : T \in P => T \cup {x} \in P
    PROVE  S \in P
<1> DEFINE N == {n \in Nat : \A T \in SUBSET S : Cardinality(T) = n => T \in P}
<1>1. \A T \in SUBSET S : IsFiniteSet(T) /\ Cardinality(T) \in Nat
  BY FS_Subset, FS_CardinalityType
<1>2. 0 \in N
  BY <1>1, FS_EmptySet
<1>3. ASSUME NEW n \in Nat, n \in N
      PROVE  n + 1 \in N
  <2>1. SUFFICES ASSUME NEW T \in SUBSET S, Cardinality(T) = n + 1
                 PROVE  T \in P
    OBVIOUS
  <2>2. PICK x : x \in T
    BY <1>1, <2>1, FS_EmptySet
  <2>3. Cardinality(T \ {x}) = n /\ T \ {x} \in SUBSET S
    <3>1. IsFiniteSet(T)
      BY <1>1
    <3>2. Cardinality(T \ {x}) = Cardinality(T) - 1
      BY <2>2, <3>1, FS_RemoveElement
    <3>3. QED
      BY <2>1, <3>2
  <2>4. T \ {x} \in P
    BY <1>3, <2>3
  <2>5. x \in S \ (T \ {x}) /\ (T \ {x}) \cup {x} = T
    BY <2>2
  <2>6. QED
    BY <2>3, <2>4, <2>5
<1>4. Nat \subseteq N
  <2> HIDE DEF N
  <2> QED BY <1>2, <1>3, SetInduction
<1>5. QED
  BY <1>1, <1>4

\* The element a sum takes next, and the equation it is computed by
\* (FoldFunctionOnSet of the Functions module).
Picked(s) == CHOOSE x \in s : TRUE
Summing(f, S, g) ==
    g = [s \in SUBSET S |-> IF s = {} THEN 0 ELSE f[Picked(s)] + g[s \ {Picked(s)}]]

\* The equation has a solution for every finite set of indices, by induction
\* over the sizes of its subsets.
LEMMA SumExists ==
    ASSUME NEW S, IsFiniteSet(S), NEW f
    PROVE  \E g : Summing(f, S, g)
<1> DEFINE Up(n) == {s \in SUBSET S : Cardinality(s) <= n}
           Part(g, n) == g = [s \in Up(n) |->
                                IF s = {} THEN 0 ELSE f[Picked(s)] + g[s \ {Picked(s)}]]
           N == {n \in Nat : \E g : Part(g, n)}
<1>1. \A s \in SUBSET S : IsFiniteSet(s) /\ Cardinality(s) \in 0 .. Cardinality(S)
  BY FS_Subset, FS_CardinalityType
<1>2. \A s \in SUBSET S : s # {} => /\ Picked(s) \in s /\ s \ {Picked(s)} \in SUBSET S
                                    /\ Cardinality(s \ {Picked(s)}) = Cardinality(s) - 1
  BY <1>1, FS_RemoveElement DEF Picked
<1>3. 0 \in N
  <2>1. \A s \in Up(0) : s = {}
    BY <1>1, FS_EmptySet
  <2>2. Part([s \in Up(0) |-> 0], 0)
    BY <2>1
  <2>3. QED
    BY <2>2
<1>4. ASSUME NEW n \in Nat, n \in N
      PROVE  n + 1 \in N
  <2>1. PICK g : Part(g, n)
    BY <1>4
  <2>2. PICK h : h = [s \in Up(n + 1) |->
                        IF s = {} THEN 0 ELSE f[Picked(s)] + g[s \ {Picked(s)}]]
    OBVIOUS
  <2>3. \A s \in Up(n) : s \in Up(n + 1) /\ h[s] = g[s]
    <3>1. \A s \in Up(n) : s \in Up(n + 1)
      BY <1>1
    <3>2. QED
      <4> HIDE DEF Up
      <4> QED BY <2>1, <2>2, <3>1
  <2>4. \A s \in Up(n + 1) : s # {} => s \ {Picked(s)} \in Up(n)
    BY <1>1, <1>2
  <2>5. Part(h, n + 1)
    <3> HIDE DEF Up
    <3> QED BY <2>2, <2>3, <2>4
  <2>6. \E k : Part(k, n + 1)
    <3> HIDE DEF Part
    <3> QED BY <2>5
  <2>7. QED
    <3> HIDE DEF Part
    <3> QED BY <2>6
<1>5. Cardinality(S) \in N
  <2>1. Nat \subseteq N
    <3> HIDE DEF N
    <3> QED BY <1>3, <1>4, SetInduction
  <2>2. Cardinality(S) \in Nat
    BY FS_CardinalityType
  <2>3. QED
    <3> HIDE DEF N
    <3> QED BY <2>1, <2>2
<1>6. Up(Cardinality(S)) = SUBSET S
  BY <1>1
<1>7. QED
  BY <1>5, <1>6 DEF Summing

\* What SumFunctionOnSet computes is the value of a solution.
LEMMA SumIs ==
    ASSUME NEW S, IsFiniteSet(S), NEW f
    PROVE  \E g : Summing(f, S, g) /\ SumFunctionOnSet(f, S) = g[S]
<1> DEFINE g == CHOOSE g : Summing(f, S, g)
<1>1. Summing(f, S, g)
  BY SumExists
<1>2. SumFunctionOnSet(f, S) = g[S]
  BY DEF SumFunctionOnSet, FoldFunctionOnSet, MapThenFoldSet, Summing, Picked
<1>3. QED
  BY <1>1, <1>2
\* In a solution any element may be taken first.
LEMMA SumFacts ==
    ASSUME NEW S, IsFiniteSet(S), NEW f, \A x \in S : f[x] \in Int,
           NEW g, Summing(f, S, g)
    PROVE  /\ g[{}] = 0 /\ \A T \in SUBSET S : g[T] \in Int
           /\ \A T \in SUBSET S : \A x \in T : g[T] = f[x] + g[T \ {x}]
<1> DEFINE N == {n \in Nat : \A T \in SUBSET S : Cardinality(T) = n =>
                     /\ g[T] \in Int
                     /\ \A x \in T : g[T] = f[x] + g[T \ {x}] /\ g[T \ {x}] \in Int}
<1>1. g[{}] = 0
  BY DEF Summing
<1>2. \A T \in SUBSET S : IsFiniteSet(T) /\ Cardinality(T) \in Nat
  BY FS_Subset, FS_CardinalityType
<1>3. \A T \in SUBSET S : \A x \in T :
        T \ {x} \in SUBSET S /\ Cardinality(T \ {x}) = Cardinality(T) - 1
  BY <1>2, FS_RemoveElement
<1>4. 0 \in N
  BY <1>1, <1>2, FS_EmptySet
<1>5. ASSUME NEW n \in Nat, n \in N
      PROVE  n + 1 \in N
  <2>1. SUFFICES ASSUME NEW T \in SUBSET S, Cardinality(T) = n + 1
                 PROVE  /\ g[T] \in Int
                        /\ \A x \in T : g[T] = f[x] + g[T \ {x}] /\ g[T \ {x}] \in Int
    <3>1. n + 1 \in Nat
      OBVIOUS
    <3>2. QED
      BY <3>1
  <2>2. T # {}
    BY <2>1, FS_EmptySet
  <2>3. PICK c \in T : g[T] = f[c] + g[T \ {c}]
    BY <2>2 DEF Summing, Picked
  <2>4. \A x \in T : /\ T \ {x} \in SUBSET S /\ g[T \ {x}] \in Int /\ f[x] \in Int
                     /\ \A y \in T \ {x} : /\ g[T \ {x}] = f[y] + g[(T \ {x}) \ {y}]
                                          /\ g[(T \ {x}) \ {y}] \in Int
    <3> TAKE x \in T
    <3>1. T \ {x} \in SUBSET S /\ Cardinality(T \ {x}) = n
      BY <1>3, <2>1
    <3>2. QED
      BY <1>5, <3>1
  <2>5. g[T] \in Int
    BY <2>3, <2>4
  <2>6. ASSUME NEW x \in T, x # c
        PROVE  g[T] = f[x] + g[T \ {x}]
    <3>1. (T \ {x}) \ {c} = (T \ {c}) \ {x}
      OBVIOUS
    <3>2. DEFINE w == (T \ {c}) \ {x}
    <3>3. g[T \ {c}] = f[x] + g[w] /\ g[T \ {x}] = f[c] + g[w]
      BY <2>3, <2>4, <2>6, <3>1
    <3>4. g[w] \in Int
      BY <2>3, <2>4, <2>6
    <3> HIDE DEF w
    <3>5. QED
      BY <2>3, <2>4, <3>3, <3>4
  <2>7. QED
    BY <2>3, <2>4, <2>5, <2>6
<1>6. Nat \subseteq N
  <2> HIDE DEF N
  <2> QED BY <1>4, <1>5, SetInduction
<1>7. QED
  BY <1>1, <1>2, <1>6

\* The sum over no index is 0, and any index may be split off.
LEMMA SumSplits ==
    ASSUME NEW S, IsFiniteSet(S), NEW f, \A x \in S : f[x] \in Int
    PROVE  /\ SumFunctionOnSet(f, {}) = 0
           /\ SumFunctionOnSet(f, S) \in Int
           /\ \A x \in S : SumFunctionOnSet(f, S) = f[x] + SumFunctionOnSet(f, S \ {x})
<1>1. SumFunctionOnSet(f, {}) = 0
  <2>1. IsFiniteSet({})
    BY FS_EmptySet
  <2>2. PICK g : Summing(f, {}, g) /\ SumFunctionOnSet(f, {}) = g[{}]
    BY <2>1, SumIs
  <2>3. QED
    BY <2>2 DEF Summing
<1>2. PICK g : Summing(f, S, g) /\ SumFunctionOnSet(f, S) = g[S]
  BY SumIs
<1>3. /\ g[{}] = 0 /\ g[S] \in Int
      /\ \A T \in SUBSET S : \A x \in T : g[T] = f[x] + g[T \ {x}]
  <2>1. /\ g[{}] = 0 /\ \A T \in SUBSET S : g[T] \in Int
        /\ \A T \in SUBSET S : \A x \in T : g[T] = f[x] + g[T \ {x}]
    BY <1>2, SumFacts
  <2>2. QED
    BY <2>1
<1>4. ASSUME NEW x \in S
      PROVE  SumFunctionOnSet(f, S \ {x}) = g[S \ {x}]
  <2> DEFINE U == S \ {x}
  <2>1. IsFiniteSet(U)
    BY FS_Subset
  <2>2. PICK h : Summing(f, U, h) /\ SumFunctionOnSet(f, U) = h[U]
    <3> HIDE DEF U
    <3> QED BY <2>1, SumIs
  <2>3. /\ h[{}] = 0
        /\ \A T \in SUBSET U : \A y \in T : h[T] = f[y] + h[T \ {y}]
    <3>1. \A y \in U : f[y] \in Int
      OBVIOUS
    <3> HIDE DEF U
    <3> QED BY <2>1, <2>2, <3>1, SumFacts
  <2> DEFINE P == {T \in SUBSET U : g[T] = h[T]}
  <2>4. {} \in P
    BY <1>3, <2>3
  <2>5. ASSUME NEW T \in SUBSET U, NEW y \in U \ T, T \in P
        PROVE  T \cup {y} \in P
    <3>1. T \cup {y} \in SUBSET U /\ (T \cup {y}) \ {y} = T /\ y \in T \cup {y}
      OBVIOUS
    <3>2. T \cup {y} \in SUBSET S
      OBVIOUS
    <3>3. g[T \cup {y}] = f[y] + g[T] /\ h[T \cup {y}] = f[y] + h[T]
      <4> DEFINE V == T \cup {y}
      <4>1. V \in SUBSET S /\ V \in SUBSET U /\ y \in V /\ V \ {y} = T
        BY <3>1, <3>2
      <4> HIDE DEF U, P, V
      <4>2. g[V] = f[y] + g[V \ {y}]
        BY <1>3, <4>1
      <4>3. h[V] = f[y] + h[V \ {y}]
        BY <2>3, <4>1
      <4>4. QED
        BY <4>1, <4>2, <4>3 DEF V
    <3>4. QED
      BY <2>5, <3>1, <3>3
  <2>6. U \in P
    <3> HIDE DEF U, P
    <3> QED BY <2>1, <2>4, <2>5, FiniteInduction
  <2>7. QED
    BY <2>2, <2>6
<1>5. QED
  BY <1>1, <1>2, <1>3, <1>4

\* A sum grows with what it sums.
LEMMA SumGrows ==
    ASSUME NEW S, IsFiniteSet(S), NEW f, NEW h,
           \A x \in S : f[x] \in Int /\ h[x] \in Int /\ f[x] <= h[x]
    PROVE  SumFunctionOnSet(f, S) <= SumFunctionOnSet(h, S)
<1> DEFINE P == {T \in SUBSET S : SumFunctionOnSet(f, T) <= SumFunctionOnSet(h, T)}
<1>1. \A T \in SUBSET S : IsFiniteSet(T)
  BY FS_Subset
<1>2. {} \in P
  <2>1. SumFunctionOnSet(f, {}) = 0 /\ SumFunctionOnSet(h, {}) = 0
    BY SumSplits
  <2>2. QED
    BY <2>1
<1>3. ASSUME NEW T \in SUBSET S, NEW x \in S \ T, T \in P
      PROVE  T \cup {x} \in P
  <2> DEFINE U == T \cup {x}
  <2>1. U \in SUBSET S /\ U \ {x} = T /\ x \in U /\ IsFiniteSet(U) /\ IsFiniteSet(T)
    BY <1>1
  <2>2. /\ \A y \in U : f[y] \in Int /\ h[y] \in Int
        /\ \A y \in T : f[y] \in Int /\ h[y] \in Int
    OBVIOUS
  <2>3. /\ SumFunctionOnSet(f, U) = f[x] + SumFunctionOnSet(f, T)
        /\ SumFunctionOnSet(h, U) = h[x] + SumFunctionOnSet(h, T)
    <3> HIDE DEF U
    <3> QED BY <2>1, <2>2, SumSplits
  <2>4. SumFunctionOnSet(f, T) \in Int /\ SumFunctionOnSet(h, T) \in Int
    BY <2>1, <2>2, SumSplits
  <2>5. SumFunctionOnSet(f, T) <= SumFunctionOnSet(h, T)
    BY <1>3
  <2>6. SumFunctionOnSet(f, U) <= SumFunctionOnSet(h, U)
    <3> HIDE DEF U
    <3> QED BY <2>1, <2>2, <2>3, <2>4, <2>5
  <2>7. QED
    BY <2>1, <2>6
<1>4. S \in P
  <2> HIDE DEF P
  <2> QED BY <1>2, <1>3, FiniteInduction
<1>5. QED
  BY <1>4

\* A sum looks at the values of its indices only.
LEMMA SumSame ==
    ASSUME NEW S, IsFiniteSet(S), NEW f, NEW h,
           \A x \in S : f[x] \in Int /\ h[x] = f[x]
    PROVE  SumFunctionOnSet(f, S) = SumFunctionOnSet(h, S)
<1>1. /\ SumFunctionOnSet(f, S) <= SumFunctionOnSet(h, S)
      /\ SumFunctionOnSet(h, S) <= SumFunctionOnSet(f, S)
  BY SumGrows
<1>2. SumFunctionOnSet(f, S) \in Int /\ SumFunctionOnSet(h, S) \in Int
  BY SumSplits
<1>3. QED
  BY <1>1, <1>2

\* Where one value changes, the sum changes by as much.
LEMMA SumChanges ==
    ASSUME NEW S, IsFiniteSet(S), NEW f, NEW h, NEW x \in S,
           \A y \in S : f[y] \in Int /\ h[y] \in Int,
           \A y \in S \ {x} : h[y] = f[y]
    PROVE  SumFunctionOnSet(h, S) = SumFunctionOnSet(f, S) + (h[x] - f[x])
<1> DEFINE U == S \ {x}
<1>1. IsFiniteSet(U) /\ \A y \in U : f[y] \in Int /\ h[y] = f[y]
  BY FS_Subset
<1>2. SumFunctionOnSet(f, U) = SumFunctionOnSet(h, U) /\ SumFunctionOnSet(f, U) \in Int
  <2> HIDE DEF U
  <2> QED BY <1>1, SumSame, SumSplits
<1>3. /\ SumFunctionOnSet(f, S) = f[x] + SumFunctionOnSet(f, U)
      /\ SumFunctionOnSet(h, S) = h[x] + SumFunctionOnSet(h, U)
  BY SumSplits
<1> HIDE DEF U
<1>4. QED
  BY <1>2, <1>3


\* Where at most one value grows, and by one, the sum grows by one at most; by
\* exactly one where no other changes: a second of the counters' buckets.
LEMMA SumOneMore ==
    ASSUME NEW S, IsFiniteSet(S), NEW f, NEW h, NEW x,
           \A y \in S : f[y] \in Int /\ h[y] \in Int,
           \A y \in S : h[y] <= f[y] + (IF y = x THEN 1 ELSE 0)
    PROVE  /\ SumFunctionOnSet(f, S) \in Int /\ SumFunctionOnSet(h, S) \in Int
           /\ SumFunctionOnSet(h, S) <= SumFunctionOnSet(f, S) + (IF x \in S THEN 1 ELSE 0)
           /\ (\A y \in S : h[y] = f[y] + (IF y = x THEN 1 ELSE 0)) =>
                SumFunctionOnSet(h, S) = SumFunctionOnSet(f, S) + (IF x \in S THEN 1 ELSE 0)
<1> DEFINE g == [y \in S |-> f[y] + (IF y = x THEN 1 ELSE 0)]
<1>1. /\ \A y \in S : g[y] \in Int /\ h[y] <= g[y]
      /\ \A y \in S \ {x} : g[y] = f[y]
      /\ x \in S => g[x] = f[x] + 1
      /\ (\A y \in S : h[y] = f[y] + (IF y = x THEN 1 ELSE 0)) => \A y \in S : h[y] = g[y]
  OBVIOUS
<1> HIDE DEF g
<1>2. /\ SumFunctionOnSet(f, S) \in Int /\ SumFunctionOnSet(h, S) \in Int
      /\ SumFunctionOnSet(g, S) \in Int
  BY <1>1, SumSplits
<1>3. SumFunctionOnSet(h, S) <= SumFunctionOnSet(g, S)
  BY <1>1, SumGrows
<1>4. (\A y \in S : h[y] = g[y]) => SumFunctionOnSet(h, S) = SumFunctionOnSet(g, S)
  BY <1>1, SumSame
<1>5. SumFunctionOnSet(g, S) = SumFunctionOnSet(f, S) + (IF x \in S THEN 1 ELSE 0)
  <2>1. CASE x \in S
    <3>1. SumFunctionOnSet(g, S) = SumFunctionOnSet(f, S) + (g[x] - f[x])
      BY <1>1, <2>1, SumChanges
    <3>2. g[x] - f[x] = 1
      BY <1>1, <2>1
    <3>3. QED
      BY <2>1, <3>1, <3>2
  <2>2. CASE x \notin S
    <3>1. \A y \in S : f[y] \in Int /\ g[y] = f[y]
      BY <1>1, <2>2
    <3>2. SumFunctionOnSet(g, S) = SumFunctionOnSet(f, S)
      BY <3>1, SumSame
    <3>3. QED
      BY <1>2, <2>2, <3>2
  <2>3. QED
    BY <2>1, <2>2
<1>6. QED
  BY <1>1, <1>2, <1>3, <1>4, <1>5

\* A sum over more indices of values that are not negative is no smaller: no
\* flow of the tap is forgotten when a connection is added.
LEMMA SumWidens ==
    ASSUME NEW T, IsFiniteSet(T), NEW S \in SUBSET T, NEW f, NEW h,
           \A x \in S : f[x] \in Int /\ f[x] <= h[x],
           \A x \in T : h[x] \in Nat
    PROVE  SumFunctionOnSet(f, S) <= SumFunctionOnSet(h, T)
<1>1. IsFiniteSet(S) /\ \A x \in S : h[x] \in Int
  BY FS_Subset
<1>2. SumFunctionOnSet(f, S) <= SumFunctionOnSet(h, S)
  BY <1>1, SumGrows
<1> DEFINE P == {U \in SUBSET T : SumFunctionOnSet(h, S) <= SumFunctionOnSet(h, S \cup U)}
<1>3. \A U \in SUBSET T : IsFiniteSet(S \cup U) /\ \A y \in S \cup U : h[y] \in Int
  <2>1. \A U \in SUBSET T : S \cup U \in SUBSET T
    OBVIOUS
  <2>2. QED
    BY <2>1, FS_Subset
<1>4. \A U \in SUBSET T : SumFunctionOnSet(h, S \cup U) \in Int
  <2> TAKE U \in SUBSET T
  <2> DEFINE V == S \cup U
  <2>1. IsFiniteSet(V) /\ \A y \in V : h[y] \in Int
    BY <1>3
  <2> HIDE DEF V
  <2>2. SumFunctionOnSet(h, V) \in Int
    BY <2>1, SumSplits
  <2>3. QED
    BY <2>2 DEF V
<1>5. {} \in P
  <2>1. S \cup {} = S
    OBVIOUS
  <2>2. SumFunctionOnSet(h, S) \in Int
    BY <1>1, SumSplits
  <2>3. QED
    BY <2>1, <2>2
<1>6. ASSUME NEW U \in SUBSET T, NEW x \in T \ U, U \in P
      PROVE  U \cup {x} \in P
  <2> DEFINE V == S \cup (U \cup {x})
  <2>1. CASE x \in S
    <3>1. V = S \cup U
      BY <2>1
    <3>2. QED
      BY <1>6, <3>1
  <2>2. CASE x \notin S
    <3>1. V \ {x} = S \cup U /\ x \in V
      BY <2>2
    <3>2. IsFiniteSet(V) /\ \A y \in V : h[y] \in Int
      BY <1>3
    <3>3. SumFunctionOnSet(h, V) = h[x] + SumFunctionOnSet(h, S \cup U)
      <4> HIDE DEF V
      <4> QED BY <3>1, <3>2, SumSplits
    <3>4. h[x] \in Nat /\ SumFunctionOnSet(h, S \cup U) \in Int
      BY <1>4
    <3>5. SumFunctionOnSet(h, S) \in Int
      BY <1>1, SumSplits
    <3>6. SumFunctionOnSet(h, S) <= SumFunctionOnSet(h, S \cup U)
      BY <1>6
    <3>7. SumFunctionOnSet(h, S) <= SumFunctionOnSet(h, V)
      <4> HIDE DEF V
      <4> QED BY <3>3, <3>4, <3>5, <3>6
    <3>8. QED
      BY <3>7
  <2>3. QED
    BY <2>1, <2>2
<1>7. T \in P
  <2> HIDE DEF P
  <2> QED BY <1>5, <1>6, FiniteInduction
<1>8. SumFunctionOnSet(h, S) <= SumFunctionOnSet(h, T)
  <2>1. S \cup T = T
    OBVIOUS
  <2>2. QED
    BY <1>7, <2>1
<1>9. /\ SumFunctionOnSet(f, S) \in Int /\ SumFunctionOnSet(h, S) \in Int
      /\ SumFunctionOnSet(h, T) \in Int
  BY <1>1, SumSplits
<1>10. QED
  BY <1>2, <1>8, <1>9

\* A sum over the first numbers, one number at a time: of a sequence of queues,
\* how many wait in the first few.
LEMMA SumUpTo ==
    ASSUME NEW n \in Nat, NEW f, \A j \in 1 .. n : f[j] \in Int
    PROVE  /\ SumFunctionOnSet(f, 1 .. 0) = 0
           /\ \A m \in 0 .. n : SumFunctionOnSet(f, 1 .. m) \in Int
           /\ \A m \in 1 .. n :
                SumFunctionOnSet(f, 1 .. m) = f[m] + SumFunctionOnSet(f, 1 .. m - 1)
<1>1. ASSUME NEW m \in 0 .. n
      PROVE  /\ SumFunctionOnSet(f, {}) = 0 /\ SumFunctionOnSet(f, 1 .. m) \in Int
             /\ \A j \in 1 .. m :
                  SumFunctionOnSet(f, 1 .. m) = f[j] + SumFunctionOnSet(f, (1 .. m) \ {j})
  <2> DEFINE S == 1 .. m
  <2>1. IsFiniteSet(S) /\ \A j \in S : f[j] \in Int
    BY FS_Interval
  <2>2. SUFFICES /\ SumFunctionOnSet(f, {}) = 0 /\ SumFunctionOnSet(f, S) \in Int
                 /\ \A j \in S : SumFunctionOnSet(f, S) = f[j] + SumFunctionOnSet(f, S \ {j})
    OBVIOUS
  <2> HIDE DEF S
  <2>3. QED
    BY <2>1, SumSplits
<1>2. 1 .. 0 = {} /\ 0 \in 0 .. n
  OBVIOUS
<1>3. ASSUME NEW m \in 1 .. n
      PROVE  SumFunctionOnSet(f, 1 .. m) = f[m] + SumFunctionOnSet(f, 1 .. m - 1)
  <2>1. m \in 0 .. n /\ m \in 1 .. m /\ (1 .. m) \ {m} = 1 .. m - 1
    OBVIOUS
  <2>2. SumFunctionOnSet(f, 1 .. m) = f[m] + SumFunctionOnSet(f, (1 .. m) \ {m})
    BY <1>1, <2>1
  <2>3. QED
    BY <2>1, <2>2
<1>4. QED
  BY <1>1, <1>2, <1>3

\* What is taken out of a sequence of numbers is missing in its sum, however
\* the rest moves up.
LEMMA SumShifts ==
    ASSUME NEW n \in Nat, NEW i \in 1 .. n, NEW f, NEW h,
           \A j \in 1 .. n : f[j] \in Int,
           \A j \in 1 .. n - 1 : h[j] = IF j < i THEN f[j] ELSE f[j + 1]
    PROVE  SumFunctionOnSet(h, 1 .. n - 1) = SumFunctionOnSet(f, 1 .. n) - f[i]
<1> DEFINE Left(m) == SumFunctionOnSet(h, 1 .. m - 1) = SumFunctionOnSet(f, 1 .. m) - f[i]
           N == {k \in Nat : k + i <= n => Left(k + i)}
<1>1. \A m \in 0 .. n : /\ IsFiniteSet(1 .. m) /\ \A j \in 1 .. m : f[j] \in Int
                        /\ SumFunctionOnSet(f, 1 .. m) \in Int
  <2>1. \A m \in 0 .. n : SumFunctionOnSet(f, 1 .. m) \in Int
    BY SumUpTo
  <2>2. \A m \in 0 .. n : IsFiniteSet(1 .. m)
    BY FS_Interval
  <2>3. QED
    BY <2>1, <2>2
<1>2. \A m \in 1 .. n : SumFunctionOnSet(f, 1 .. m) = f[m] + SumFunctionOnSet(f, 1 .. m - 1)
  BY SumUpTo
<1>3. /\ \A m \in 0 .. n - 1 : SumFunctionOnSet(h, 1 .. m) \in Int
      /\ \A m \in 1 .. n - 1 :
           SumFunctionOnSet(h, 1 .. m) = h[m] + SumFunctionOnSet(h, 1 .. m - 1)
  <2>1. n - 1 \in Nat
    OBVIOUS
  <2>2. \A j \in 1 .. n - 1 : h[j] \in Int
    <3> TAKE j \in 1 .. n - 1
    <3>1. j \in 1 .. n /\ j + 1 \in 1 .. n
      OBVIOUS
    <3>2. QED
      BY <3>1
  <2> DEFINE k == n - 1
  <2>3. k \in Nat /\ \A j \in 1 .. k : h[j] \in Int
    BY <2>1, <2>2
  <2> HIDE DEF k
  <2>4. /\ \A m \in 0 .. k : SumFunctionOnSet(h, 1 .. m) \in Int
        /\ \A m \in 1 .. k :
             SumFunctionOnSet(h, 1 .. m) = h[m] + SumFunctionOnSet(h, 1 .. m - 1)
    BY <2>3, SumUpTo
  <2>5. QED
    BY <2>4 DEF k
<1>4. 0 \in N
  <2>1. i - 1 \in 0 .. n /\ i \in 1 .. n /\ 1 .. i - 1 \in SUBSET (1 .. n - 1)
    OBVIOUS
  <2>2. \A j \in 1 .. i - 1 : f[j] \in Int /\ h[j] = f[j]
    BY <2>1
  <2>3. SumFunctionOnSet(h, 1 .. i - 1) = SumFunctionOnSet(f, 1 .. i - 1)
    BY <1>1, <2>1, <2>2, SumSame
  <2>4. Left(i)
    BY <1>1, <1>2, <2>1, <2>3
  <2>5. QED
    <3> HIDE DEF Left
    <3>1. 0 + i = i
      OBVIOUS
    <3>2. QED
      BY <2>4, <3>1
<1>5. ASSUME NEW k \in Nat, k \in N
      PROVE  k + 1 \in N
  <2> DEFINE m == k + 1 + i
  <2>1. SUFFICES ASSUME m <= n PROVE Left(m)
    <3> HIDE DEF Left
    <3> QED OBVIOUS
  <2>2. m \in 1 .. n /\ m - 1 \in 1 .. n - 1 /\ m - 1 = k + i /\ k + i <= n /\ ~(m - 1 < i)
        /\ (m - 1) + 1 = m
    BY <2>1
  <2>3. Left(m - 1)
    BY <1>5, <2>2
  <2>4. h[m - 1] = f[m]
    BY <2>2
  <2>5. m - 1 \in 0 .. n - 1 /\ m - 1 \in 0 .. n /\ (m - 1) - 1 \in 0 .. n - 1
        /\ m \in 0 .. n /\ i \in 1 .. n
    BY <2>2
  <2> HIDE DEF m
  <2>6. SumFunctionOnSet(h, 1 .. m - 1) = h[m - 1] + SumFunctionOnSet(h, 1 .. (m - 1) - 1)
    BY <1>3, <2>2
  <2>7. SumFunctionOnSet(f, 1 .. m) = f[m] + SumFunctionOnSet(f, 1 .. m - 1)
    BY <1>2, <2>2
  <2>8. /\ f[m] \in Int /\ f[i] \in Int /\ SumFunctionOnSet(f, 1 .. m - 1) \in Int
        /\ SumFunctionOnSet(h, 1 .. (m - 1) - 1) \in Int
    BY <1>1, <1>3, <2>2, <2>5
  <2>9. QED
    BY <2>3, <2>4, <2>6, <2>7, <2>8
<1>6. Nat \subseteq N
  <2> HIDE DEF N
  <2> QED BY <1>4, <1>5, SetInduction
<1>7. n - i \in Nat /\ (n - i) + i = n
  OBVIOUS
<1>8. QED
  <2> HIDE DEF Left
  <2>1. Left(n)
    BY <1>6, <1>7
  <2>2. QED
    BY <2>1 DEF Left

\* A sum of zeros.
LEMMA SumOfZeros ==
    ASSUME NEW S, IsFiniteSet(S), NEW f, \A x \in S : f[x] = 0
    PROVE  SumFunctionOnSet(f, S) = 0
<1> DEFINE P == {T \in SUBSET S : SumFunctionOnSet(f, T) = 0}
<1>1. \A T \in SUBSET S : IsFiniteSet(T)
  BY FS_Subset
<1>2. {} \in P
  <2>1. SumFunctionOnSet(f, {}) = 0
    <3>1. IsFiniteSet({})
      BY FS_EmptySet
    <3>2. QED
      BY <3>1, SumSplits
  <2>2. QED
    BY <2>1
<1>3. ASSUME NEW T \in SUBSET S, NEW x \in S \ T, T \in P
      PROVE  T \cup {x} \in P
  <2> DEFINE U == T \cup {x}
  <2>1. U \in SUBSET S /\ IsFiniteSet(U) /\ x \in U /\ U \ {x} = T
    BY <1>1
  <2>2. \A y \in U : f[y] \in Int
    BY <2>1
  <2> HIDE DEF U
  <2>3. SumFunctionOnSet(f, U) = f[x] + SumFunctionOnSet(f, U \ {x})
    BY <2>1, <2>2, SumSplits
  <2>4. f[x] = 0 /\ SumFunctionOnSet(f, T) = 0
    BY <1>3
  <2>5. SumFunctionOnSet(f, U) = 0
    BY <2>1, <2>3, <2>4
  <2>6. QED
    BY <2>1, <2>5 DEF U
<1>4. S \in P
  <2> HIDE DEF P
  <2> QED BY <1>2, <1>3, FiniteInduction
<1>5. QED
  BY <1>4

\* A place of a sequence of which one entry is taken out.
LEMMA TakenOut ==
    ASSUME NEW S, NEW q \in Seq(S), NEW i \in 1 .. Len(q)
    PROVE  LET r == SubSeq(q, 1, i - 1) \o SubSeq(q, i + 1, Len(q))
           IN /\ r \in Seq(S) /\ Len(q) \in Nat \ {0} /\ Len(r) = Len(q) - 1
              /\ \A j \in 1 .. Len(q) - 1 : r[j] = IF j < i THEN q[j] ELSE q[j + 1]
<1> DEFINE n == Len(q)
           a == SubSeq(q, 1, i - 1)
           b == SubSeq(q, i + 1, n)
           r == a \o b
<1>1. n \in Nat \ {0} /\ i \in 1 .. n /\ \A j \in 1 .. n : q[j] \in S
  BY LenProperties, ElementOfSeq
<1>2. /\ a \in Seq(S) /\ Len(a) = i - 1
      /\ \A j \in 1 .. i - 1 : a[j] = q[j]
  <2>1. 1 \in Int /\ i - 1 \in Int /\ \A j \in 1 .. i - 1 : q[j] \in S
    BY <1>1
  <2>2. /\ a \in Seq(S) /\ Len(a) = IF 1 <= i - 1 THEN (i - 1) - 1 + 1 ELSE 0
        /\ \A j \in 1 .. (i - 1) - 1 + 1 : a[j] = q[1 + j - 1]
    BY <2>1, SubSeqProperties
  <2> HIDE DEF a
  <2>3. QED
    BY <1>1, <2>2
<1>3. /\ b \in Seq(S) /\ Len(b) = n - i
      /\ \A j \in 1 .. n - i : b[j] = q[i + j]
  <2>1. i + 1 \in Int /\ n \in Int /\ \A j \in i + 1 .. n : q[j] \in S
    BY <1>1
  <2>2. /\ b \in Seq(S) /\ Len(b) = IF i + 1 <= n THEN n - (i + 1) + 1 ELSE 0
        /\ \A j \in 1 .. n - (i + 1) + 1 : b[j] = q[(i + 1) + j - 1]
    BY <2>1, SubSeqProperties
  <2> HIDE DEF b, n
  <2>3. QED
    BY <1>1, <2>2
<1> HIDE DEF a, b
<1>4. /\ r \in Seq(S) /\ Len(r) = Len(a) + Len(b)
      /\ \A j \in 1 .. Len(a) + Len(b) :
           r[j] = IF j <= Len(a) THEN a[j] ELSE b[j - Len(a)]
  BY <1>2, <1>3, ConcatProperties
<1> HIDE DEF n, r
<1>5. Len(r) = n - 1
  BY <1>1, <1>2, <1>3, <1>4
<1>6. ASSUME NEW j \in 1 .. n - 1
      PROVE  r[j] = IF j < i THEN q[j] ELSE q[j + 1]
  <2>1. j \in 1 .. Len(a) + Len(b)
    BY <1>1, <1>2, <1>3
  <2>2. CASE j < i
    BY <1>1, <1>2, <1>4, <2>1, <2>2
  <2>3. CASE ~(j < i)
    <3>1. j - (i - 1) \in 1 .. n - i /\ i + (j - (i - 1)) = j + 1
      BY <1>1, <2>3
    <3>2. r[j] = b[j - (i - 1)]
      BY <1>1, <1>2, <1>4, <2>1, <2>3
    <3>3. QED
      BY <1>3, <2>3, <3>1, <3>2
  <2>4. QED
    BY <2>2, <2>3
<1>7. QED
  BY <1>1, <1>4, <1>5, <1>6 DEF n, r, a, b
=============================================================================
