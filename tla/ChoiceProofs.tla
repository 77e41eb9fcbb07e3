---------------------------- MODULE ChoiceProofs ----------------------------
(***************************************************************************)
(* Theorems about Choice, for every number of levels of the network, every *)
(* number of anchors and every TopK.                                       *)
(*                                                                         *)
(* The sorting network.  Values are bitonic if, whatever the bound, those  *)
(* that reach it are an arc of the ring of places.  Comparing the halves   *)
(* of bitonic values leaves two bitonic halves with the larger values in   *)
(* the first (HalfClean).  A level makes bitonic runs out of pairs of      *)
(* sorted ones (TwoRuns, MirrorStages, FoldStages) and then halves their   *)
(* blocks until they are single values, which is to be sorted (StageSorts).*)
(* The number of steps done says in which phase of which level the values  *)
(* are (Schedule, Phase), and a step of the list leads from one phase to   *)
(* the next (PhaseStep).                                                   *)
(*                                                                         *)
(* The order.  Each score occurs as often after the sort as before it, so  *)
(* score and number among equal ones name one anchor (RankTells,           *)
(* RankTaken), and every row of the first TopK is better than what comes   *)
(* after it (EarlierIsBetter).                                             *)
(*                                                                         *)
(* Facts that need induction are shown through a least counterexample      *)
(* (LeastNatural).                                                         *)
(***************************************************************************)
EXTENDS Choice, FiniteSetTheorems, WellFoundedInduction, TLAPS

(* Every set of natural numbers that has a member has a least one. *)
LEMMA LeastNatural ==
    ASSUME NEW T, T \subseteq Nat, T # {}
    PROVE  \E x \in T : \A y \in T : x <= y
<1> DEFINE R == OpToRel(<, Nat)
<1>1. IsWellFoundedOn(R, Nat)
  BY NatLessThanWellFounded, Zenon
<1>2. \A x, y \in Nat : x < y => <<x, y>> \in R
  BY DEF OpToRel
<1> HIDE DEF R
<1>3. PICK x \in T : \A y \in T : <<y, x>> \notin R
  BY <1>1, WFMin
<1>4. \A y \in T : ~(y < x)
  BY <1>2, <1>3, Zenon
<1>5. \A y \in T : y \in Int /\ x \in Int
  OBVIOUS
<1> QED
  BY <1>4, <1>5

(* The sum of one number is that number. *)
LEMMA SumOfOne == ASSUME NEW n \in Nat PROVE SumSet({n}) = n
<1> DEFINE Step(f) == [s \in SUBSET {n} |->
                  IF s = {} THEN 0
                  ELSE (CHOOSE x \in s : TRUE) + f[s \ {CHOOSE x \in s : TRUE}]]
           it == CHOOSE f : f = Step(f)
<1>1. SumSet({n}) = it[{n}]
  BY DEF SumSet, FoldSet, MapThenFoldSet
<1>2. \E f : f = Step(f)
  <2> DEFINE g == [s \in SUBSET {n} |-> IF s = {} THEN 0 ELSE n]
  <2>1. g = Step(g)
    <3> SUFFICES ASSUME NEW s \in SUBSET {n} PROVE g[s] = Step(g)[s]
      OBVIOUS
    <3>1. CASE s = {}
      BY <3>1
    <3>2. CASE s = {n}
      <4>1. (CHOOSE x \in s : TRUE) = n
        BY <3>2
      <4>2. g[s \ {n}] = 0 /\ g[s] = n
        BY <3>2
      <4> QED
        BY <3>2, <4>1, <4>2
    <3> QED
      BY <3>1, <3>2
  <2> QED
    BY <2>1
<1>3. it = Step(it)
  BY <1>2
<1> HIDE DEF it
<1>4. it[{}] = 0
  BY <1>3
<1>5. (CHOOSE x \in {n} : TRUE) = n /\ {n} \ {n} = {}
  OBVIOUS
<1>6. it[{n}] = n + it[{}]
  BY <1>3, <1>5
<1> QED
  BY <1>1, <1>4, <1>6

(* A power of two is the number of subsets of a set: one element more, and *)
(* there are twice as many.                                                *)
LEMMA PowerDoubles == ASSUME NEW n \in Nat PROVE 2^(n + 1) = 2^n + 2^n /\ 2^n \in Nat
<1> DEFINE S == 1..n
           x == n + 1
           P == SUBSET S
           Q == {T \cup {x} : T \in P}
<1>1. IsFiniteSet(S) /\ Cardinality(S) = n /\ x \notin S
  BY FS_Interval
<1>2. IsFiniteSet(1..x) /\ Cardinality(1..x) = n + 1
  BY FS_Interval
<1>3. IsFiniteSet(P) /\ Cardinality(P) = 2^n
  BY <1>1, FS_SUBSET
<1>4. Cardinality(SUBSET (1..x)) = 2^(n + 1)
  BY <1>2, FS_SUBSET
<1>5. SUBSET (1..x) = P \cup Q
  <2>1. 1..x = S \cup {x}
    OBVIOUS
  <2>2. ASSUME NEW T \in SUBSET (1..x), T \notin P PROVE T \in Q
    <3>1. x \in T /\ T \ {x} \in P /\ T = (T \ {x}) \cup {x}
      BY <2>1, <2>2
    <3> QED
      BY <3>1
  <2>3. P \cup Q \subseteq SUBSET (1..x)
    BY <2>1
  <2> QED
    BY <2>2, <2>3
<1>6. P \cap Q = {}
  BY <1>1
<1>7. IsFiniteSet(Q) /\ Cardinality(Q) = Cardinality(P)
  <2> DEFINE f == [T \in P |-> T \cup {x}]
  <2>1. f \in Bijection(P, Q)
    <3>1. f \in [P -> Q] /\ \A t \in Q : \E s \in P : f[s] = t
      OBVIOUS
    <3>2. \A s, t \in P : f[s] = f[t] => s = t
      <4> SUFFICES ASSUME NEW s \in P, NEW t \in P, s \cup {x} = t \cup {x} PROVE s = t
        OBVIOUS
      <4>1. x \notin s /\ x \notin t
        BY <1>1
      <4> QED
        BY <4>1
    <3> HIDE DEF f, P, Q
    <3> QED
      BY <3>1, <3>2, Zenon DEF Bijection, Injection, Surjection, IsInjective
  <2>2. ExistsBijection(P, Q)
    BY <2>1 DEF ExistsBijection
  <2> HIDE DEF P, Q
  <2> QED
    BY <1>3, <2>2, FS_Bijection
<1> HIDE DEF P, Q
<1>8. Cardinality(P \cup Q) = Cardinality(P) + Cardinality(Q) - Cardinality(P \cap Q)
  BY <1>3, <1>7, FS_Union
<1>9. Cardinality(P \cap Q) = 0 /\ Cardinality(P) \in Nat
  BY <1>3, <1>6, FS_EmptySet, FS_CardinalityType
<1>10. Cardinality(P \cup Q) = 2^(n + 1)
  BY <1>4, <1>5
<1> QED
  BY <1>3, <1>7, <1>8, <1>9, <1>10

(* Quotient and remainder. *)
LEMMA Divide ==
    ASSUME NEW i \in Int, NEW d \in Nat \ {0}
    PROVE  /\ i \div d \in Int /\ i % d \in 0..(d - 1)
           /\ i = (i \div d) * d + (i % d)
<1>1. i \div d \in Int /\ i % d \in Int /\ 0 <= i % d /\ i % d < d
  OBVIOUS
<1>2. i = d * (i \div d) + (i % d)
  OBVIOUS
<1> DEFINE q == i \div d
<1>3. q \in Int /\ d * q = q * d
  BY <1>1
<1> QED
  BY <1>1, <1>2, <1>3

(* They are the only ones. *)
LEMMA Quotient ==
    ASSUME NEW d \in Nat \ {0}, NEW p \in Int, NEW r \in 0..(d - 1)
    PROVE  (p * d + r) \div d = p /\ (p * d + r) % d = r
<1> DEFINE i == p * d + r
           q == i \div d
           s == i % d
<1>1. i \in Int
  OBVIOUS
<1>2. q \in Int /\ s \in 0..(d - 1) /\ i = q * d + s
  BY <1>1, Divide
<1> HIDE DEF q, s
<1>3. (p - q) * d = s - r
  BY <1>2
<1>4. ~(p - q >= 1)
  <2> SUFFICES ASSUME p - q >= 1 PROVE FALSE
    OBVIOUS
  <2>1. (p - q) * d >= d
    BY <1>2
  <2> QED
    BY <1>2, <1>3, <2>1
<1>5. ~(p - q <= -1)
  <2> SUFFICES ASSUME p - q <= -1 PROVE FALSE
    OBVIOUS
  <2>1. (p - q) * d <= -d
    BY <1>2
  <2> QED
    BY <1>2, <1>3, <2>1
<1>6. p = q
  BY <1>2, <1>4, <1>5
<1>7. s = r
  BY <1>2, <1>3, <1>6
<1> QED
  BY <1>6, <1>7 DEF q, s

(***************************************************************************)
(* An arc of a ring of n places: the places from one to another, or all    *)
(* the others.                                                             *)
(***************************************************************************)
Arc(O, n) ==
    \E x, y \in 0..n :
        /\ x <= y
        /\ \/ O = x..(y - 1)
           \/ O = (0..(n - 1)) \ (x..(y - 1))

(* Fold a ring of 2n places in two: the places where either half is in the *)
(* arc, and those where both are, are arcs, and one of them is trivial.    *)
LEMMA ArcHalves ==
    ASSUME NEW n \in Nat \ {0}, NEW O, Arc(O, 2 * n),
           NEW U \in SUBSET (0..(n - 1)), NEW D \in SUBSET (0..(n - 1)),
           \A i \in 0..(n - 1) : (i \in U) <=> (i \in O \/ i + n \in O),
           \A i \in 0..(n - 1) : (i \in D) <=> (i \in O /\ i + n \in O)
    PROVE  Arc(U, n) /\ Arc(D, n) /\ (D = {} \/ U = 0..(n - 1))
<1>0. /\ U = {i \in 0..(n - 1) : i \in O \/ i + n \in O}
      /\ D = {i \in 0..(n - 1) : i \in O /\ i + n \in O}
  BY Zenon
<1>1. PICK x \in 0..(2 * n), y \in 0..(2 * n) :
         /\ x <= y
         /\ O = x..(y - 1) \/ O = (0..(2 * n - 1)) \ (x..(y - 1))
  BY DEF Arc
<1>i. \A W : \A a, b \in 0..n : a <= b /\ W = a..(b - 1) => Arc(W, n)
  BY DEF Arc
<1>c. \A W : \A a, b \in 0..n :
         a <= b /\ W = (0..(n - 1)) \ (a..(b - 1)) => Arc(W, n)
  BY DEF Arc
<1>e. Arc({}, n) /\ Arc(0..(n - 1), n)
  <2>1. 0..(0 - 1) = {} /\ (0..(n - 1)) \ (0..(0 - 1)) = 0..(n - 1)
    OBVIOUS
  <2>2. 0 \in 0..n /\ 0 <= 0
    OBVIOUS
  <2> QED
    BY <1>i, <1>c, <2>1, <2>2
<1>2. CASE O = x..(y - 1)
  <2>1. CASE y <= n
    <3>1. U = x..(y - 1) /\ x \in 0..n /\ y \in 0..n /\ D = {}
      BY <1>0, <1>1, <1>2, <2>1
    <3> QED
      BY <1>1, <1>e, <1>i, <3>1
  <2>2. CASE x >= n
    <3>1. /\ U = (x - n)..((y - n) - 1) /\ x - n \in 0..n /\ y - n \in 0..n
          /\ x - n <= y - n /\ D = {}
      BY <1>0, <1>1, <1>2, <2>2
    <3> QED
      BY <1>e, <1>i, <3>1
  <2>3. CASE x < n /\ n < y /\ x <= y - n
    <3>1. /\ U = 0..(n - 1) /\ D = x..((y - n) - 1)
          /\ x \in 0..n /\ y - n \in 0..n
      BY <1>0, <1>1, <1>2, <2>3
    <3> QED
      BY <1>e, <1>i, <2>3, <3>1
  <2>4. CASE x < n /\ n < y /\ ~(x <= y - n)
    <3>1. /\ U = (0..(n - 1)) \ ((y - n)..(x - 1)) /\ D = {}
          /\ x \in 0..n /\ y - n \in 0..n /\ y - n <= x
      BY <1>0, <1>1, <1>2, <2>4
    <3> QED
      BY <1>e, <1>c, <3>1
  <2> QED
    BY <1>1, <2>1, <2>2, <2>3, <2>4
<1>3. CASE O = (0..(2 * n - 1)) \ (x..(y - 1))
  <2>1. CASE y <= n
    <3>1. /\ U = 0..(n - 1) /\ D = (0..(n - 1)) \ (x..(y - 1))
          /\ x \in 0..n /\ y \in 0..n
      BY <1>0, <1>1, <1>3, <2>1
    <3> QED
      BY <1>1, <1>e, <1>c, <3>1
  <2>2. CASE x >= n
    <3>1. /\ U = 0..(n - 1) /\ D = (0..(n - 1)) \ ((x - n)..((y - n) - 1))
          /\ x - n \in 0..n /\ y - n \in 0..n /\ x - n <= y - n
      BY <1>0, <1>1, <1>3, <2>2
    <3> QED
      BY <1>e, <1>c, <3>1
  <2>3. CASE x < n /\ n < y /\ y - n <= x
    <3>1. /\ U = 0..(n - 1) /\ D = (y - n)..(x - 1)
          /\ x \in 0..n /\ y - n \in 0..n
      BY <1>0, <1>1, <1>3, <2>3
    <3> QED
      BY <1>e, <1>i, <2>3, <3>1
  <2>4. CASE x < n /\ n < y /\ ~(y - n <= x)
    <3>1. /\ U = (0..(n - 1)) \ (x..((y - n) - 1)) /\ D = {}
          /\ x \in 0..n /\ y - n \in 0..n /\ x <= y - n
      BY <1>0, <1>1, <1>3, <2>4
    <3> QED
      BY <1>e, <1>c, <3>1
  <2> QED
    BY <1>1, <2>1, <2>2, <2>3, <2>4
<1> QED
  BY <1>1, <1>2, <1>3

(***************************************************************************)
(* n values from place b on are bitonic if those that reach a bound are an *)
(* arc, whatever the bound.                                                *)
(***************************************************************************)
Reach(v, b, n, bound) == {i \in 0..(n - 1) : v[b + i] >= bound}
Bitonic(v, b, n) == \A bound \in Int : Arc(Reach(v, b, n, bound), n)

(* What the larger and the smaller of two values reach. *)
LEMMA Compared ==
    ASSUME NEW x \in Int, NEW y \in Int
    PROVE  /\ Larger(x, y) \in {x, y} /\ Smaller(x, y) \in {x, y}
           /\ \A bound \in Int :
                 /\ (Larger(x, y) >= bound <=> x >= bound \/ y >= bound)
                 /\ (Smaller(x, y) >= bound <=> x >= bound /\ y >= bound)
BY DEF Larger, Smaller

(* Comparing the two halves of bitonic values leaves two bitonic halves,   *)
(* and the first has the larger values.                                    *)
LEMMA HalfClean ==
    ASSUME NEW n \in Nat \ {0}, NEW b \in Nat, NEW v, NEW w,
           \A i \in 0..(2 * n - 1) : v[b + i] \in Int,
           Bitonic(v, b, 2 * n),
           \A i \in 0..(n - 1) : /\ w[b + i] = Larger(v[b + i], v[b + (n + i)])
                                /\ w[b + (n + i)] = Smaller(v[b + i], v[b + (n + i)])
    PROVE  /\ Bitonic(w, b, n) /\ Bitonic(w, b + n, n)
           /\ \A i, j \in 0..(n - 1) : w[b + i] >= w[b + (n + j)]
<1>1. \A i \in 0..(n - 1) : v[b + i] \in Int /\ v[b + (n + i)] \in Int
  <2> SUFFICES ASSUME NEW i \in 0..(n - 1)
               PROVE  v[b + i] \in Int /\ v[b + (n + i)] \in Int
    OBVIOUS
  <2>1. i \in 0..(2 * n - 1) /\ n + i \in 0..(2 * n - 1)
    OBVIOUS
  <2> QED
    BY <2>1
<1>2. ASSUME NEW bound \in Int
      PROVE  /\ Arc(Reach(w, b, n, bound), n) /\ Arc(Reach(w, b + n, n, bound), n)
             /\ \/ Reach(w, b + n, n, bound) = {}
                \/ Reach(w, b, n, bound) = 0..(n - 1)
  <2> DEFINE O == Reach(v, b, 2 * n, bound)
             U == {i \in 0..(n - 1) : i \in O \/ i + n \in O}
             D == {i \in 0..(n - 1) : i \in O /\ i + n \in O}
  <2>1. Arc(O, 2 * n)
    BY DEF Bitonic
  <2>2. Arc(U, n) /\ Arc(D, n) /\ (D = {} \/ U = 0..(n - 1))
    <3> HIDE DEF O
    <3>1. /\ U \in SUBSET (0..(n - 1)) /\ D \in SUBSET (0..(n - 1))
          /\ \A i \in 0..(n - 1) : (i \in U) <=> (i \in O \/ i + n \in O)
          /\ \A i \in 0..(n - 1) : (i \in D) <=> (i \in O /\ i + n \in O)
      OBVIOUS
    <3> HIDE DEF U, D
    <3> QED
      BY <2>1, <3>1, ArcHalves
  <2>3. \A i \in 0..(n - 1) : /\ (i \in O <=> v[b + i] >= bound)
                             /\ (i + n \in O <=> v[b + (n + i)] >= bound)
    <3> SUFFICES ASSUME NEW i \in 0..(n - 1)
                 PROVE  /\ (i \in O <=> v[b + i] >= bound)
                        /\ (i + n \in O <=> v[b + (n + i)] >= bound)
      OBVIOUS
    <3>1. i \in 0..(2 * n - 1) /\ i + n \in 0..(2 * n - 1) /\ i + n = n + i
      OBVIOUS
    <3> QED
      BY <3>1 DEF Reach
  <2>4. Reach(w, b, n, bound) = U
    <3>1. \A i \in 0..(n - 1) : w[b + i] >= bound <=> i \in U
      <4> SUFFICES ASSUME NEW i \in 0..(n - 1)
                   PROVE  w[b + i] >= bound <=> i \in U
        OBVIOUS
      <4>1. w[b + i] >= bound <=> v[b + i] >= bound \/ v[b + (n + i)] >= bound
        BY <1>1, Compared
      <4> HIDE DEF O
      <4> QED
        BY <2>3, <4>1
    <3> HIDE DEF O
    <3> QED
      BY <3>1, Zenon DEF Reach
  <2>5. Reach(w, b + n, n, bound) = D
    <3>1. \A i \in 0..(n - 1) : w[(b + n) + i] >= bound <=> i \in D
      <4> SUFFICES ASSUME NEW i \in 0..(n - 1)
                   PROVE  w[(b + n) + i] >= bound <=> i \in D
        OBVIOUS
      <4>1. w[b + (n + i)] >= bound <=> v[b + i] >= bound /\ v[b + (n + i)] >= bound
        BY <1>1, Compared
      <4>2. (b + n) + i = b + (n + i)
        OBVIOUS
      <4>3. w[b + (n + i)] >= bound <=> i \in D
        <5> HIDE DEF O
        <5> QED
          BY <2>3, <4>1
      <4> QED
        BY <4>2, <4>3
    <3> HIDE DEF O
    <3> QED
      BY <3>1, Zenon DEF Reach
  <2> HIDE DEF U, D
  <2> QED
    BY <2>2, <2>4, <2>5
<1>3. Bitonic(w, b, n) /\ Bitonic(w, b + n, n)
  BY <1>2 DEF Bitonic
<1>4. ASSUME NEW i \in 0..(n - 1), NEW j \in 0..(n - 1)
      PROVE  w[b + i] >= w[b + (n + j)]
  <2> DEFINE bound == w[b + (n + j)]
  <2>1. bound \in Int
    BY <1>1 DEF Smaller
  <2>2. (b + n) + j = b + (n + j)
    OBVIOUS
  <2>3. j \in Reach(w, b + n, n, bound)
    BY <2>1, <2>2 DEF Reach
  <2> HIDE DEF bound
  <2>4. Reach(w, b, n, bound) = 0..(n - 1)
    BY <1>2, <2>1, <2>3
  <2>5. w[b + i] >= bound
    BY <2>4 DEF Reach
  <2> QED
    BY <2>5 DEF bound
<1> QED
  BY <1>3, <1>4

(***************************************************************************)
(* A run from place b on of k blocks of s values: the blocks are bitonic,  *)
(* and no value of a later block is larger than one of an earlier block.   *)
(***************************************************************************)
Stage(v, b, k, s) ==
    /\ \A p \in 0..(k - 1) : Bitonic(v, b + p * s, s)
    /\ \A p, q \in 0..(k - 1) : p < q =>
           \A x, y \in 0..(s - 1) : v[(b + p * s) + x] >= v[(b + q * s) + y]

(* n values from place b on, the largest first. *)
SortedRun(v, b, n) == \A x, y \in 0..(n - 1) : x < y => v[b + x] >= v[b + y]

(* A number below 2k is twice one below k, or one more. *)
LEMMA Halved ==
    ASSUME NEW k \in Nat, NEW q \in 0..(2 * k - 1)
    PROVE  \E p \in 0..(k - 1) : q = 2 * p \/ q = 2 * p + 1
<1>1. q \div 2 \in 0..(k - 1) /\ (q = 2 * (q \div 2) \/ q = 2 * (q \div 2) + 1)
  OBVIOUS
<1> QED
  BY <1>1

(* A place in a block is a place in the run. *)
LEMMA InRun ==
    ASSUME NEW k \in Nat, NEW s \in Nat, NEW p \in 0..(k - 1), NEW x \in 0..(s - 1)
    PROVE  p * s + x \in 0..(k * s - 1) /\ p * s \in Nat
<1>1. (k - 1 - p) * s >= 0 /\ p * s >= 0
  <2> DEFINE u == k - 1 - p
  <2>1. u \in Nat /\ p \in Nat
    OBVIOUS
  <2>2. u * s >= 0 /\ p * s >= 0
    <3> HIDE DEF u
    <3> QED
      BY <2>1
  <2> QED
    BY <2>2
<1>2. (k - 1 - p) * s = k * s - s - p * s /\ p * s \in Int /\ k * s \in Int
  OBVIOUS
<1> DEFINE e == p * s
           f == k * s
<1> HIDE DEF e, f
<1>3. e >= 0 /\ f - s - e >= 0 /\ e \in Int /\ f \in Int
  BY <1>1, <1>2 DEF e, f
<1>4. e + x \in 0..(f - 1) /\ e \in Nat
  BY <1>3
<1> QED
  BY <1>4 DEF e, f

(* Comparing the halves of every block leaves twice as many blocks of half *)
(* the size.                                                               *)
LEMMA StageHalves ==
    ASSUME NEW k \in Nat \ {0}, NEW d \in Nat \ {0}, NEW b \in Nat, NEW v, NEW w,
           \A i \in 0..(k * (2 * d) - 1) : v[b + i] \in Int,
           Stage(v, b, k, 2 * d),
           \A p \in 0..(k - 1) : \A i \in 0..(d - 1) :
              /\ w[(b + p * (2 * d)) + i]
                   = Larger(v[(b + p * (2 * d)) + i], v[(b + p * (2 * d)) + (d + i)])
              /\ w[(b + p * (2 * d)) + (d + i)]
                   = Smaller(v[(b + p * (2 * d)) + i], v[(b + p * (2 * d)) + (d + i)])
    PROVE  Stage(w, b, 2 * k, d)
<1>1. ASSUME NEW p \in 0..(k - 1)
      PROVE  LET c == b + p * (2 * d)
             IN /\ c \in Nat
                /\ \A x \in 0..(2 * d - 1) : v[c + x] \in Int
                /\ Bitonic(v, c, 2 * d)
                /\ Bitonic(w, c, d) /\ Bitonic(w, c + d, d)
                /\ \A i, j \in 0..(d - 1) : w[c + i] >= w[c + (d + j)]
  <2> DEFINE c == b + p * (2 * d)
  <2>1. ASSUME NEW x \in 0..(2 * d - 1) PROVE c + x = b + (p * (2 * d) + x)
                                           /\ p * (2 * d) + x \in 0..(k * (2 * d) - 1)
    <3>1. p * (2 * d) + x \in 0..(k * (2 * d) - 1) /\ p * (2 * d) \in Nat
      BY InRun
    <3> QED
      BY <3>1
  <2>2. c \in Nat
    <3>1. 0 \in 0..(2 * d - 1)
      OBVIOUS
    <3>2. p * (2 * d) \in Nat
      BY <3>1, InRun
    <3> QED
      BY <3>2
  <2>3. \A x \in 0..(2 * d - 1) : v[c + x] \in Int
    <3> HIDE DEF c
    <3> QED
      BY <2>1
  <2>4. Bitonic(v, c, 2 * d)
    BY DEF Stage
  <2>5. \A i \in 0..(d - 1) : /\ w[c + i] = Larger(v[c + i], v[c + (d + i)])
                             /\ w[c + (d + i)] = Smaller(v[c + i], v[c + (d + i)])
    OBVIOUS
  <2> HIDE DEF c
  <2>6. /\ Bitonic(w, c, d) /\ Bitonic(w, c + d, d)
        /\ \A i, j \in 0..(d - 1) : w[c + i] >= w[c + (d + j)]
    BY <2>2, <2>3, <2>4, <2>5, HalfClean
  <2> QED
    BY <2>2, <2>3, <2>4, <2>6 DEF c
<1> DEFINE C(p) == b + p * (2 * d)
           E(q) == b + q * d
<1>2. ASSUME NEW q \in 0..(2 * k - 1)
      PROVE  \E p \in 0..(k - 1) : \/ q = 2 * p /\ E(q) = C(p)
                                   \/ q = 2 * p + 1 /\ E(q) = C(p) + d
  <2>1. PICK p \in 0..(k - 1) : q = 2 * p \/ q = 2 * p + 1
    BY Halved
  <2>2. (2 * p) * d = p * (2 * d) /\ (2 * p + 1) * d = p * (2 * d) + d
    OBVIOUS
  <2>3. p * (2 * d) \in Int
    OBVIOUS
  <2>4. q = 2 * p => E(q) = C(p)
    BY <2>2
  <2>5. q = 2 * p + 1 => q * d = p * (2 * d) + d
    BY <2>2
  <2>6. q = 2 * p + 1 => E(q) = C(p) + d
    BY <2>3, <2>5
  <2> HIDE DEF C, E
  <2> QED
    BY <2>1, <2>4, <2>6
<1>c. \A p \in 0..(k - 1) :
         /\ C(p) \in Nat
         /\ \A x \in 0..(2 * d - 1) : v[C(p) + x] \in Int
         /\ Bitonic(w, C(p), d) /\ Bitonic(w, C(p) + d, d)
         /\ \A i, j \in 0..(d - 1) : w[C(p) + i] >= w[C(p) + (d + j)]
  BY <1>1
<1>s. \A p, q \in 0..(k - 1) : p < q =>
         \A x, y \in 0..(2 * d - 1) : v[C(p) + x] >= v[C(q) + y]
  BY DEF Stage
<1>w. \A p \in 0..(k - 1) : \A i \in 0..(d - 1) :
              /\ w[C(p) + i] = Larger(v[C(p) + i], v[C(p) + (d + i)])
              /\ w[C(p) + (d + i)] = Smaller(v[C(p) + i], v[C(p) + (d + i)])
  OBVIOUS
<1>3. ASSUME NEW q \in 0..(2 * k - 1) PROVE Bitonic(w, b + q * d, d)
  <2>1. PICK p \in 0..(k - 1) : E(q) = C(p) \/ E(q) = C(p) + d
    BY <1>2
  <2>2. Bitonic(w, E(q), d)
    <3> HIDE DEF C, E
    <3> QED
      BY <1>c, <2>1
  <2> QED
    BY <2>2
<1>4. ASSUME NEW p \in 0..(2 * k - 1), NEW q \in 0..(2 * k - 1), p < q,
             NEW x \in 0..(d - 1), NEW y \in 0..(d - 1)
      PROVE  w[E(p) + x] >= w[E(q) + y]
  <2>1. PICK g \in 0..(k - 1) : \/ p = 2 * g /\ E(p) = C(g)
                                \/ p = 2 * g + 1 /\ E(p) = C(g) + d
    BY <1>2
  <2>2. PICK h \in 0..(k - 1) : \/ q = 2 * h /\ E(q) = C(h)
                                \/ q = 2 * h + 1 /\ E(q) = C(h) + d
    BY <1>2
  <2>i. C(g) \in Nat /\ C(h) \in Nat
    BY <1>c
  <2> HIDE DEF C, E
  <2>3. x \in 0..(2 * d - 1) /\ d + x \in 0..(2 * d - 1)
        /\ y \in 0..(2 * d - 1) /\ d + y \in 0..(2 * d - 1)
    OBVIOUS
  <2>e. (C(g) + d) + x = C(g) + (d + x) /\ (C(h) + d) + y = C(h) + (d + y)
    BY <2>i
  <2>4. CASE g = h
    <3>1. p = 2 * g /\ q = 2 * g + 1
      BY <1>4, <2>1, <2>2, <2>4
    <3>2. E(p) = C(g) /\ E(q) = C(g) + d
      BY <2>1, <2>2, <2>4, <3>1
    <3> QED
      BY <1>c, <2>e, <2>4, <3>2
  <2>5. CASE g < h
    <3>1. PICK x0 \in 0..(2 * d - 1) : w[E(p) + x] = v[C(g) + x0]
      <4>1. w[C(g) + x] \in {v[C(g) + x], v[C(g) + (d + x)]}
            /\ w[C(g) + (d + x)] \in {v[C(g) + x], v[C(g) + (d + x)]}
        BY <1>w DEF Larger, Smaller
      <4>2. E(p) + x = C(g) + x \/ E(p) + x = C(g) + (d + x)
        BY <2>1, <2>e
      <4> QED
        BY <2>3, <4>1, <4>2, Zenon
    <3>2. PICK y0 \in 0..(2 * d - 1) : w[E(q) + y] = v[C(h) + y0]
      <4>1. w[C(h) + y] \in {v[C(h) + y], v[C(h) + (d + y)]}
            /\ w[C(h) + (d + y)] \in {v[C(h) + y], v[C(h) + (d + y)]}
        BY <1>w DEF Larger, Smaller
      <4>2. E(q) + y = C(h) + y \/ E(q) + y = C(h) + (d + y)
        BY <2>2, <2>e
      <4> QED
        BY <2>3, <4>1, <4>2, Zenon
    <3> QED
      BY <1>s, <2>5, <3>1, <3>2
  <2>6. ~(h < g)
    BY <1>4, <2>1, <2>2
  <2> QED
    BY <2>4, <2>5, <2>6
<1> QED
  BY <1>3, <1>4 DEF Stage

(* Blocks of one value are a sorted run. *)
LEMMA StageSorts ==
    ASSUME NEW n \in Nat, NEW b \in Nat, NEW v, Stage(v, b, n, 1)
    PROVE  SortedRun(v, b, n)
<1> SUFFICES ASSUME NEW x \in 0..(n - 1), NEW y \in 0..(n - 1), x < y
             PROVE  v[b + x] >= v[b + y]
  BY DEF SortedRun
<1>1. v[(b + x * 1) + 0] >= v[(b + y * 1) + 0]
  BY DEF Stage
<1>2. (b + x * 1) + 0 = b + x /\ (b + y * 1) + 0 = b + y
  OBVIOUS
<1> QED
  BY <1>1, <1>2

(* A run that falls and then one that rises are bitonic together. *)
LEMMA TwoRuns ==
    ASSUME NEW d \in Nat, NEW b \in Nat, NEW u,
           \A i \in 0..(2 * d - 1) : u[b + i] \in Int,
           SortedRun(u, b, d),
           \A x, y \in 0..(d - 1) : x < y => u[b + (d + x)] <= u[b + (d + y)]
    PROVE  Stage(u, b, 1, 2 * d)
<1>1. ASSUME NEW bound \in Int PROVE Arc(Reach(u, b, 2 * d, bound), 2 * d)
  <2> DEFINE O == Reach(u, b, 2 * d, bound)
             T == {i \in 0..(2 * d - 1) : ~(u[b + i] >= bound)}
             V == {j \in Nat : \A i \in T : i < j}
  <2>1. O = (0..(2 * d - 1)) \ T
    BY DEF Reach
  <2>2. CASE T = {}
    <3> HIDE DEF O, T
    <3>1. O = (0..(2 * d - 1)) \ (0..(0 - 1)) /\ 0 \in 0..(2 * d)
      <4>1. 0..(0 - 1) = {}
        OBVIOUS
      <4> QED
        BY <2>1, <2>2, <4>1
    <3>2. Arc(O, 2 * d)
      BY <3>1 DEF Arc
    <3> QED
      BY <3>2 DEF O
  <2>3. CASE T # {}
    <3>1. T \subseteq Nat /\ 2 * d \in V /\ V \subseteq Nat
      OBVIOUS
    <3>2. PICK x \in T : \A i \in T : x <= i
      <4> HIDE DEF T
      <4> QED
        BY <2>3, <3>1, LeastNatural
    <3>3. PICK y \in V : \A j \in V : y <= j
      <4> HIDE DEF V
      <4> QED
        BY <3>1, LeastNatural
    <3>4. x < y /\ y <= 2 * d /\ x \in 0..(2 * d) /\ y \in 0..(2 * d) /\ y - 1 \in Nat
      BY <3>1, <3>2, <3>3
    <3>5. y - 1 \in T
      <4> SUFFICES ASSUME y - 1 \notin T PROVE FALSE
        OBVIOUS
      <4>1. ASSUME NEW i \in T PROVE i < y - 1
        <5>1. i < y /\ i # y - 1 /\ i \in Int /\ y \in Int
          BY <3>3
        <5> QED
          BY <5>1
      <4>2. y - 1 \in V
        BY <3>4, <4>1
      <4>3. y <= y - 1
        <5> HIDE DEF V
        <5> QED
          BY <3>3, <4>2
      <4> QED
        BY <3>4, <4>3
    <3>6. ASSUME NEW i \in x..(y - 1) PROVE i \in T
      <4>1. i \in 0..(2 * d - 1) /\ x <= i /\ i <= y - 1 /\ x \in Int /\ y \in Int /\ i \in Int
        BY <3>4
      <4>2. CASE i < d
        <5>1. x \in 0..(d - 1) /\ i \in 0..(d - 1)
          BY <4>1, <4>2, <3>4
        <5>2. x = i \/ u[b + x] >= u[b + i]
          BY <4>1, <5>1 DEF SortedRun
        <5>3. ~(u[b + x] >= bound) /\ u[b + x] \in Int /\ u[b + i] \in Int
          BY <3>2, <4>1
        <5> QED
          BY <4>1, <5>2, <5>3
      <4>3. CASE ~(i < d)
        <5> DEFINE g == i - d
                   h == (y - 1) - d
        <5>1. g \in 0..(d - 1) /\ h \in 0..(d - 1) /\ d + g = i /\ d + h = y - 1
          BY <3>4, <4>1, <4>3
        <5>2. g = h \/ g < h
          BY <4>1, <4>3, <5>1
        <5> HIDE DEF g, h
        <5>3. g = h \/ u[b + (d + g)] <= u[b + (d + h)]
          BY <5>1, <5>2
        <5>4. i = y - 1 \/ u[b + i] <= u[b + (y - 1)]
          BY <5>1, <5>3
        <5>5. ~(u[b + (y - 1)] >= bound) /\ u[b + (y - 1)] \in Int /\ u[b + i] \in Int
          BY <3>5, <4>1
        <5> QED
          BY <4>1, <5>4, <5>5
      <4> QED
        BY <4>2, <4>3
    <3>7. ASSUME NEW i \in T PROVE i \in x..(y - 1)
      <4>1. x <= i /\ i < y /\ i \in Int
        BY <3>2, <3>3
      <4> QED
        BY <3>4, <4>1
    <3>8. T = x..(y - 1)
      <4> HIDE DEF T
      <4> QED
        BY <3>6, <3>7, Zenon
    <3> HIDE DEF O, T, V
    <3>9. Arc(O, 2 * d)
      BY <2>1, <3>4, <3>8 DEF Arc
    <3> QED
      BY <3>9 DEF O
  <2> QED
    BY <2>2, <2>3
<1>2. Bitonic(u, b, 2 * d)
  BY <1>1 DEF Bitonic
<1>3. \A p \in 0..(1 - 1) : p = 0 /\ b + p * (2 * d) = b
  OBVIOUS
<1>4. \A p \in 0..(1 - 1) : Bitonic(u, b + p * (2 * d), 2 * d)
  BY <1>2, <1>3
<1>5. \A p, q \in 0..(1 - 1) : ~(p < q)
  OBVIOUS
<1> QED
  BY <1>4, <1>5 DEF Stage

(* The places of the network. *)
LEMMA SlotFacts ==
    /\ 2^L \in Nat /\ IsFiniteSet(Slots) /\ Slots \subseteq Nat
    /\ IsFiniteSet(A) /\ A \subseteq Slots /\ Cardinality(A) = Anchors
    /\ K \subseteq A /\ Anchors \in Nat \ {0} /\ TopK \in Nat \ {0}
<1>1. 2^L \in Nat
  BY PowerDoubles, ChoiceAssumption
<1> DEFINE n == 2^L
<1>2. n \in Nat /\ Slots = 0..(n - 1) /\ Anchors \in 1..n /\ TopK \in 1..Anchors
  BY <1>1, ChoiceAssumption DEF Slots
<1> HIDE DEF n
<1>3. IsFiniteSet(0..(n - 1)) /\ IsFiniteSet(0..(Anchors - 1))
      /\ Cardinality(0..(Anchors - 1)) = Anchors
  BY <1>2, FS_Interval
<1> QED
  BY <1>1, <1>2, <1>3 DEF A, K

(***************************************************************************)
(* w has the values of v in another order.                                 *)
(***************************************************************************)
Rearranges(w, v) ==
    /\ w \in [Slots -> Int]
    /\ \A s \in Int : Cardinality({i \in Slots : w[i] = s})
                        = Cardinality({i \in Slots : v[i] = s})

(* It does if it takes each value of v from one place. *)
LEMMA Rearranging ==
    ASSUME NEW v \in [Slots -> Int], NEW w, w = [i \in Slots |-> w[i]],
           NEW f, NEW g,
           \A i \in Slots : /\ f[i] \in Slots /\ g[i] \in Slots
                            /\ f[g[i]] = i /\ g[f[i]] = i
                            /\ w[i] = v[f[i]]
    PROVE  Rearranges(w, v)
<1>1. w \in [Slots -> Int]
  OBVIOUS
<1>2. ASSUME NEW s \in Int
      PROVE  Cardinality({i \in Slots : w[i] = s}) = Cardinality({i \in Slots : v[i] = s})
  <2> DEFINE P == {i \in Slots : w[i] = s}
             Q == {i \in Slots : v[i] = s}
             h == [i \in P |-> f[i]]
  <2>1. h \in [P -> Q]
    OBVIOUS
  <2>2. \A t \in Q : \E i \in P : h[i] = t
    <3> SUFFICES ASSUME NEW t \in Q PROVE \E i \in P : h[i] = t
      OBVIOUS
    <3>1. g[t] \in P /\ f[g[t]] = t
      OBVIOUS
    <3> QED
      BY <3>1
  <2>3. \A i, j \in P : h[i] = h[j] => i = j
    OBVIOUS
  <2>4. IsFiniteSet(P)
    BY SlotFacts, FS_Subset
  <2> HIDE DEF P, Q, h
  <2>5. h \in Bijection(P, Q)
    BY <2>1, <2>2, <2>3, Zenon DEF Bijection, Injection, Surjection, IsInjective
  <2>6. ExistsBijection(P, Q)
    BY <2>5 DEF ExistsBijection
  <2> QED
    BY <2>4, <2>6, FS_Bijection DEF P, Q
<1> QED
  BY <1>1, <1>2 DEF Rearranges

(* Rearranging what was rearranged. *)
LEMMA RearrangesTwice ==
    ASSUME NEW u, NEW v, NEW w, Rearranges(v, u), Rearranges(w, v)
    PROVE  Rearranges(w, u)
BY DEF Rearranges

(* m * s places in blocks of s. *)
LEMMA Places ==
    ASSUME NEW m \in Nat, NEW s \in Nat \ {0}, m * s = 2^L
    PROVE  /\ \A e \in 0..(m - 1) : \A x \in 0..(s - 1) : e * s + x \in Slots
           /\ \A i \in Slots : \E e \in 0..(m - 1) : \E x \in 0..(s - 1) : i = e * s + x
<1>1. ASSUME NEW e \in 0..(m - 1), NEW x \in 0..(s - 1) PROVE e * s + x \in Slots
  BY InRun DEF Slots
<1>2. ASSUME NEW i \in Slots
      PROVE  \E e \in 0..(m - 1) : \E x \in 0..(s - 1) : i = e * s + x
  <2>1. i \in Int /\ 0 <= i /\ i < m * s
    BY SlotFacts DEF Slots
  <2> DEFINE e == i \div s
             x == i % s
  <2>2. e \in Int /\ x \in 0..(s - 1) /\ i = e * s + x
    BY <2>1, Divide
  <2> HIDE DEF e, x
  <2>3. e >= 0
    <3> SUFFICES ASSUME e <= -1 PROVE FALSE
      BY <2>2
    <3>1. e * s <= -s
      BY <2>2
    <3> QED
      BY <2>1, <2>2, <3>1
  <2>4. e <= m - 1
    <3> SUFFICES ASSUME e - m >= 0 PROVE FALSE
      BY <2>2
    <3>1. (e - m) * s >= 0
      BY <2>2
    <3>2. (e - m) * s = e * s - m * s /\ e * s \in Int /\ m * s \in Int
      BY <2>2
    <3> QED
      BY <2>1, <2>2, <3>1, <3>2
  <2> QED
    BY <2>2, <2>3, <2>4
<1> QED
  BY <1>1, <1>2

(* The same in pairs of places d apart. *)
PairsIn(m, d) ==
    \A e \in 0..(m - 1) : \A x \in 0..(d - 1) :
        /\ e * (2 * d) + x \in Slots /\ e * (2 * d) + (d + x) \in Slots
        /\ (e * (2 * d) + x) + d = e * (2 * d) + (d + x)
        /\ (e * (2 * d) + (d + x)) - d = e * (2 * d) + x
        /\ ((e * (2 * d) + x) \div d) % 2 = 0
        /\ ((e * (2 * d) + (d + x)) \div d) % 2 = 1

(* The pairs are inside the network, and i \div d tells their first place  *)
(* from their second.                                                      *)
LEMMA Pairs ==
    ASSUME NEW m \in Nat, NEW d \in Nat \ {0}, m * (2 * d) = 2^L
    PROVE  PairsIn(m, d)
<1>1. ASSUME NEW e \in 0..(m - 1), NEW x \in 0..(d - 1)
      PROVE  /\ e * (2 * d) + x \in Slots /\ e * (2 * d) + (d + x) \in Slots
             /\ (e * (2 * d) + x) + d = e * (2 * d) + (d + x)
             /\ (e * (2 * d) + (d + x)) - d = e * (2 * d) + x
             /\ ((e * (2 * d) + x) \div d) % 2 = 0
             /\ ((e * (2 * d) + (d + x)) \div d) % 2 = 1
  <2>1. x \in 0..(2 * d - 1) /\ d + x \in 0..(2 * d - 1) /\ 2 * d \in Nat \ {0}
    OBVIOUS
  <2>2. e * (2 * d) + x \in Slots /\ e * (2 * d) + (d + x) \in Slots
    BY <2>1, Places
  <2>3. /\ e * (2 * d) + x = (2 * e) * d + x
        /\ e * (2 * d) + (d + x) = (2 * e + 1) * d + x
        /\ 2 * e \in Int /\ 2 * e + 1 \in Int
    OBVIOUS
  <2>4. (e * (2 * d) + x) \div d = 2 * e /\ (e * (2 * d) + (d + x)) \div d = 2 * e + 1
    BY <2>3, Quotient
  <2>5. (2 * e) % 2 = 0 /\ (2 * e + 1) % 2 = 1
    OBVIOUS
  <2>6. e * (2 * d) \in Int
    OBVIOUS
  <2>7. /\ (e * (2 * d) + x) + d = e * (2 * d) + (d + x)
        /\ (e * (2 * d) + (d + x)) - d = e * (2 * d) + x
    BY <2>6
  <2> QED
    BY <2>2, <2>4, <2>5, <2>7
<1> QED
  BY <1>1 DEF PairsIn

(* Every place is in a pair. *)
LEMMA PairOf ==
    ASSUME NEW m \in Nat, NEW d \in Nat \ {0}, m * (2 * d) = 2^L, NEW i \in Slots
    PROVE  \E e \in 0..(m - 1) : \E x \in 0..(d - 1) :
               i = e * (2 * d) + x \/ i = e * (2 * d) + (d + x)
<1>1. 2 * d \in Nat \ {0}
  OBVIOUS
<1>2. PICK e \in 0..(m - 1), y \in 0..(2 * d - 1) : i = e * (2 * d) + y
  BY <1>1, Places
<1>3. CASE y < d
  <2>1. y \in 0..(d - 1)
    BY <1>3
  <2> QED
    BY <1>2, <2>1
<1>4. CASE ~(y < d)
  <2>1. y - d \in 0..(d - 1) /\ d + (y - d) = y
    BY <1>4
  <2> QED
    BY <1>2, <2>1
<1> QED
  BY <1>3, <1>4

(* An exchange compares the two values of each pair. *)
Compares(w, v, m, d) ==
    \A e \in 0..(m - 1) : \A x \in 0..(d - 1) :
        /\ w[e * (2 * d) + x] = Larger(v[e * (2 * d) + x], v[e * (2 * d) + (d + x)])
        /\ w[e * (2 * d) + (d + x)] = Smaller(v[e * (2 * d) + x], v[e * (2 * d) + (d + x)])

(* The kernel of an exchange, with its arithmetic on the index, does just  *)
(* that.                                                                   *)
LEMMA ExchangeCompares ==
    ASSUME NEW m \in Nat, NEW d \in Nat \ {0}, m * (2 * d) = 2^L, NEW v
    PROVE  Compares(Exchange(v, d), v, m, d)
<1>0. PairsIn(m, d)
  BY Pairs
<1>1. ASSUME NEW e \in 0..(m - 1), NEW x \in 0..(d - 1)
      PROVE  LET i == e * (2 * d) + x
                 j == e * (2 * d) + (d + x)
             IN Exchange(v, d)[i] = Larger(v[i], v[j]) /\ Exchange(v, d)[j] = Smaller(v[i], v[j])
  <2> DEFINE i == e * (2 * d) + x
             j == e * (2 * d) + (d + x)
  <2>1. /\ i \in Slots /\ j \in Slots /\ i + d = j /\ j - d = i
        /\ (i \div d) % 2 = 0 /\ (j \div d) % 2 = 1
    BY <1>0 DEF PairsIn
  <2> HIDE DEF i, j
  <2>2. /\ Exchange(v, d)[i] = Larger(v[i], v[i + d])
        /\ Exchange(v, d)[j] = Smaller(v[j - d], v[j])
    BY <2>1 DEF Exchange
  <2> QED
    BY <2>1, <2>2 DEF i, j
<1> QED
  BY <1>1 DEF Compares

(* An exchange neither loses nor doubles a value. *)
LEMMA ExchangeRearranges ==
    ASSUME NEW m \in Nat, NEW d \in Nat \ {0}, m * (2 * d) = 2^L, NEW v \in [Slots -> Int]
    PROVE  Rearranges(Exchange(v, d), v)
<1> DEFINE w == Exchange(v, d)
           f == [i \in Slots |->
                   IF (i \div d) % 2 = 0 THEN (IF v[i] < v[i + d] THEN i + d ELSE i)
                   ELSE (IF v[i - d] < v[i] THEN i - d ELSE i)]
<1>0. PairsIn(m, d) /\ Compares(w, v, m, d)
  BY Pairs, ExchangeCompares
<1>1. ASSUME NEW e \in 0..(m - 1), NEW x \in 0..(d - 1)
      PROVE  LET i == e * (2 * d) + x
                 j == e * (2 * d) + (d + x)
             IN /\ f[i] \in Slots /\ f[f[i]] = i /\ w[i] = v[f[i]]
                /\ f[j] \in Slots /\ f[f[j]] = j /\ w[j] = v[f[j]]
  <2> DEFINE i == e * (2 * d) + x
             j == e * (2 * d) + (d + x)
  <2> HIDE DEF w
  <2>1. /\ i \in Slots /\ j \in Slots /\ i + d = j /\ j - d = i
        /\ (i \div d) % 2 = 0 /\ (j \div d) % 2 = 1
    BY <1>0 DEF PairsIn
  <2>2. w[i] = Larger(v[i], v[j]) /\ w[j] = Smaller(v[i], v[j])
    BY <1>0 DEF Compares
  <2> HIDE DEF i, j
  <2>3. f[i] = IF v[i] < v[j] THEN j ELSE i
    BY <2>1
  <2>4. f[j] = IF v[i] < v[j] THEN i ELSE j
    BY <2>1
  <2> HIDE DEF f
  <2>5. /\ f[i] \in Slots /\ f[f[i]] = i /\ w[i] = v[f[i]]
        /\ f[j] \in Slots /\ f[f[j]] = j /\ w[j] = v[f[j]]
    BY <2>1, <2>2, <2>3, <2>4 DEF Larger, Smaller
  <2> QED
    BY <2>5 DEF i, j
<1>2. w = [i \in Slots |-> w[i]]
  BY DEF Exchange
<1>3. \A i \in Slots : f[i] \in Slots /\ f[f[i]] = i /\ w[i] = v[f[i]]
  <2> HIDE DEF f, w
  <2> SUFFICES ASSUME NEW i \in Slots PROVE f[i] \in Slots /\ f[f[i]] = i /\ w[i] = v[f[i]]
    BY Zenon
  <2>1. PICK e \in 0..(m - 1), x \in 0..(d - 1) : i = e * (2 * d) + x \/ i = e * (2 * d) + (d + x)
    BY PairOf
  <2> QED
    BY <1>1, <2>1
<1> HIDE DEF f, w
<1>4. Rearranges(w, v)
  BY <1>2, <1>3, Rearranging
<1> QED
  BY <1>4 DEF w

(***************************************************************************)
(* The whole network as R runs of k blocks of s values.                    *)
(***************************************************************************)
Staged(v, R, k, s) == \A r \in 0..(R - 1) : Stage(v, r * (k * s), k, s)
SortedRuns(v, R, n) == \A r \in 0..(R - 1) : SortedRun(v, r * n, n)

(* An exchange of half the block size takes every run one stage on. *)
LEMMA ExchangeStages ==
    ASSUME NEW R \in Nat, NEW k \in Nat \ {0}, NEW d \in Nat \ {0},
           R * (k * (2 * d)) = 2^L,
           NEW v \in [Slots -> Int], Staged(v, R, k, 2 * d)
    PROVE  Staged(Exchange(v, d), R, 2 * k, d)
<1> DEFINE m == R * k
           w == Exchange(v, d)
<1>1. m \in Nat /\ m * (2 * d) = 2^L /\ k * (2 * d) \in Nat
  <2>1. m * (2 * d) = R * (k * (2 * d)) /\ m \in Nat /\ k * (2 * d) \in Nat
    OBVIOUS
  <2> QED
    BY <2>1
<1> HIDE DEF m
<1>2. Compares(w, v, m, d)
  BY <1>1, ExchangeCompares
<1> HIDE DEF w
<1> SUFFICES ASSUME NEW r \in 0..(R - 1) PROVE Stage(w, r * ((2 * k) * d), 2 * k, d)
  BY DEF Staged, w
<1> DEFINE b == r * (k * (2 * d))
<1>3. b \in Nat /\ b = r * ((2 * k) * d)
  OBVIOUS
<1>4. Stage(v, b, k, 2 * d)
  BY DEF Staged
<1>5. ASSUME NEW i \in 0..(k * (2 * d) - 1) PROVE v[b + i] \in Int
  <2>1. b + i \in Slots
    BY InRun, <1>1 DEF Slots
  <2> QED
    BY <2>1
<1>6. ASSUME NEW p \in 0..(k - 1), NEW i \in 0..(d - 1)
      PROVE  /\ w[(b + p * (2 * d)) + i]
                   = Larger(v[(b + p * (2 * d)) + i], v[(b + p * (2 * d)) + (d + i)])
             /\ w[(b + p * (2 * d)) + (d + i)]
                   = Smaller(v[(b + p * (2 * d)) + i], v[(b + p * (2 * d)) + (d + i)])
  <2> DEFINE e == r * k + p
  <2>1. e \in 0..(m - 1)
    BY InRun DEF m
  <2>2. b + p * (2 * d) = e * (2 * d)
    OBVIOUS
  <2> HIDE DEF b, e
  <2> QED
    BY <1>2, <2>1, <2>2 DEF Compares
<1> HIDE DEF b
<1>7. Stage(w, b, 2 * k, d)
  BY <1>3, <1>4, <1>5, <1>6, StageHalves
<1> QED
  BY <1>3, <1>7

(* The places in groups of four quarters of d: the x-th of quarter c. *)
Place(d, e, c, x) == (4 * e + c) * d + x

(* The arithmetic of the mirror kernel finds quarter and place. *)
QuartersIn(m, d) ==
    \A e \in 0..(m - 1) : \A c \in 0..3 : \A x \in 0..(d - 1) :
        /\ Place(d, e, c, x) \in Slots
        /\ (Place(d, e, c, x) \div d) % 4 = c
        /\ Place(d, e, c, x) % d = x

(* It does for every d of which the network has a multiple of four. *)
LEMMA Quarters ==
    ASSUME NEW m \in Nat, NEW d \in Nat \ {0}, m * (4 * d) = 2^L
    PROVE  QuartersIn(m, d)
<1>1. ASSUME NEW e \in 0..(m - 1), NEW c \in 0..3, NEW x \in 0..(d - 1)
      PROVE  /\ Place(d, e, c, x) \in Slots
             /\ (Place(d, e, c, x) \div d) % 4 = c
             /\ Place(d, e, c, x) % d = x
  <2> DEFINE q == 4 * e + c
  <2>1. q \in 0..((4 * m) - 1) /\ q \in Int /\ 4 * m \in Nat /\ q % 4 = c
    OBVIOUS
  <2>2. (4 * m) * d = 2^L
    OBVIOUS
  <2>0. Place(d, e, c, x) = q * d + x
    BY DEF Place
  <2> HIDE DEF q
  <2>3. q * d + x \in Slots
    BY <2>1, <2>2, Places
  <2>4. (q * d + x) \div d = q /\ (q * d + x) % d = x
    BY <2>1, Quotient
  <2> QED
    BY <2>0, <2>1, <2>3, <2>4
<1> QED
  BY <1>1 DEF QuartersIn

(* Every place is in a quarter. *)
LEMMA QuarterOf ==
    ASSUME NEW m \in Nat, NEW d \in Nat \ {0}, m * (4 * d) = 2^L, NEW i \in Slots
    PROVE  \E e \in 0..(m - 1), c \in 0..3, x \in 0..(d - 1) : i = Place(d, e, c, x)
<1>1. (4 * m) * d = 2^L /\ 4 * m \in Nat
  OBVIOUS
<1>2. PICK q \in 0..((4 * m) - 1), x \in 0..(d - 1) : i = q * d + x
  BY <1>1, Places
<1>3. q \div 4 \in 0..(m - 1) /\ q % 4 \in 0..3 /\ q = 4 * (q \div 4) + (q % 4)
  OBVIOUS
<1>4. i = Place(d, q \div 4, q % 4, x)
  BY <1>2, <1>3 DEF Place
<1> QED
  BY <1>3, <1>4

(* Mirror turns the second quarter round, and exchanges the last two, the  *)
(* third one turned round.                                                 *)
Turns(w, v, m, d) ==
    \A e \in 0..(m - 1) : \A x \in 0..(d - 1) :
        /\ w[Place(d, e, 0, x)] = v[Place(d, e, 0, x)]
        /\ w[Place(d, e, 1, x)] = v[Place(d, e, 1, d - 1 - x)]
        /\ w[Place(d, e, 2, x)] = v[Place(d, e, 3, x)]
        /\ w[Place(d, e, 3, x)] = v[Place(d, e, 2, d - 1 - x)]

(* Where the value at place i comes from in a mirror, and where it goes    *)
(* to.                                                                     *)
From(d) ==
    [i \in Slots |->
        LET quarter == (i \div d) % 4
            x == i % d
        IN CASE quarter = 0 -> i
             [] quarter = 1 -> (i - x) + (d - 1 - x)
             [] quarter = 2 -> i + d
             [] quarter = 3 -> (i - x) - d + (d - 1 - x)]

To(d) ==
    [i \in Slots |->
        LET quarter == (i \div d) % 4
            x == i % d
        IN CASE quarter = 0 -> i
             [] quarter = 1 -> (i - x) + (d - 1 - x)
             [] quarter = 2 -> (i - x) + d + (d - 1 - x)
             [] quarter = 3 -> i - d]

(* The two, quarter by quarter: each undoes the other. *)
LEMMA FromTo ==
    ASSUME NEW m \in Nat, NEW d \in Nat \ {0}, m * (4 * d) = 2^L,
           NEW e \in 0..(m - 1), NEW x \in 0..(d - 1)
    PROVE  LET P(c, y) == Place(d, e, c, y)
           IN /\ From(d)[P(0, x)] = P(0, x) /\ To(d)[P(0, x)] = P(0, x)
              /\ From(d)[P(1, x)] = P(1, d - 1 - x) /\ To(d)[P(1, x)] = P(1, d - 1 - x)
              /\ From(d)[P(2, x)] = P(3, x) /\ To(d)[P(2, x)] = P(3, d - 1 - x)
              /\ From(d)[P(3, x)] = P(2, d - 1 - x) /\ To(d)[P(3, x)] = P(2, x)
<1> DEFINE P(c, y) == Place(d, e, c, y)
<1>0. QuartersIn(m, d)
  BY Quarters
<1>1. ASSUME NEW c \in 0..3
      PROVE  P(c, x) \in Slots /\ (P(c, x) \div d) % 4 = c /\ P(c, x) % d = x
  BY <1>0 DEF QuartersIn
<1>2. /\ P(0, x) \in Int /\ P(1, x) \in Int /\ P(2, x) \in Int /\ P(3, x) \in Int
  BY DEF Place
<1>3. /\ (P(1, x) - x) + (d - 1 - x) = P(1, d - 1 - x)
      /\ P(2, x) + d = P(3, x)
      /\ (P(3, x) - x) - d + (d - 1 - x) = P(2, d - 1 - x)
      /\ (P(2, x) - x) + d + (d - 1 - x) = P(3, d - 1 - x)
      /\ P(3, x) - d = P(2, x)
  BY DEF Place
<1> HIDE DEF P
<1>4. From(d)[P(0, x)] = P(0, x) /\ To(d)[P(0, x)] = P(0, x)
  BY <1>1 DEF From, To
<1>5. From(d)[P(1, x)] = P(1, d - 1 - x) /\ To(d)[P(1, x)] = P(1, d - 1 - x)
  BY <1>1, <1>3 DEF From, To
<1>6. From(d)[P(2, x)] = P(3, x) /\ To(d)[P(2, x)] = P(3, d - 1 - x)
  BY <1>1, <1>3 DEF From, To
<1>7. From(d)[P(3, x)] = P(2, d - 1 - x) /\ To(d)[P(3, x)] = P(2, x)
  BY <1>1, <1>3 DEF From, To
<1> QED
  BY <1>4, <1>5, <1>6, <1>7 DEF P

(* The kernel of a mirror takes its values from there. *)
LEMMA MirrorFrom ==
    ASSUME NEW d \in Nat \ {0}, NEW v, NEW i \in Slots
    PROVE  Mirror(v, d)[i] = v[From(d)[i]]
<1> DEFINE q == (i \div d) % 4
<1>1. q \in 0..3
  BY SlotFacts
<1>2. CASE q = 0
  BY <1>2 DEF Mirror, From
<1>3. CASE q = 1
  BY <1>3 DEF Mirror, From
<1>4. CASE q = 2
  BY <1>4 DEF Mirror, From
<1>5. CASE q = 3
  BY <1>5 DEF Mirror, From
<1> QED
  BY <1>1, <1>2, <1>3, <1>4, <1>5

(* The kernel turns the quarters as said. *)
LEMMA MirrorTurns ==
    ASSUME NEW m \in Nat, NEW d \in Nat \ {0}, m * (4 * d) = 2^L, NEW v
    PROVE  Turns(Mirror(v, d), v, m, d)
<1>0. QuartersIn(m, d)
  BY Quarters
<1>1. ASSUME NEW e \in 0..(m - 1), NEW x \in 0..(d - 1)
      PROVE  LET P(c, y) == Place(d, e, c, y)
             IN /\ Mirror(v, d)[P(0, x)] = v[P(0, x)]
                /\ Mirror(v, d)[P(1, x)] = v[P(1, d - 1 - x)]
                /\ Mirror(v, d)[P(2, x)] = v[P(3, x)]
                /\ Mirror(v, d)[P(3, x)] = v[P(2, d - 1 - x)]
  <2> DEFINE P(c, y) == Place(d, e, c, y)
  <2>1. \A c \in 0..3 : P(c, x) \in Slots
    BY <1>0 DEF QuartersIn
  <2>2. /\ From(d)[P(0, x)] = P(0, x) /\ From(d)[P(1, x)] = P(1, d - 1 - x)
        /\ From(d)[P(2, x)] = P(3, x) /\ From(d)[P(3, x)] = P(2, d - 1 - x)
    BY FromTo
  <2> HIDE DEF P
  <2>3. \A c \in 0..3 : Mirror(v, d)[P(c, x)] = v[From(d)[P(c, x)]]
    BY <2>1, MirrorFrom
  <2> QED
    BY <2>2, <2>3 DEF P
<1> QED
  BY <1>1 DEF Turns

(* A mirror neither loses nor doubles a value. *)
LEMMA MirrorRearranges ==
    ASSUME NEW m \in Nat, NEW d \in Nat \ {0}, m * (4 * d) = 2^L, NEW v \in [Slots -> Int]
    PROVE  Rearranges(Mirror(v, d), v)
<1> DEFINE w == Mirror(v, d)
           f == From(d)
           g == To(d)
<1>0. QuartersIn(m, d)
  BY Quarters
<1>1. ASSUME NEW e \in 0..(m - 1), NEW c \in 0..3, NEW x \in 0..(d - 1)
      PROVE  LET i == Place(d, e, c, x)
             IN f[i] \in Slots /\ g[i] \in Slots /\ f[g[i]] = i /\ g[f[i]] = i
  <2> DEFINE P(a, y) == Place(d, e, a, y)
  <2>1. \A a \in 0..3 : \A y \in 0..(d - 1) : P(a, y) \in Slots
    BY <1>0 DEF QuartersIn
  <2>2. ASSUME NEW y \in 0..(d - 1)
        PROVE  /\ f[P(0, y)] = P(0, y) /\ g[P(0, y)] = P(0, y)
               /\ f[P(1, y)] = P(1, d - 1 - y) /\ g[P(1, y)] = P(1, d - 1 - y)
               /\ f[P(2, y)] = P(3, y) /\ g[P(2, y)] = P(3, d - 1 - y)
               /\ f[P(3, y)] = P(2, d - 1 - y) /\ g[P(3, y)] = P(2, y)
    BY FromTo
  <2> HIDE DEF P, f, g
  <2>3. d - 1 - x \in 0..(d - 1) /\ d - 1 - (d - 1 - x) = x
    OBVIOUS
  <2>4. /\ f[P(c, x)] \in Slots /\ g[P(c, x)] \in Slots
        /\ f[g[P(c, x)]] = P(c, x) /\ g[f[P(c, x)]] = P(c, x)
    <3>1. CASE c = 0
      BY <2>1, <2>2, <3>1
    <3>2. CASE c = 1
      BY <2>1, <2>2, <2>3, <3>2
    <3>3. CASE c = 2
      BY <2>1, <2>2, <2>3, <3>3
    <3>4. CASE c = 3
      BY <2>1, <2>2, <2>3, <3>4
    <3> QED
      BY <3>1, <3>2, <3>3, <3>4
  <2> QED
    BY <2>4 DEF P
<1>2. w = [i \in Slots |-> w[i]]
  <2> DEFINE M(i) == LET quarter == (i \div d) % 4
                         start == i - (i % d)
                         back == d - 1 - (i % d)
                     IN CASE quarter = 0 -> v[i]
                          [] quarter = 1 -> v[start + back]
                          [] quarter = 2 -> v[i + d]
                          [] quarter = 3 -> v[start - d + back]
  <2>1. w = [i \in Slots |-> M(i)]
    BY Zenon DEF Mirror
  <2> HIDE DEF M, w
  <2> QED
    BY <2>1
<1>3. \A i \in Slots : w[i] = v[f[i]]
  BY MirrorFrom
<1> HIDE DEF f, g, w
<1>4. \A i \in Slots : f[i] \in Slots /\ g[i] \in Slots /\ f[g[i]] = i /\ g[f[i]] = i
  <2> SUFFICES ASSUME NEW i \in Slots
               PROVE  f[i] \in Slots /\ g[i] \in Slots /\ f[g[i]] = i /\ g[f[i]] = i
    BY Zenon
  <2>1. PICK e \in 0..(m - 1), c \in 0..3, x \in 0..(d - 1) : i = Place(d, e, c, x)
    BY QuarterOf
  <2> QED
    BY <1>1, <2>1
<1>5. Rearranges(w, v)
  BY <1>2, <1>3, <1>4, Rearranging
<1> QED
  BY <1>5 DEF w

(* Sorted runs become bitonic pairs of runs. *)
LEMMA MirrorStages ==
    ASSUME NEW R \in Nat, NEW d \in Nat \ {0}, R * (4 * d) = 2^L,
           NEW v \in [Slots -> Int], SortedRuns(v, 4 * R, d)
    PROVE  Staged(Mirror(v, d), 2 * R, 1, 2 * d)
<1> DEFINE w == Mirror(v, d)
<1>1. Turns(w, v, R, d) /\ w \in [Slots -> Int]
  BY MirrorTurns, MirrorRearranges DEF Rearranges
<1> HIDE DEF w
<1>2. ASSUME NEW r \in 0..(2 * R - 1), NEW b \in Nat, b = r * (2 * d)
      PROVE  Stage(w, b, 1, 2 * d)
  <2>1. ASSUME NEW i \in 0..(2 * d - 1) PROVE w[b + i] \in Int
    <3>1. (2 * R) * (2 * d) = 2^L /\ 2 * R \in Nat /\ 2 * d \in Nat \ {0}
      OBVIOUS
    <3>2. b + i \in Slots
      BY <1>2, <3>1, Places
    <3> QED
      BY <1>1, <3>2
  <2>2. PICK g \in 0..(R - 1) : r = 2 * g \/ r = 2 * g + 1
    BY Halved
  <2>3. PICK c \in {0, 2} : b = Place(d, g, c, 0)
    <3>1. r = 2 * g => b = Place(d, g, 0, 0)
      BY <1>2 DEF Place
    <3>2. r = 2 * g + 1 => b = Place(d, g, 2, 0)
      BY <1>2 DEF Place
    <3> QED
      BY <2>2, <3>1, <3>2
  <2>4. \A x \in 0..(d - 1) : b + x = Place(d, g, c, x) /\ b + (d + x) = Place(d, g, c + 1, x)
    BY <2>3 DEF Place
  <2>5. PICK first \in 0..3, second \in 0..3 : \A x \in 0..(d - 1) :
           /\ w[b + x] = v[Place(d, g, first, x)]
           /\ w[b + (d + x)] = v[Place(d, g, second, d - 1 - x)]
    <3>1. CASE c = 0
      <4>1. \A x \in 0..(d - 1) : /\ w[b + x] = v[Place(d, g, 0, x)]
                                 /\ w[b + (d + x)] = v[Place(d, g, 1, d - 1 - x)]
        BY <1>1, <2>4, <3>1 DEF Turns
      <4> QED
        BY <4>1
    <3>2. CASE c = 2
      <4>1. \A x \in 0..(d - 1) : /\ w[b + x] = v[Place(d, g, 3, x)]
                                 /\ w[b + (d + x)] = v[Place(d, g, 2, d - 1 - x)]
        BY <1>1, <2>4, <3>2 DEF Turns
      <4> QED
        BY <4>1
    <3> QED
      BY <3>1, <3>2
  <2>6. ASSUME NEW a \in 0..3, NEW x \in 0..(d - 1), NEW y \in 0..(d - 1), x < y
        PROVE  v[Place(d, g, a, x)] >= v[Place(d, g, a, y)]
    <3> DEFINE q == 4 * g + a
    <3>1. q \in 0..(4 * R - 1)
      OBVIOUS
    <3>2. v[q * d + x] >= v[q * d + y]
      <4> HIDE DEF q
      <4> QED
        BY <2>6, <3>1 DEF SortedRuns, SortedRun
    <3> QED
      BY <3>2 DEF Place
  <2>7. SortedRun(w, b, d)
    BY <2>5, <2>6 DEF SortedRun
  <2>8. ASSUME NEW x \in 0..(d - 1), NEW y \in 0..(d - 1), x < y
        PROVE  w[b + (d + x)] <= w[b + (d + y)]
    <3>1. d - 1 - x \in 0..(d - 1) /\ d - 1 - y \in 0..(d - 1) /\ d - 1 - y < d - 1 - x
      BY <2>8
    <3>2. v[Place(d, g, second, d - 1 - y)] >= v[Place(d, g, second, d - 1 - x)]
      BY <2>6, <3>1
    <3>3. w[b + (d + y)] >= w[b + (d + x)]
      BY <2>5, <3>2
    <3>4. d + x \in 0..(2 * d - 1) /\ d + y \in 0..(2 * d - 1)
      OBVIOUS
    <3>5. w[b + (d + x)] \in Int /\ w[b + (d + y)] \in Int
      BY <2>1, <3>4
    <3> QED
      BY <3>3, <3>5
  <2> QED
    BY <2>1, <2>7, <2>8, TwoRuns
<1>3. ASSUME NEW r \in 0..(2 * R - 1) PROVE Stage(w, r * (1 * (2 * d)), 1, 2 * d)
  <2>1. r * (1 * (2 * d)) = r * (2 * d) /\ r * (2 * d) \in Nat
    OBVIOUS
  <2> QED
    BY <1>2, <2>1
<1> QED
  BY <1>3 DEF Staged, w

(* Fold is an exchange after the second half is turned round. *)
Turned(v, d) == [i \in Slots |-> IF i < d THEN v[i] ELSE v[3 * d - 1 - i]]

(* The turned half followed by an exchange is the kernel of the fold. *)
LEMMA FoldIs ==
    ASSUME NEW d \in Nat \ {0}, 2 * d = 2^L, NEW v \in [Slots -> Int]
    PROVE  /\ Fold(v, d) = Exchange(Turned(v, d), d)
           /\ Rearranges(Turned(v, d), v)
<1> DEFINE u == Turned(v, d)
           f == [i \in Slots |-> IF i < d THEN i ELSE 3 * d - 1 - i]
<1>0. Slots = 0..(2 * d - 1)
  BY DEF Slots
<1>1. \A i \in Slots : f[i] \in Slots /\ f[f[i]] = i
  <2> SUFFICES ASSUME NEW i \in Slots PROVE f[i] \in Slots /\ f[f[i]] = i
    BY Zenon
  <2>1. i \in 0..(2 * d - 1)
    BY <1>0
  <2>2. CASE i < d
    <3>1. f[i] = i
      BY <2>2
    <3> QED
      BY <3>1
  <2>3. CASE ~(i < d)
    <3>1. f[i] = 3 * d - 1 - i
      BY <2>3
    <3>2. 3 * d - 1 - i \in 0..(2 * d - 1) /\ ~(3 * d - 1 - i < d) /\ 3 * d - 1 - (3 * d - 1 - i) = i
      BY <2>1, <2>3
    <3>3. f[3 * d - 1 - i] = 3 * d - 1 - (3 * d - 1 - i)
      BY <1>0, <3>2
    <3> QED
      BY <1>0, <3>1, <3>2, <3>3
  <2> QED
    BY <2>2, <2>3
<1>2. u = [i \in Slots |-> u[i]] /\ \A i \in Slots : u[i] = v[f[i]]
  BY DEF Turned
<1>3. Rearranges(u, v)
  <2> HIDE DEF u, f
  <2> QED
    BY <1>1, <1>2, Rearranging
<1>4. ASSUME NEW i \in Slots PROVE Fold(v, d)[i] = Exchange(u, d)[i]
  <2>1. i \in 0..(2 * d - 1) /\ i \in Int
    BY <1>0
  <2>2. CASE i < d
    <3>1. i \div d = 0 /\ 0 % 2 = 0
      <4>1. i = 0 * d + i /\ i \in 0..(d - 1)
        BY <2>1, <2>2
      <4> QED
        BY <4>1, Quotient
    <3>2. i + d \in Slots /\ ~(i + d < d) /\ 3 * d - 1 - (i + d) = 2 * d - 1 - i
      BY <1>0, <2>1, <2>2
    <3>3. u[i] = v[i] /\ u[i + d] = v[2 * d - 1 - i]
      BY <2>2, <3>2 DEF Turned
    <3> HIDE DEF u
    <3>4. Exchange(u, d)[i] = Larger(u[i], u[i + d])
      BY <3>1 DEF Exchange
    <3>5. Fold(v, d)[i] = Larger(v[i], v[2 * d - 1 - i])
      BY <2>2 DEF Fold
    <3> QED
      BY <3>3, <3>4, <3>5
  <2>3. CASE ~(i < d)
    <3>1. i \div d = 1 /\ 1 % 2 = 1
      <4>1. i = 1 * d + (i - d) /\ i - d \in 0..(d - 1)
        BY <2>1, <2>3
      <4>2. \A p \in Int : p = 1 => (p * d + (i - d)) \div d = p
        BY <4>1, Quotient
      <4>3. (1 * d + (i - d)) \div d = 1
        BY <4>2
      <4> QED
        BY <4>1, <4>3
    <3>2. i - d \in Slots /\ i - d < d
      BY <1>0, <2>1, <2>3
    <3>3. u[i - d] = v[i - d] /\ u[i] = v[3 * d - 1 - i]
      BY <2>3, <3>2 DEF Turned
    <3> HIDE DEF u
    <3>4. Exchange(u, d)[i] = Smaller(u[i - d], u[i])
      BY <3>1 DEF Exchange
    <3>5. Fold(v, d)[i] = Smaller(v[i - d], v[3 * d - 1 - i])
      BY <2>3 DEF Fold
    <3> QED
      BY <3>3, <3>4, <3>5
  <2> QED
    BY <2>2, <2>3
<1>5. Fold(v, d) = Exchange(u, d)
  <2>1. /\ Fold(v, d) = [i \in Slots |-> Fold(v, d)[i]]
        /\ Exchange(u, d) = [i \in Slots |-> Exchange(u, d)[i]]
    <3> HIDE DEF u
    <3> QED
      BY DEF Fold, Exchange
  <2> QED
    BY <1>4, <2>1, Zenon
<1> QED
  BY <1>3, <1>5

(* Two sorted runs become one run of two blocks. *)
LEMMA FoldStages ==
    ASSUME NEW d \in Nat \ {0}, 2 * d = 2^L, NEW v \in [Slots -> Int],
           SortedRuns(v, 2, d)
    PROVE  Staged(Fold(v, d), 1, 2, d) /\ Rearranges(Fold(v, d), v)
<1> DEFINE u == Turned(v, d)
<1>0. Slots = 0..(2 * d - 1)
  BY DEF Slots
<1>1. u \in [Slots -> Int] /\ Rearranges(u, v) /\ Fold(v, d) = Exchange(u, d)
  BY FoldIs DEF Rearranges
<1>2. \A x \in 0..(d - 1) : u[x] = v[x] /\ u[d + x] = v[2 * d - 1 - x]
  <2> SUFFICES ASSUME NEW x \in 0..(d - 1) PROVE u[x] = v[x] /\ u[d + x] = v[2 * d - 1 - x]
    OBVIOUS
  <2>1. x \in Slots /\ d + x \in Slots /\ x < d /\ ~(d + x < d) /\ 3 * d - 1 - (d + x) = 2 * d - 1 - x
    BY <1>0
  <2> QED
    BY <2>1 DEF Turned
<1> HIDE DEF u
<1>3. /\ \A x, y \in 0..(d - 1) : x < y => v[x] >= v[y]
      /\ \A x, y \in 0..(d - 1) : x < y => v[d + x] >= v[d + y]
  <2>1. SortedRun(v, 0 * d, d) /\ SortedRun(v, 1 * d, d)
    BY DEF SortedRuns
  <2>2. 0 * d = 0 /\ 1 * d = d /\ \A x \in 0..(d - 1) : 0 + x = x
    OBVIOUS
  <2> QED
    BY <2>1, <2>2 DEF SortedRun
<1>4. Stage(u, 0, 1, 2 * d)
  <2>1. \A i \in 0..(2 * d - 1) : u[0 + i] \in Int
    BY <1>0, <1>1
  <2>2. SortedRun(u, 0, d)
    BY <1>2, <1>3 DEF SortedRun
  <2>3. ASSUME NEW x \in 0..(d - 1), NEW y \in 0..(d - 1), x < y
        PROVE  u[0 + (d + x)] <= u[0 + (d + y)]
    <3> DEFINE g == d - 1 - x
               h == d - 1 - y
    <3>1. /\ g \in 0..(d - 1) /\ h \in 0..(d - 1) /\ h < g
          /\ d + g = 2 * d - 1 - x /\ d + h = 2 * d - 1 - y
          /\ 0 + (d + x) = d + x /\ 0 + (d + y) = d + y
      BY <2>3
    <3> HIDE DEF g, h
    <3>2. v[d + h] >= v[d + g]
      BY <1>3, <3>1
    <3>3. u[d + x] = v[d + g] /\ u[d + y] = v[d + h]
      BY <1>2, <3>1
    <3>4. d + x \in Slots /\ d + y \in Slots
      BY <1>0
    <3>5. u[d + x] \in Int /\ u[d + y] \in Int
      BY <1>1, <3>4
    <3> QED
      BY <3>1, <3>2, <3>3, <3>5
  <2> QED
    BY <2>1, <2>2, <2>3, TwoRuns
<1>5. Staged(u, 1, 1, 2 * d)
  <2>1. \A r \in 0..(1 - 1) : r * (1 * (2 * d)) = 0
    OBVIOUS
  <2> QED
    BY <1>4, <2>1 DEF Staged
<1>6. 1 * (1 * (2 * d)) = 2^L
  OBVIOUS
<1>7. Staged(Exchange(u, d), 1, 2 * 1, d)
  BY <1>1, <1>5, <1>6, ExchangeStages
<1>8. Rearranges(Exchange(u, d), u)
  <2>1. 1 * (2 * d) = 2^L
    OBVIOUS
  <2> QED
    BY <1>1, <2>1, ExchangeRearranges
<1>9. 2 * 1 = 2
  OBVIOUS
<1> QED
  BY <1>1, <1>7, <1>8, <1>9, RearrangesTwice

(* Powers of two. *)
LEMMA PowerSum == ASSUME NEW a \in Nat, NEW b \in Nat PROVE 2^(a + b) = 2^a * 2^b
<1> DEFINE T == {n \in Nat : 2^(a + n) # 2^a * 2^n}
<1> SUFFICES ASSUME T # {} PROVE FALSE
  OBVIOUS
<1>1. PICK n \in T : \A y \in T : n <= y
  <2>1. T \subseteq Nat
    OBVIOUS
  <2> HIDE DEF T
  <2> QED
    BY <2>1, LeastNatural
<1>2. n \in Nat /\ 2^(a + n) # 2^a * 2^n
  OBVIOUS
<1>3. 2^a \in Nat
  BY PowerDoubles
<1>4. n # 0
  <2> SUFFICES ASSUME n = 0 PROVE FALSE
    OBVIOUS
  <2>1. a + n = a /\ 2^n = 1
    OBVIOUS
  <2>2. 2^a * 1 = 2^a
    BY <1>3
  <2> QED
    BY <1>2, <2>1, <2>2
<1>5. n - 1 \in Nat /\ ~(n <= n - 1)
  BY <1>2, <1>4
<1>6. n - 1 \notin T
  <2> HIDE DEF T
  <2> QED
    BY <1>1, <1>5
<1> DEFINE m == n - 1
<1>7. 2^(a + m) = 2^a * 2^m
  BY <1>5, <1>6
<1>8. m \in Nat /\ n = m + 1 /\ a + n = (a + m) + 1 /\ a + m \in Nat
  BY <1>5
<1> HIDE DEF m, T
<1>9. /\ 2^n = 2^m + 2^m /\ 2^m \in Nat
      /\ 2^(a + n) = 2^(a + m) + 2^(a + m)
  BY <1>8, PowerDoubles
<1> DEFINE x == 2^a
           y == 2^m
<1>10. x * (y + y) = x * y + x * y
  <2>1. x \in Nat /\ y \in Nat
    BY <1>3, <1>9
  <2> HIDE DEF x, y
  <2> QED
    BY <2>1
<1> QED
  BY <1>2, <1>7, <1>9, <1>10

(* A power of two is not 0. *)
LEMMA PowerPositive == ASSUME NEW n \in Nat PROVE 2^n \in Nat \ {0}
<1> DEFINE T == {m \in Nat : 2^m = 0}
<1> SUFFICES ASSUME T # {} PROVE FALSE
  <2>1. 2^n \in Nat
    BY PowerDoubles
  <2> QED
    BY <2>1
<1>1. PICK m \in T : \A y \in T : m <= y
  <2>1. T \subseteq Nat
    OBVIOUS
  <2> HIDE DEF T
  <2> QED
    BY <2>1, LeastNatural
<1>2. m \in Nat /\ 2^m = 0
  OBVIOUS
<1>3. m # 0
  <2> SUFFICES ASSUME m = 0 PROVE FALSE
    OBVIOUS
  <2>1. 2^m = 1
    OBVIOUS
  <2> QED
    BY <1>2, <2>1
<1>4. m - 1 \in Nat /\ ~(m <= m - 1) /\ m = (m - 1) + 1
  BY <1>2, <1>3
<1>5. 2^m = 2^(m - 1) + 2^(m - 1) /\ 2^(m - 1) \in Nat
  BY <1>4, PowerDoubles
<1>6. 2^(m - 1) = 0
  BY <1>2, <1>5
<1>7. m - 1 \in T
  BY <1>4, <1>6
<1> HIDE DEF T
<1> QED
  BY <1>1, <1>4, <1>7

(***************************************************************************)
(* The list of the steps.                                                  *)
(***************************************************************************)
Flattening(f, n, q) == f = [i \in 1..n |-> IF i = 1 THEN q[i] ELSE f[i - 1] \o q[i]]

(* The partial concatenations of a list of lists exist as a function. *)
LEMMA FlatteningExists ==
    ASSUME NEW q, NEW n \in Nat
    PROVE  \E f : Flattening(f, n, q)
<1> DEFINE T == {m \in Nat : ~ \E f : Flattening(f, m, q)}
<1> SUFFICES ASSUME T # {} PROVE FALSE
  OBVIOUS
<1>1. PICK m \in T : \A y \in T : m <= y
  <2>1. T \subseteq Nat
    OBVIOUS
  <2> HIDE DEF T
  <2> QED
    BY <2>1, LeastNatural
<1>2. m \in Nat /\ ~ \E f : Flattening(f, m, q)
  OBVIOUS
<1>3. m # 0
  <2> SUFFICES ASSUME m = 0 PROVE FALSE
    OBVIOUS
  <2> DEFINE f == [i \in {} |-> q]
  <2>1. 1..m = {}
    OBVIOUS
  <2>2. f = [i \in {} |-> IF i = 1 THEN q[i] ELSE f[i - 1] \o q[i]]
    OBVIOUS
  <2>3. Flattening(f, m, q)
    BY <2>1, <2>2, Zenon DEF Flattening
  <2> QED
    BY <1>2, <2>3
<1>4. m - 1 \in Nat /\ m - 1 \notin T
  BY <1>1, <1>2, <1>3
<1>5. PICK g : Flattening(g, m - 1, q)
  BY <1>4
<1> DEFINE f == [i \in 1..m |-> IF i = m THEN (IF m = 1 THEN q[m] ELSE g[m - 1] \o q[m])
                                ELSE g[i]]
<1>6. \A i \in 1..(m - 1) : g[i] = IF i = 1 THEN q[i] ELSE g[i - 1] \o q[i]
  BY <1>5, Zenon DEF Flattening
<1>7. \A i \in 1..m : f[i] = IF i = 1 THEN q[i] ELSE f[i - 1] \o q[i]
  <2> SUFFICES ASSUME NEW i \in 1..m
               PROVE  f[i] = IF i = 1 THEN q[i] ELSE f[i - 1] \o q[i]
    BY Zenon
  <2>1. CASE i = m
    <3>1. i # 1 => f[i - 1] = g[m - 1]
      BY <1>2, <1>3, <2>1
    <3>2. f[i] = IF m = 1 THEN q[m] ELSE g[m - 1] \o q[m]
      BY <2>1
    <3> QED
      BY <2>1, <3>1, <3>2, Zenon
  <2>2. CASE i # m
    <3>1. i \in 1..(m - 1) /\ f[i] = g[i]
      BY <1>2, <2>2
    <3>2. i # 1 => f[i - 1] = g[i - 1]
      BY <1>2, <2>2
    <3> QED
      BY <1>6, <3>1, <3>2, Zenon
  <2> QED
    BY <2>1, <2>2
<1>8. Flattening(f, m, q)
  <2>1. f = [i \in 1..m |-> f[i]]
    OBVIOUS
  <2> HIDE DEF f
  <2> QED
    BY <1>7, <2>1, Zenon DEF Flattening
<1> HIDE DEF f
<1> QED
  BY <1>2, <1>8

(* The steps of the first l levels. *)
After(l) == FlattenSeq([m \in 1..l |-> Level(m, L)])

(* FlattenSeq is the last of them. *)
LEMMA Flattened ==
    ASSUME NEW l \in Nat \ {0}
    PROVE  \E f : Flattening(f, l, [m \in 1..l |-> Level(m, L)]) /\ After(l) = f[l]
<1> DEFINE q == [m \in 1..l |-> Level(m, L)]
           f == CHOOSE g : Flattening(g, l, q)
<1>1. Len(q) = l
  <2>1. DOMAIN q = 1..l
    OBVIOUS
  <2> HIDE DEF q
  <2> QED
    BY <2>1
<1> HIDE DEF q
<1>2. FlattenSeq(q) = f[l]
  BY <1>1, Zenon DEF FlattenSeq, Flattening
<1>3. Flattening(f, l, q)
  BY FlatteningExists
<1> HIDE DEF f
<1> QED
  BY <1>2, <1>3 DEF After, q

(* Each level adds its steps to those of the levels before. *)
LEMMA LevelByLevel ==
    /\ After(1) = Level(1, L)
    /\ \A l \in Nat \ {0} : After(l + 1) = After(l) \o Level(l + 1, L)
<1>1. ASSUME NEW l \in Nat \ {0}, l = 1 PROVE After(l) = Level(l, L)
  <2>1. PICK f : Flattening(f, l, [m \in 1..l |-> Level(m, L)]) /\ After(l) = f[l]
    BY Flattened
  <2>2. f[l] = [m \in 1..l |-> Level(m, L)][l]
    BY <1>1, <2>1 DEF Flattening
  <2> QED
    BY <2>1, <2>2
<1>2. ASSUME NEW l \in Nat \ {0} PROVE After(l + 1) = After(l) \o Level(l + 1, L)
  <2> DEFINE p == [m \in 1..l |-> Level(m, L)]
             q == [m \in 1..(l + 1) |-> Level(m, L)]
  <2>1. PICK f : Flattening(f, l, p) /\ After(l) = f[l]
    BY Flattened
  <2>2. PICK g : Flattening(g, l + 1, q) /\ After(l + 1) = g[l + 1]
    BY Flattened
  <2>3. \A i \in 1..l : f[i] = IF i = 1 THEN p[i] ELSE f[i - 1] \o p[i]
    <3> HIDE DEF p
    <3> QED
      BY <2>1, Zenon DEF Flattening
  <2>4. \A i \in 1..(l + 1) : g[i] = IF i = 1 THEN q[i] ELSE g[i - 1] \o q[i]
    <3> HIDE DEF q
    <3> QED
      BY <2>2, Zenon DEF Flattening
  <2>5. (\A i \in 1..l : p[i] = q[i]) /\ q[l + 1] = Level(l + 1, L)
    OBVIOUS
  <2> HIDE DEF p, q
  <2> DEFINE T == {i \in 1..l : f[i] # g[i]}
  <2>6. T = {}
    <3> SUFFICES ASSUME T # {} PROVE FALSE
      OBVIOUS
    <3>1. PICK i \in T : \A y \in T : i <= y
      <4>1. T \subseteq Nat
        OBVIOUS
      <4> HIDE DEF T
      <4> QED
        BY <4>1, LeastNatural
    <3>2. i \in 1..l /\ f[i] # g[i] /\ i \in 1..(l + 1)
      OBVIOUS
    <3>3. i # 1
      BY <2>3, <2>4, <2>5, <3>2
    <3>4. i - 1 \in 1..l /\ ~(i <= i - 1)
      BY <3>2, <3>3
    <3>5. f[i - 1] = g[i - 1]
      <4>1. i - 1 \notin T
        <5> HIDE DEF T
        <5> QED
          BY <3>1, <3>4
      <4> QED
        BY <3>4, <4>1
    <3>6. f[i] = f[i - 1] \o p[i] /\ g[i] = g[i - 1] \o q[i]
      BY <2>3, <2>4, <3>2, <3>3
    <3> QED
      BY <2>5, <3>2, <3>5, <3>6
  <2>7. f[l] = g[l]
    BY <2>6
  <2>8. l + 1 \in 1..(l + 1) /\ l + 1 # 1 /\ (l + 1) - 1 = l
    OBVIOUS
  <2>9. g[l + 1] = g[l] \o q[l + 1]
    <3>1. g[l + 1] = g[(l + 1) - 1] \o q[l + 1]
      BY <2>4, <2>8
    <3> QED
      BY <2>8, <3>1
  <2> QED
    BY <2>1, <2>2, <2>5, <2>7, <2>9
<1>3. \A l \in Nat \ {0} : l = 1 => After(l) = Level(l, L)
  BY <1>1
<1>4. After(1) = Level(1, L)
  <2>1. 1 \in Nat \ {0}
    OBVIOUS
  <2> QED
    BY <1>3, <2>1, Zenon
<1> QED
  BY <1>2, <1>4, Zenon

Step == {"fold", "mirror", "exchange"} \X Nat

(* One list after another. *)
LEMMA Joined ==
    ASSUME NEW S, NEW s \in Seq(S), NEW t \in Seq(S)
    PROVE  /\ s \o t \in Seq(S)
           /\ Len(s) \in Nat /\ Len(t) \in Nat /\ Len(s \o t) = Len(s) + Len(t)
           /\ \A i \in 1..Len(s) : (s \o t)[i] = s[i]
           /\ \A i \in 1..Len(t) : (s \o t)[Len(s) + i] = t[i]
OBVIOUS

(* The steps of a level. *)
LEMMA LevelSteps ==
    ASSUME NEW l \in 1..L
    PROVE  /\ Level(l, L) \in Seq(Step) /\ Len(Level(l, L)) \in Nat
           /\ l = L => /\ Len(Level(l, L)) = l
                       /\ Level(l, L)[1] = <<"fold", 2^(l - 1)>>
                       /\ \A j \in 2..l : Level(l, L)[j] = <<"exchange", 2^(l - j)>>
           /\ l # L /\ l = 1 => /\ Len(Level(l, L)) = 1
                                /\ Level(l, L)[1] = <<"exchange", 2^(l - 1)>>
           /\ l # L /\ l # 1 => /\ Len(Level(l, L)) = l + 1
                                /\ Level(l, L)[1] = <<"mirror", 2^(l - 1)>>
                                /\ \A j \in 2..(l + 1) :
                                      Level(l, L)[j] = <<"exchange", 2^(l + 1 - j)>>
<1> DEFINE run == 2^(l - 1)
           h == [i \in 1..(l - 1) |-> <<"exchange", 2^(l - 1 - i)>>]
<1>0. L \in Nat \ {0} /\ l \in Nat \ {0} /\ l - 1 \in Nat
  BY ChoiceAssumption
<1>1. run \in Nat
  BY <1>0, PowerDoubles
<1>2. h \in Seq(Step) /\ Len(h) = l - 1
  <2>1. ASSUME NEW i \in 1..(l - 1) PROVE <<"exchange", 2^(l - 1 - i)>> \in Step
    <3>1. l - 1 - i \in Nat
      BY <1>0
    <3>2. 2^(l - 1 - i) \in Nat
      BY <3>1, PowerDoubles
    <3> QED
      BY <3>2 DEF Step
  <2>2. h \in [1..(l - 1) -> Step]
    BY <2>1
  <2> HIDE DEF h
  <2> QED
    BY <1>0, <2>2
<1>3. \A i \in 1..(l - 1) : h[i] = <<"exchange", 2^(l - 1 - i)>>
  OBVIOUS
<1> HIDE DEF h
<1> DEFINE fold == <<<<"fold", run>>>>
           one == <<<<"exchange", run>>>>
           two == <<<<"mirror", run>>, <<"exchange", run>>>>
<1>4. /\ fold \in Seq(Step) /\ one \in Seq(Step) /\ two \in Seq(Step)
      /\ Len(fold) = 1 /\ Len(one) = 1 /\ Len(two) = 2
      /\ fold[1] = <<"fold", run>> /\ one[1] = <<"exchange", run>>
      /\ two[1] = <<"mirror", run>> /\ two[2] = <<"exchange", run>>
  <2>1. <<"fold", run>> \in Step /\ <<"exchange", run>> \in Step /\ <<"mirror", run>> \in Step
    BY <1>1 DEF Step
  <2> HIDE DEF run
  <2> QED
    BY <2>1
<1>5. /\ l = L => Level(l, L) = fold \o h
      /\ l # L /\ l = 1 => Level(l, L) = one \o h
      /\ l # L /\ l # 1 => Level(l, L) = two \o h
  <2>1. l < L \/ l = L
    BY <1>0
  <2>2. CASE l = L
    BY <2>2 DEF Level, h
  <2>3. CASE l # L /\ l = 1
    BY <2>1, <2>3 DEF Level, h
  <2>4. CASE l # L /\ l # 1
    BY <2>4 DEF Level, h
  <2> QED
    BY <2>2, <2>3, <2>4
<1> HIDE DEF fold, one, two, run
<1>6. CASE l = L
  <2>1. /\ Level(l, L) \in Seq(Step) /\ Len(Level(l, L)) = 1 + (l - 1)
        /\ Level(l, L)[1] = fold[1]
        /\ \A i \in 1..(l - 1) : Level(l, L)[1 + i] = h[i]
    <3>1. /\ fold \o h \in Seq(Step) /\ Len(fold \o h) = Len(fold) + Len(h)
          /\ \A i \in 1..Len(fold) : (fold \o h)[i] = fold[i]
          /\ \A i \in 1..Len(h) : (fold \o h)[Len(fold) + i] = h[i]
      BY <1>2, <1>4, Joined
    <3>2. Level(l, L) = fold \o h /\ 1 \in 1..1
      BY <1>5, <1>6
    <3> QED
      BY <1>2, <1>4, <3>1, <3>2, Zenon
  <2>3. ASSUME NEW j \in 2..l PROVE Level(l, L)[j] = <<"exchange", 2^(l - j)>>
    <3>1. PICK i \in 1..(l - 1) : i = j - 1
      BY <1>0
    <3>2. j = 1 + i /\ l - 1 - i = l - j
      BY <1>0, <3>1
    <3> QED
      BY <1>3, <2>1, <3>2
  <2> QED
    BY <1>0, <1>4, <1>6, <2>1, <2>3 DEF run
<1>7. CASE l # L /\ l = 1
  <2>1. /\ Level(l, L) \in Seq(Step) /\ Len(Level(l, L)) = 1 + (l - 1)
        /\ Level(l, L)[1] = one[1]
    BY <1>0, <1>2, <1>4, <1>5, <1>7
  <2> QED
    BY <1>0, <1>4, <1>7, <2>1 DEF run
<1>8. CASE l # L /\ l # 1
  <2>1. /\ Level(l, L) \in Seq(Step) /\ Len(Level(l, L)) = 2 + (l - 1)
        /\ Level(l, L)[1] = two[1] /\ Level(l, L)[2] = two[2]
        /\ \A i \in 1..(l - 1) : Level(l, L)[2 + i] = h[i]
    <3>1. /\ two \o h \in Seq(Step) /\ Len(two \o h) = Len(two) + Len(h)
          /\ \A i \in 1..Len(two) : (two \o h)[i] = two[i]
          /\ \A i \in 1..Len(h) : (two \o h)[Len(two) + i] = h[i]
      <4>1. two \in Seq(Step) /\ h \in Seq(Step)
        BY <1>2, <1>4
      <4> QED
        BY <4>1, Joined
    <3>2. Level(l, L) = two \o h /\ 1 \in 1..2 /\ 2 \in 1..2
      BY <1>5, <1>8
    <3> QED
      BY <1>2, <1>4, <3>1, <3>2, Zenon
  <2>3. ASSUME NEW j \in 2..(l + 1) PROVE Level(l, L)[j] = <<"exchange", 2^(l + 1 - j)>>
    <3>1. CASE j = 2
      <4>1. l + 1 - j = l - 1
        BY <1>0, <3>1
      <4> QED
        BY <1>4, <2>1, <3>1, <4>1 DEF run
    <3>2. CASE j # 2
      <4>1. PICK i \in 1..(l - 1) : i = j - 2
        BY <1>0, <3>2
      <4>2. j = 2 + i /\ l - 1 - i = l + 1 - j
        BY <1>0, <4>1
      <4> QED
        BY <1>3, <2>1, <4>2
    <3> QED
      BY <3>1, <3>2
  <2> QED
    BY <1>0, <1>4, <1>8, <2>1, <2>3 DEF run
<1> QED
  BY <1>6, <1>7, <1>8

(* The number of steps of the first l levels. *)
Ends(l) == IF l = 0 THEN 0 ELSE Len(After(l))

(* Where the steps of each level are in the list. *)
Located(n) ==
    /\ After(n) \in Seq(Step)
    /\ Ends(n) \in Nat /\ Ends(n - 1) \in Nat /\ Ends(n) = Ends(n - 1) + Len(Level(n, L))
    /\ \A l \in 1..n : \A k \in 1..Len(Level(l, L)) :
          /\ Ends(l - 1) \in Nat
          /\ Ends(l - 1) + k <= Ends(n)
          /\ After(n)[Ends(l - 1) + k] = Level(l, L)[k]

(* Every step of the list is one step of one level. *)
LEMMA Locations == \A n \in 1..L : Located(n)
<1>0. L \in Nat \ {0}
  BY ChoiceAssumption
<1> DEFINE T == {n \in 1..L : ~Located(n)}
<1> SUFFICES ASSUME T # {} PROVE FALSE
  OBVIOUS
<1>1. PICK n \in T : \A y \in T : n <= y
  <2>1. T \subseteq Nat
    OBVIOUS
  <2> HIDE DEF T
  <2> QED
    BY <2>1, LeastNatural
<1>2. n \in 1..L /\ ~Located(n) /\ n \in Nat
  OBVIOUS
<1>3. Level(n, L) \in Seq(Step) /\ Len(Level(n, L)) \in Nat
  BY <1>2, LevelSteps
<1>4. CASE n = 1
  <2>1. After(n) = Level(n, L) /\ Ends(n - 1) = 0 /\ Ends(n) = Len(Level(n, L))
    <3>1. After(n) = Level(n, L)
      BY <1>4, LevelByLevel
    <3>2. n - 1 = 0 /\ n # 0
      BY <1>4
    <3> QED
      BY <3>1, <3>2 DEF Ends
  <2>2. ASSUME NEW l \in 1..n, NEW k \in 1..Len(Level(l, L))
        PROVE  /\ Ends(l - 1) \in Nat
               /\ Ends(l - 1) + k <= Ends(n)
               /\ After(n)[Ends(l - 1) + k] = Level(l, L)[k]
    <3>1. l = n
      BY <1>4
    <3>2. 0 + k = k
      BY <1>3, <3>1
    <3> QED
      BY <1>3, <2>1, <3>1, <3>2
  <2>3. Located(n)
    BY <1>3, <2>1, <2>2 DEF Located
  <2> QED
    BY <1>2, <2>3
<1>5. CASE n # 1
  <2> DEFINE m == n - 1
  <2>1. m \in 1..L /\ m \in Nat \ {0} /\ n = m + 1 /\ ~(n <= m)
    BY <1>0, <1>2, <1>5
  <2> HIDE DEF m
  <2>2. Located(m)
    <3>1. m \notin T
      <4> HIDE DEF T
      <4> QED
        BY <1>1, <2>1
    <3> QED
      BY <2>1, <3>1
  <2> DEFINE s == After(m)
             t == Level(n, L)
  <2>3. s \in Seq(Step) /\ t \in Seq(Step)
    BY <1>3, <2>2 DEF Located
  <2>4. After(n) = s \o t
    BY <2>1, LevelByLevel
  <2>5. Ends(m) = Len(s) /\ Ends(n) = Len(After(n))
    BY <1>2, <2>1 DEF Ends
  <2> HIDE DEF s, t
  <2>6. /\ s \o t \in Seq(Step)
        /\ Len(s) \in Nat /\ Len(t) \in Nat /\ Len(s \o t) = Len(s) + Len(t)
        /\ \A i \in 1..Len(s) : (s \o t)[i] = s[i]
        /\ \A i \in 1..Len(t) : (s \o t)[Len(s) + i] = t[i]
    BY <2>3, Joined
  <2>7. n - 1 = m
    BY <2>1
  <2>8. ASSUME NEW l \in 1..n, NEW k \in 1..Len(Level(l, L))
        PROVE  /\ Ends(l - 1) \in Nat
               /\ Ends(l - 1) + k <= Ends(n)
               /\ After(n)[Ends(l - 1) + k] = Level(l, L)[k]
    <3>1. CASE l = n
      <4>1. k \in 1..Len(t) /\ Ends(l - 1) = Len(s)
        BY <2>5, <2>7, <3>1 DEF t
      <4>2. Ends(l - 1) + k <= Len(s \o t)
        BY <2>6, <4>1
      <4>3. (s \o t)[Ends(l - 1) + k] = t[k]
        BY <2>6, <4>1
      <4> QED
        BY <2>4, <2>5, <2>6, <3>1, <4>1, <4>2, <4>3 DEF t
    <3>2. CASE l # n
      <4>1. l \in 1..m
        BY <2>1, <3>2
      <4>2. /\ Ends(l - 1) \in Nat
            /\ Ends(l - 1) + k <= Ends(m)
            /\ After(m)[Ends(l - 1) + k] = Level(l, L)[k]
        BY <2>2, <4>1 DEF Located
      <4>3. k \in Nat \ {0}
        <5>1. l \in 1..L
          BY <1>0, <1>2
        <5>2. Len(Level(l, L)) \in Nat
          BY <5>1, LevelSteps
        <5> QED
          BY <5>2
      <4>4. Ends(l - 1) + k \in 1..Len(s)
        BY <2>5, <2>6, <4>2, <4>3
      <4>5. (s \o t)[Ends(l - 1) + k] = s[Ends(l - 1) + k]
        BY <2>6, <4>4
      <4>6. Ends(l - 1) + k <= Len(s \o t)
        BY <2>6, <4>4
      <4> QED
        BY <2>4, <2>5, <4>2, <4>5, <4>6 DEF s
    <3> QED
      BY <3>1, <3>2
  <2>9. After(n) \in Seq(Step) /\ Ends(n) \in Nat /\ Ends(n - 1) \in Nat
        /\ Ends(n) = Ends(n - 1) + Len(Level(n, L))
    BY <2>4, <2>5, <2>6, <2>7 DEF t
  <2>10. Located(n)
    BY <2>8, <2>9 DEF Located
  <2> QED
    BY <1>2, <2>10
<1> QED
  BY <1>4, <1>5

(* What the list says, without the list. *)
LEMMA Schedule ==
    /\ Ends(0) = 0 /\ Len(SortSteps(L)) = Ends(L) /\ Ends(L) \in Nat
    /\ \A l \in 1..L : /\ Ends(l) \in Nat /\ Ends(l - 1) \in Nat
                       /\ Ends(l) = Ends(l - 1) + Len(Level(l, L))
                       /\ Len(Level(l, L)) \in Nat \ {0}
                       /\ \A k \in 1..Len(Level(l, L)) :
                             /\ Ends(l - 1) + k <= Ends(L)
                             /\ SortSteps(L)[Ends(l - 1) + k] = Level(l, L)[k]
    /\ \A l \in 0..L, n \in 1..L : l < n => Ends(l) < Ends(n)
<1>0. L \in Nat \ {0} /\ L \in 1..L
  BY ChoiceAssumption
<1>1. Ends(0) = 0
  BY DEF Ends
<1>2. SortSteps(L) = After(L) /\ Len(SortSteps(L)) = Ends(L)
  BY <1>0 DEF SortSteps, After, Ends
<1>3. ASSUME NEW l \in 1..L PROVE Len(Level(l, L)) \in Nat \ {0}
  <2>1. Len(Level(l, L)) = l \/ Len(Level(l, L)) = 1 \/ Len(Level(l, L)) = l + 1
    BY LevelSteps
  <2> QED
    BY <1>0, <2>1
<1>4. Located(L)
  BY <1>0, Locations
<1>5. ASSUME NEW l \in 1..L
      PROVE  /\ Ends(l) \in Nat /\ Ends(l - 1) \in Nat
             /\ Ends(l) = Ends(l - 1) + Len(Level(l, L))
             /\ Len(Level(l, L)) \in Nat \ {0}
             /\ \A k \in 1..Len(Level(l, L)) :
                   /\ Ends(l - 1) + k <= Ends(L)
                   /\ SortSteps(L)[Ends(l - 1) + k] = Level(l, L)[k]
  <2>1. Located(l)
    BY Locations
  <2>2. /\ Ends(l) \in Nat /\ Ends(l - 1) \in Nat
        /\ Ends(l) = Ends(l - 1) + Len(Level(l, L))
    BY <2>1 DEF Located
  <2>3. \A k \in 1..Len(Level(l, L)) :
           /\ Ends(l - 1) + k <= Ends(L)
           /\ After(L)[Ends(l - 1) + k] = Level(l, L)[k]
    BY <1>4 DEF Located
  <2> QED
    BY <1>2, <1>3, <2>2, <2>3
<1>6. ASSUME NEW l \in 0..L, NEW n \in 1..L, l < n PROVE Ends(l) < Ends(n)
  <2> DEFINE p == l + 1
  <2>1. p \in 1..n /\ p \in 1..L /\ p - 1 = l
    BY <1>0, <1>6
  <2> HIDE DEF p
  <2>2. 1 \in 1..Len(Level(p, L))
    BY <1>3, <2>1
  <2>3. Located(n)
    BY Locations
  <2>4. Ends(p - 1) \in Nat /\ Ends(p - 1) + 1 <= Ends(n) /\ Ends(n) \in Nat
    BY <2>1, <2>2, <2>3 DEF Located
  <2> QED
    BY <2>1, <2>4
<1> QED
  BY <1>0, <1>1, <1>2, <1>5, <1>6

(***************************************************************************)
(* What the values are like before step k + 1 of level l: runs of half the *)
(* level's length are sorted, and from the mirror or the fold on each run  *)
(* of the level is a stage of its merge.                                   *)
(***************************************************************************)
Halvings(l, k) == IF l # L /\ l # 1 THEN k - 1 ELSE k

Phase(v, l, k) ==
    IF k = 0 THEN SortedRuns(v, 2 * 2^(L - l), 2^(l - 1))
    ELSE Staged(v, 2^(L - l), 2^Halvings(l, k), 2^(l - Halvings(l, k)))

(* The runs of a level fill the network. *)
LEMMA LevelFacts ==
    ASSUME NEW l \in 1..L
    PROVE  /\ 2^(L - l) \in Nat \ {0} /\ 2^(l - 1) \in Nat \ {0}
           /\ 2^l = 2 * 2^(l - 1)
           /\ 2^(L - l) * 2^l = 2^L
           /\ \A e \in 0..(l - 1) :
                 /\ 2^e \in Nat \ {0} /\ 2^(l - 1 - e) \in Nat \ {0}
                 /\ 2^(l - e) = 2 * 2^(l - 1 - e)
                 /\ 2^(e + 1) = 2 * 2^e
                 /\ 2^(L - l) * (2^e * (2 * 2^(l - 1 - e))) = 2^L
<1>0. L \in Nat /\ l \in Nat /\ L - l \in Nat /\ l - 1 \in Nat /\ (L - l) + l = L /\ (l - 1) + 1 = l
  BY ChoiceAssumption
<1>1. 2^(L - l) \in Nat \ {0} /\ 2^(l - 1) \in Nat \ {0} /\ 2^l \in Nat
  BY <1>0, PowerPositive
<1>2. 2^l = 2 * 2^(l - 1)
  <2>1. 2^((l - 1) + 1) = 2^(l - 1) + 2^(l - 1)
    BY <1>0, PowerDoubles
  <2> QED
    BY <1>0, <1>1, <2>1
<1>3. 2^(L - l) * 2^l = 2^L
  <2>1. 2^((L - l) + l) = 2^(L - l) * 2^l
    BY <1>0, PowerSum
  <2> QED
    BY <1>0, <2>1
<1>4. ASSUME NEW e \in 0..(l - 1)
      PROVE  /\ 2^e \in Nat \ {0} /\ 2^(l - 1 - e) \in Nat \ {0}
             /\ 2^(l - e) = 2 * 2^(l - 1 - e)
             /\ 2^(e + 1) = 2 * 2^e
             /\ 2^(L - l) * (2^e * (2 * 2^(l - 1 - e))) = 2^L
  <2>0. e \in Nat /\ l - 1 - e \in Nat /\ l - e = (l - 1 - e) + 1 /\ e + (l - e) = l /\ l - e \in Nat
    BY <1>0
  <2>1. 2^e \in Nat \ {0} /\ 2^(l - 1 - e) \in Nat \ {0}
    BY <2>0, PowerPositive
  <2>2. 2^(l - e) = 2 * 2^(l - 1 - e)
    <3>1. 2^((l - 1 - e) + 1) = 2^(l - 1 - e) + 2^(l - 1 - e)
      BY <2>0, PowerDoubles
    <3> QED
      BY <2>0, <2>1, <3>1
  <2>3. 2^(e + 1) = 2 * 2^e
    <3>1. 2^(e + 1) = 2^e + 2^e
      BY <2>0, PowerDoubles
    <3> QED
      BY <2>1, <3>1
  <2>4. 2^l = 2^e * 2^(l - e)
    <3>1. 2^(e + (l - e)) = 2^e * 2^(l - e)
      BY <2>0, PowerSum
    <3> QED
      BY <2>0, <3>1
  <2> QED
    BY <1>3, <2>1, <2>2, <2>3, <2>4
<1> QED
  BY <1>1, <1>2, <1>3, <1>4

(* Runs of one value are sorted. *)
LEMMA SingleRuns ==
    ASSUME NEW v, NEW R PROVE SortedRuns(v, R, 1)
BY DEF SortedRuns, SortedRun

(* A pair of values is bitonic, as it is. *)
LEMMA PairsAreBitonic ==
    ASSUME NEW R \in Nat, R * 2 = 2^L, NEW v \in [Slots -> Int]
    PROVE  Staged(v, R, 1, 2)
<1> SUFFICES ASSUME NEW r \in 0..(R - 1) PROVE Stage(v, r * (1 * 2), 1, 2)
  BY DEF Staged
<1> DEFINE b == r * (1 * 2)
<1>1. b \in Nat /\ b = r * 2
  OBVIOUS
<1> HIDE DEF b
<1>2. \A i \in 0..(2 * 1 - 1) : v[b + i] \in Int
  <2> SUFFICES ASSUME NEW i \in 0..1 PROVE v[b + i] \in Int
    OBVIOUS
  <2>1. b + i \in Slots
    BY <1>1 DEF Slots
  <2> QED
    BY <2>1
<1>3. SortedRun(v, b, 1)
  BY DEF SortedRun
<1>4. \A x, y \in 0..(1 - 1) : x < y => v[b + (1 + x)] <= v[b + (1 + y)]
  OBVIOUS
<1>5. Stage(v, b, 1, 2 * 1)
  BY <1>1, <1>2, <1>3, <1>4, TwoRuns
<1>6. 2 * 1 = 2
  OBVIOUS
<1> QED
  BY <1>5, <1>6 DEF b

(* An exchange halves the blocks once more. *)
LEMMA HalvingStep ==
    ASSUME NEW l \in 1..L, NEW e \in 0..(l - 1), NEW v \in [Slots -> Int],
           Staged(v, 2^(L - l), 2^e, 2^(l - e))
    PROVE  /\ Staged(Exchange(v, 2^(l - 1 - e)), 2^(L - l), 2^(e + 1), 2^(l - (e + 1)))
           /\ Rearranges(Exchange(v, 2^(l - 1 - e)), v)
<1> DEFINE R == 2^(L - l)
           k == 2^e
           d == 2^(l - 1 - e)
<1>1. /\ R \in Nat \ {0} /\ k \in Nat \ {0} /\ d \in Nat \ {0}
      /\ 2^(l - e) = 2 * d /\ 2^(e + 1) = 2 * k /\ R * (k * (2 * d)) = 2^L
  BY LevelFacts
<1>2. 2^(l - (e + 1)) = d
  <2>1. l \in Int /\ e \in Int
    BY ChoiceAssumption
  <2>2. l - (e + 1) = l - 1 - e
    BY <2>1
  <2> QED
    BY <2>2
<1>3. Staged(v, R, k, 2 * d)
  BY <1>1
<1> HIDE DEF R, k, d
<1>4. Staged(Exchange(v, d), R, 2 * k, d)
  BY <1>1, <1>3, ExchangeStages
<1>5. R * k \in Nat /\ (R * k) * (2 * d) = 2^L
  BY <1>1
<1>6. Rearranges(Exchange(v, d), v)
  <2> DEFINE m == R * k
  <2>1. m \in Nat /\ m * (2 * d) = 2^L
    BY <1>5
  <2> HIDE DEF m
  <2> QED
    BY <1>1, <2>1, ExchangeRearranges
<1> QED
  BY <1>1, <1>2, <1>4, <1>6 DEF R, k, d

(* Each kernel takes the values from a phase of its level to the next,     *)
(* and only moves them.                                                    *)
LEMMA PhaseStep ==
    ASSUME NEW l \in 1..L, NEW k \in 0..(Len(Level(l, L)) - 1),
           NEW v \in [Slots -> Int], Phase(v, l, k)
    PROVE  /\ Phase(Apply(Level(l, L)[k + 1], v), l, k + 1)
           /\ Rearranges(Apply(Level(l, L)[k + 1], v), v)
<1> DEFINE w == Apply(Level(l, L)[k + 1], v)
<1>0. L \in Nat /\ l \in Nat \ {0} /\ k \in Nat /\ k + 1 # 0 /\ L - l \in Nat
  BY ChoiceAssumption
<1>e. ASSUME NEW e \in 0..(l - 1), Level(l, L)[k + 1] = <<"exchange", 2^(l - 1 - e)>>,
             e + 1 = Halvings(l, k + 1),
             Staged(v, 2^(L - l), 2^e, 2^(l - e))
      PROVE  Phase(w, l, k + 1) /\ Rearranges(w, v)
  <2>1. w = Exchange(v, 2^(l - 1 - e))
    BY <1>e DEF Apply
  <2>2. Staged(w, 2^(L - l), 2^(e + 1), 2^(l - (e + 1))) /\ Rearranges(w, v)
    BY <1>e, <2>1, HalvingStep
  <2> HIDE DEF w
  <2>3. Phase(w, l, k + 1)
    BY <1>0, <1>e, <2>2 DEF Phase
  <2> QED
    BY <2>2, <2>3
<1>1. CASE l = L
  <2>0. Len(Level(l, L)) = l /\ Level(l, L)[1] = <<"fold", 2^(l - 1)>>
        /\ \A j \in 2..l : Level(l, L)[j] = <<"exchange", 2^(l - j)>>
    BY <1>1, LevelSteps
  <2>1. CASE k = 0
    <3> DEFINE d == 2^(l - 1)
    <3>1. d \in Nat \ {0} /\ 2 * d = 2^L
      BY <1>1, LevelFacts
    <3>2. 2^(L - l) = 1
      <4>1. L - l = 0
        BY <1>0, <1>1
      <4>2. 2^0 = 1
        OBVIOUS
      <4> QED
        BY <4>1, <4>2, Zenon
    <3>3. SortedRuns(v, 2, d)
      <4>1. SortedRuns(v, 2 * 2^(L - l), d)
        BY <2>1 DEF Phase
      <4>2. 2 * 1 = 2
        OBVIOUS
      <4> QED
        BY <3>2, <4>1, <4>2
    <3>4. w = Fold(v, d)
      <4>1. Level(l, L)[k + 1] = <<"fold", d>>
        BY <2>0, <2>1
      <4> HIDE DEF d
      <4> QED
        BY <4>1 DEF Apply
    <3> HIDE DEF d
    <3>5. Staged(w, 1, 2, d) /\ Rearranges(w, v)
      BY <3>1, <3>3, <3>4, FoldStages
    <3> HIDE DEF w
    <3>6. Halvings(l, k + 1) = 1 /\ k + 1 # 0
      BY <1>1, <2>1 DEF Halvings
    <3>7. 2^1 = 2 /\ 2^(l - 1) = d
      BY DEF d
    <3>8. Phase(w, l, k + 1)
      BY <3>2, <3>5, <3>6, <3>7 DEF Phase
    <3> QED
      BY <3>5, <3>8 DEF w
  <2>2. CASE k # 0
    <3>1. k \in 1..(l - 1) /\ k + 1 \in 2..l /\ l - (k + 1) = l - 1 - k /\ k \in 0..(l - 1)
      BY <1>0, <2>0, <2>2
    <3>2. Level(l, L)[k + 1] = <<"exchange", 2^(l - 1 - k)>>
      BY <2>0, <3>1
    <3>3. Halvings(l, k) = k /\ Halvings(l, k + 1) = k + 1
      BY <1>1 DEF Halvings
    <3>4. Staged(v, 2^(L - l), 2^k, 2^(l - k))
      BY <2>2, <3>3 DEF Phase
    <3> QED
      BY <1>e, <3>1, <3>2, <3>3, <3>4
  <2> QED
    BY <2>1, <2>2
<1>2. CASE l # L /\ l = 1
  <2>0. Len(Level(l, L)) = 1 /\ Level(l, L)[1] = <<"exchange", 2^(l - 1)>>
    BY <1>2, LevelSteps
  <2>1. k = 0 /\ 0 \in 0..(l - 1) /\ l - 1 - 0 = l - 1
    BY <1>0, <2>0
  <2>2. Halvings(l, k + 1) = 0 + 1
    BY <1>2, <2>1 DEF Halvings
  <2>3. Level(l, L)[k + 1] = <<"exchange", 2^(l - 1 - 0)>>
    BY <2>0, <2>1
  <2>4. 2^0 = 1 /\ 2^(l - 0) = 2
    <3>1. l - 0 = 1 /\ 2^1 = 2
      BY <1>2
    <3> QED
      BY <3>1
  <2>5. 2^(L - l) \in Nat /\ 2^(L - l) * 2 = 2^L
    <3>1. 2^l = 2
      BY <1>2
    <3> QED
      BY <3>1, LevelFacts
  <2>6. Staged(v, 2^(L - l), 2^0, 2^(l - 0))
    BY <2>4, <2>5, PairsAreBitonic
  <2> QED
    BY <1>e, <2>1, <2>2, <2>3, <2>6
<1>3. CASE l # L /\ l # 1
  <2>0. Len(Level(l, L)) = l + 1 /\ Level(l, L)[1] = <<"mirror", 2^(l - 1)>>
        /\ \A j \in 2..(l + 1) : Level(l, L)[j] = <<"exchange", 2^(l + 1 - j)>>
    BY <1>3, LevelSteps
  <2>1. CASE k = 0
    <3> DEFINE d == 2^(l - 1)
               R == 2^(L - l - 1)
    <3>1. d \in Nat \ {0} /\ 2^l = 2 * d /\ 2^(L - l) * 2^l = 2^L
      BY LevelFacts
    <3>2. R \in Nat /\ 2^(L - l) = 2 * R
      <4>1. L - l - 1 \in Nat /\ (L - l - 1) + 1 = L - l
        BY <1>0, <1>3
      <4>2. R \in Nat /\ 2^((L - l - 1) + 1) = R + R
        BY <4>1, PowerDoubles
      <4> HIDE DEF R
      <4> QED
        BY <4>1, <4>2
    <3>3. w = Mirror(v, d)
      <4>1. Level(l, L)[k + 1] = <<"mirror", d>>
        BY <2>0, <2>1
      <4> HIDE DEF d
      <4> QED
        BY <4>1 DEF Apply
    <3>4. SortedRuns(v, 2 * 2^(L - l), d)
      BY <2>1 DEF Phase
    <3>p. 2^0 = 1 /\ 2^(l - 0) = 2^l
      <4>1. l - 0 = l
        BY <1>0
      <4> QED
        BY <4>1
    <3> HIDE DEF d, R
    <3>5. 2 * (2 * R) = 4 * R /\ R * (4 * d) = (2 * R) * (2 * d)
      BY <3>1, <3>2
    <3>6. SortedRuns(v, 4 * R, d) /\ R * (4 * d) = 2^L
      BY <3>1, <3>2, <3>4, <3>5
    <3>7. Staged(w, 2 * R, 1, 2 * d)
      BY <3>1, <3>2, <3>3, <3>6, MirrorStages
    <3>8. Rearranges(w, v)
      BY <3>1, <3>2, <3>3, <3>6, MirrorRearranges
    <3> HIDE DEF w
    <3>9. Halvings(l, k + 1) = 0 /\ k + 1 # 0
      BY <1>3, <2>1 DEF Halvings
    <3>10. Phase(w, l, k + 1)
      BY <3>1, <3>2, <3>7, <3>9, <3>p DEF Phase
    <3> QED
      BY <3>8, <3>10 DEF w
  <2>2. CASE k # 0
    <3> DEFINE e == k - 1
    <3>1. /\ e \in 0..(l - 1) /\ k + 1 \in 2..(l + 1) /\ l + 1 - (k + 1) = l - 1 - e
          /\ e + 1 = (k + 1) - 1
      BY <1>0, <2>0, <2>2
    <3>2. Level(l, L)[k + 1] = <<"exchange", 2^(l - 1 - e)>>
      BY <2>0, <3>1
    <3>3. Halvings(l, k) = e /\ Halvings(l, k + 1) = e + 1
      BY <1>3, <3>1 DEF Halvings
    <3> HIDE DEF e
    <3>4. Staged(v, 2^(L - l), 2^e, 2^(l - e))
      BY <2>2, <3>3 DEF Phase
    <3> QED
      BY <1>e, <3>1, <3>2, <3>3, <3>4
  <2> QED
    BY <2>1, <2>2
<1> QED
  BY <1>1, <1>2, <1>3

(* At the end of a level its runs are sorted. *)
LEMMA LevelDone ==
    ASSUME NEW l \in 1..L, NEW v, Phase(v, l, Len(Level(l, L)))
    PROVE  SortedRuns(v, 2^(L - l), 2^l)
<1> DEFINE k == Len(Level(l, L))
           R == 2^(L - l)
           n == 2^l
<1>0. l \in Nat \ {0} /\ L \in Nat
  BY ChoiceAssumption
<1>1. Halvings(l, k) = l /\ k # 0
  <2>1. /\ l = L => k = l
        /\ l # L /\ l = 1 => k = 1
        /\ l # L /\ l # 1 => k = l + 1
    BY LevelSteps
  <2> HIDE DEF k
  <2> QED
    BY <1>0, <2>1 DEF Halvings
<1>2. 2^(l - l) = 1
  <2>1. l - l = 0
    BY <1>0
  <2> QED
    BY <2>1
<1>3. Staged(v, R, n, 1)
  <2> HIDE DEF k
  <2> QED
    BY <1>1, <1>2 DEF Phase, k
<1>4. n \in Nat /\ R \in Nat
  BY LevelFacts
<1> HIDE DEF R, n
<1>5. ASSUME NEW r \in 0..(R - 1) PROVE SortedRun(v, r * n, n)
  <2>1. Stage(v, r * (n * 1), n, 1)
    BY <1>3 DEF Staged
  <2>2. n * 1 = n /\ r * n \in Nat
    BY <1>4
  <2>3. Stage(v, r * n, n, 1)
    BY <2>1, <2>2
  <2> DEFINE b == r * n
  <2> HIDE DEF b
  <2>4. SortedRun(v, b, n)
    BY <1>4, <2>2, <2>3, StageSorts DEF b
  <2> QED
    BY <2>4 DEF b
<1> QED
  BY <1>5 DEF SortedRuns, R, n

(* The end of a level is the start of the next. *)
LEMMA NextLevel ==
    ASSUME NEW l \in 1..L, l # L, NEW v, SortedRuns(v, 2^(L - l), 2^l)
    PROVE  Phase(v, l + 1, 0)
<1>1. L \in Nat /\ l \in Nat /\ L - l - 1 \in Nat /\ (L - l - 1) + 1 = L - l
      /\ L - (l + 1) = L - l - 1 /\ (l + 1) - 1 = l
  BY ChoiceAssumption
<1>2. 2^(L - l) = 2 * 2^(L - l - 1)
  <2>1. 2^((L - l - 1) + 1) = 2^(L - l - 1) + 2^(L - l - 1) /\ 2^(L - l - 1) \in Nat
    BY <1>1, PowerDoubles
  <2> QED
    BY <1>1, <2>1
<1> QED
  BY <1>1, <1>2 DEF Phase

(***************************************************************************)
(* The network sorts.  Before the pads there is nothing to sort; from then *)
(* on the values are those of the confident scores and the pads, and the   *)
(* number of steps done says in which phase of which level they are.       *)
(***************************************************************************)
Padded == [i \in Slots |-> IF i \in A THEN confident[i] ELSE -1]

Passes == {"confident", "pad", "rank", "sort", "sortedRank", "order", "rows", "keep", "done"}
Sorting == {"rank", "sort"}
Sorted == {"sortedRank", "order", "rows", "keep", "done"}

(* The scores are those of the input, after pass 96 with the threshold. *)
ScoresIn ==
    /\ pass \in Passes
    /\ best \in [A -> Scores] /\ box \in [A -> Boxes]
    /\ pass # "confident" => confident = [a \in A |-> Threshold(best[a])]

(* After n steps the values v are where the list of steps says. *)
AtPhase(v, n) ==
    \E l \in 1..L : \E k \in 0..(Len(Level(l, L)) - 1) :
        n = Ends(l - 1) + k /\ Phase(v, l, k)

(* What holds of the network from pass to pass. *)
SortInv ==
    /\ pass \in {"confident", "pad"} => vec = <<>>
    /\ pass \in {"confident", "pad", "rank"} => steps = 0
    /\ pass \in Sorting \cup Sorted => Rearranges(vec, Padded)
    /\ pass \in Sorting => AtPhase(vec, steps)
    /\ pass \in Sorted => steps = Ends(L) /\ SortedRuns(vec, 2^(L - L), 2^L)

(* A confident score is a whole number from 0 to 100. *)
LEMMA ConfidentScores ==
    ASSUME ScoresIn, pass # "confident"
    PROVE  /\ confident \in [A -> 0..100] /\ confident \in [A -> Int]
           /\ Padded \in [Slots -> Int]
<1>1. ASSUME NEW a \in A PROVE Threshold(best[a]) \in 0..100
  <2>1. best[a] \in 0..100
    BY ChoiceAssumption DEF ScoresIn
  <2> QED
    BY <2>1 DEF Threshold
<1>2. confident \in [A -> 0..100]
  BY <1>1 DEF ScoresIn
<1>3. confident \in [A -> Int]
  BY <1>2
<1>4. Padded \in [Slots -> Int]
  BY <1>3 DEF Padded
<1> QED
  BY <1>2, <1>3, <1>4

(* The network takes one step at a time through the phases. *)
LEMMA NetworkStep ==
    ASSUME NEW v \in [Slots -> Int], NEW n, AtPhase(v, n),
           NEW w, w = Apply(SortSteps(L)[n + 1], v)
    PROVE  /\ Rearranges(w, v)
           /\ n + 1 # Len(SortSteps(L)) => AtPhase(w, n + 1)
           /\ n + 1 = Len(SortSteps(L)) =>
                  n + 1 = Ends(L) /\ SortedRuns(w, 2^(L - L), 2^L)
<1>1. PICK l \in 1..L : \E k \in 0..(Len(Level(l, L)) - 1) :
         n = Ends(l - 1) + k /\ Phase(v, l, k)
  BY DEF AtPhase
<1>2. PICK k \in 0..(Len(Level(l, L)) - 1) : n = Ends(l - 1) + k /\ Phase(v, l, k)
  BY <1>1
<1> DEFINE len == Len(Level(l, L))
<1>3. /\ Ends(l) \in Nat /\ Ends(l - 1) \in Nat /\ Ends(l) = Ends(l - 1) + len
      /\ len \in Nat \ {0} /\ Len(SortSteps(L)) = Ends(L) /\ Ends(L) \in Nat
      /\ \A j \in 1..len : /\ Ends(l - 1) + j <= Ends(L)
                           /\ SortSteps(L)[Ends(l - 1) + j] = Level(l, L)[j]
  BY Schedule
<1>4. k + 1 \in 1..len /\ n + 1 = Ends(l - 1) + (k + 1) /\ L \in Nat /\ l \in Nat
  BY <1>2, <1>3, ChoiceAssumption
<1>5. w = Apply(Level(l, L)[k + 1], v)
  BY <1>3, <1>4
<1>6. Phase(w, l, k + 1) /\ Rearranges(w, v)
  BY <1>2, <1>5, PhaseStep
<1>7. CASE k + 1 # len
  <2>1. k + 1 \in 0..(len - 1) /\ k + 2 \in 1..len
    BY <1>3, <1>4, <1>7
  <2>2. AtPhase(w, n + 1)
    BY <1>4, <1>6, <2>1 DEF AtPhase
  <2>3. Ends(l - 1) + (k + 2) <= Ends(L)
    BY <1>3, <2>1
  <2>4. n + 1 # Ends(L)
    BY <1>3, <1>4, <2>3
  <2> QED
    BY <1>3, <1>6, <2>2, <2>4
<1>8. CASE k + 1 = len /\ l = L
  <2>1. SortedRuns(w, 2^(L - l), 2^l)
    BY <1>6, <1>8, LevelDone
  <2>2. n + 1 = Ends(L)
    BY <1>3, <1>4, <1>8
  <2> QED
    BY <1>3, <1>6, <1>8, <2>1, <2>2
<1>9. CASE k + 1 = len /\ l # L
  <2>1. SortedRuns(w, 2^(L - l), 2^l)
    BY <1>6, <1>9, LevelDone
  <2>2. Phase(w, l + 1, 0)
    BY <1>9, <2>1, NextLevel
  <2> DEFINE p == l + 1
  <2>3. p \in 1..L /\ p - 1 = l
    BY <1>4, <1>9
  <2>4. n + 1 = Ends(l)
    BY <1>3, <1>4, <1>9
  <2>5. Ends(l) < Ends(L)
    <3>1. l \in 0..L /\ L \in 1..L /\ l < L
      BY <1>4, <1>9
    <3> QED
      BY <3>1, Schedule
  <2>6. Len(Level(p, L)) \in Nat \ {0}
    <3> HIDE DEF p
    <3> QED
      BY <2>3, Schedule
  <2>7. AtPhase(w, n + 1)
    <3>1. 0 \in 0..(Len(Level(p, L)) - 1) /\ n + 1 = Ends(p - 1) + 0 /\ Phase(w, p, 0)
      BY <1>3, <2>2, <2>3, <2>4, <2>6
    <3> HIDE DEF p
    <3> QED
      BY <2>3, <3>1 DEF AtPhase
  <2> QED
    BY <1>3, <1>6, <2>4, <2>5, <2>7
<1> QED
  BY <1>7, <1>8, <1>9

(* The pads, and the mirror of the first level, put the network before its *)
(* first step.                                                             *)
LEMMA NetworkStart ==
    ASSUME NEW u \in [Slots -> Int], NEW v, v = IF L = 1 THEN u ELSE Mirror(u, 1)
    PROVE  Rearranges(v, u) /\ AtPhase(v, 0)
<1>0. L \in Nat \ {0}
  BY ChoiceAssumption
<1>1. Rearranges(v, u)
  <2>1. CASE L = 1
    BY <2>1 DEF Rearranges
  <2>2. CASE L # 1
    <3> DEFINE m == 2^(L - 2)
    <3>1. L - 2 \in Nat /\ (L - 2) + 2 = L /\ 2 \in Nat
      BY <1>0, <2>2
    <3>2. m \in Nat /\ 2^L = m * 2^2
      <4>1. 2^((L - 2) + 2) = 2^(L - 2) * 2^2 /\ 2^(L - 2) \in Nat
        BY <3>1, PowerSum, PowerDoubles
      <4> QED
        BY <3>1, <4>1
    <3>3. 2^2 = 4 * 1
      OBVIOUS
    <3> HIDE DEF m
    <3>4. m * (4 * 1) = 2^L
      BY <3>2, <3>3
    <3> QED
      BY <2>2, <3>2, <3>4, MirrorRearranges
  <2> QED
    BY <2>1, <2>2
<1>2. AtPhase(v, 0)
  <2>1. 1 \in 1..L
    BY <1>0
  <2>2. Len(Level(1, L)) \in Nat \ {0} /\ Ends(1 - 1) = 0
    BY <2>1, Schedule
  <2>3. 2^(1 - 1) = 1
    OBVIOUS
  <2>4. Phase(v, 1, 0)
    BY <2>3, SingleRuns DEF Phase
  <2>5. 0 \in 0..(Len(Level(1, L)) - 1) /\ 0 = Ends(1 - 1) + 0
    BY <2>2
  <2> QED
    BY <2>1, <2>4, <2>5, Zenon DEF AtPhase
<1> QED
  BY <1>1, <1>2

(* Nothing is sorted at first. *)
LEMMA BaseInit == ChoiceInit => ScoresIn /\ SortInv
<1> SUFFICES ASSUME ChoiceInit PROVE ScoresIn /\ SortInv
  OBVIOUS
<1>1. pass = "confident" /\ vec = <<>> /\ steps = 0
  BY DEF ChoiceInit
<1>2. best \in [A -> Scores] /\ box \in [A -> Boxes]
  BY ChoiceAssumption DEF ChoiceInit, A
<1>3. ScoresIn
  BY <1>1, <1>2 DEF ScoresIn, Passes
<1>4. SortInv
  BY <1>1 DEF SortInv, Sorting, Sorted
<1> QED
  BY <1>3, <1>4

(* The actions after the pads leave the confident scores, and all but the  *)
(* steps of the network leave its values.                                  *)
LEMMA BaseStep ==
    ScoresIn /\ SortInv /\ [ChoiceNext]_choiceVars => ScoresIn' /\ SortInv'
<1> SUFFICES ASSUME ScoresIn, SortInv, [ChoiceNext]_choiceVars PROVE ScoresIn' /\ SortInv'
  OBVIOUS
<1>k. ASSUME UNCHANGED <<best, box, confident, vec, steps>>,
             \/ pass' = pass
             \/ pass = "rank" /\ pass' = "sort"
             \/ pass \in Sorted /\ pass' \in Sorted
      PROVE  ScoresIn' /\ SortInv'
  <2>1. ScoresIn'
    BY <1>k DEF ScoresIn, Passes, Sorted
  <2>2. Padded' = Padded
    BY <1>k DEF Padded
  <2>e. vec' = vec /\ steps' = steps
    BY <1>k
  <2>3. CASE pass' = pass
    BY <2>e, <2>1, <2>2, <2>3 DEF SortInv
  <2>4. CASE pass = "rank" /\ pass' = "sort"
    BY <2>e, <2>1, <2>2, <2>4 DEF SortInv, Sorting, Sorted
  <2>5. CASE pass \in Sorted /\ pass' \in Sorted
    BY <2>e, <2>1, <2>2, <2>5 DEF SortInv, Sorting, Sorted
  <2> QED
    BY <1>k, <2>1, <2>3, <2>4, <2>5
<1>1. CASE Confident
  <2>1. /\ pass = "confident" /\ pass' = "pad" /\ UNCHANGED <<best, box, vec, steps>>
        /\ confident' = [a \in A |-> Threshold(best[a])]
    BY <1>1 DEF Confident
  <2>2. ScoresIn'
    BY <2>1 DEF ScoresIn, Passes
  <2>3. SortInv'
    BY <2>1 DEF SortInv, Sorting, Sorted
  <2> QED
    BY <2>2, <2>3
<1>2. CASE Pad
  <2>1. /\ pass = "pad" /\ pass' = "rank" /\ UNCHANGED <<best, box, confident, steps>>
        /\ vec' = IF L = 1 THEN Padded ELSE Mirror(Padded, 1)
    BY <1>2 DEF Pad, Padded
  <2>2. ScoresIn'
    BY <2>1 DEF ScoresIn, Passes
  <2>3. Padded' = Padded /\ Padded \in [Slots -> Int]
    BY <2>1, ConfidentScores DEF Padded
  <2>4. Rearranges(vec', Padded) /\ AtPhase(vec', 0)
    BY <2>1, <2>3, NetworkStart
  <2>5. steps' = 0
    BY <2>1 DEF SortInv
  <2>6. SortInv'
    BY <2>1, <2>3, <2>4, <2>5 DEF SortInv, Sorting, Sorted
  <2> QED
    BY <2>2, <2>6
<1>3. CASE Rank
  BY <1>3, <1>k DEF Rank
<1>4. CASE SortStep
  <2>1. /\ pass = "sort" /\ UNCHANGED <<best, box, confident>>
        /\ vec' = Apply(SortSteps(L)[steps + 1], vec)
        /\ steps' = steps + 1
        /\ pass' = IF steps' = Len(SortSteps(L)) THEN "sortedRank" ELSE "sort"
    BY <1>4 DEF SortStep
  <2>2. ScoresIn'
    BY <2>1 DEF ScoresIn, Passes
  <2>3. Padded' = Padded
    BY <2>1 DEF Padded
  <2>4. Rearranges(vec, Padded) /\ AtPhase(vec, steps)
    BY <2>1 DEF SortInv, Sorting
  <2>5. vec \in [Slots -> Int]
    BY <2>4 DEF Rearranges
  <2>6. /\ Rearranges(vec', vec)
        /\ steps + 1 # Len(SortSteps(L)) => AtPhase(vec', steps + 1)
        /\ steps + 1 = Len(SortSteps(L)) =>
              steps + 1 = Ends(L) /\ SortedRuns(vec', 2^(L - L), 2^L)
    BY <2>1, <2>4, <2>5, NetworkStep
  <2>7. Rearranges(vec', Padded)
    BY <2>4, <2>6, RearrangesTwice
  <2>8. CASE steps' = Len(SortSteps(L))
    <3>1. pass' = "sortedRank" /\ steps' = Ends(L) /\ SortedRuns(vec', 2^(L - L), 2^L)
      BY <2>1, <2>6, <2>8
    <3>2. SortInv'
      BY <2>3, <2>7, <3>1 DEF SortInv, Sorting, Sorted
    <3> QED
      BY <2>2, <3>2
  <2>9. CASE steps' # Len(SortSteps(L))
    <3>1. pass' = "sort" /\ AtPhase(vec', steps')
      BY <2>1, <2>6, <2>9
    <3>2. SortInv'
      BY <2>3, <2>7, <3>1 DEF SortInv, Sorting, Sorted
    <3> QED
      BY <2>2, <3>2
  <2> QED
    BY <2>8, <2>9
<1>5. CASE SortedRank \/ Order \/ GatherRows \/ Keep
  <2>1. /\ UNCHANGED <<best, box, confident, vec, steps>>
        /\ pass \in Sorted /\ pass' \in Sorted
    BY <1>5 DEF SortedRank, Order, GatherRows, Keep, Sorted
  <2> QED
    BY <1>k, <2>1
<1>6. CASE UNCHANGED choiceVars
  BY <1>6, <1>k DEF choiceVars
<1> QED
  BY <1>1, <1>2, <1>3, <1>4, <1>5, <1>6 DEF ChoiceNext

(* Sorted runs, value by value. *)
LEMMA RunsInOrder ==
    ASSUME NEW l \in 1..L, NEW v, SortedRuns(v, 2^(L - l), 2^l),
           NEW i \in Slots \ {2^L - 1}, (i + 1) % 2^l # 0
    PROVE  v[i] >= v[i + 1]
<1> DEFINE R == 2^(L - l)
           n == 2^l
<1>1. R \in Nat /\ n \in Nat \ {0} /\ R * n = 2^L
  <2>1. l \in Nat
    OBVIOUS
  <2> QED
    BY <2>1, LevelFacts, PowerPositive
<1>2. SortedRuns(v, R, n) /\ (i + 1) % n # 0
  OBVIOUS
<1> HIDE DEF R, n
<1>3. PICK e \in 0..(R - 1), x \in 0..(n - 1) : i = e * n + x
  BY <1>1, Places
<1>4. x + 1 # n
  <2> SUFFICES ASSUME x + 1 = n PROVE FALSE
    OBVIOUS
  <2>1. i + 1 = (e + 1) * n + 0
    BY <1>1, <1>3
  <2>2. e + 1 \in Int /\ 0 \in 0..(n - 1)
    BY <1>1
  <2>3. ((e + 1) * n + 0) % n = 0
    BY <1>1, <2>2, Quotient
  <2> QED
    BY <1>2, <2>1, <2>3
<1>5. x + 1 \in 0..(n - 1) /\ x < x + 1 /\ i + 1 = e * n + (x + 1)
  BY <1>1, <1>3, <1>4
<1>6. SortedRun(v, e * n, n)
  BY <1>2 DEF SortedRuns
<1>7. v[e * n + x] >= v[e * n + (x + 1)]
  <2> DEFINE b == e * n
  <2> HIDE DEF b
  <2>1. v[b + x] >= v[b + (x + 1)]
    BY <1>5, <1>6 DEF SortedRun, b
  <2> QED
    BY <2>1 DEF b
<1> QED
  BY <1>3, <1>5, <1>7

(* No score is lost or doubled. *)
LEMMA ScoresKept ==
    ASSUME ScoresIn, SortInv, pass \in Sorting \cup Sorted, NEW s \in Nat
    PROVE  Cardinality({i \in Slots : vec[i] = s}) = Cardinality({a \in A : confident[a] = s})
<1>1. Rearranges(vec, Padded)
  BY DEF SortInv
<1>2. Cardinality({i \in Slots : vec[i] = s}) = Cardinality({i \in Slots : Padded[i] = s})
  BY <1>1 DEF Rearranges
<1>3. {i \in Slots : Padded[i] = s} = {a \in A : confident[a] = s}
  <2>1. \A i \in Slots : Padded[i] = IF i \in A THEN confident[i] ELSE -1
    BY DEF Padded
  <2>2. s # -1 /\ \A a \in A : a \in Slots
    BY SlotFacts
  <2>3. ASSUME NEW i \in Slots, Padded[i] = s PROVE i \in A /\ confident[i] = s
    BY <2>1, <2>2, <2>3
  <2>4. ASSUME NEW a \in A, confident[a] = s PROVE a \in Slots /\ Padded[a] = s
    BY <2>1, <2>2, <2>4
  <2> QED
    BY <2>3, <2>4, Zenon
<1> QED
  BY <1>2, <1>3

(* The invariant of the network gives what the run checks. *)
LEMMA RunsAreSorted == ScoresIn /\ SortInv => RunsSorted
<1> SUFFICES ASSUME ScoresIn, SortInv, vec # <<>>
             PROVE  /\ \A s \in Scores \cup {0} :
                          Cardinality({i \in Slots : vec[i] = s})
                              = Cardinality({a \in A : confident[a] = s})
                    /\ \A l \in 1..L :
                          steps = Len(FlattenSeq([m \in 1..l |-> Level(m, L)])) =>
                              \A i \in Slots \ {2^L - 1} :
                                  (i + 1) % 2^l # 0 => vec[i] >= vec[i + 1]
  BY DEF RunsSorted
<1>0. L \in Nat \ {0}
  BY ChoiceAssumption
<1>1. pass \in Sorting \cup Sorted
  BY DEF ScoresIn, SortInv, Passes, Sorting, Sorted
<1>2. ASSUME NEW s \in Scores \cup {0}
      PROVE  Cardinality({i \in Slots : vec[i] = s}) = Cardinality({a \in A : confident[a] = s})
  <2>1. s \in Nat
    BY ChoiceAssumption
  <2> QED
    BY <1>1, <2>1, ScoresKept
<1>3. ASSUME NEW l \in 1..L, steps = Len(FlattenSeq([m \in 1..l |-> Level(m, L)])),
             NEW i \in Slots \ {2^L - 1}, (i + 1) % 2^l # 0
      PROVE  vec[i] >= vec[i + 1]
  <2>0. l \in Nat \ {0}
    OBVIOUS
  <2>1. steps = Ends(l)
    BY <1>3, <2>0 DEF Ends, After
  <2>2. SortedRuns(vec, 2^(L - l), 2^l)
    <3>1. CASE pass \in Sorted
      <4>1. steps = Ends(L) /\ SortedRuns(vec, 2^(L - L), 2^L)
        BY <3>1 DEF SortInv
      <4>2. l = L
        <5> SUFFICES ASSUME l # L PROVE FALSE
          OBVIOUS
        <5>1. l \in 0..L /\ L \in 1..L /\ l < L
          BY <1>0
        <5>2. Ends(l) < Ends(L) /\ Ends(L) \in Nat
          BY <5>1, Schedule
        <5> QED
          BY <2>1, <4>1, <5>2
      <4> QED
        BY <4>1, <4>2
    <3>2. CASE pass \in Sorting
      <4>1. AtPhase(vec, steps)
        BY <3>2 DEF SortInv
      <4>2. PICK n \in 1..L : \E k \in 0..(Len(Level(n, L)) - 1) :
               steps = Ends(n - 1) + k /\ Phase(vec, n, k)
        BY <4>1 DEF AtPhase
      <4>3. PICK k \in 0..(Len(Level(n, L)) - 1) : steps = Ends(n - 1) + k /\ Phase(vec, n, k)
        BY <4>2
      <4>4. /\ Ends(n) \in Nat /\ Ends(n - 1) \in Nat /\ Ends(n) = Ends(n - 1) + Len(Level(n, L))
            /\ Len(Level(n, L)) \in Nat \ {0} /\ Ends(l) \in Nat
        BY Schedule
      <4>5. Ends(n - 1) <= Ends(l) /\ Ends(l) < Ends(n) /\ Ends(l) = Ends(n - 1) + k
        BY <2>1, <4>3, <4>4
      <4>6. ~(n < l)
        <5> SUFFICES ASSUME n < l PROVE FALSE
          OBVIOUS
        <5>1. n \in 0..L
          OBVIOUS
        <5>2. Ends(n) < Ends(l)
          BY <5>1, Schedule
        <5> QED
          BY <4>4, <4>5, <5>2
      <4>7. n # l
        BY <4>4, <4>5
      <4>8. ~(l < n - 1)
        <5> SUFFICES ASSUME l < n - 1 PROVE FALSE
          OBVIOUS
        <5> DEFINE p == n - 1
        <5>1. p \in 1..L /\ l \in 0..L /\ l < p
          BY <1>0
        <5> HIDE DEF p
        <5>2. Ends(l) < Ends(p)
          BY <5>1, Schedule
        <5>3. Ends(l) < Ends(n - 1)
          BY <5>2 DEF p
        <5> QED
          BY <4>4, <4>5, <5>3
      <4>9. n - 1 = l /\ l # L
        BY <1>0, <4>6, <4>7, <4>8
      <4>10. k = 0
        BY <4>4, <4>5, <4>9
      <4>11. SortedRuns(vec, 2 * 2^(L - n), 2^(n - 1))
        BY <4>3, <4>10 DEF Phase
      <4>12. 2^(L - l) = 2 * 2^(L - n)
        <5>1. L - n \in Nat /\ (L - n) + 1 = L - l
          BY <1>0, <4>9
        <5>2. 2^((L - n) + 1) = 2^(L - n) + 2^(L - n) /\ 2^(L - n) \in Nat
          BY <5>1, PowerDoubles
        <5> QED
          BY <5>1, <5>2
      <4> QED
        BY <4>9, <4>11, <4>12
    <3> QED
      BY <1>1, <3>1, <3>2
  <2> QED
    BY <1>3, <2>2, RunsInOrder
<1> QED
  BY <1>2, <1>3

(***************************************************************************)
(* Counting.  UpTo is what EqualUpTo counts, for any value s.              *)
(***************************************************************************)
UpTo(v, s, i) == {j \in A : j <= i /\ v[j] = s}
AllOf(v, s) == {j \in A : v[j] = s}

(* These sets are finite, and grow with every place that has the value. *)
LEMMA UpToFacts ==
    ASSUME NEW v, NEW s, NEW i \in Int
    PROVE  /\ IsFiniteSet(UpTo(v, s, i)) /\ Cardinality(UpTo(v, s, i)) \in Nat
           /\ IsFiniteSet(AllOf(v, s)) /\ Cardinality(AllOf(v, s)) \in Nat
           /\ Cardinality(UpTo(v, s, i)) <= Cardinality(AllOf(v, s))
           /\ \A j \in A : j > i /\ v[j] = s =>
                 Cardinality(UpTo(v, s, i)) < Cardinality(UpTo(v, s, j))
<1>1. UpTo(v, s, i) \subseteq AllOf(v, s) /\ AllOf(v, s) \subseteq A
  BY DEF UpTo, AllOf
<1>2. IsFiniteSet(AllOf(v, s)) /\ IsFiniteSet(UpTo(v, s, i))
  BY <1>1, SlotFacts, FS_Subset
<1>3. Cardinality(UpTo(v, s, i)) \in Nat /\ Cardinality(AllOf(v, s)) \in Nat
      /\ Cardinality(UpTo(v, s, i)) <= Cardinality(AllOf(v, s))
  BY <1>1, <1>2, FS_Subset, FS_CardinalityType
<1>4. ASSUME NEW j \in A, j > i, v[j] = s
      PROVE  Cardinality(UpTo(v, s, i)) < Cardinality(UpTo(v, s, j))
  <2> DEFINE P == UpTo(v, s, i)
             Q == UpTo(v, s, j)
  <2>0. \A k \in A : k \in Int
    BY SlotFacts
  <2>1. P \subseteq Q /\ j \in Q /\ j \notin P
    <3>1. \A k \in A : k <= i => k <= j
      BY <1>4, <2>0
    <3>2. j <= j /\ ~(j <= i)
      BY <1>4, <2>0
    <3> QED
      BY <1>4, <3>1, <3>2 DEF UpTo
  <2>2. IsFiniteSet(Q)
    <3>1. Q \subseteq A
      BY DEF UpTo
    <3> QED
      BY <3>1, SlotFacts, FS_Subset
  <2> HIDE DEF P, Q
  <2>3. Cardinality(P) <= Cardinality(Q) /\ (Cardinality(P) = Cardinality(Q) => P = Q)
    BY <2>1, <2>2, FS_Subset
  <2>4. Cardinality(P) \in Nat /\ Cardinality(Q) \in Nat
    BY <1>3, <2>2, FS_CardinalityType DEF P
  <2>5. Cardinality(P) < Cardinality(Q)
    BY <2>1, <2>3, <2>4
  <2> QED
    BY <2>5 DEF P, Q
<1> QED
  BY <1>2, <1>3, <1>4

(* The rank of a value among its equals. *)
LEMMA RankBounds ==
    ASSUME NEW v, NEW i \in A
    PROVE  EqualUpTo(v, i) \in 1..Cardinality(AllOf(v, v[i]))
<1>1. EqualUpTo(v, i) = Cardinality(UpTo(v, v[i], i))
  BY DEF EqualUpTo, UpTo
<1>2. i \in Int /\ -1 \in Int /\ i > -1
  BY SlotFacts
<1>3. Cardinality(UpTo(v, v[i], i)) <= Cardinality(AllOf(v, v[i]))
      /\ Cardinality(AllOf(v, v[i])) \in Nat /\ Cardinality(UpTo(v, v[i], i)) \in Nat
  BY <1>2, UpToFacts
<1>4. Cardinality(UpTo(v, v[i], -1)) < Cardinality(UpTo(v, v[i], i))
      /\ Cardinality(UpTo(v, v[i], -1)) \in Nat
  BY <1>2, UpToFacts
<1> QED
  BY <1>1, <1>3, <1>4

(* Equal values have increasing ranks. *)
LEMMA RankIncreases ==
    ASSUME NEW v, NEW i \in A, NEW j \in A, i < j, v[i] = v[j]
    PROVE  EqualUpTo(v, i) < EqualUpTo(v, j)
<1>1. EqualUpTo(v, i) = Cardinality(UpTo(v, v[i], i)) /\ EqualUpTo(v, j) = Cardinality(UpTo(v, v[i], j))
  BY DEF EqualUpTo, UpTo
<1>2. i \in Int /\ j \in Int /\ j > i
  BY SlotFacts
<1>3. Cardinality(UpTo(v, v[i], i)) < Cardinality(UpTo(v, v[i], j))
  BY <1>2, UpToFacts
<1> QED
  BY <1>1, <1>3

(* Equal values have different ranks. *)
LEMMA RankTells ==
    ASSUME NEW v, NEW i \in A, NEW j \in A, v[i] = v[j]
    PROVE  /\ EqualUpTo(v, i) = EqualUpTo(v, j) => i = j
           /\ EqualUpTo(v, i) < EqualUpTo(v, j) => i < j
<1>1. i \in Int /\ j \in Int
  BY SlotFacts
<1>2. EqualUpTo(v, i) \in Int /\ EqualUpTo(v, j) \in Int
  <2>1. /\ EqualUpTo(v, i) \in 1..Cardinality(AllOf(v, v[i]))
        /\ EqualUpTo(v, j) \in 1..Cardinality(AllOf(v, v[j]))
    BY RankBounds
  <2> QED
    BY <2>1
<1>3. CASE i < j
  <2>1. EqualUpTo(v, i) < EqualUpTo(v, j)
    BY <1>3, RankIncreases
  <2> QED
    BY <1>2, <1>3, <2>1
<1>4. CASE j < i
  <2>1. EqualUpTo(v, j) < EqualUpTo(v, i)
    BY <1>4, RankIncreases
  <2> QED
    BY <1>2, <2>1
<1>5. CASE i = j
  BY <1>2, <1>5
<1> QED
  BY <1>1, <1>3, <1>4, <1>5

(* Every rank up to the number of equals is taken. *)
LEMMA RankTaken ==
    ASSUME NEW v, NEW s, NEW r \in 1..Cardinality(AllOf(v, s))
    PROVE  \E i \in A : v[i] = s /\ EqualUpTo(v, i) = r
<1> DEFINE C(i) == Cardinality(UpTo(v, s, i))
           T == {i \in A : C(i) >= r}
<1>0. \A i \in A : i \in Nat /\ i \in Int
  BY SlotFacts
<1>t. \A i \in Int : C(i) \in Nat
  BY UpToFacts
<1>1. T # {} /\ T \subseteq Nat
  <2>1. Anchors - 1 \in A /\ \A j \in A : j <= Anchors - 1
    BY SlotFacts DEF A
  <2>2. UpTo(v, s, Anchors - 1) = AllOf(v, s)
    BY <2>1 DEF UpTo, AllOf
  <2>3. C(Anchors - 1) >= r
    <3>1. Cardinality(AllOf(v, s)) \in Nat
      BY <1>0, <2>1, UpToFacts
    <3> QED
      BY <2>2, <3>1
  <2> HIDE DEF C
  <2> QED
    BY <1>0, <2>1, <2>3
<1>2. PICK x \in T : \A y \in T : x <= y
  <2> HIDE DEF T
  <2> QED
    BY <1>1, LeastNatural
<1>3. x \in A /\ C(x) >= r /\ x \in Nat
  BY <1>0
<1>4. C(x - 1) < r
  <2>1. CASE x = 0
    <3>1. UpTo(v, s, x - 1) = {}
      <4>1. \A j \in A : ~(j <= x - 1)
        BY <1>0, <2>1
      <4> QED
        BY <4>1 DEF UpTo
    <3>2. C(x - 1) = 0
      BY <3>1, FS_EmptySet
    <3> HIDE DEF C
    <3> QED
      BY <3>2
  <2>2. CASE x # 0
    <3>1. x - 1 \in A /\ ~(x <= x - 1) /\ x - 1 \in Int
      BY <1>3, <2>2, SlotFacts DEF A
    <3>2. x - 1 \notin T
      <4> HIDE DEF T
      <4> QED
        BY <1>2, <3>1
    <3>3. C(x - 1) \in Nat /\ ~(C(x - 1) >= r)
      <4>1. C(x - 1) \in Nat
        BY <1>t, <3>1
      <4> QED
        BY <3>1, <3>2, <4>1
    <3> HIDE DEF C
    <3> QED
      BY <3>3
  <2> QED
    BY <2>1, <2>2
<1>5. v[x] = s
  <2> SUFFICES ASSUME v[x] # s PROVE FALSE
    OBVIOUS
  <2>1. ASSUME NEW j \in A, v[j] = s PROVE j <= x <=> j <= x - 1
    <3>1. j # x /\ j \in Int /\ x \in Int
      BY <1>0, <1>3, <2>1
    <3> QED
      BY <3>1
  <2>2. UpTo(v, s, x) = UpTo(v, s, x - 1)
    BY <2>1 DEF UpTo
  <2>3. C(x) = C(x - 1)
    BY <2>2
  <2>4. C(x) \in Nat
    BY <1>t, <1>3
  <2> HIDE DEF C
  <2> QED
    BY <1>3, <1>4, <2>3, <2>4
<1>6. C(x) = C(x - 1) + 1
  <2> DEFINE P == UpTo(v, s, x - 1)
  <2>1. x \notin P /\ UpTo(v, s, x) = P \cup {x}
    <3>1. \A j \in A : j <= x <=> (j = x \/ j <= x - 1)
      BY <1>0, <1>3
    <3>2. ~(x <= x - 1)
      BY <1>3
    <3> QED
      BY <1>3, <1>5, <3>1, <3>2 DEF UpTo
  <2>2. IsFiniteSet(P)
    BY <1>3, UpToFacts
  <2> HIDE DEF P
  <2>3. Cardinality(P \cup {x}) = Cardinality(P) + 1
    BY <2>1, <2>2, FS_AddElement
  <2> QED
    BY <2>1, <2>3 DEF P
<1>7. EqualUpTo(v, x) = C(x)
  BY <1>5 DEF EqualUpTo, UpTo
<1>8. C(x) = r
  <2>1. C(x) \in Nat /\ C(x - 1) \in Nat
    BY <1>t, <1>3
  <2> HIDE DEF C
  <2> QED
    BY <1>3, <1>4, <1>6, <2>1
<1> QED
  BY <1>3, <1>5, <1>7, <1>8

(* A set of natural numbers that has every number below one it has. *)
LEMMA InitialSegment ==
    ASSUME NEW n \in Nat, NEW P \in SUBSET (0..(n - 1)),
           \A i \in P : \A j \in 0..(n - 1) : j < i => j \in P
    PROVE  P = 0..(Cardinality(P) - 1)
<1> DEFINE T == {i \in Nat : i \notin P}
<1>1. n \in T /\ T \subseteq Nat
  OBVIOUS
<1>2. PICK x \in T : \A y \in T : x <= y
  <2> HIDE DEF T
  <2> QED
    BY <1>1, LeastNatural
<1>3. x \in Nat /\ x \notin P /\ x <= n
  BY <1>1, <1>2
<1>4. ASSUME NEW i \in 0..(x - 1) PROVE i \in P
  <2>1. i \in Nat /\ ~(x <= i)
    BY <1>3
  <2>2. i \notin T
    <3> HIDE DEF T
    <3> QED
      BY <1>2, <2>1
  <2> QED
    BY <2>1, <2>2
<1>5. ASSUME NEW i \in P PROVE i \in 0..(x - 1)
  <2>1. i \in 0..(n - 1)
    OBVIOUS
  <2>2. ~(x < i) /\ x # i
    BY <1>3, <2>1
  <2> QED
    BY <1>3, <2>1, <2>2
<1>6. P = 0..(x - 1)
  BY <1>4, <1>5, Zenon
<1>7. Cardinality(0..(x - 1)) = x
  BY <1>3, FS_Interval
<1> QED
  BY <1>6, <1>7

(* Sorted, the scores are in the first places and the pads in the others.  *)
LEMMA ScoresFirst ==
    ASSUME ScoresIn, SortInv, pass \in Sorted
    PROVE  /\ vec \in [Slots -> Int]
           /\ \A i, j \in A : i < j => vec[i] >= vec[j]
           /\ \A i \in A : vec[i] \in Nat
           /\ \A s \in Nat : Cardinality(AllOf(vec, s)) = Cardinality(AllOf(confident, s))
<1>0. Rearranges(vec, Padded) /\ SortedRuns(vec, 2^(L - L), 2^L) /\ L \in Nat
      /\ pass # "confident"
  BY ChoiceAssumption DEF SortInv, Sorted
<1> DEFINE n == 2^L
           P == {i \in Slots : vec[i] >= 0}
           Q == {i \in Slots : vec[i] = -1}
<1>1. n \in Nat /\ Slots = 0..(n - 1)
  BY SlotFacts DEF Slots
<1>2. \A i, j \in Slots : i < j => vec[i] >= vec[j]
  <2>1. 2^(L - L) = 1
    <3>1. L - L = 0 /\ 2^0 = 1
      BY <1>0
    <3> QED
      BY <3>1, Zenon
  <2>2. SortedRuns(vec, 1, n)
    BY <1>0, <2>1
  <2> HIDE DEF n
  <2>3. SortedRun(vec, 0 * n, n) /\ 0 * n = 0
    BY <1>1, <2>2 DEF SortedRuns
  <2>4. \A x \in 0..(n - 1) : 0 + x = x
    OBVIOUS
  <2> QED
    BY <1>1, <2>3, <2>4 DEF SortedRun
<1>3. vec \in [Slots -> Int]
  BY <1>0 DEF Rearranges
<1>4. confident \in [A -> 0..100]
  BY <1>0, ConfidentScores
<1>5. \A i \in Slots : vec[i] = -1 \/ vec[i] >= 0
  <2> SUFFICES ASSUME NEW i \in Slots PROVE vec[i] = -1 \/ vec[i] >= 0
    OBVIOUS
  <2> DEFINE s == vec[i]
             V == {k \in Slots : vec[k] = s}
             W == {k \in Slots : Padded[k] = s}
  <2>1. s \in Int
    BY <1>3
  <2>2. Cardinality(V) = Cardinality(W)
    BY <1>0, <2>1 DEF Rearranges
  <2>3. i \in V /\ IsFiniteSet(V) /\ IsFiniteSet(W)
    BY SlotFacts, FS_Subset
  <2>4. W # {}
    <3> HIDE DEF V, W
    <3>1. Cardinality(V) # 0
      BY <2>3, FS_EmptySet
    <3> QED
      BY <2>2, <3>1, FS_EmptySet
  <2>5. PICK k \in Slots : Padded[k] = s
    BY <2>4
  <2>6. Padded[k] = -1 \/ Padded[k] \in 0..100
    BY <1>4 DEF Padded
  <2> QED
    BY <2>5, <2>6
<1>6. Cardinality(Q) = n - Anchors
  <2> DEFINE W == {k \in Slots : Padded[k] = -1}
  <2>1. Cardinality(Q) = Cardinality(W)
    <3>1. -1 \in Int
      OBVIOUS
    <3> QED
      BY <1>0, <3>1 DEF Rearranges
  <2>2. W = Slots \ A
    <3>1. \A k \in Slots : Padded[k] = IF k \in A THEN confident[k] ELSE -1
      BY DEF Padded
    <3>2. \A k \in A : confident[k] # -1
      BY <1>4
    <3> QED
      BY <3>1, <3>2
  <2>3. Slots \ A = Anchors..(n - 1) /\ Anchors \in 1..n
    <3> HIDE DEF n
    <3>1. Anchors \in 1..n
      BY ChoiceAssumption DEF n
    <3> QED
      BY <1>1, <3>1 DEF A
  <2> HIDE DEF n
  <2>4. Cardinality(Anchors..(n - 1)) = n - Anchors
    <3>1. Anchors \in Int /\ n - 1 \in Int
      BY <1>1, <2>3
    <3>2. Cardinality(Anchors..(n - 1)) = IF Anchors > n - 1 THEN 0 ELSE (n - 1) - Anchors + 1
      BY <3>1, FS_Interval
    <3> QED
      BY <1>1, <2>3, <3>2
  <2> QED
    BY <2>1, <2>2, <2>3, <2>4
<1>7. Cardinality(P) = Anchors
  <2>1. P \cup Q = Slots /\ P \cap Q = {}
    BY <1>5
  <2>2. IsFiniteSet(P) /\ IsFiniteSet(Q)
    BY SlotFacts, FS_Subset
  <2>3. Cardinality(Slots) = n
    <3> HIDE DEF n
    <3> QED
      BY <1>1, FS_Interval
  <2> HIDE DEF P, Q, n
  <2>4. Cardinality(P \cup Q) = Cardinality(P) + Cardinality(Q) - Cardinality(P \cap Q)
    BY <2>2, FS_Union
  <2>5. Cardinality(P \cap Q) = 0 /\ Cardinality(P) \in Nat
    BY <2>1, <2>2, FS_EmptySet, FS_CardinalityType
  <2>6. Anchors \in Nat
    BY SlotFacts
  <2>7. Cardinality(P \cup Q) = n
    BY <2>1, <2>3
  <2>8. n = Cardinality(P) + (n - Anchors) - 0
    BY <1>6, <2>4, <2>5, <2>7
  <2> QED
    BY <1>1, <2>5, <2>6, <2>8
<1>8. P = A
  <2>1. P \in SUBSET (0..(n - 1))
    BY <1>1
  <2>2. ASSUME NEW i \in P, NEW j \in 0..(n - 1), j < i PROVE j \in P
    <3>1. i \in Slots /\ j \in Slots /\ vec[i] >= 0
      BY <1>1
    <3>2. vec[j] >= vec[i] /\ vec[j] \in Int /\ vec[i] \in Int
      BY <1>2, <1>3, <2>2, <3>1
    <3> QED
      BY <3>1, <3>2
  <2> HIDE DEF P, n
  <2>3. P = 0..(Cardinality(P) - 1)
    BY <1>1, <2>1, <2>2, InitialSegment
  <2> QED
    BY <1>7, <2>3 DEF A
<1>9. \A i \in A : vec[i] \in Nat
  BY <1>3, <1>8, SlotFacts
<1>10. ASSUME NEW s \in Nat PROVE Cardinality(AllOf(vec, s)) = Cardinality(AllOf(confident, s))
  <2>1. {i \in Slots : vec[i] = s} = AllOf(vec, s)
    <3>1. ASSUME NEW i \in Slots, vec[i] = s PROVE i \in A
      BY <1>8, <3>1
    <3>2. A \subseteq Slots
      BY SlotFacts
    <3> QED
      BY <3>1, <3>2 DEF AllOf
  <2>2. pass \in Sorting \cup Sorted
    OBVIOUS
  <2>3. Cardinality({i \in Slots : vec[i] = s}) = Cardinality({a \in A : confident[a] = s})
    BY <2>2, ScoresKept
  <2> QED
    BY <2>1, <2>3 DEF AllOf
<1>11. \A i, j \in A : i < j => vec[i] >= vec[j]
  BY <1>2, SlotFacts
<1> QED
  BY <1>3, <1>9, <1>10, <1>11

(***************************************************************************)
(* The order finds, for each place, the anchor with its score and rank.    *)
(***************************************************************************)
Finds ==
    \A i \in A : /\ order[i] \in A
                 /\ confident[order[i]] = vec[i]
                 /\ EqualUpTo(confident, order[i]) = EqualUpTo(vec, i)

(* What the buffers after the sort hold, each from its pass on. *)
OrderInv ==
    /\ pass \in {"confident", "pad", "rank", "sort", "sortedRank", "order"} => order = <<>>
    /\ pass \in {"sort"} \cup Sorted => rank = [i \in A |-> EqualUpTo(confident, i)]
    /\ pass \in {"order", "rows", "keep", "done"} =>
           sortedRank = [i \in A |-> EqualUpTo(vec, i)]
    /\ pass \in {"rows", "keep", "done"} => Finds
    /\ pass \in {"keep", "done"} =>
           rows = [i \in K |-> [box |-> box[order[i]], score |-> confident[order[i]]]]
    /\ pass = "done" => keep = [i \in K |-> IF \E j \in K : Drops(j, i) THEN 0 ELSE 1]

(* The sum of pass 219 has one term. *)
LEMMA OneTerm ==
    ASSUME ScoresIn, SortInv, pass \in Sorted, NEW i \in A,
           rank = [j \in A |-> EqualUpTo(confident, j)],
           sortedRank = [j \in A |-> EqualUpTo(vec, j)],
           NEW x, x = SumSet({j \in A : confident[j] = vec[i] /\ rank[j] = sortedRank[i]})
    PROVE  /\ x \in A /\ confident[x] = vec[i]
           /\ EqualUpTo(confident, x) = EqualUpTo(vec, i)
<1> DEFINE s == vec[i]
           r == EqualUpTo(vec, i)
           S == {j \in A : confident[j] = s /\ rank[j] = sortedRank[i]}
<1>1. s \in Nat /\ Cardinality(AllOf(vec, s)) = Cardinality(AllOf(confident, s))
  BY ScoresFirst
<1>2. r \in 1..Cardinality(AllOf(vec, s))
  BY RankBounds
<1> HIDE DEF s, r
<1>3. PICK j \in A : confident[j] = s /\ EqualUpTo(confident, j) = r
  <2>1. r \in 1..Cardinality(AllOf(confident, s))
    BY <1>1, <1>2
  <2> QED
    BY <2>1, RankTaken
<1>4. ASSUME NEW k \in A
      PROVE  confident[k] = s /\ rank[k] = sortedRank[i] <=> k = j
  <2>1. rank[k] = EqualUpTo(confident, k) /\ sortedRank[i] = r
    BY DEF r
  <2>2. confident[k] = s /\ EqualUpTo(confident, k) = r => k = j
    BY <1>3, RankTells
  <2> QED
    BY <1>3, <2>1, <2>2
<1>5. S = {j}
  BY <1>4
<1>6. j \in Nat
  BY SlotFacts
<1>7. x = SumSet(S)
  BY DEF s
<1> HIDE DEF S
<1>8. x = j
  BY <1>5, <1>6, <1>7, SumOfOne
<1> QED
  BY <1>3, <1>8 DEF s, r

(* Every anchor is found. *)
LEMMA EveryAnchor ==
    ASSUME ScoresIn, SortInv, pass \in Sorted, Finds, NEW a \in A
    PROVE  \E i \in A : order[i] = a
<1> DEFINE s == confident[a]
           r == EqualUpTo(confident, a)
<1>1. s \in Nat
  <2>1. confident \in [A -> 0..100]
    <3>1. pass # "confident"
      BY DEF Sorted
    <3> QED
      BY <3>1, ConfidentScores
  <2> QED
    BY <2>1
<1>2. r \in 1..Cardinality(AllOf(confident, s))
  BY RankBounds
<1> HIDE DEF s, r
<1>3. r \in 1..Cardinality(AllOf(vec, s))
  BY <1>1, <1>2, ScoresFirst
<1>4. PICK i \in A : vec[i] = s /\ EqualUpTo(vec, i) = r
  BY <1>3, RankTaken
<1>5. /\ order[i] \in A /\ confident[order[i]] = s
      /\ EqualUpTo(confident, order[i]) = r
  BY <1>4 DEF Finds
<1>6. order[i] = a
  BY <1>5, RankTells DEF s, r
<1> QED
  BY <1>6

(* Earlier in the order is better. *)
Better(b, a) == confident[b] > confident[a] \/ (confident[b] = confident[a] /\ b < a)

(* It has the larger score, or the same and the smaller index. *)
LEMMA EarlierIsBetter ==
    ASSUME ScoresIn, SortInv, pass \in Sorted, Finds, NEW i \in A, NEW j \in A, i < j
    PROVE  Better(order[i], order[j])
<1>1. vec[i] >= vec[j] /\ vec[i] \in Nat /\ vec[j] \in Nat
  BY ScoresFirst
<1>2. /\ order[i] \in A /\ confident[order[i]] = vec[i]
      /\ EqualUpTo(confident, order[i]) = EqualUpTo(vec, i)
      /\ order[j] \in A /\ confident[order[j]] = vec[j]
      /\ EqualUpTo(confident, order[j]) = EqualUpTo(vec, j)
  BY DEF Finds
<1>3. CASE vec[i] > vec[j]
  BY <1>2, <1>3 DEF Better
<1>4. CASE vec[i] = vec[j]
  <2>1. EqualUpTo(vec, i) < EqualUpTo(vec, j)
    BY <1>4, RankIncreases
  <2>2. order[i] < order[j]
    BY <1>2, <1>4, <2>1, RankTells
  <2> QED
    BY <1>2, <1>4, <2>2 DEF Better
<1> QED
  BY <1>1, <1>3, <1>4

(* The inductive invariant of the choice. *)
ChoiceInv == ScoresIn /\ SortInv /\ OrderInv

(* Nothing is ordered at first. *)
LEMMA OrderInit == ChoiceInit => OrderInv
BY DEF ChoiceInit, OrderInv, Sorted

(* Each pass after the sort fills its buffer and leaves the others. *)
LEMMA OrderStep == ChoiceInv /\ [ChoiceNext]_choiceVars => OrderInv'
<1> SUFFICES ASSUME ScoresIn, SortInv, OrderInv, [ChoiceNext]_choiceVars PROVE OrderInv'
  BY DEF ChoiceInv
<1>1. CASE Confident
  BY <1>1 DEF Confident, OrderInv, Sorted
<1>2. CASE Pad
  BY <1>2 DEF Pad, OrderInv, Sorted
<1>3. CASE Rank
  <2>1. /\ pass = "rank" /\ pass' = "sort" /\ UNCHANGED <<confident, order>>
        /\ rank' = [i \in A |-> EqualUpTo(confident, i)]
    BY <1>3 DEF Rank
  <2>2. \A i \in A : EqualUpTo(confident', i) = EqualUpTo(confident, i)
    BY <2>1
  <2>3. rank' = [i \in A |-> EqualUpTo(confident, i)]' /\ order' = <<>>
    BY <2>1, <2>2 DEF OrderInv
  <2> QED
    BY <2>1, <2>3 DEF OrderInv, Sorted
<1>4. CASE SortStep
  <2>1. /\ pass = "sort" /\ pass' \in {"sort", "sortedRank"}
        /\ UNCHANGED <<confident, rank, order>>
    BY <1>4 DEF SortStep
  <2>2. order' = <<>> /\ rank' = [i \in A |-> EqualUpTo(confident, i)]'
    BY <2>1 DEF OrderInv
  <2> QED
    BY <2>1, <2>2 DEF OrderInv, Sorted
<1>5. CASE SortedRank
  <2>1. /\ pass = "sortedRank" /\ pass' = "order" /\ UNCHANGED <<confident, vec, rank, order>>
        /\ sortedRank' = [i \in A |-> EqualUpTo(vec, i)]
    BY <1>5 DEF SortedRank
  <2>2. /\ order' = <<>> /\ rank' = [i \in A |-> EqualUpTo(confident, i)]'
        /\ sortedRank' = [i \in A |-> EqualUpTo(vec, i)]'
    BY <2>1 DEF OrderInv, Sorted
  <2> QED
    BY <2>1, <2>2 DEF OrderInv, Sorted
<1>6. CASE Order
  <2>1. /\ pass = "order" /\ pass' = "rows" /\ UNCHANGED <<confident, vec, rank, sortedRank>>
        /\ order' = [i \in A |->
                      SumSet({j \in A : confident[j] = vec[i] /\ rank[j] = sortedRank[i]})]
    BY <1>6 DEF Order
  <2>2. /\ rank = [i \in A |-> EqualUpTo(confident, i)]
        /\ sortedRank = [i \in A |-> EqualUpTo(vec, i)] /\ pass \in Sorted
    BY <2>1 DEF OrderInv, Sorted
  <2>3. ASSUME NEW i \in A
        PROVE  /\ order'[i] \in A /\ confident[order'[i]] = vec[i]
               /\ EqualUpTo(confident, order'[i]) = EqualUpTo(vec, i)
    <3>1. order'[i] = SumSet({j \in A : confident[j] = vec[i] /\ rank[j] = sortedRank[i]})
      BY <2>1
    <3> QED
      BY <2>2, <3>1, OneTerm
  <2>4. Finds'
    BY <2>1, <2>3 DEF Finds
  <2>5. /\ rank' = [i \in A |-> EqualUpTo(confident, i)]'
        /\ sortedRank' = [i \in A |-> EqualUpTo(vec, i)]'
    BY <2>1, <2>2
  <2> QED
    BY <2>1, <2>4, <2>5 DEF OrderInv, Sorted
<1>f. ASSUME pass \in {"rows", "keep", "done"}, UNCHANGED <<confident, vec, rank, sortedRank, order>>
      PROVE  /\ Finds' /\ rank' = [i \in A |-> EqualUpTo(confident, i)]'
             /\ sortedRank' = [i \in A |-> EqualUpTo(vec, i)]'
  BY <1>f DEF OrderInv, Sorted, Finds
<1>7. CASE GatherRows
  <2>1. /\ pass = "rows" /\ pass' = "keep"
        /\ UNCHANGED <<box, confident, vec, rank, sortedRank, order>>
        /\ rows' = [i \in K |-> [box |-> box[order[i]], score |-> confident[order[i]]]]
    BY <1>7 DEF GatherRows
  <2>2. rows' = [i \in K |-> [box |-> box[order[i]], score |-> confident[order[i]]]]'
    BY <2>1
  <2>3. /\ Finds' /\ rank' = [i \in A |-> EqualUpTo(confident, i)]'
        /\ sortedRank' = [i \in A |-> EqualUpTo(vec, i)]'
    BY <1>f, <2>1
  <2> QED
    BY <2>1, <2>2, <2>3 DEF OrderInv, Sorted
<1>8. CASE Keep
  <2>1. /\ pass = "keep" /\ pass' = "done"
        /\ UNCHANGED <<box, confident, vec, rank, sortedRank, order, rows>>
        /\ keep' = [i \in K |-> IF \E j \in K : Drops(j, i) THEN 0 ELSE 1]
    BY <1>8 DEF Keep
  <2>2. rows' = [i \in K |-> [box |-> box[order[i]], score |-> confident[order[i]]]]'
    BY <2>1 DEF OrderInv
  <2>3. /\ Finds' /\ rank' = [i \in A |-> EqualUpTo(confident, i)]'
        /\ sortedRank' = [i \in A |-> EqualUpTo(vec, i)]'
    BY <1>f, <2>1
  <2>4. keep' = [i \in K |-> IF \E j \in K : Drops(j, i) THEN 0 ELSE 1]'
    BY <2>1 DEF Drops
  <2> QED
    BY <2>1, <2>2, <2>3, <2>4 DEF OrderInv, Sorted
<1>9. CASE UNCHANGED choiceVars
  <2>1. UNCHANGED <<pass, box, confident, vec, rank, sortedRank, order, rows, keep>>
    BY <1>9 DEF choiceVars
  <2> QED
    BY <2>1 DEF OrderInv, Finds, Drops
<1> QED
  BY <1>1, <1>2, <1>3, <1>4, <1>5, <1>6, <1>7, <1>8, <1>9 DEF ChoiceNext

(* Finding anchors by score and rank is a stable sort. *)
LEMMA OrderIsStable == ChoiceInv => StableOrder
<1> SUFFICES ASSUME ScoresIn, SortInv, OrderInv, order # <<>>,
                    NEW i \in A, NEW j \in A, i < j
             PROVE  \/ confident[order[i]] > confident[order[j]]
                    \/ confident[order[i]] = confident[order[j]] /\ order[i] < order[j]
  BY DEF StableOrder, ChoiceInv
<1>1. pass \in {"rows", "keep", "done"} /\ pass \in Sorted /\ Finds
  BY DEF ScoresIn, OrderInv, Passes, Sorted
<1> QED
  BY <1>1, EarlierIsBetter DEF Better

(* The arithmetic of the kernel tells which of two rows is first. *)
LEMMA BeforeIsBefore ==
    ASSUME NEW i \in K, NEW j \in K
    PROVE  Before(j, i) <=> j < i
<1> DEFINE q == j \div 4
           m == j % 4
           M == 4 * TopK - 2
           n == i + (j \div 4) * (4 * TopK - 6) + (4 * TopK - 3) - (j % 4)
<1>1. TopK \in Nat \ {0} /\ i \in 0..(TopK - 1) /\ j \in 0..(TopK - 1)
  BY SlotFacts DEF K
<1>2. q \in Int /\ m \in Int /\ j = 4 * q + m /\ M \in Nat \ {0} /\ M = 4 * TopK - 2
  BY <1>1
<1>3. n = i + q * (M - 4) + (M - 1) - m
  <2>1. 4 * TopK - 6 = M - 4 /\ 4 * TopK - 3 = M - 1
    BY <1>1
  <2> QED
    BY <2>1
<1>4. Before(j, i) <=> n % M < 2 * TopK - 1
  BY DEF Before
<1> HIDE DEF q, m, M, n
<1>5. n = (q + 1) * M + (i - j - 1) /\ n = q * M + (i - j - 1 + M)
  BY <1>1, <1>2, <1>3
<1>6. CASE j < i
  <2> DEFINE r == i - j - 1
             p == q + 1
  <2>1. r \in 0..(M - 1) /\ p \in Int /\ r < 2 * TopK - 1 /\ n = p * M + r
    BY <1>1, <1>2, <1>5, <1>6
  <2> HIDE DEF r, p
  <2>2. n % M = r
    BY <1>2, <2>1, Quotient
  <2> QED
    BY <1>4, <1>6, <2>1, <2>2
<1>7. CASE ~(j < i)
  <2> DEFINE r == i - j - 1 + M
  <2>1. r \in 0..(M - 1) /\ ~(r < 2 * TopK - 1) /\ n = q * M + r
    BY <1>1, <1>2, <1>5, <1>7
  <2> HIDE DEF r
  <2>2. n % M = r
    BY <1>2, <2>1, Quotient
  <2> QED
    BY <1>4, <1>7, <2>1, <2>2
<1> QED
  BY <1>6, <1>7

(* Overlapping is mutual. *)
LEMMA SameIsMutual ==
    ASSUME NEW b \in Boxes, NEW c \in Boxes
    PROVE  Same(b, c) <=> Same(c, b)
<1>1. /\ b.x1 \in Int /\ b.x2 \in Int /\ b.y1 \in Int /\ b.y2 \in Int
      /\ c.x1 \in Int /\ c.x2 \in Int /\ c.y1 \in Int /\ c.y2 \in Int
  BY ChoiceAssumption
<1>2. \A x, y \in Int : Smaller(x, y) = Smaller(y, x) /\ Larger(x, y) = Larger(y, x)
  BY DEF Smaller, Larger
<1>3. Overlap(b, c) = Overlap(c, b)
  BY <1>1, <1>2 DEF Overlap
<1>4. Area(b) \in Int /\ Area(c) \in Int
  BY <1>1 DEF Area
<1>5. Overlap(b, c) \in Int
  <2>1. \A x, y \in Int : Smaller(x, y) \in Int /\ Larger(x, y) \in Int
    BY DEF Smaller, Larger
  <2>2. \A x, y \in Int : x - y \in Int /\ x * y \in Int
    OBVIOUS
  <2> DEFINE width == Smaller(b.x2, c.x2) - Larger(b.x1, c.x1)
             height == Smaller(b.y2, c.y2) - Larger(b.y1, c.y1)
  <2>3. width \in Int /\ height \in Int
    BY <1>1, <2>1, <2>2, Zenon
  <2>4. Overlap(b, c) = Larger(0, width) * Larger(0, height)
    BY DEF Overlap
  <2> HIDE DEF width, height
  <2>5. Larger(0, width) \in Int /\ Larger(0, height) \in Int
    BY <2>1, <2>3
  <2> QED
    BY <2>2, <2>4, <2>5
<1>6. Area(b) + Area(c) - Overlap(b, c) = Area(c) + Area(b) - Overlap(c, b)
  <2> DEFINE o == Overlap(b, c)
             p == Area(b)
             q == Area(c)
  <2>1. p \in Int /\ q \in Int /\ o \in Int /\ Overlap(c, b) = o
    BY <1>3, <1>4, <1>5
  <2> HIDE DEF o, p, q
  <2>2. p + q - o = q + p - o
    BY <2>1
  <2> QED
    BY <2>1, <2>2 DEF o, p, q
<1> QED
  BY <1>3, <1>6, Zenon DEF Same

(* What the rows hold at the end. *)
LEMMA RowsAtEnd ==
    ASSUME ChoiceInv, pass = "done"
    PROVE  /\ pass \in Sorted /\ Finds
           /\ \A i \in K : /\ i \in A /\ order[i] \in A
                           /\ rows[i].box = box[order[i]] /\ rows[i].box \in Boxes
                           /\ rows[i].score = confident[order[i]]
                           /\ (keep[i] = 1 <=> ~ \E j \in K : Drops(j, i))
<1>1. /\ pass \in Sorted /\ Finds
      /\ rows = [i \in K |-> [box |-> box[order[i]], score |-> confident[order[i]]]]
      /\ keep = [i \in K |-> IF \E j \in K : Drops(j, i) THEN 0 ELSE 1]
      /\ box \in [A -> Boxes]
  BY DEF ChoiceInv, ScoresIn, OrderInv, Sorted
<1>2. ASSUME NEW i \in K
      PROVE  /\ i \in A /\ order[i] \in A
             /\ rows[i].box = box[order[i]] /\ rows[i].box \in Boxes
             /\ rows[i].score = confident[order[i]]
  <2>1. i \in A /\ order[i] \in A
    BY <1>1, SlotFacts DEF Finds
  <2>2. rows[i] = [box |-> box[order[i]], score |-> confident[order[i]]]
    BY <1>1
  <2> QED
    BY <1>1, <2>1, <2>2
<1>3. ASSUME NEW i \in K PROVE keep[i] = 1 <=> ~ \E j \in K : Drops(j, i)
  <2>1. keep[i] = IF \E j \in K : Drops(j, i) THEN 0 ELSE 1
    BY <1>1
  <2> QED
    BY <2>1
<1> QED
  BY <1>1, <1>2, <1>3

(* Of two rows of one object the later is dropped. *)
LEMMA DrawnAreApart == ChoiceInv => DrawnApart
<1> SUFFICES ASSUME ChoiceInv, pass = "done", NEW i \in Drawn, NEW j \in Drawn, i # j
             PROVE  \/ rows[i].box.class # rows[j].box.class
                    \/ ~Same(rows[i].box, rows[j].box)
  BY DEF DrawnApart
<1>1. \A k \in Drawn : k \in K /\ keep[k] = 1
  BY DEF Drawn
<1>2. ASSUME NEW x \in Drawn, NEW y \in Drawn, x < y
      PROVE  rows[x].box.class # rows[y].box.class \/ ~Same(rows[x].box, rows[y].box)
  <2>1. x \in K /\ y \in K /\ ~Drops(x, y)
    BY <1>1, RowsAtEnd
  <2>2. Before(x, y)
    BY <1>2, <2>1, BeforeIsBefore
  <2> QED
    BY <2>1, <2>2 DEF Drops
<1>3. i \in Int /\ j \in Int /\ i \in K /\ j \in K
  <2>1. i \in K /\ j \in K
    BY <1>1
  <2> QED
    BY <2>1 DEF K
<1>4. Same(rows[i].box, rows[j].box) <=> Same(rows[j].box, rows[i].box)
  <2>1. rows[i].box \in Boxes /\ rows[j].box \in Boxes
    BY <1>3, RowsAtEnd
  <2> QED
    BY <2>1, SameIsMutual
<1>5. i < j \/ j < i
  BY <1>3
<1> QED
  BY <1>2, <1>4, <1>5

(* If the place of an anchor is past the TopK rows, TopK are better. *)
LEMMA TopKBetter ==
    ASSUME ChoiceInv, pass = "done", NEW i \in A, i \notin K
    PROVE  Cardinality({b \in A : Better(b, order[i])}) >= TopK
<1> DEFINE I == {order[k] : k \in K}
           S == {b \in A : Better(b, order[i])}
<1>0. pass \in Sorted /\ Finds /\ ScoresIn /\ SortInv
  BY RowsAtEnd DEF ChoiceInv
<1>1. \A k \in K : k \in A /\ k < i
  BY SlotFacts DEF K, A
<1>2. ASSUME NEW k \in K PROVE order[k] \in S
  <2>1. k \in A /\ k < i
    BY <1>1
  <2>2. Better(order[k], order[i]) /\ order[k] \in A
    BY <1>0, <2>1, EarlierIsBetter DEF Finds
  <2> QED
    BY <2>2
<1>3. I \subseteq S
  BY <1>2
<1>4. \A k, m \in K : order[k] = order[m] => k = m
  <2>1. ASSUME NEW k \in K, NEW m \in K, k < m PROVE order[k] # order[m]
    <3>1. Better(order[k], order[m]) /\ order[k] \in A /\ order[m] \in A
      BY <1>0, <1>1, <2>1, EarlierIsBetter DEF Finds
    <3>2. order[k] \in Int /\ confident[order[k]] \in Int
      <4>1. pass # "confident"
        BY <1>0 DEF Sorted
      <4>2. confident \in [A -> Int]
        BY <1>0, <4>1, ConfidentScores
      <4>3. \A x \in A : x \in Int
        BY SlotFacts
      <4> QED
        BY <3>1, <4>2, <4>3
    <3> QED
      BY <3>1, <3>2 DEF Better
  <2>2. \A k, m \in K : k < m \/ m < k \/ k = m
    BY DEF K
  <2> QED
    BY <2>1, <2>2
<1>5. IsFiniteSet(K) /\ Cardinality(K) = TopK
  <2>1. TopK \in Nat \ {0}
    BY SlotFacts
  <2>2. IsFiniteSet(0..(TopK - 1)) /\ Cardinality(0..(TopK - 1)) = TopK
    BY <2>1, FS_Interval
  <2> QED
    BY <2>2 DEF K
<1>6. IsFiniteSet(I) /\ Cardinality(I) = TopK
  <2> DEFINE f == [k \in K |-> order[k]]
  <2>1. f \in [K -> I] /\ \A t \in I : \E k \in K : f[k] = t
    OBVIOUS
  <2>2. \A k, m \in K : f[k] = f[m] => k = m
    BY <1>4
  <2> HIDE DEF f, I
  <2>3. f \in Bijection(K, I)
    BY <2>1, <2>2, Zenon DEF Bijection, Injection, Surjection, IsInjective
  <2>4. ExistsBijection(K, I)
    BY <2>3 DEF ExistsBijection
  <2> QED
    BY <1>5, <2>4, FS_Bijection
<1>7. IsFiniteSet(S)
  BY SlotFacts, FS_Subset
<1> HIDE DEF I, S
<1>8. Cardinality(I) <= Cardinality(S) /\ Cardinality(S) \in Nat
  BY <1>3, <1>7, FS_Subset, FS_CardinalityType
<1>9. Cardinality(S) >= TopK
  BY <1>6, <1>8, SlotFacts
<1> QED
  BY <1>9 DEF S

(* Whoever is not drawn was dropped by a better row or is behind TopK of   *)
(* them.                                                                   *)
LEMMA PassedOver == ChoiceInv => PassedOverForBetter
<1> SUFFICES ASSUME ChoiceInv, pass = "done", NEW a \in A
             PROVE  IF a \in {order[i] : i \in Drawn} THEN best[a] >= 25
                    ELSE \/ best[a] < 25
                         \/ \E b \in A : /\ Better(b, a) /\ box[b].class = box[a].class
                                         /\ Same(box[b], box[a])
                         \/ Cardinality({b \in A : Better(b, a)}) >= TopK
  BY DEF PassedOverForBetter, Better
<1>0. pass \in Sorted /\ Finds /\ ScoresIn /\ SortInv
  BY RowsAtEnd DEF ChoiceInv
<1>1. \A c \in A : best[c] \in Int /\ confident[c] = Threshold(best[c])
  <2>1. confident = [c \in A |-> Threshold(best[c])] /\ best \in [A -> Scores]
    BY <1>0 DEF ScoresIn, Sorted
  <2>2. \A s \in Scores : s \in Int
    BY ChoiceAssumption
  <2> QED
    BY <2>1, <2>2
<1>2. ASSUME NEW i \in Drawn, a = order[i] PROVE best[a] >= 25
  <2>1. i \in K /\ rows[i].score > 0
    BY DEF Drawn
  <2>2. confident[a] > 0
    BY <1>2, <2>1, RowsAtEnd
  <2> QED
    BY <1>1, <2>2 DEF Threshold
<1>3. ASSUME a \notin {order[i] : i \in Drawn}, ~(best[a] < 25)
      PROVE  \/ \E b \in A : /\ Better(b, a) /\ box[b].class = box[a].class
                             /\ Same(box[b], box[a])
             \/ Cardinality({b \in A : Better(b, a)}) >= TopK
  <2>1. PICK i \in A : order[i] = a
    BY <1>0, EveryAnchor
  <2>2. confident[a] > 0
    BY <1>1, <1>3 DEF Threshold
  <2>3. CASE i \notin K
    BY <2>1, <2>3, TopKBetter
  <2>4. CASE i \in K
    <3>1. rows[i].score > 0 /\ rows[i].box = box[a]
      BY <2>1, <2>2, <2>4, RowsAtEnd
    <3>2. i \notin Drawn
      BY <1>3, <2>1
    <3>3. PICK j \in K : Drops(j, i)
      BY <2>4, <3>1, <3>2, RowsAtEnd DEF Drawn
    <3>4. j < i /\ j \in A
      BY <2>4, <3>3, BeforeIsBefore, SlotFacts DEF Drops
    <3>5. Better(order[j], a) /\ order[j] \in A
      BY <1>0, <2>1, <3>4, EarlierIsBetter DEF Finds
    <3>6. rows[j].box = box[order[j]]
      BY RowsAtEnd
    <3>7. box[order[j]].class = box[a].class /\ Same(box[order[j]], box[a])
      BY <3>1, <3>3, <3>6 DEF Drops
    <3> QED
      BY <3>5, <3>7
  <2> QED
    BY <2>3, <2>4
<1> QED
  BY <1>2, <1>3

-----------------------------------------------------------------------------
(* The invariant is inductive. *)
LEMMA ChoiceStep == ChoiceInv /\ [ChoiceNext]_choiceVars => ChoiceInv'
BY BaseStep, OrderStep DEF ChoiceInv

(* Passes 96 to 223 of net.js: scores, network, ranks, order, rows and     *)
(* overlap test keep the invariant, whatever the detector says.            *)
THEOREM ChoiceInvariant == ChoiceSpec => []ChoiceInv
<1>1. ChoiceInit => ChoiceInv
  BY BaseInit, OrderInit DEF ChoiceInv
<1> QED
  BY <1>1, ChoiceStep, PTL DEF ChoiceSpec

(* Passes 98 to 217 of net.js: after every level of the sorting network    *)
(* its runs are in order, and at no step is a score lost or doubled, for   *)
(* every number of levels and all scores.                                  *)
THEOREM NetworkSorts == ChoiceSpec => []RunsSorted
<1>1. ChoiceInv => RunsSorted
  BY RunsAreSorted DEF ChoiceInv
<1> QED
  BY <1>1, ChoiceInvariant, PTL

(* Passes 99, 218 and 219: finding the anchors by score and by their       *)
(* number among equal scores orders them like a stable sort, each anchor   *)
(* once, for every number of anchors.                                      *)
THEOREM SortIsStable == ChoiceSpec => []StableOrder
BY ChoiceInvariant, OrderIsStable, PTL

(* Passes 222 and 223: two boxes that are drawn are of different classes   *)
(* or overlap by 0.45 of their union at most; the arithmetic modulo 4      *)
(* TopK - 2 by which the kernel tells the earlier row is right for every   *)
(* TopK, so for 300 too.                                                   *)
THEOREM BoxesApart == ChoiceSpec => []DrawnApart
BY ChoiceInvariant, DrawnAreApart, PTL

(* The whole choice: an anchor over the threshold that is not drawn was    *)
(* passed over for a better one of its class at its place, or for TopK     *)
(* better ones, and nothing below the threshold is drawn.                  *)
THEOREM NoneForgotten == ChoiceSpec => []PassedOverForBetter
BY ChoiceInvariant, PassedOver, PTL
=============================================================================
