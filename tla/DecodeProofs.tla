---------------------------- MODULE DecodeProofs ----------------------------
(***************************************************************************)
(* The box of an anchor is where its head and its cell say, for every      *)
(* anchor and all distances.  The argument is the arithmetic of the index: *)
(* the tests of pass 4 are those of the three grids, the multiplication by *)
(* 205 and the shift are a division by 5 for the 400 workgroups of the     *)
(* first grid, and the three ways to make a row of anchors agree.          *)
(*                                                                         *)
(* The class is the first one with the best score, for any number of       *)
(* classes, because falling ranks turn the last maximum into the first.    *)
(***************************************************************************)
EXTENDS Decode, WellFoundedInduction, TLAPS

AnchorIndex == 0..(AnchorCount - 1)

(* The sixteen clipped lanes of a workgroup add up to its number. *)
LEMMA Anchor80Value ==
    ASSUME NEW x \in 0..79
    PROVE  Anchor80(x) = 2 * x + 1
  BY SMTT(60) DEF Anchor80

(* So do the nineteen thresholds. *)
LEMMA Anchor20Value ==
    ASSUME NEW x \in 0..19
    PROVE  Anchor20(x) = 2 * x + 1
  BY SMTT(60) DEF Anchor20

(* The strides are those of the grids. *)
LEMMA StrideValue ==
    ASSUME NEW q \in AnchorIndex
    PROVE  /\ Stride(q) = Pixels(q)
           /\ Stride(q) \in {8, 16, 32}
<1>1. PICK t \in Int, r \in 0..2 : q = 3 * t + r /\ q \div 3 = t /\ q % 3 = r
  BY DEF AnchorIndex, AnchorCount
<1>2. Stride(q) = IF q < 6400 THEN 8 ELSE IF q < 8000 THEN 16 ELSE 32
  BY <1>1, SMTT(60) DEF Stride, Triple, AnchorIndex, AnchorCount
<1>3. Pixels(q) = IF q < 6400 THEN 8 ELSE IF q < 8000 THEN 16 ELSE 32
  BY DEF Pixels, Side, AnchorIndex, AnchorCount
<1>4. QED BY <1>2, <1>3

(* The anchor is the middle of its cell. *)
LEMMA AnchorValue ==
    ASSUME NEW q \in AnchorIndex
    PROVE  /\ AnchorX(q) = MiddleX(q) /\ MiddleX(q) \in Int
           /\ AnchorY(q) = MiddleY(q) /\ MiddleY(q) \in Int
<1>0. q \in Int /\ 0 <= q /\ q <= 8399
  BY DEF AnchorIndex, AnchorCount
<1>1. CASE q < 6400
  <2>1. q \div 16 < 400
    BY <1>0, <1>1
  <2>2. q % 80 \in 0..79 /\ q \div 80 \in 0..79
    BY <1>0, <1>1
  <2>3. ((q \div 16) * 205) \div 1024 = q \div 80
    BY <1>0, <1>1, SMTT(60)
  <2>4. Side(q) = 80 /\ Place(q) = q
    BY <1>1 DEF Side, Place
  <2>5. AnchorX(q) = Anchor80(q % 80) /\ AnchorY(q) = Anchor80(q \div 80)
    BY <2>1, <2>3 DEF AnchorX, AnchorY
  <2>6. QED BY <2>2, <2>4, <2>5, Anchor80Value DEF MiddleX, MiddleY
<1>2. CASE ~(q < 6400) /\ q < 8000
  <2>1. ~(q \div 16 < 400) /\ q \div 16 < 500
    BY <1>0, <1>2
  <2>2. q % 40 = (q - 6400) % 40 /\ q \div 40 - 160 = (q - 6400) \div 40
    BY <1>0, <1>2, SMTT(60)
  <2>3. Side(q) = 40 /\ Place(q) = q - 6400
    BY <1>0, <1>2 DEF Side, Place
  <2>4. AnchorX(q) = Anchor40(q % 40) /\ AnchorY(q) = Anchor40(q \div 40 - 160)
    BY <2>1 DEF AnchorX, AnchorY
  <2>5. QED BY <1>0, <2>2, <2>3, <2>4 DEF MiddleX, MiddleY, Anchor40
<1>3. CASE ~(q < 6400) /\ ~(q < 8000)
  <2>1. ~(q \div 16 < 400) /\ ~(q \div 16 < 500)
    BY <1>0, <1>3
  <2>2. q % 20 = (q - 8000) % 20 /\ q \div 20 - 400 = (q - 8000) \div 20
    BY <1>0, <1>3, SMTT(60)
  <2>3. (q - 8000) % 20 \in 0..19 /\ (q - 8000) \div 20 \in 0..19
    BY <1>0, <1>3
  <2>4. Side(q) = 20 /\ Place(q) = q - 8000
    BY <1>3 DEF Side, Place
  <2>5. AnchorX(q) = Anchor20(q % 20) /\ AnchorY(q) = Anchor20(q \div 20 - 400)
    BY <2>1 DEF AnchorX, AnchorY
  <2>6. QED BY <2>2, <2>3, <2>4, <2>5, Anchor20Value DEF MiddleX, MiddleY
<1>4. QED BY <1>1, <1>2, <1>3

-----------------------------------------------------------------------------
(* What the stages have left, besides the types: the inductive invariant.  *)
Staged ==
    /\ stage \in {"said", "centred"} => best = Stride(p)
    /\ stage = "centred" => centre = Centre(p, dist) /\ size = Extent(p, dist)

DecodeInv == DecodeTypeOK /\ Staged /\ BoxAroundCell

(* A corner of the box, for one axis. *)
LEMMA CornerValue ==
    \A a \in Int, low \in Nat, high \in Nat, s \in {8, 16, 32} :
        /\ Corner((a - low) + high, a + 2 * high - a + 2 * low, s, -1) = (a - 2 * low) * s
        /\ Corner((a - low) + high, a + 2 * high - a + 2 * low, s, 1) = (a + 2 * high) * s
<1>1. SUFFICES ASSUME NEW a \in Int, NEW low \in Nat, NEW high \in Nat, NEW s \in {8, 16, 32}
      PROVE  /\ Corner((a - low) + high, a + 2 * high - a + 2 * low, s, -1) = (a - 2 * low) * s
             /\ Corner((a - low) + high, a + 2 * high - a + 2 * low, s, 1) = (a + 2 * high) * s
  OBVIOUS
<1>2. CASE s = 8
  BY <1>2 DEF Corner
<1>3. CASE s = 16
  BY <1>3 DEF Corner
<1>4. CASE s = 32
  BY <1>4 DEF Corner
<1>5. QED BY <1>2, <1>3, <1>4

(* Nothing is decoded at first. *)
LEMMA DecodeInitInv == DecodeInit => DecodeInv
<1>1. SUFFICES ASSUME DecodeInit PROVE DecodeInv
  OBVIOUS
<1>2. p \in AnchorIndex
  BY <1>1 DEF DecodeInit, AnchorIndex
<1>3. best \in {8, 16, 32}
  BY <1>1, <1>2, StrideValue DEF DecodeInit
<1>4. QED
  BY <1>1, <1>2, <1>3 DEF DecodeInit, DecodeInv, DecodeTypeOK, Staged, BoxAroundCell,
                          None, NoCorners

(* Each pass leaves what its stage says. *)
LEMMA DecodeStepInv == DecodeInv /\ [DecodeNext]_decodeVars => DecodeInv'
<1>1. SUFFICES ASSUME DecodeInv, [DecodeNext]_decodeVars PROVE DecodeInv'
  OBVIOUS
<1>2. p \in AnchorIndex /\ dist \in [left : Nat, top : Nat, right : Nat, bottom : Nat]
  BY <1>1, DecodeAssumption DEF DecodeInv, DecodeTypeOK, AnchorIndex
<1>3. CASE CentreAndSize
  <2>1. AnchorX(p) \in Int /\ AnchorY(p) \in Int
    BY <1>2, AnchorValue
  <2>2. Centre(p, dist) \in [x : Int, y : Int] /\ Extent(p, dist) \in [x : Int, y : Int]
    BY <1>2, <2>1 DEF Centre, Extent
  <2>3. QED
    BY <1>1, <1>3, <2>2 DEF CentreAndSize, DecodeInv, DecodeTypeOK, Staged, BoxAroundCell
<1>4. CASE Corners
  <2>1. best = Stride(p) /\ centre = Centre(p, dist) /\ size = Extent(p, dist)
    BY <1>1, <1>4 DEF Corners, DecodeInv, Staged
  <2>2. best = Pixels(p) /\ best \in {8, 16, 32}
    BY <1>2, <2>1, StrideValue
  <2>3. /\ corners'.x1 = (MiddleX(p) - 2 * dist.left) * Pixels(p)
        /\ corners'.x2 = (MiddleX(p) + 2 * dist.right) * Pixels(p)
    <3>1. dist.left \in Nat /\ dist.right \in Nat /\ AnchorX(p) \in Int
      BY <1>2, AnchorValue
    <3>2. /\ Corner((AnchorX(p) - dist.left) + dist.right,
                    AnchorX(p) + 2 * dist.right - AnchorX(p) + 2 * dist.left, best, -1)
                = (AnchorX(p) - 2 * dist.left) * best
          /\ Corner((AnchorX(p) - dist.left) + dist.right,
                    AnchorX(p) + 2 * dist.right - AnchorX(p) + 2 * dist.left, best, 1)
                = (AnchorX(p) + 2 * dist.right) * best
      BY <2>2, <3>1, CornerValue
    <3>3. /\ corners'.x1 = Corner(centre.x, size.x, best, -1)
          /\ corners'.x2 = Corner(centre.x, size.x, best, 1)
      BY <1>4 DEF Corners
    <3>4. /\ centre.x = (AnchorX(p) - dist.left) + dist.right
          /\ size.x = AnchorX(p) + 2 * dist.right - AnchorX(p) + 2 * dist.left
      BY <2>1 DEF Centre, Extent
    <3>5. QED BY <1>2, <2>2, <3>2, <3>3, <3>4, AnchorValue
  <2>4. /\ corners'.y1 = (MiddleY(p) - 2 * dist.top) * Pixels(p)
        /\ corners'.y2 = (MiddleY(p) + 2 * dist.bottom) * Pixels(p)
    <3>1. dist.top \in Nat /\ dist.bottom \in Nat /\ AnchorY(p) \in Int
      BY <1>2, AnchorValue
    <3>2. /\ Corner((AnchorY(p) - dist.top) + dist.bottom,
                    AnchorY(p) + 2 * dist.bottom - AnchorY(p) + 2 * dist.top, best, -1)
                = (AnchorY(p) - 2 * dist.top) * best
          /\ Corner((AnchorY(p) - dist.top) + dist.bottom,
                    AnchorY(p) + 2 * dist.bottom - AnchorY(p) + 2 * dist.top, best, 1)
                = (AnchorY(p) + 2 * dist.bottom) * best
      BY <2>2, <3>1, CornerValue
    <3>3. /\ corners'.y1 = Corner(centre.y, size.y, best, -1)
          /\ corners'.y2 = Corner(centre.y, size.y, best, 1)
      BY <1>4 DEF Corners
    <3>4. /\ centre.y = (AnchorY(p) - dist.top) + dist.bottom
          /\ size.y = AnchorY(p) + 2 * dist.bottom - AnchorY(p) + 2 * dist.top
      BY <2>1 DEF Centre, Extent
    <3>5. QED BY <1>2, <2>2, <3>2, <3>3, <3>4, AnchorValue
  <2>5. corners' \in [x1 : Int, y1 : Int, x2 : Int, y2 : Int]
    <3>1. /\ Corner(centre.x, size.x, best, -1) \in Int /\ Corner(centre.x, size.x, best, 1) \in Int
          /\ Corner(centre.y, size.y, best, -1) \in Int /\ Corner(centre.y, size.y, best, 1) \in Int
      BY <1>1, <2>2 DEF Corner, DecodeInv, DecodeTypeOK
    <3>2. QED BY <1>4, <3>1 DEF Corners
  <2>6. p' = p /\ dist' = dist /\ centre' = centre /\ size' = size /\ stage' = "boxed"
    BY <1>4 DEF Corners
  <2>7. QED
    BY <1>1, <2>3, <2>4, <2>5, <2>6 DEF DecodeInv, DecodeTypeOK, Staged, BoxAroundCell
<1>5. CASE BestScore
  BY <1>1, <1>5 DEF BestScore, DecodeInv, DecodeTypeOK, Staged, BoxAroundCell
<1>6. CASE Classify
  BY <1>1, <1>6 DEF Classify, DecodeInv, DecodeTypeOK, Staged, BoxAroundCell
<1>7. CASE UNCHANGED decodeVars
  BY <1>1, <1>7 DEF decodeVars, DecodeInv, DecodeTypeOK, Staged, BoxAroundCell
<1>8. QED BY <1>1, <1>3, <1>4, <1>5, <1>6, <1>7 DEF DecodeNext

(* Each variable has its type at every stage, and buf_9 holds one of the   *)
(* three strides until pass 95 puts the best scores there.                 *)
THEOREM DecodeTypes == DecodeSpec => []DecodeTypeOK
<1>1. DecodeInv => DecodeTypeOK
  BY DEF DecodeInv
<1>2. QED BY <1>1, DecodeInitInv, DecodeStepInv, PTL DEF DecodeSpec

(* For every one of the 8400 anchors and all distances, passes 89 to 94    *)
(* put the sides of the box at these distances from the middle of its cell *)
(* in its own head's grid.                                                 *)
THEOREM DecodedBoxes == DecodeSpec => []BoxAroundCell
<1>1. DecodeInv => BoxAroundCell
  BY DEF DecodeInv
<1>2. QED BY <1>1, DecodeInitInv, DecodeStepInv, PTL DEF DecodeSpec

-----------------------------------------------------------------------------
(* Every set of natural numbers that has a member has a least one. *)
LEMMA LeastNatural ==
    ASSUME NEW T, T \subseteq Nat, T # {}
    PROVE  \E x \in T : \A y \in T : x <= y
<1> DEFINE R == OpToRel(<, Nat)
<1>1. IsWellFoundedOn(R, Nat)
  BY NatLessThanWellFounded, Zenon
<1>2. \A x, y \in Nat : x < y => <<x, y>> \in R
  BY DEF OpToRel
<1> HIDE DEF R
<1>3. PICK x \in T : \A y \in T : <<y, x>> \notin R
  BY <1>1, WFMin
<1>4. \A y \in T : ~(y < x)
  BY <1>2, <1>3, Zenon
<1>5. \A y \in T : y \in Int /\ x \in Int
  OBVIOUS
<1> QED
  BY <1>4, <1>5


(* Of the values of finitely many classes one is the highest. *)
LEMMA HighestOfClasses ==
    ASSUME NEW s \in [C -> Nat]
    PROVE  \E c \in C : Highest({s[d] : d \in C}) = s[c]
                        /\ \A d \in C : s[d] <= s[c]
<1> DEFINE Max(k) == \E c \in 0..k : \A d \in 0..k : s[d] <= s[c]
           T == {k \in C : ~Max(k)}
<1>a. Classes \in Nat \ {0}
  BY DecodeAssumption DEF DecodeAssumption
<1>b. \A c \in C : s[c] \in Nat
  OBVIOUS
<1>1. T = {}
  <2> SUFFICES ASSUME T # {} PROVE FALSE
    OBVIOUS
  <2>1. PICK k \in T : \A y \in T : k <= y
    <3>1. T \subseteq Nat
      BY <1>a DEF C
    <3> HIDE DEF T
    <3> QED
      BY <3>1, LeastNatural
  <2>2. k \in 0..(Classes - 1) /\ ~Max(k)
    BY DEF C
  <2>3. k # 0
    <3>1. Max(0)
      <4>1. 0 \in C
        BY <1>a DEF C
      <4>2. \A d \in 0..0 : s[d] <= s[0]
        BY <4>1, <1>b
      <4> QED
        BY <4>2
    <3> QED
      BY <2>2, <3>1
  <2>4. k - 1 \in C /\ k \in C /\ k - 1 \notin T
    <3>1. k - 1 \in C /\ k \in C /\ ~(k <= k - 1)
      BY <1>a, <2>2, <2>3 DEF C
    <3> QED
      BY <2>1, <3>1, Zenon
  <2>5. Max(k - 1)
    BY <2>4
  <2>6. PICK c \in 0..(k - 1) : \A d \in 0..(k - 1) : s[d] <= s[c]
    BY <2>5
  <2>7. /\ c \in C /\ \A d \in 0..k : d \in C /\ (d \in 0..(k - 1) \/ d = k)
        /\ c \in 0..k /\ k \in 0..k
    BY <1>a, <2>2, <2>6 DEF C
  <2>8. CASE s[k] <= s[c]
    <3>1. \A d \in 0..k : s[d] <= s[c]
      BY <2>6, <2>7, <2>8, Zenon
    <3> QED
      BY <2>2, <2>7, <3>1
  <2>9. CASE ~(s[k] <= s[c])
    <3>1. s[c] <= s[k] /\ s[k] <= s[k]
      BY <1>b, <2>4, <2>7, <2>9
    <3>2. \A d \in 0..k : s[d] <= s[k]
      <4> SUFFICES ASSUME NEW d \in 0..k PROVE s[d] <= s[k]
        OBVIOUS
      <4>1. s[d] \in Nat /\ s[c] \in Nat /\ s[k] \in Nat
        BY <1>b, <2>4, <2>7
      <4>2. CASE d = k
        BY <3>1, <4>2
      <4>3. CASE d \in 0..(k - 1)
        BY <2>6, <3>1, <4>1, <4>3
      <4> QED
        BY <2>7, <4>2, <4>3
    <3> QED
      BY <2>2, <2>7, <3>2
  <2> QED
    BY <2>8, <2>9
<1>2. PICK c \in C : \A d \in C : s[d] <= s[c]
  <2>1. Classes - 1 \in C
    BY <1>a DEF C
  <2>2. Max(Classes - 1)
    BY <1>1, <2>1
  <2> QED
    BY <2>2 DEF C
<1> DEFINE V == {s[d] : d \in C}
<1>3. s[c] \in V /\ \A y \in V : y <= s[c]
  BY <1>2
<1>4. Highest(V) \in V /\ \A y \in V : y <= Highest(V)
  <2> HIDE DEF V
  <2> QED
    BY <1>3 DEF Highest
<1>5. Highest(V) = s[c]
  <2>1. Highest(V) \in Nat /\ s[c] \in Nat
    BY <1>b, <1>4
  <2>2. Highest(V) <= s[c] /\ s[c] <= Highest(V)
    BY <1>3, <1>4
  <2> QED
    BY <2>1, <2>2
<1> QED
  BY <1>2, <1>5

(* Falling ranks make it the first of the best. *)
LEMMA FirstOfBest ==
    ASSUME NEW s \in [C -> Nat]
    PROVE  LET class_ == ClassOf(s, Best(s))
           IN  /\ class_ \in C
               /\ \A c \in C : /\ s[c] <= s[class_]
                               /\ c < class_ => s[c] < s[class_]
<1>a. Classes \in Nat \ {0} /\ \A c \in C : s[c] \in Nat /\ c \in Nat /\ c < Classes
  BY DecodeAssumption DEF DecodeAssumption, C
<1>1. PICK b \in C : Best(s) = s[b] /\ \A d \in C : s[d] <= s[b]
  BY HighestOfClasses DEF Best
<1> DEFINE top == s[b]
           g == [c \in C |-> IF s[c] = top THEN ClassRank(c) ELSE 0]
<1>2. g \in [C -> Nat]
  BY <1>a DEF ClassRank
<1>3. \A c \in C : g[c] = IF s[c] = top THEN Classes - c ELSE 0
  BY DEF ClassRank
<1>4. {g[c] : c \in C} = {IF s[c] = top THEN ClassRank(c) ELSE 0 : c \in C}
  <2>1. \A c \in C : g[c] = IF s[c] = top THEN ClassRank(c) ELSE 0
    OBVIOUS
  <2> HIDE DEF g
  <2> QED
    BY <2>1
<1> HIDE DEF g
<1>5. PICK m \in C : Highest({g[c] : c \in C}) = g[m] /\ \A c \in C : g[c] <= g[m]
  BY <1>2, HighestOfClasses
<1>6. ClassOf(s, Best(s)) = Classes - g[m]
  BY <1>1, <1>4, <1>5 DEF ClassOf
<1>7. s[m] = top
  <2>1. g[b] = Classes - b /\ g[b] <= g[m] /\ Classes - b > 0
    BY <1>3, <1>5, <1>a
  <2>2. g[m] # 0
    BY <2>1, <1>2, <1>a
  <2> QED
    BY <1>3, <2>2
<1>8. g[m] = Classes - m /\ ClassOf(s, Best(s)) = m
  BY <1>3, <1>6, <1>7, <1>a
<1>9. ASSUME NEW c \in C PROVE s[c] <= s[m] /\ (c < m => s[c] < s[m])
  <2>1. s[c] <= s[m]
    BY <1>1, <1>7
  <2>2. ASSUME c < m, s[c] = s[m] PROVE FALSE
    <3>1. g[c] = Classes - c /\ g[c] <= g[m]
      BY <1>3, <1>5, <1>7, <2>2
    <3> QED
      BY <1>8, <1>a, <2>2, <3>1
  <2> QED
    BY <1>a, <2>1, <2>2
<1> QED
  BY <1>8, <1>9, Zenon

(* The score pass 95 left in buf_9 is the best, and pass 97 finds its      *)
(* class.                                                                  *)
ClassInv ==
    /\ scores \in [C -> Nat]
    /\ stage = "scored" => best = Best(scores)
    /\ FirstBestClass

(* For any number of classes the class of an anchor is the first of those  *)
(* with its best score.                                                    *)
THEOREM FirstBestWins == DecodeSpec => []FirstBestClass
<1>1. DecodeInit => ClassInv
  BY DecodeAssumption DEF DecodeAssumption, DecodeInit, ClassInv, FirstBestClass
<1>2. ClassInv /\ [DecodeNext]_decodeVars => ClassInv'
  <2> SUFFICES ASSUME ClassInv, [DecodeNext]_decodeVars PROVE ClassInv'
    OBVIOUS
  <2>1. CASE CentreAndSize \/ Corners \/ BestScore \/ UNCHANGED decodeVars
    BY <2>1 DEF CentreAndSize, Corners, BestScore, decodeVars, ClassInv, FirstBestClass
  <2>2. CASE Classify
    <3>1. /\ class' = ClassOf(scores, Best(scores)) /\ scores' = scores
          /\ stage' = "done"
      BY <2>2 DEF Classify, ClassInv
    <3>2. scores \in [C -> Nat]
      BY DEF ClassInv
    <3>3. FirstBestClass'
      BY <3>1, <3>2, FirstOfBest, Zenon DEF FirstBestClass
    <3> QED
      BY <3>1, <3>2, <3>3 DEF ClassInv
  <2> QED
    BY <2>1, <2>2 DEF DecodeNext
<1>3. ClassInv => FirstBestClass
  BY DEF ClassInv
<1> QED
  BY <1>1, <1>2, <1>3, PTL DEF DecodeSpec
=============================================================================
