------------------------------- MODULE Decode -------------------------------
(***************************************************************************)
(* How net.js turns what its three heads say about an anchor into a box in *)
(* pixels and a class: passes 0-2, 4, 5, 89-95 and 97, for one anchor at a *)
(* time.  The kernels compute on the flat index of the anchor with tests   *)
(* and multiplications that stand for divisions; the reference is the plain*)
(* enumeration of the cells of three grids.                                *)
(*                                                                         *)
(* Coordinates are exact and in halves (2 stands for 1.0), in half pixels  *)
(* where they are multiplied by the stride.                                *)
(***************************************************************************)
EXTENDS Integers

CONSTANTS
    Distances,  \* the distances from an anchor to the sides of its box
    Classes,    \* number of classes: 59 in net.js
    Score       \* the scores a class may have

ASSUME DecodeAssumption ==
    /\ Distances \subseteq [left : Nat, top : Nat, right : Nat, bottom : Nat]
    /\ Classes \in Nat \ {0} /\ Score \subseteq Nat

AnchorCount == 8400
C == 0..(Classes - 1)

VARIABLES
    stage,   \* which passes are done for the anchor
    p,       \* the anchor: its index in the flat arrays
    dist,    \* buf_333: its distances left, top, right, bottom
    scores,  \* buf_331: the scores of the classes
    centre,  \* buf_335
    size,    \* buf_336
    corners, \* buf_337 to 340
    best,    \* buf_9, which held the strides until now
    class    \* buf_342

decodeVars == <<stage, p, dist, scores, centre, size, corners, best, class>>

-----------------------------------------------------------------------------
(* Passes 0 to 2: the centres of the cells of a row, three ways. *)

(* Workgroup memory: the sum of what the 16 lanes clip to 0..5. *)
Anchor80(x) ==
    LET clip(l) == LET above == IF x + 5 * l - 74 < 0 THEN 0 ELSE x + 5 * l - 74
                   IN IF above > 5 THEN 5 ELSE above
    IN 2 * (clip(0) + clip(1) + clip(2) + clip(3) + clip(4) + clip(5) + clip(6)
            + clip(7) + clip(8) + clip(9) + clip(10) + clip(11) + clip(12)
            + clip(13) + clip(14) + clip(15) - 1) + 1

Anchor40(x) == 2 * x + 1

(* The number of thresholds x has reached; four of them are tested on the  *)
(* workgroup, x \div 4.                                                    *)
Anchor20(x) ==
    LET One(passed) == IF passed THEN 1 ELSE 0
        At(t) == One(x >= t)
        Group(g) == One(x \div 4 >= g)
    IN 2 * (At(18) + At(19) + At(17) + Group(4) + At(15) + At(14) + At(13)
            + Group(3) + At(11) + At(10) + At(9) + Group(2) + At(7) + At(6)
            + At(5) + Group(1) + At(3) + At(2) + At(1)) + 1

(* Pass 4: a lane stores three strides, each with tests of its own on the  *)
(* lane's number t and on the first of its three anchors.                  *)
Triple(q, P(_, _)) ==
    LET t == q \div 3
        first == 3 * t
    IN IF q % 3 = 0 THEN P(first < 6400, first < 8000)
       ELSE IF q % 3 = 1 THEN P(t < 2133, first < 7999)
       ELSE P(first < 6398, t < 2666)

(* Mutant: the lane at the border of two heads is counted to the first. *)
MutStrideBorder(q) == IF q \div 3 < 2134 THEN 8 ELSE IF q < 8000 THEN 16 ELSE 32

Stride(q) ==
    LET Pick(fine, middle) ==
            (IF fine THEN 8 ELSE 0) + (IF ~fine /\ middle THEN 16 ELSE 0)
            + (IF middle THEN 0 ELSE 32)
    IN Triple(q, Pick)

(* Passes 89 and 90: the cell of the anchor.  The row of the first head is *)
(* the workgroup's number, divided by 5 as a multiplication and a shift.   *)
AnchorX(q) ==
    LET group == q \div 16
    IN IF group < 400 THEN Anchor80(q % 80)
       ELSE IF group < 500 THEN Anchor40(q % 40) ELSE Anchor20(q % 20)

AnchorY(q) ==
    LET group == q \div 16
    IN IF group < 400 THEN Anchor80((group * 205) \div 1024)
       ELSE IF group < 500 THEN Anchor40(q \div 40 - 160) ELSE Anchor20(q \div 20 - 400)

(* The middle of the two ends and the size, in halves. *)
Centre(q, d) ==
    [x |-> (AnchorX(q) - d.left) + d.right, y |-> (AnchorY(q) - d.top) + d.bottom]

Extent(q, d) ==
    [x |-> AnchorX(q) + 2 * d.right - AnchorX(q) + 2 * d.left,
     y |-> AnchorY(q) + 2 * d.bottom - AnchorY(q) + 2 * d.top]

(* Passes 91 to 94: half the size on each side, in half pixels. *)
Corner(mid, extent, stride, side) == mid * stride + side * ((extent * stride) \div 2)

(* Passes 5, 95 and 97: of the classes with the best score the one with    *)
(* the largest rank, and ranks fall.                                       *)
Highest(s) == CHOOSE x \in s : \A y \in s : y <= x
ClassRank(c) == Classes - c
Best(s) == Highest({s[c] : c \in C})

(* Mutant: ranks rise. *)
MutClassOf(s, top) == Classes - Highest({IF s[c] = top THEN c + 1 ELSE 0 : c \in C})
ClassOf(s, top) == Classes - Highest({IF s[c] = top THEN ClassRank(c) ELSE 0 : c \in C})

-----------------------------------------------------------------------------
None == [x |-> 0, y |-> 0]
NoCorners == [x1 |-> 0, y1 |-> 0, x2 |-> 0, y2 |-> 0]

DecodeInit ==
    /\ stage = "said"
    /\ p \in 0..(AnchorCount - 1) /\ dist \in Distances /\ scores \in [C -> Score]
    /\ centre = None /\ size = None /\ corners = NoCorners
    /\ best = Stride(p) /\ class = 0

CentreAndSize ==
    /\ stage = "said" /\ stage' = "centred"
    /\ centre' = Centre(p, dist) /\ size' = Extent(p, dist)
    /\ UNCHANGED <<p, dist, scores, corners, best, class>>

(* The strides are read from buf_9. *)
Corners ==
    /\ stage = "centred" /\ stage' = "boxed"
    /\ corners' = [x1 |-> Corner(centre.x, size.x, best, -1),
                   y1 |-> Corner(centre.y, size.y, best, -1),
                   x2 |-> Corner(centre.x, size.x, best, 1),
                   y2 |-> Corner(centre.y, size.y, best, 1)]
    /\ UNCHANGED <<p, dist, scores, centre, size, best, class>>

BestScore ==
    /\ stage = "boxed" /\ stage' = "scored"
    /\ best' = Best(scores)
    /\ UNCHANGED <<p, dist, scores, centre, size, corners, class>>

Classify ==
    /\ stage = "scored" /\ stage' = "done"
    /\ class' = ClassOf(scores, best)
    /\ UNCHANGED <<p, dist, scores, centre, size, corners, best>>

DecodeNext == CentreAndSize \/ Corners \/ BestScore \/ Classify

DecodeSpec == DecodeInit /\ [][DecodeNext]_decodeVars

-----------------------------------------------------------------------------
(***************************************************************************)
(* The reference: the anchors are the cells of a grid of 80 by 80, of one  *)
(* of 40 by 40 and of one of 20 by 20, row by row, and the cells of a grid *)
(* of n by n are squares of 640 / n pixels.                                *)
(***************************************************************************)
Side(q) == IF q < 6400 THEN 80 ELSE IF q < 8000 THEN 40 ELSE 20
Place(q) == IF q < 6400 THEN q ELSE IF q < 8000 THEN q - 6400 ELSE q - 8000

Pixels(q) == 640 \div Side(q)
MiddleX(q) == 2 * (Place(q) % Side(q)) + 1
MiddleY(q) == 2 * (Place(q) \div Side(q)) + 1

(* The sides of the box are at the distances the network said, counted in  *)
(* cells of the anchor's own head from the middle of the anchor's cell.    *)
BoxAroundCell ==
    stage \in {"boxed", "scored", "done"} =>
        /\ corners.x1 = (MiddleX(p) - 2 * dist.left) * Pixels(p)
        /\ corners.y1 = (MiddleY(p) - 2 * dist.top) * Pixels(p)
        /\ corners.x2 = (MiddleX(p) + 2 * dist.right) * Pixels(p)
        /\ corners.y2 = (MiddleY(p) + 2 * dist.bottom) * Pixels(p)

(* The class is one with the best score, and the first of them. *)
FirstBestClass ==
    stage = "done" =>
        /\ class \in C
        /\ \A c \in C : /\ scores[c] <= scores[class]
                        /\ c < class => scores[c] < scores[class]

(* Types: an anchor keeps its place in the flat arrays, and buf_9 holds a  *)
(* stride until the corners are computed and a score after.                *)
DecodeTypeOK ==
    /\ stage \in {"said", "centred", "boxed", "scored", "done"}
    /\ p \in 0..(AnchorCount - 1)
    /\ dist \in Distances
    /\ centre \in [x : Int, y : Int] /\ size \in [x : Int, y : Int]
    /\ corners \in [x1 : Int, y1 : Int, x2 : Int, y2 : Int]
    /\ stage \in {"said", "centred"} => best \in {8, 16, 32}
=============================================================================
