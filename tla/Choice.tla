------------------------------- MODULE Choice -------------------------------
(***************************************************************************)
(* The choice of the boxes, passes 96 and 98 to 224 of net.js, on numbers: *)
(* scores below the threshold become 0, a sorting network of 2^L values    *)
(* orders them, counting equal scores before each one turns the order of   *)
(* the scores into an order of the anchors, and of the first TopK boxes    *)
(* each one is dropped that overlaps one before it of its class.           *)
(*                                                                         *)
(* Scores are in hundredths, and -1 is the -INFINITY of the padding.       *)
(***************************************************************************)
EXTENDS Integers, FiniteSets, SortNetwork

CONSTANTS
    L,        \* levels of the sorting network: 14 in net.js
    Anchors,  \* anchors, one box and score each: 8400
    TopK,     \* boxes the overlap test looks at: 300
    Scores,   \* the best class scores an anchor may have
    Boxes,    \* the boxes and classes it may have
    Inputs    \* what the network may say: the best scores and the boxes

ASSUME ChoiceAssumption ==
    /\ L \in Nat \ {0} /\ Anchors \in 1..2^L /\ TopK \in 1..Anchors
    /\ Scores \subseteq 0..100
    /\ \A b \in Boxes : /\ {b.x1, b.x2, b.y1, b.y2} \subseteq Int /\ b.class \in Nat
                        /\ b.x1 <= b.x2 /\ b.y1 <= b.y2
    /\ \A in \in Inputs : /\ in.best \in [0..(Anchors - 1) -> Scores]
                          /\ in.box \in [0..(Anchors - 1) -> Boxes]

VARIABLES       \* buffers are empty before their pass
    pass,       \* which pass is next
    best,       \* buf_9: the best class score of each anchor
    box,        \* buf_337 to 340 and buf_342: its box and class
    confident,  \* buf_341
    vec,        \* buf_343 and buf_346 in turn
    steps,      \* steps of the sorting network done
    rank,       \* buf_344: equal scores up to this anchor
    sortedRank, \* buf_347: the same in sorted order
    order,      \* buf_348
    rows,       \* buf_350: the boxes of the first TopK
    keep        \* buf_352

choiceVars == <<pass, best, box, confident, vec, steps, rank, sortedRank, order, rows, keep>>

A == 0..(Anchors - 1)
Slots == 0..(2^L - 1)
K == 0..(TopK - 1)

ChoiceInit ==
    /\ pass = "confident"
    /\ \E in \in Inputs : best = in.best /\ box = in.box
    /\ confident = <<>> /\ vec = <<>> /\ steps = 0
    /\ rank = <<>> /\ sortedRank = <<>> /\ order = <<>> /\ rows = <<>> /\ keep = <<>>

(* Pass 96. *)
MutThreshold(s) == IF s <= 25 THEN 0 ELSE s
Threshold(s) == IF s < 25 THEN 0 ELSE s

Confident ==
    /\ pass = "confident" /\ pass' = "pad"
    /\ confident' = [a \in A |-> Threshold(best[a])]
    /\ UNCHANGED <<best, box, vec, steps, rank, sortedRank, order, rows, keep>>

(***************************************************************************)
(* The steps of the network, on the values v.                              *)
(***************************************************************************)
Larger(a, b) == IF a < b THEN b ELSE a
Smaller(a, b) == IF a < b THEN a ELSE b

(* Of two values d apart the larger comes first. *)
Exchange(v, d) ==
    [i \in Slots |-> IF (i \div d) % 2 = 0 THEN Larger(v[i], v[i + d])
                                           ELSE Smaller(v[i - d], v[i])]

(* Mutant: the second two quarters stay as they are. *)
MutMirror(v, d) ==
    [i \in Slots |->
        LET quarter == (i \div d) % 4
            start == i - (i % d)
            back == d - 1 - (i % d)
        IN IF quarter = 1 THEN v[start + back] ELSE v[i]]

(* Of four quarters of d values a, b, c, e: a, b backwards, e, c backwards. *)
Mirror(v, d) ==
    [i \in Slots |->
        LET quarter == (i \div d) % 4
            start == i - (i % d)
            back == d - 1 - (i % d)
        IN CASE quarter = 0 -> v[i]
             [] quarter = 1 -> v[start + back]
             [] quarter = 2 -> v[i + d]
             [] quarter = 3 -> v[start - d + back]]

(* The larger of the i-th from the front and from the back comes first. *)
Fold(v, d) ==
    [i \in Slots |-> IF i < d THEN Larger(v[i], v[2 * d - 1 - i])
                              ELSE Smaller(v[i - d], v[3 * d - 1 - i])]

Apply(step, v) ==
    CASE step[1] = "exchange" -> Exchange(v, step[2])
      [] step[1] = "mirror" -> Mirror(v, step[2])
      [] step[1] = "fold" -> Fold(v, step[2])

(* Pass 98: the scores and then -INFINITY; the mirror of level 1, unless   *)
(* this is the only level.                                                 *)
Pad ==
    /\ pass = "pad" /\ pass' = "rank"
    /\ LET padded == [i \in Slots |-> IF i \in A THEN confident[i] ELSE -1]
       IN vec' = IF L = 1 THEN padded ELSE Mirror(padded, 1)
    /\ UNCHANGED <<best, box, confident, steps, rank, sortedRank, order, rows, keep>>

(* Pass 99.  The number of values equal to the i-th, up to it. *)
EqualUpTo(v, i) == Cardinality({j \in A : j <= i /\ v[j] = v[i]})

(* Mutant: equal scores are counted from the end. *)
MutRank ==
    /\ pass = "rank" /\ pass' = "sort"
    /\ rank' = [i \in A |-> Cardinality({j \in A : j >= i /\ confident[j] = confident[i]})]
    /\ UNCHANGED <<best, box, confident, vec, steps, sortedRank, order, rows, keep>>

Rank ==
    /\ pass = "rank" /\ pass' = "sort"
    /\ rank' = [i \in A |-> EqualUpTo(confident, i)]
    /\ UNCHANGED <<best, box, confident, vec, steps, sortedRank, order, rows, keep>>

(* Passes 101 to 217. *)
SortStep ==
    /\ pass = "sort"
    /\ vec' = Apply(SortSteps(L)[steps + 1], vec)
    /\ steps' = steps + 1
    /\ pass' = IF steps' = Len(SortSteps(L)) THEN "sortedRank" ELSE "sort"
    /\ UNCHANGED <<best, box, confident, rank, sortedRank, order, rows, keep>>

(* Pass 218. *)
SortedRank ==
    /\ pass = "sortedRank" /\ pass' = "order"
    /\ sortedRank' = [i \in A |-> EqualUpTo(vec, i)]
    /\ UNCHANGED <<best, box, confident, vec, steps, rank, order, rows, keep>>

(* Pass 219: the sum of the anchors with the score and the rank of the     *)
(* i-th in order; the sum has one term.                                    *)
Order ==
    /\ pass = "order" /\ pass' = "rows"
    /\ order' = [i \in A |->
                    SumSet({j \in A : confident[j] = vec[i] /\ rank[j] = sortedRank[i]})]
    /\ UNCHANGED <<best, box, confident, vec, steps, rank, sortedRank, rows, keep>>

(* Passes 100, 220 and 221: the rows of the first TopK anchors in order. *)
GatherRows ==
    /\ pass = "rows" /\ pass' = "keep"
    /\ rows' = [i \in K |-> [box |-> box[order[i]], score |-> confident[order[i]]]]
    /\ UNCHANGED <<best, box, confident, vec, steps, rank, sortedRank, order, keep>>

(***************************************************************************)
(* Passes 222 and 223.                                                     *)
(***************************************************************************)
Area(b) == (b.x2 - b.x1) * (b.y2 - b.y1)

Overlap(b, c) ==
    LET width == Smaller(b.x2, c.x2) - Larger(b.x1, c.x1)
        height == Smaller(b.y2, c.y2) - Larger(b.y1, c.y1)
    IN Larger(0, width) * Larger(0, height)

(* More than 0.45 of the union; without any area the kernel compares with  *)
(* NaN, which is false as well.                                            *)
Same(b, c) == 100 * Overlap(b, c) > 45 * (Area(b) + Area(c) - Overlap(b, c))

(* Mutant: the row just before is left out. *)
MutBefore(j, i) ==
    (i + (j \div 4) * (4 * TopK - 6) + (4 * TopK - 4) - (j % 4)) % (4 * TopK - 2)
        < 2 * TopK - 1

(* How the kernel tells that row j = 4 r + m is before row i. *)
Before(j, i) ==
    (i + (j \div 4) * (4 * TopK - 6) + (4 * TopK - 3) - (j % 4)) % (4 * TopK - 2)
        < 2 * TopK - 1

Drops(j, i) ==
    /\ Before(j, i)
    /\ Same(rows[j].box, rows[i].box)
    /\ rows[j].box.class = rows[i].box.class

Keep ==
    /\ pass = "keep" /\ pass' = "done"
    /\ keep' = [i \in K |-> IF \E j \in K : Drops(j, i) THEN 0 ELSE 1]
    /\ UNCHANGED <<best, box, confident, vec, steps, rank, sortedRank, order, rows>>

ChoiceNext ==
    \/ Confident \/ Pad \/ Rank \/ SortStep \/ SortedRank \/ Order
    \/ GatherRows \/ Keep

ChoiceSpec == ChoiceInit /\ [][ChoiceNext]_choiceVars

-----------------------------------------------------------------------------
(* Pass 224 and the filter of processFrame: what is drawn. *)
Drawn == {i \in K : keep[i] = 1 /\ rows[i].score > 0}

(* After level l each run of 2^l values is in order, largest first, and at *)
(* no step is a score lost or doubled.                                     *)
RunsSorted ==
    vec # <<>> =>
        /\ \A s \in Scores \cup {0} :
               Cardinality({i \in Slots : vec[i] = s})
                   = Cardinality({a \in A : confident[a] = s})
        /\ \A l \in 1..L :
               steps = Len(FlattenSeq([m \in 1..l |-> Level(m, L)])) =>
                   \A i \in Slots \ {2^L - 1} :
                       (i + 1) % 2^l # 0 => vec[i] >= vec[i + 1]

(* The order is that of a stable sort: by score, equal scores as they      *)
(* came, and so each anchor once.                                          *)
StableOrder ==
    order # <<>> =>
        \A i, j \in A :
            i < j => \/ confident[order[i]] > confident[order[j]]
                     \/ /\ confident[order[i]] = confident[order[j]]
                        /\ order[i] < order[j]

(* Two boxes that are drawn are two objects, as far as one overlap tells:  *)
(* of one class they overlap by 0.45 at most.                              *)
DrawnApart ==
    pass = "done" =>
        \A i, j \in Drawn :
            i # j => \/ rows[i].box.class # rows[j].box.class
                     \/ ~Same(rows[i].box, rows[j].box)

(* An anchor that is sure of itself and is not drawn was passed over for a *)
(* better one of its class at the same place, or for TopK better ones; and *)
(* nothing below the threshold is drawn.                                   *)
PassedOverForBetter ==
    pass = "done" =>
        LET at == {order[i] : i \in Drawn}
            Better(b, a) == \/ confident[b] > confident[a]
                            \/ (confident[b] = confident[a] /\ b < a)
        IN \A a \in A :
            IF a \in at THEN best[a] >= 25
            ELSE \/ best[a] < 25
                 \/ \E b \in A : /\ Better(b, a) /\ box[b].class = box[a].class
                                 /\ Same(box[b], box[a])
                 \/ Cardinality({b \in A : Better(b, a)}) >= TopK
=============================================================================
