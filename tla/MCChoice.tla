------------------------------ MODULE MCChoice ------------------------------
(* Ten anchors in a network of sixteen values, five rows.  Of the boxes    *)
(* in a row each overlaps the next by more than 0.45 of the union, the     *)
(* first and the third by less; one more is of another class.  Either four *)
(* of the anchors, apart in the network, have a score around the threshold *)
(* and any box, or all of the anchors have one of two scores.  A box may   *)
(* stick out of the picture on the left.                                   *)
EXTENDS Choice

At(x, class) == [x1 |-> x, y1 |-> 0, x2 |-> x + 4, y2 |-> 4, class |-> class]
ThreeInARow == {At(-1, 0), At(0, 0), At(1, 0), At(-1, 1)}
AroundThreshold == {10, 24, 25, 60}

Four == {0, 3, 5, 8}
Mixed(scores, boxes) ==
    [best |-> [a \in A |-> IF a \in Four THEN scores[a] ELSE 10],
     box |-> [a \in A |-> IF a \in Four THEN boxes[a] ELSE At(0, 0)]]
Plain(scores) == [best |-> scores, box |-> [a \in A |-> At((a % 3) - 1, 0)]]

MCInputs ==
    {Mixed(scores, boxes) : scores \in [Four -> {24, 25, 60}],
                            boxes \in [Four -> ThreeInARow]}
    \cup {Plain(scores) : scores \in [A -> {10, 60}]}
=============================================================================
