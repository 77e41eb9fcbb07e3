------------------------------ MODULE MCVideo -------------------------------
(* A wide, a square and a tall video; two calls could overlap. *)
EXTENDS Video

MCDims == {[w |-> 4, h |-> 2], [w |-> 2, h |-> 2], [w |-> 2, h |-> 4]}
MCSizes == {[w |-> 320, h |-> 180], [w |-> 800, h |-> 600]}
MCPlaces == [x : {0, 3}, y : {1, 4}]

ASSUME MCNoRounding == NoRounding
=============================================================================
