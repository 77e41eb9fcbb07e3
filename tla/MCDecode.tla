------------------------------ MODULE MCDecode ------------------------------
(* Every anchor, boxes to one side of it and around it, three classes.     *)
EXTENDS Decode

Sides == {[left |-> 0, top |-> 1, right |-> 5, bottom |-> 15],
          [left |-> 7, top |-> 0, right |-> 2, bottom |-> 0]}
=============================================================================
