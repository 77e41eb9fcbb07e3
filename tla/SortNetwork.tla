---------------------------- MODULE SortNetwork -----------------------------
(***************************************************************************)
(* The sorting network of net.js on 2^L values, largest first, as the list *)
(* of its steps.  Level l merges sorted runs of 2^(l-1) values in pairs:   *)
(* "mirror" turns every second run round, so that the two runs of a pair   *)
(* are bitonic, and "exchange" orders the values at a distance.  The       *)
(* mirror of level 1 is part of the kernel that pads the scores, and the   *)
(* last level does its mirror and its first exchange in one step, "fold".  *)
(***************************************************************************)
EXTENDS Integers, Sequences, SequencesExt

Level(l, L) ==
    LET run == 2^(l - 1)
        halving == [i \in 1..(l - 1) |-> <<"exchange", 2^(l - 1 - i)>>]
    IN (CASE l = L -> <<<<"fold", run>>>>
          [] l = 1 /\ l < L -> <<<<"exchange", run>>>>
          [] OTHER -> <<<<"mirror", run>>, <<"exchange", run>>>>) \o halving

SortSteps(L) == FlattenSeq([l \in 1..L |-> Level(l, L)])
=============================================================================
