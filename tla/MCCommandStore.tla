--------------------------- MODULE MCCommandStore ---------------------------
(* Three commands, three readings of the clock: ties, a clock set back, and *)
(* a db:create between any two requests all happen.                         *)
EXTENDS CommandStore

MCHeaders ==
    {[words |-> 2, signed |-> TRUE, issuer |-> "Cherum"],
     [words |-> 2, signed |-> TRUE, issuer |-> "none"],
     [words |-> 2, signed |-> FALSE, issuer |-> "Cherum"],
     [words |-> 1, signed |-> TRUE, issuer |-> "Cherum"],
     [words |-> 0, signed |-> FALSE, issuer |-> "none"]}
=============================================================================
