---------------------------- MODULE MCLinkCrash -----------------------------
(* Two commands, two incarnations of each process, each poller with a good *)
(* token or with one the server refuses.                                   *)
EXTENDS LinkCrash

BothHeaders ==
    {[words |-> 2, signed |-> TRUE, issuer |-> "Cherum"],
     [words |-> 2, signed |-> FALSE, issuer |-> "Cherum"]}
=============================================================================
