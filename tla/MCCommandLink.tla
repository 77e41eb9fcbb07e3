--------------------------- MODULE MCCommandLink ----------------------------
(* Headers of the command link: the token of a good installation and one    *)
(* signed with another key.                                                 *)
EXTENDS CommandLink

Good == [words |-> 2, signed |-> TRUE, issuer |-> "Cherum"]
Forged == [words |-> 2, signed |-> FALSE, issuer |-> "Cherum"]
BothHeaders == {Good, Forged}
OnlyGood == {Good}
=============================================================================
