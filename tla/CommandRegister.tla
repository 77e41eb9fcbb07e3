-------------------------- MODULE CommandRegister ---------------------------
(***************************************************************************)
(* What the command link promises: the drone does nothing but the          *)
(* operators' commands, in the order in which the server accepted them,    *)
(* and the poller's fallback.  Commands may be skipped, and the last one   *)
(* may be repeated; none is invented, altered or performed after a later   *)
(* one.                                                                    *)
(***************************************************************************)
EXTENDS Naturals, Sequences

CONSTANTS
    Values,        \* what the server accepts as a command
    Perform(_),    \* the action of a command, None if it has none
    Fallback,      \* the action performed when the server is out of reach
    None

VARIABLES
    issued,   \* the commands accepted so far
    flown,    \* the action performed last
    applied   \* the position in issued of the command performed last

regVars == <<issued, flown, applied>>

RegInit == issued = <<>> /\ flown = None /\ applied = 0

Issue ==
    /\ \E c \in Values : issued' = Append(issued, c)
    /\ UNCHANGED <<flown, applied>>

Apply ==
    /\ \E s \in 1..Len(issued) :
          /\ applied <= s
          /\ Perform(issued[s]) # None
          /\ flown' = Perform(issued[s])
          /\ applied' = s
    /\ UNCHANGED issued

FallBack ==
    /\ Fallback # None
    /\ flown' = Fallback
    /\ UNCHANGED <<issued, applied>>

RegNext == Issue \/ Apply \/ FallBack

RegSpec == RegInit /\ [][RegNext]_regVars
=============================================================================
