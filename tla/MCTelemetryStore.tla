-------------------------- MODULE MCTelemetryStore --------------------------
(* Two threads of the WSGI server, which are interchangeable. *)
EXTENDS TelemetryStore, TLC

CONSTANTS t1, t2

TwoThreads == {t1, t2}
Symmetry == Permutations(TwoThreads)
=============================================================================
