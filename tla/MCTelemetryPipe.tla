-------------------------- MODULE MCTelemetryPipe ---------------------------
(* Batches and openings of two lines instead of a hundred, so that both are *)
(* exhausted, and a FIFO that two messages with their newlines fill.        *)
EXTENDS TelemetryPipe
=============================================================================
