----------------------------- MODULE MCNetExec ------------------------------
(* Three calls of the network: the second and the third find what the one  *)
(* before left in the buffers.                                             *)
EXTENDS NetExec
=============================================================================
