------------------------------ MODULE Tensors -------------------------------
(***************************************************************************)
(* What a buffer of net.js holds, without its numbers.  A tensor is a      *)
(* sequence of planes of n values each; a plane is named by the node of    *)
(* the network that computed it, its number there, and what was done to it *)
(* since (upsampling, pooling, steps of the sorting network).  The frame   *)
(* is the picture the values belong to.                                    *)
(***************************************************************************)
EXTENDS Integers, Sequences

Plane(node, i) == [of |-> node, chan |-> i, by |-> <<>>]

(* The c planes a node computes. *)
Planes(node, c) == [i \in 1..c |-> Plane(node, i - 1)]

(* The same planes after one more operation on each of them. *)
Through(planes, step) ==
    [i \in DOMAIN planes |-> [planes[i] EXCEPT !.by = Append(@, step)]]

Upsample == <<"up", 2>>
MaxPool == <<"pool", 5>>

Tensor(planes, n, f) == [planes |-> planes, n |-> n, frame |-> f]

(* A buffer never written, or written with values nobody asked for. *)
Torn == Tensor(<<>>, 0, 0)
=============================================================================
