---------------------------- MODULE MCConnections ----------------------------
(* LiveConnections for TLC: sockets are symmetric model values. *)
EXTENDS LiveConnections, TLC

Symmetry == Permutations(Socket)
=============================================================================
