------------------------------- MODULE MCFeed -------------------------------
(* EventFeed for TLC: sockets and browsers are symmetric model values. *)
EXTENDS EventFeed, TLC

Symmetry == Permutations(Socket) \cup Permutations(Client)
=============================================================================
