------------------------------- MODULE MCGate -------------------------------
(* SessionGate for TLC: symmetric model values for bearers, coroutines and tickets. *)
EXTENDS SessionGate, TLC

Symmetry == Permutations(Token) \cup Permutations(Handler) \cup Permutations(Ticket)
=============================================================================
