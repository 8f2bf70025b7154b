------------------------------- MODULE MCHome -------------------------------
(* Two processes that serve one home, on one port. *)
EXTENDS Home

CONSTANTS d1, d2, p1, p2

OnePort  == [d \in Daemon |-> p1]
=============================================================================
