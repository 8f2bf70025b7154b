------------------------------ MODULE MCSpool -------------------------------
(* Captures of one session and the leases of two clients. *)
EXTENDS Spool

CONSTANTS c1, c2, s1

OneSession == [c \in Capture |-> s1]
=============================================================================
