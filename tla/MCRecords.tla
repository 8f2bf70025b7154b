----------------------------- MODULE MCRecords -----------------------------
(* Two exchanges of one session, on the facade that restarts into a row;   *)
(* and three requests of one backend, one of them still running, with two  *)
(* callers who ask.                                                        *)
EXTENDS Records

CONSTANTS s1

OneSession == [e \in Exchange |-> s1]
All  == Exchange
Latest == {N}

MCPlans == {Void, "max20"}
=============================================================================
