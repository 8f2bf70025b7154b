----------------------------- MODULE MCServing -----------------------------
(* The requests of MCDispatch, the documents of MCUpdates.                 *)
EXTENDS MCDispatch, MCUpdates, Serving
=============================================================================
