------------------------------ MODULE Records ------------------------------
(***************************************************************************)
(* The trace ledger: how a row and its files come to be and go (Ledger),   *)
(* and what the status screen makes of the rows (Usage).  The screen reads *)
(* what a request used and when it began, the rest is of no account to it, *)
(* so each is checked on its own: a behaviour is the story of one, while   *)
(* the other stays where it starts.                                        *)
(***************************************************************************)
EXTENDS Ledger, Usage

VARIABLE reader

records == <<vars, usageVars, reader>>

RecordsInit ==
    /\ reader \in {"receipts", "status"}
    /\ Init
    /\ UsageInit
    /\ reader = "receipts" =>
          /\ plan = CHOOSE p \in Plans : TRUE
          /\ \A i \in Sent : sent[i] = CHOOSE r \in Past : TRUE

RecordsNext ==
    \/ reader = "receipts" /\ Next      /\ UNCHANGED <<usageVars, reader>>
    \/ reader = "status"   /\ UsageNext /\ UNCHANGED <<vars, reader>>

\* The fairness is that of Ledger: nobody has to ask for a status.
RecordsSpec ==
    /\ RecordsInit /\ [][RecordsNext]_records
    /\ WF_records(reader = "receipts" /\ (\E e \in Exchange : Write(e)) /\ UNCHANGED <<usageVars, reader>>)
    /\ WF_records(reader = "receipts" /\ Start /\ UNCHANGED <<usageVars, reader>>)
    /\ WF_records(reader = "receipts" /\ Judge /\ UNCHANGED <<usageVars, reader>>)
=============================================================================
