------------------------------ MODULE Serving ------------------------------
(***************************************************************************)
(* A daemon that serves: the requests it dispatches (Dispatch), and the    *)
(* catalogue and the binary that change under it (Updates).  What a        *)
(* document changes of a request, the flags and markers it is sent with,   *)
(* has no part in where it is sent, so each is checked on its own: a       *)
(* behaviour is the story of one, while the other stays where it starts.   *)
(***************************************************************************)
EXTENDS Dispatch, Updates

VARIABLE tale

serving == <<vars, updates, tale>>

ServingInit ==
    /\ tale \in {"requests", "updates"}
    /\ Init /\ UpdatesInit
    /\ tale = "requests" => ~block /\ \A k \in Keys : tool[k] = "empty"

ServingNext ==
    \/ tale = "requests" /\ Next        /\ UNCHANGED <<updates, tale>>
    \/ tale = "updates"  /\ UpdatesNext /\ UNCHANGED <<vars, tale>>

ServingSpec == ServingInit /\ [][ServingNext]_serving
=============================================================================
