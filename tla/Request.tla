------------------------------ MODULE Request ------------------------------
(***************************************************************************)
(* What a request passes on its way besides routing, and what touches no   *)
(* state in common: the privacy filter (Privacy), the account lock         *)
(* (Origins) and the call to the provider (Upstream).  A behaviour is the  *)
(* story of one of them, while the other two stay where they start.        *)
(***************************************************************************)
EXTENDS Privacy, Origins, Upstream

VARIABLE part

request == <<vars, origins, upstream, part>>

RequestInit ==
    /\ part \in {"privacy", "account", "provider"}
    /\ Init
    /\ OriginsInit(IF part = "account" THEN [Candidate -> Holder] ELSE {[b \in Candidate |-> Nobody]})
    /\ UpstreamInit
    /\ part # "privacy"  => conv = CHOOSE c \in Convs : TRUE
    /\ part # "account"  => ~fallback /\ client = [c \in Convo |-> CHOOSE k \in Client : TRUE]
    /\ part # "provider" => /\ registry = CHOOSE r \in Registries : TRUE
                            /\ store = CHOOSE s \in Stores : TRUE

RequestNext ==
    \/ part = "privacy"  /\ Next         /\ UNCHANGED <<origins, upstream, part>>
    \/ part = "account"  /\ OriginsNext  /\ UNCHANGED <<vars, upstream, part>>
    \/ part = "provider" /\ UpstreamNext /\ UNCHANGED <<vars, origins, part>>

RequestSpec == RequestInit /\ [][RequestNext]_request
=============================================================================
