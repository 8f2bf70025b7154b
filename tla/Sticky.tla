------------------------------- MODULE Sticky -------------------------------
(***************************************************************************)
(* What ironwire_core::policy::Policy promises its caller, without timers, *)
(* capacity or time: a decision answers the request with a route that this *)
(* request may have from where its conversation is: that one, a fresh      *)
(* selection where it may move, or either with its rung put back for a     *)
(* model the backend lists; and a conversation is only ever moved by its   *)
(* own decisions or forgotten.                                             *)
(*                                                                         *)
(* Routing implements this specification (its theorem and its run say so); *)
(* Dispatch is built on its operators, so that the failover loop is        *)
(* checked against everything the policy might answer.                     *)
(***************************************************************************)
EXTENDS Policy

CONSTANTS Key, Named

VARIABLES
    world,   \* what the candidates report
    home,    \* key -> the route its conversation is on, or None
    ask,     \* the request being decided, or None
    route    \* the last decision, or None

vars == <<world, home, ask, route>>

Route == [backend : Backend, rung : Rung]
Ask   == [key : Key, kind : Kind, mid : BOOLEAN, model : Model, force : Named \cup {None}]

\* Some conversations are forgotten: swept, evicted, or dropped by the pipeline.
Forgets(before, after) ==
    \A k \in Key : after[k] \in {before[k], None}

-----------------------------------------------------------------------------
Init ==
    /\ world \in World
    /\ home = [k \in Key |-> None]
    /\ ask = None
    /\ route = None

Arrive ==
    /\ ask = None
    /\ ask' \in Ask
    /\ route' = None
    /\ UNCHANGED <<world, home>>

Answer ==
    /\ ask # None
    /\ route' \in Routes(world, ask, home[ask.key], ask.force)
    /\ home' \in [Key -> Route \cup {None}]
    /\ Forgets([home EXCEPT ![ask.key] = route'], home')
    /\ ask' = None
    /\ UNCHANGED world

Refuse ==
    /\ ask # None
    /\ route' = None
    /\ Refusable(world, ask, home[ask.key], ask.force)
    /\ home' \in [Key -> Route \cup {None}]
    /\ Forgets(home, home')
    /\ ask' = None
    /\ UNCHANGED world

\* A conversation unheard from for too long is on no route.
Lapse ==
    /\ home' \in [Key -> Route \cup {None}]
    /\ Forgets(home, home')
    /\ UNCHANGED <<world, ask, route>>

Shift ==
    /\ ask = None
    /\ world' \in World
    /\ UNCHANGED <<home, ask, route>>

Next == Arrive \/ Answer \/ Refuse \/ Lapse \/ Shift

Spec == Init /\ [][Next]_vars
=============================================================================
