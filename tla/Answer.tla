------------------------------- MODULE Answer -------------------------------
(***************************************************************************)
(* How a client is answered: by which model, or with which refusal         *)
(* (Choice); translated, if the provider speaks another wire than the      *)
(* client (Reply); and under the guard that holds back, restarts and ends  *)
(* a stream (Stream).  Choice knows no words of an answer and the guard    *)
(* only frames, so each is checked on its own: a behaviour is the story of *)
(* one, while the others stay where they start.                            *)
(***************************************************************************)
EXTENDS Choice, Reply, Stream

VARIABLE passage

answered == <<choice, vars, stream, passage>>

AnswerInit ==
    /\ passage \in {"chosen", "translated", "guarded"}
    /\ ChoiceInit
    /\ Init
    /\ StreamInit
    /\ passage # "chosen" => /\ holder = CHOOSE c \in Clientele : TRUE
                             /\ shelf = [v \in Vendor |-> CHOOSE cat \in Shelf[v] : TRUE]
    /\ passage # "translated" => wire = Chat

AnswerNext ==
    \/ passage = "chosen"     /\ ChoiceNext /\ UNCHANGED <<vars, stream, passage>>
    \/ passage = "translated" /\ Next       /\ UNCHANGED <<choice, stream, passage>>
    \/ passage = "guarded"    /\ StreamNext /\ UNCHANGED <<choice, vars, passage>>

\* The guard is polled: frames at hand are handled and its timer fires.
AnswerSpec ==
    /\ AnswerInit /\ [][AnswerNext]_answered
    /\ WF_answered(passage = "guarded" /\ Handles /\ UNCHANGED <<choice, vars, passage>>)
    /\ WF_answered(passage = "guarded" /\ (Silent \/ Stall) /\ UNCHANGED <<choice, vars, passage>>)

-----------------------------------------------------------------------------
(* Properties *)

\* "We give up too": a guarded stream whose upstream is never heard from again
\* does not hold the client.  Code: resilience.rs guard, the stall branch.
GuardGivesUp == passage = "guarded" => GivesUpOnSilence

\* What the client of a guarded stream has is of one try and in its order, from
\* its first content on nothing is kept from it, and it ends with its provider's
\* last event or with an error.  Code: resilience.rs guard.
GuardIsTransparent == OneTryInOrder /\ NothingIsWithheld /\ EndsHonestly

\* The agent gets every call whole and under its own names, and waits for the
\* tools exactly when it was given any.  Code: ironwire_translate's stream.rs.
CallsAreServed == CallsReachTheAgent /\ WaitsForItsTools
=============================================================================
