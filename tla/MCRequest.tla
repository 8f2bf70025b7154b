----------------------------- MODULE MCRequest -----------------------------
(***************************************************************************)
(* The privacy filter on a value that lies across two others.  The account *)
(* lock with two logins (A the default one) and a backend that reasoning   *)
(* does not reach, for clients without a session or with one.  The         *)
(* providers with a Claude Code and a Codex login side by side, or with a  *)
(* backend that speaks Chat; one permit, one thread and one slot.          *)
(*                                                                         *)
(* x1, x2 and y1, y2 are interchangeable in every part: x are              *)
(* conversations, y are account holders or inquirers.                      *)
(***************************************************************************)
EXTENDS Request, TLC

CONSTANTS None, A, B, X, claude, codex, chat, x1, x2, y1, y2

Overlapping == {<<1, 2>>, <<2, 4>>, <<5, 6>>}

Clients ==
    {[session |-> FALSE, login |-> None, latest |-> l] : l \in BOOLEAN}
        \cup {[session |-> TRUE, login |-> B, latest |-> FALSE]}

WireOf  == [a \in {claude, codex, chat} |->
               CASE a = claude -> "claude" [] a = codex -> "codex" [] a = chat -> "chat"]
PlaceOf == [a \in {claude, codex, chat} |-> IF a = chat THEN "elsewhere" ELSE "issuer"]
Either  == {{claude, codex}, {chat}}
Usage   == {[five |-> [used |-> 2, resets |-> 1], seven |-> [used |-> 1, resets |-> None],
             claim |-> None, wait |-> None]}

Alike == Permutations({x1, x2}) \cup Permutations({y1, y2})
=============================================================================
