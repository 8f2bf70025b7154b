----------------------------- MODULE MCControl ------------------------------
(***************************************************************************)
(* The instances of the two parts of Control, one behaviour on each.       *)
(*                                                                         *)
(* Of the settings and the agents' files: a login (sub) and a metered key; *)
(* Codex, and a tool of the shape of Claude Code's settings whose tables   *)
(* may also be inline, as TOML allows: a JSON file has its states but      *)
(* those.  Each plan is a kind of story.                                   *)
(*                                                                         *)
(* Of the logins: two directories beside the usual one; p and q are one    *)
(* directory, and u and z are the usual one.  The directory r has the name *)
(* of a default login.  `def` is the default login's id, `met` a metered   *)
(* backend's.                                                              *)
(***************************************************************************)
EXTENDS Control, TLC

CONSTANTS sub, key, r1, r2, c1, c2, s1, s2

OneDollar == [b \in {key} |-> 1]

Plan(m, c, b, e, r, f, t) ==
    [mode |-> m, consent |-> c, binding |-> b, edit |-> e, request |-> r, fault |-> f, tick |-> t]

Stories == {
    Plan(2, 0, 0, 0, 1, 1, 0),   \* two mode changes around a request, and a restart
    Plan(0, 2, 0, 0, 1, 1, 0),   \* two answers about consent, a save that fails
    Plan(0, 0, 4, 0, 1, 0, 2),   \* bindings that lapse in a registry with room for one
    Plan(0, 0, 0, 0, 3, 1, 1),   \* three paid requests, a midnight and a restart
    Plan(0, 0, 0, 4, 0, 1, 0) }  \* four edits to an agent's file, one cut short

SettingOf ==
    [t \in {"slots", "codex"} |->
        IF t = "codex" THEN {"provider", "note", "block"} ELSE {"url", "line"}]
OwnOf == [t \in {"slots", "codex"} |-> IF t = "codex" THEN {} ELSE {"env", "own"}]
Nodes == {"url", "line", "env", "own", "provider", "note", "block"}
EnvOf == [n \in Nodes |-> IF n \in {"url", "own"} THEN "env" ELSE None]
Needs == [n \in Nodes |-> IF n = "line" THEN "own" ELSE None]
Users2 == {<<"user", 1>>, <<"user", 2>>}

Same == Permutations({r1, r2}) \cup Permutations({c1, c2})

-----------------------------------------------------------------------------

CONSTANTS u, z, p, q, r, def, met, v, w, U, P, R

Dirs  == (u :> U) @@ (z :> U) @@ (p :> P) @@ (q :> P) @@ (r :> R)
Names == (u :> v) @@ (z :> v) @@ (p :> v) @@ (q :> w) @@ (r :> def)

On(product, keychain, exports, holds, theirs_) ==
    [product |-> product, keychain |-> keychain, exported |-> exports, holding |-> holds,
     theirs |-> theirs_]

Worlds == {
    On("claude", FALSE, Void, TRUE, {}), On("claude", FALSE, p, FALSE, {U}),
    On("claude", TRUE, u, TRUE, {}),     On("claude", TRUE, q, TRUE, {R}),
    On("codex", FALSE, Void, TRUE, {}),  On("codex", FALSE, p, FALSE, {}) }

E(id, kind, dir, on) == [id |-> id, kind |-> kind, dir |-> dir, on |-> on]

Written ==
    {E(def, "login", d, TRUE) : d \in {u, p, r}}
        \cup {E(v, "login", d, TRUE) : d \in {p, q, r}}
        \cup {E(def, "login", Void, FALSE), E(v, "login", p, FALSE), E(met, "login", Void, TRUE),
              E(w, "metered", Void, TRUE)}

Errand(e, n, c, s) == [edit |-> e, command |-> n, call |-> c, start |-> s]

Evenings == {
    Errand(1, 2, 0, 0),    \* two commands around an edit
    Errand(2, 1, 0, 0),    \* two edits around a command
    Errand(1, 0, 2, 2),    \* the GUI, with a restart between
    Errand(1, 1, 1, 1) }   \* one of each
=============================================================================
