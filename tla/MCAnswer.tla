------------------------------ MODULE MCAnswer ------------------------------
(***************************************************************************)
(* A translated conversation, whose first tool is in a namespace and the   *)
(* alias it would be given first is taken.  A Messages stream, of one      *)
(* envelope and two restarts.  And, for the choice of a model, a Claude    *)
(* login (own), a gateway that speaks both OpenAI wires and is priced      *)
(* (gw), and a model on this machine (lap); clients at the plain facade,   *)
(* and one whose URL names a login that is none.                           *)
(***************************************************************************)
EXTENDS Answer

MCTools == <<[space |-> "mcp", name |-> 7], Alias(0)>>
MCReplies == {<<"think", "text", "call", "call">>, <<"call", "text">>,
              <<"call", "call", "call">>, <<"text", "text", "text", "text", "text", "call">>}

CONSTANTS own, gw, lap

AllVendors == {own, gw, lap}

Per(o, g, l) == [v \in AllVendors |-> CASE v = own -> o [] v = gw -> g [] v = lap -> l]

Wires     == Per({"anthropic"}, {"chat", "responses"}, {"chat"})
Owners    == Per("claude", Nil, Nil)
Defaults  == Per(TRUE, FALSE, FALSE)
Costs     == Per(1, 2, 0)
Seats     == Per(1, 2, 3)
Abilities == Per(Skill, {"tools", "parallel"}, {"tools"})
Windows   == Per(200, 128, 32)
Fortunes  == Per({"up", "pressed", "spent"}, {"up", "capped", "down"}, {"up", "down"})
Ranks     == [opus4 |-> 2, opus5 |-> 2, haiku4 |-> 0, glm |-> 2, mini |-> 0]

Guess(list) == [list |-> list, stated |-> FALSE, room |-> [m \in {} |-> 0]]

Claude  == Guess(<< <<"opus4", 2>>, <<"haiku4", 0>> >>)
Stated  == [list |-> << <<"opus5", 2>>, <<"haiku4", 0>> >>, stated |-> TRUE, room |-> [opus5 |-> 200]]
Priced  == [list |-> << <<"glm", 2>>, <<"mini", 0>> >>, stated |-> TRUE, room |-> [glm |-> 128, mini |-> 20]]
Shelves == Per({Claude, Stated}, {Guess(<<>>), Priced}, {Guess(<< <<"mini", 0>> >>)})

Body(m, parts, size, final) ==
    [model |-> m, parts |-> parts, size |-> size, limit |-> Nil, last |-> final, long |-> size > 50]

Asked == {Body("opus5", {"tools"}, 10, "text"), Body("haiku4", {"tools"}, 10, "result"),
          Body("opus5", {"tools", "mark"}, 90, "text"), Body("glm", {"tools"}, 150, "result"),
          Body("glm", {"images"}, 10, "text"), Body("opus5", {}, 180, "summary"),
          [Body(Nil, {}, 100, "text") EXCEPT !.limit = 64]}

Claimants == {[wire |-> "anthropic", identity |-> "claude", login |-> Nil],
              [wire |-> "anthropic", identity |-> "claude", login |-> lap],
              [wire |-> "chat", identity |-> Nil, login |-> Nil]}

Near == {gw, own}

Wishes == {[at |-> gw, model |-> "mini"], [at |-> "gone", model |-> Nil]}
=============================================================================
