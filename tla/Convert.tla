------------------------------ MODULE Convert ------------------------------
(***************************************************************************)
(* The pivot of ironwire_translate: how a conversation on one of the three *)
(* wires is read into turns of blocks, and written out again on another.   *)
(* Nothing here has state; Reply is built on it.                           *)
(*                                                                         *)
(* A block of the pivot is a text, a tool call, a tool's result, reasoning *)
(* that only the wire of its origin can replay, or a block this build does *)
(* not know.  A message holds what the wire puts in one message:           *)
(*   anthropic  [role, parts]: results are parts of a user message         *)
(*   chat       [role, parts, calls]: one "tool" message per result        *)
(*   responses  items: messages, calls, results and reasoning are siblings *)
(* A part, a call and a result carry the id as that wire spells it.        *)
(*                                                                         *)
(* Abstracted: the words of a text, images, system prompts, sampling       *)
(* parameters, tool schemas and choices, token counts.                     *)
(***************************************************************************)
EXTENDS Integers, FiniteSets, Sequences, SequencesExt

Anthropic == "anthropic"
Responses == "responses"
Chat == "chat"
Wire == {Anthropic, Responses, Chat}

(* What s has at the indices I, in its order.                              *)
Those(s, I) ==
  LET nth(j) == CHOOSE i \in I : Cardinality({k \in I : k < i}) = j - 1
  IN  [j \in 1 .. Cardinality(I) |-> s[nth(j)]]

-----------------------------------------------------------------------------
(* Tool-call ids.  On a wire an id is what its provider minted behind some *)
(* number of `toolu_xw_` prefixes; in the pivot it has an origin as well,  *)
(* "none" for one IronWire handed out.                                     *)

(* Mutant: an id that already has the prefix does not get a second one.    *)
EncodeOnce(id, target) ==
  IF id.origin = target \/ target # Anthropic \/ id.pre > 0 THEN [pre |-> id.pre, base |-> id.base]
  ELSE [pre |-> 1, base |-> id.base]

encode(id, target) ==
  [pre |-> IF target = Anthropic /\ id.origin # target THEN id.pre + 1 ELSE id.pre,
   base |-> id.base]

decode(id, source) ==
  IF source = Anthropic /\ id.pre > 0
  THEN [origin |-> "none", pre |-> id.pre - 1, base |-> id.base]
  ELSE [origin |-> source, pre |-> id.pre, base |-> id.base]

-----------------------------------------------------------------------------
(* Namespaced tools.  A Responses client may declare tools in namespaces;  *)
(* Chat has flat names, so each gets an alias that is not taken.  A name   *)
(* is [space, name]: space "" is a flat name, "iw" an alias.               *)

Alias(n) == [space |-> "iw", name |-> n]
Namespaced(tool) == tool.space \notin {"", "iw"}

(* NamespaceMap::flatten: the alias of each namespaced tool, in the order  *)
(* they are declared.  taken holds the flat names that are declared, or    *)
(* that the history calls.                                                 *)
Free(m, taken) ==
  LET used == taken \cup {m[t] : t \in DOMAIN m}
      from == Cardinality(DOMAIN m)
  IN  CHOOSE n \in from .. (from + Cardinality(used)) :
        /\ Alias(n) \notin used
        /\ \A k \in from .. (n - 1) : Alias(k) \in used

flatten(tools, taken) ==
  LET map[i \in 0 .. Len(tools)] ==
        IF i = 0 THEN [t \in {} |-> Alias(0)]
        ELSE LET m == map[i - 1]
             IN  IF ~Namespaced(tools[i]) THEN m
                 ELSE [t \in DOMAIN m \cup {tools[i]} |->
                        IF t = tools[i] THEN Alias(Free(m, taken)) ELSE m[t]]
  IN  map[Len(tools)]

Flat(m, name) == IF name \in DOMAIN m THEN m[name] ELSE name
restore_item(m, name) ==
  IF \E t \in DOMAIN m : m[t] = name THEN CHOOSE t \in DOMAIN m : m[t] = name ELSE name

-----------------------------------------------------------------------------
(* Blocks of the pivot.                                                    *)

TextBlock(t) == [k |-> "text", text |-> t]
Use(id, name) == [k |-> "use", id |-> id, name |-> name]
Result(id) == [k |-> "result", id |-> id]
Thought(origin) == [k |-> "reasoning", origin |-> origin]
Unknown(origin) == [k |-> "unknown", origin |-> origin]

(* A block as a wire spells it, and back: only the id changes its form.    *)
Spelled(b, w) == IF b.k \in {"use", "result"} THEN [b EXCEPT !.id = encode(@, w)] ELSE b
Read(b, w) == IF b.k \in {"use", "result"} THEN [b EXCEPT !.id = decode(@, w)] ELSE b
ReadAll(parts, w) == [i \in 1 .. Len(parts) |-> Read(parts[i], w)]

Kept(b, w) == b.k \in {"reasoning", "unknown"} => b.origin = w
Only(blocks, kinds) == Those(blocks, {i \in DOMAIN blocks : blocks[i].k \in kinds})
Spell(blocks, w) == LET kept == Those(blocks, {i \in DOMAIN blocks : Kept(blocks[i], w)})
                    IN  [i \in 1 .. Len(kept) |-> Spelled(kept[i], w)]

-----------------------------------------------------------------------------
(* Requests: wire to pivot.                                                *)

Turn(role, blocks) == [role |-> role, blocks |-> blocks]

(* Append to the turn in progress when it is of this role, or start one.   *)
push_block(turns, role, b) ==
  IF turns # <<>> /\ Last(turns).role = role
  THEN [turns EXCEPT ![Len(turns)].blocks = Append(@, b)]
  ELSE Append(turns, Turn(role, <<b>>))

parse_anthropic(messages) ==
  [i \in 1 .. Len(messages) |-> Turn(messages[i].role, ReadAll(messages[i].parts, Anthropic))]

parse_chat(messages) ==
  FoldLeft(LAMBDA turns, m :
             IF m.role = "tool" THEN push_block(turns, "user", Read(Result(m.id), Chat))
             ELSE Append(turns, Turn(m.role, ReadAll(m.parts \o m.calls, Chat))),
           <<>>, messages)

parse_item(turns, item) ==
  CASE item.k = "message" -> Append(turns, Turn(item.role, ReadAll(item.parts, Responses)))
    [] item.k \in {"use", "reasoning", "unknown"} -> push_block(turns, "assistant", Read(item, Responses))
    [] item.k = "result" -> push_block(turns, "user", Read(item, Responses))

parse_request(w, messages) ==
  CASE w = Anthropic -> parse_anthropic(messages)
    [] w = Chat -> parse_chat(messages)
    [] w = Responses -> FoldLeft(parse_item, <<>>, messages)

-----------------------------------------------------------------------------
(* Requests: pivot to wire.                                                *)

(* Results go into a user message of their own, ahead of the rest.         *)
emit_anthropic(turn) ==
  LET out == Spell(turn.blocks, Anthropic)
      Message(role, parts) == IF parts = <<>> THEN <<>> ELSE <<[role |-> role, parts |-> parts]>>
  IN  Message("user", Only(out, {"result"}))
        \o Message(turn.role, Those(out, {i \in DOMAIN out : out[i].k # "result"}))

(* Mutant: a turn's results follow its own message.                        *)
EmitChatLate(turn) ==
  LET out == Spell(turn.blocks, Chat)
      results == Only(out, {"result"})
      calls == Only(out, {"use"})
      parts == Only(out, {"text", "unknown"})
  IN  (IF calls = <<>> /\ parts = <<>> THEN <<>>
       ELSE <<[role |-> turn.role, parts |-> parts, calls |-> calls]>>)
        \o [i \in 1 .. Len(results) |-> [role |-> "tool", id |-> results[i].id]]

(* Each result is a message of its own, ahead of the turn it came in.      *)
emit_chat(turn) ==
  LET out == Spell(turn.blocks, Chat)
      results == Only(out, {"result"})
      calls == Only(out, {"use"})
      parts == Only(out, {"text", "unknown"})
  IN  [i \in 1 .. Len(results) |-> [role |-> "tool", id |-> results[i].id]]
        \o (IF calls = <<>> /\ parts = <<>> THEN <<>>
            ELSE <<[role |-> turn.role, parts |-> parts, calls |-> calls]>>)

(* Texts side by side share a message; every other block is an item.       *)
emit_responses(turn) ==
  FoldLeft(LAMBDA items, b :
             IF b.k # "text" THEN Append(items, b)
             ELSE IF items # <<>> /\ Last(items).k = "message"
             THEN [items EXCEPT ![Len(items)].parts = Append(@, b)]
             ELSE Append(items, [k |-> "message", role |-> turn.role, parts |-> <<b>>]),
           <<>>, Spell(turn.blocks, Responses))

emit_turn(w, turn) ==
  CASE w = Anthropic -> emit_anthropic(turn)
    [] w = Chat -> emit_chat(turn)
    [] w = Responses -> emit_responses(turn)

emit_request(w, turns) == FlattenSeq([i \in 1 .. Len(turns) |-> emit_turn(w, turns[i])])

(* A block no wire but its own knows makes the route ineligible.           *)
Untranslatable(w, turns) ==
  \E i \in 1 .. Len(turns) : \E j \in 1 .. Len(turns[i].blocks) :
    LET b == turns[i].blocks[j] IN b.k = "unknown" /\ b.origin # w

Renamed(turns, F(_)) ==
  [i \in 1 .. Len(turns) |->
    [turns[i] EXCEPT !.blocks = [j \in 1 .. Len(@) |->
       IF @[j].k = "use" THEN [@[j] EXCEPT !.name = F(@)] ELSE @[j]]]]

-----------------------------------------------------------------------------
(* Answers.  A completion is a list of blocks and a reason to stop.        *)

Reason == {"EndTurn", "MaxTokens", "ToolUse", "Refusal", "StopSequence", "Unrecognised"}

(* What each wire calls the reasons, as its parse_stop_reason reads it.    *)
parse_stop_anthropic(word) ==
  CASE word = "end_turn" -> "EndTurn" [] word = "max_tokens" -> "MaxTokens"
    [] word = "tool_use" -> "ToolUse" [] word = "refusal" -> "Refusal"
    [] word = "stop_sequence" -> "StopSequence" [] OTHER -> "Unrecognised"

parse_stop_chat(word) ==
  CASE word = "stop" -> "EndTurn" [] word = "length" -> "MaxTokens"
    [] word = "tool_calls" -> "ToolUse" [] word = "content_filter" -> "Refusal"
    [] OTHER -> "Unrecognised"

parse_stop_responses(word, calls) ==
  IF calls THEN "ToolUse"
  ELSE CASE word = "completed" -> "EndTurn" [] word = "max_output_tokens" -> "MaxTokens"
         [] word = "content_filter" -> "Refusal" [] OTHER -> "Unrecognised"

(* And as its emit_stop_reason writes it; "null" is no reason given.       *)
emit_stop_anthropic(reason) ==
  CASE reason = "EndTurn" -> "end_turn" [] reason = "MaxTokens" -> "max_tokens"
    [] reason = "ToolUse" -> "tool_use" [] reason = "Refusal" -> "refusal"
    [] reason = "StopSequence" -> "stop_sequence" [] OTHER -> "null"

emit_stop_chat(reason) ==
  CASE reason \in {"EndTurn", "StopSequence"} -> "stop" [] reason = "MaxTokens" -> "length"
    [] reason = "ToolUse" -> "tool_calls" [] reason = "Refusal" -> "content_filter"
    [] OTHER -> "null"

emit_stop_responses(reason) ==
  CASE reason \in {"EndTurn", "ToolUse", "StopSequence"} -> "completed"
    [] reason = "MaxTokens" -> "max_output_tokens"
    [] reason = "Refusal" -> "content_filter" [] OTHER -> "in_progress"

emit_stop_reason(w, reason) ==
  CASE w = Anthropic -> emit_stop_anthropic(reason)
    [] w = Chat -> emit_stop_chat(reason)
    [] w = Responses -> emit_stop_responses(reason)

(* An answer that came as one body: its blocks, and what crosses of them.  *)
parse_completion(w, blocks) == ReadAll(blocks, w)

emit_completion(w, m, blocks) ==
  LET out == Spell(blocks, w)
  IN  [i \in 1 .. Len(out) |->
        IF out[i].k = "use" THEN [out[i] EXCEPT !.name = restore_item(m, @)] ELSE out[i]]

-----------------------------------------------------------------------------
(* RequestPeek: the last message replays tool results.                     *)
mid_tool_loop(w, messages) ==
  /\ messages # <<>>
  /\ LET m == Last(messages)
     IN  CASE w = Anthropic -> m.role = "user" /\ \E i \in 1 .. Len(m.parts) : m.parts[i].k = "result"
           [] w = Chat -> m.role = "tool"
           [] w = Responses -> m.k = "result"
=============================================================================
