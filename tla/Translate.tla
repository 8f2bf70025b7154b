----------------------------- MODULE Translate -----------------------------
(***************************************************************************)
(* The streaming half of ironwire_translate: one wire's event stream is    *)
(* parsed into deltas, and the deltas are written as another wire's        *)
(* events.  A translator is a record, each operation a function of it;     *)
(* Reply drives it frame by frame.                                         *)
(*                                                                         *)
(* A frame of the upstream is [k, at, ...], `at` the index its wire gives  *)
(* the block: of all blocks on anthropic and responses, of the calls on    *)
(* chat.  Of a call's arguments only the number of fragments is kept, and  *)
(* one is as long as a piece of text.                                      *)
(*                                                                         *)
(* Abstracted: usage, log-probabilities, model names, response ids, the    *)
(* JSON of a frame (one that does not parse is lost, as Reply loses one).  *)
(***************************************************************************)
EXTENDS Convert

CONSTANTS MaxCalls,   \* MAX_TOOL_CALLS
          MaxBytes,   \* MAX_TOOL_ARGUMENT_BYTES, of arguments and of text
          Parts       \* fragments in the arguments of a call

ASSUME TranslateAssumption == {MaxCalls, MaxBytes, Parts} \subseteq Nat \ {0}

None == "none"
NoName == [space |-> "", name |-> None]
NoId == [pre |-> 0, base |-> None]

-----------------------------------------------------------------------------
(* ToolCallBuffer, over a parser p.                                        *)

Blank == [id |-> NoId, name |-> NoName, n |-> 0, overflowed |-> FALSE, emitted |-> FALSE]

slot(p, at) ==
  IF at >= MaxCalls \/ at < Len(p.slots) THEN p
  ELSE [p EXCEPT !.slots = @ \o [i \in 1 .. (at + 1 - Len(@)) |-> Blank]]

OnSlot(p, at, F(_)) ==
  IF at >= MaxCalls THEN p
  ELSE LET q == slot(p, at) IN [q EXCEPT !.slots[at + 1] = F(@)]

set_identity(p, at, id, name) ==
  OnSlot(p, at, LAMBDA s : [s EXCEPT !.id = id, !.name = name])

push_arguments(p, at) ==
  IF p.bytes + 1 > MaxBytes THEN OnSlot(p, at, LAMBDA s : [s EXCEPT !.overflowed = TRUE])
  ELSE LET q == OnSlot(p, at, LAMBDA s : [s EXCEPT !.n = @ + 1])
       IN  [q EXCEPT !.bytes = @ + IF at < MaxCalls THEN 1 ELSE 0]

(* A frame that repeats all the arguments fills in for fragments that did  *)
(* not come.                                                               *)
fill_arguments(p, at) ==
  OnSlot(p, at, LAMBDA s : [s EXCEPT !.n = IF @ = 0 THEN Parts ELSE @])

DCall(at, s, source) ==
  [k |-> "call", at |-> at, id |-> decode(s.id, source), name |-> s.name, n |-> s.n]

(* complete and complete_all: each call that is named, once, unless its    *)
(* arguments overflowed.                                                   *)
complete(p, indices) ==
  LET due == {i \in 1 .. Len(p.slots) :
                i - 1 \in indices /\ ~p.slots[i].emitted /\ p.slots[i].name # NoName}
  IN  [p |-> [p EXCEPT !.slots = [i \in 1 .. Len(@) |->
                IF i \in due THEN [@[i] EXCEPT !.emitted = TRUE] ELSE @[i]]],
       out |-> FlattenSeq([i \in 1 .. Len(p.slots) |->
                 IF i \in due /\ ~p.slots[i].overflowed
                 THEN <<DCall(i - 1, p.slots[i], p.source)>> ELSE <<>>])]

every(p) == 0 .. (Len(p.slots) - 1)

-----------------------------------------------------------------------------
(* Parser: frames to deltas.  feed returns [p, out].                       *)

Parser(source) == [source |-> source, started |-> FALSE, stop |-> None,
                   slots |-> <<>>, bytes |-> 0, seen |-> <<>>]

Quiet(p) == [p |-> p, out |-> <<>>]
Says(p, delta) == [p |-> p, out |-> <<delta>>]
start(p) == IF p.started THEN Quiet(p)
            ELSE Says([p EXCEPT !.started = TRUE], [k |-> "start"])
Then(r, s) == [p |-> s.p, out |-> r.out \o s.out]

feed_anthropic(p, f) ==
  CASE f.k = "start" -> start(p)
    [] f.k = "open" -> IF f.kind = "call" THEN Quiet(set_identity(p, f.at, f.id, f.name))
                       ELSE start(p)
    [] f.k \in {"text", "think"} -> Says(p, [k |-> f.k, t |-> f.t])
    [] f.k = "args" -> Quiet(push_arguments(p, f.at))
    [] f.k = "shut" -> complete(p, {f.at})
    [] f.k = "word" -> Quiet([p EXCEPT !.stop = parse_stop_anthropic(f.word)])
    [] OTHER -> Quiet(p)

(* Every chunk with a choice starts the answer; calls are complete once a  *)
(* reason to stop was given.                                               *)
feed_chat(p, f) ==
  LET s == start(p)
      q == IF f.k = "word" THEN [s.p EXCEPT !.stop = parse_stop_chat(f.word)] ELSE s.p
      r == CASE f.k \in {"text", "think"} -> Says(q, [k |-> f.k, t |-> f.t])
             [] f.k = "open" -> Quiet(set_identity(q, f.at, f.id, f.name))
             [] f.k = "args" -> Quiet(push_arguments(q, f.at))
             [] OTHER -> Quiet(q)
  IN  IF f.k = "usage" THEN Quiet(p)
      ELSE Then(s, IF q.stop # None THEN Then(r, complete(r.p, every(r.p))) ELSE r)

(* The calls in the order their output index was first seen.               *)
responses_slot(p, at) ==
  IF Contains(p.seen, at) THEN [p |-> p, at |-> (CHOOSE i \in 1 .. Len(p.seen) : p.seen[i] = at) - 1]
  ELSE [p |-> [p EXCEPT !.seen = Append(@, at)], at |-> Len(p.seen)]

feed_responses(p, f) ==
  LET c == responses_slot(p, f.at)
      Filled(q) == LET g == fill_arguments(q, c.at) IN complete(g, {c.at})
  IN  CASE f.k = "start" -> start(p)
        [] f.k \in {"text", "think"} -> Says(p, [k |-> f.k, t |-> f.t])
        [] f.k = "open" /\ f.kind = "call" -> Quiet(set_identity(c.p, c.at, f.id, f.name))
        [] f.k = "args" -> Quiet(push_arguments(c.p, c.at))
        [] f.k = "all" -> Filled(c.p)
        [] f.k = "shut" /\ f.kind = "call" -> Filled(set_identity(c.p, c.at, f.id, f.name))
        [] f.k = "word" ->
             LET r == complete(p, every(p))
             IN  [r EXCEPT !.p.stop = parse_stop_responses(f.word, p.slots # <<>>)]
        [] OTHER -> Quiet(p)

feed(p, f) == CASE p.source = Anthropic -> feed_anthropic(p, f)
                [] p.source = Chat -> feed_chat(p, f)
                [] p.source = Responses -> feed_responses(p, f)

(* Mutant: a stream that ended without a reason is taken for a finished    *)
(* turn, whatever it asked for.                                            *)
OwedEnded(p) ==
  LET s == start(p)
      r == Then(s, complete(s.p, every(s.p)))
      reason == IF p.stop # None THEN p.stop ELSE "EndTurn"
  IN  Then(r, Says(r.p, [k |-> "stop", reason |-> reason]))

(* Everything owed at the end of the stream: Parser::finish.               *)
Owed(p) ==
  LET s == start(p)
      r == Then(s, complete(s.p, every(s.p)))
      reason == IF p.stop # None THEN p.stop
                ELSE IF p.slots # <<>> THEN "ToolUse" ELSE "EndTurn"
  IN  Then(r, Says(r.p, [k |-> "stop", reason |-> reason]))

-----------------------------------------------------------------------------
(* Emitter: deltas to the client's events.  An event is [k, at, ...]:      *)
(* begin, open, text, call, shut, word, fail and end; chat opens and shuts *)
(* nothing.  write returns [e, out].                                       *)

Emitter(target, names) == [target |-> target, names |-> names, started |-> FALSE, textOpen |-> FALSE,
                           next |-> 0, bytes |-> 0, failed |-> FALSE]

Ev(k, at) == [k |-> k, at |-> at]
Opened(kind, at) == [k |-> "open", at |-> at, kind |-> kind]
EText(at, t) == [k |-> "text", at |-> at, t |-> t]
ECall(at, d, w, name) == [k |-> "call", at |-> at, id |-> encode(d.id, w), name |-> name, n |-> d.n]
EWord(w, reason) == [k |-> "word", at |-> 0, word |-> emit_stop_reason(w, reason)]

(* Mutant: a call opens its block beside the text's.                       *)
LeftOpen(e) == [e |-> e, out |-> <<>>]

(* close_anthropic_text; finish_responses_text, where the text's index is  *)
(* the last one given out.                                                 *)
TextShut(e) ==
  IF ~e.textOpen THEN [e |-> e, out |-> <<>>]
  ELSE [e |-> [e EXCEPT !.textOpen = FALSE],
        out |-> <<Ev("shut", IF e.target = Anthropic THEN 0 ELSE e.next - 1)>>]

write_anthropic(e, d) ==
  CASE d.k = "start" -> IF e.started THEN [e |-> e, out |-> <<>>]
                        ELSE [e |-> [e EXCEPT !.started = TRUE], out |-> <<Ev("begin", 0)>>]
    [] d.k = "text" ->   \* ensure_anthropic_text
         [e |-> IF e.textOpen THEN e ELSE [e EXCEPT !.textOpen = TRUE, !.next = 1],
          out |-> (IF e.textOpen THEN <<>> ELSE <<Opened("text", 0)>>) \o <<EText(0, d.t)>>]
    [] d.k = "think" -> [e |-> e, out |-> <<>>]
    [] d.k = "call" ->   \* arguments that are no object become {}
         LET c == TextShut(e)
         IN  [e |-> [c.e EXCEPT !.next = @ + 1],
              out |-> c.out \o <<Opened("call", e.next),
                                 ECall(e.next, [d EXCEPT !.n = IF @ = Parts THEN @ ELSE 0], Anthropic, d.name),
                                 Ev("shut", e.next)>>]
    [] d.k = "stop" ->
         LET c == TextShut(e) IN [e |-> c.e, out |-> c.out \o <<EWord(Anthropic, d.reason), Ev("end", 0)>>]

write_chat(e, d) ==
  CASE d.k = "start" -> [e |-> [e EXCEPT !.started = TRUE], out |-> <<Ev("begin", 0)>>]
    [] d.k = "text" -> [e |-> e, out |-> <<EText(0, d.t)>>]
    [] d.k = "think" -> [e |-> e, out |-> <<>>]
    [] d.k = "call" -> [e |-> e, out |-> <<ECall(d.at, d, Chat, d.name)>>]
    [] d.k = "stop" -> [e |-> e, out |-> <<EWord(Chat, d.reason), Ev("end", 0)>>]

write_responses(e, d) ==
  CASE e.failed \/ d.k = "think" \/ (d.k = "start" /\ e.started) -> [e |-> e, out |-> <<>>]
    [] ~e.failed /\ d.k = "start" /\ ~e.started ->
         [e |-> [e EXCEPT !.started = TRUE], out |-> <<Ev("begin", 0)>>]
    [] ~e.failed /\ d.k = "text" ->
         IF e.bytes + 1 > MaxBytes
         THEN [e |-> [e EXCEPT !.failed = TRUE], out |-> <<Ev("fail", 0)>>]
         ELSE LET f == IF e.textOpen THEN e ELSE [e EXCEPT !.textOpen = TRUE, !.next = @ + 1]
              IN  [e |-> [f EXCEPT !.bytes = @ + 1],
                   out |-> (IF e.textOpen THEN <<>> ELSE <<Opened("text", e.next)>>)
                             \o <<EText(f.next - 1, d.t)>>]
    [] ~e.failed /\ d.k = "call" ->
         LET c == TextShut(e)
         IN  [e |-> [c.e EXCEPT !.next = @ + 1],
              out |-> c.out \o <<Opened("call", e.next),
                                 ECall(e.next, d, Responses, restore_item(e.names, d.name)),
                                 Ev("shut", e.next)>>]
    [] ~e.failed /\ d.k = "stop" ->
         LET c == TextShut(e) IN [e |-> c.e, out |-> c.out \o <<EWord(Responses, d.reason), Ev("end", 0)>>]

write(e, d) == CASE e.target = Anthropic -> write_anthropic(e, d)
                 [] e.target = Chat -> write_chat(e, d)
                 [] e.target = Responses -> write_responses(e, d)

-----------------------------------------------------------------------------
(* Translator: [p, e, closed].  Each operation returns [t, out].           *)

Translator(source, target, names) ==
  [p |-> Parser(source), e |-> Emitter(target, names), closed |-> FALSE]

(* What the emitter writes of the deltas ds, one after the other.          *)
Writing(e, ds) ==
  LET w[i \in 0 .. Len(ds)] ==
        IF i = 0 THEN [e |-> e, out |-> <<>>]
        ELSE LET x == write(w[i - 1].e, ds[i]) IN [e |-> x.e, out |-> w[i - 1].out \o x.out]
  IN  w[Len(ds)]

Written(t, r) ==
  LET w == Writing(t.e, r.out) IN [t |-> [t EXCEPT !.p = r.p, !.e = w.e], out |-> w.out]

close(t) == IF t.closed THEN [t |-> t, out |-> <<>>]
            ELSE Written([t EXCEPT !.closed = TRUE], Owed(t.p))

(* A frame; one with "[DONE]" closes the stream.                           *)
consume(t, f) == IF f.k = "done" THEN close(t) ELSE Written(t, feed(t.p, f))
=============================================================================
