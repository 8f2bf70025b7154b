------------------------------- MODULE Reply -------------------------------
(***************************************************************************)
(* A conversation whose turns are answered on foreign wires.  A client of  *)
(* one wire sends its whole history each turn; ironwire_proxy translates   *)
(* it for the backend it chose (pipeline.rs), and translates the answer    *)
(* back, frame by frame or as one body.  The client keeps what it was      *)
(* given, as it was given, runs the tools it was told to run, and replays  *)
(* all of it in the next turn.                                             *)
(*                                                                         *)
(* The upstream's frames are those its wire defines for an answer made of  *)
(* the pieces "think", "text" and "call".  A frame may be lost (it passed  *)
(* MAX_FRAME_BYTES, or was no JSON), and the stream may break off, with or *)
(* without a last frame that is whole but for its boundary.                *)
(***************************************************************************)
EXTENDS Translate

CONSTANTS Replies,     \* the answers a backend may give: sequences of pieces
          Tools,       \* what a Responses client declares, a sequence of names
          Turns,       \* bound: requests of a conversation
          MaxFaults    \* bound: frames lost and streams broken off

(* A tool has a name, and one at least is in no namespace.                 *)
ASSUME ReplyAssumption ==
  /\ Replies \subseteq Seq({"think", "text", "call"})
  /\ Tools \in Seq(Range(Tools))
  /\ \A i \in DOMAIN Tools : Tools[i] # NoName
  /\ \E i \in DOMAIN Tools : ~Namespaced(Tools[i])

VARIABLES
  wire,     \* the client's
  hist,     \* its history, as its wire spells it
  last,     \* the wire of the backend that answered last
  turn,     \* requests so far
  faults,   \* frames lost and streams broken off so far
  phase,    \* "ask", "reply" or "read"
  to,       \* the backend's wire, in this turn
  asked,    \* the request it was sent
  said,     \* its answer: [pieces, max]
  frames,   \* what it has yet to send
  whole,    \* nothing of this answer was lost
  t,        \* the translator
  got       \* the events the client has received

vars == <<wire, hist, last, turn, faults, phase, to, asked, said, frames, whole, t, got>>
answer == <<to, asked, said, frames, whole, t, got>>

-----------------------------------------------------------------------------
(* The backend's side.                                                     *)

Declared(w) == IF w = Responses THEN Tools ELSE Those(Tools, {i \in DOMAIN Tools : ~Namespaced(Tools[i])})

(* The names IronWire gives the tools in this turn: NamespaceMap::flatten. *)
Names(w, target, h) ==
  IF w # Responses \/ target # Chat THEN [x \in {} |-> x]
  ELSE LET called == {h[i].name : i \in {j \in 1 .. Len(h) : h[j].k = "use"}}
       IN  flatten(Tools, {x \in Range(Tools) \cup called : ~Namespaced(x)})

(* A call's number among the calls of its answer, from 0.                  *)
Rank(pieces, i) == Cardinality({j \in 1 .. (i - 1) : pieces[j] = "call"})

(* Ids are the provider's business; two may differ in nothing but the      *)
(* prefix IronWire uses, except where that is not a legal id.              *)
Minted(target, n, pieces, i) ==
  IF target = Anthropic THEN [pre |-> 0, base |-> <<n, Rank(pieces, i)>>]
  ELSE [pre |-> Rank(pieces, i), base |-> <<n, 0>>]

ToolOf(w, m, pieces, i) ==
  Flat(m, Declared(w)[(Rank(pieces, i) % Len(Declared(w))) + 1])

(* What each wire's parser is sent for the piece at i: `at` counts all     *)
(* blocks, or the calls.  An answer cut short at its token limit ends in   *)
(* half a call.                                                            *)
Framed(w, target, m, n, pieces, i, k) ==
  [k |-> k, at |-> IF target = Chat THEN Rank(pieces, i) ELSE i - 1, kind |-> pieces[i], t |-> i,
   id |-> Minted(target, n, pieces, i), name |-> ToolOf(w, m, pieces, i)]

PieceFrames(w, target, m, n, r, i) ==
  LET kind == r.pieces[i]
      half == r.max /\ i = Len(r.pieces) /\ kind = "call"
      F(k) == Framed(w, target, m, n, r.pieces, i, k)
      args == [j \in 1 .. (IF half THEN Parts - 1 ELSE Parts) |-> F("args")]
      body == IF kind = "call" THEN args ELSE <<F(kind)>>
  IN  CASE target = Anthropic -> <<F("open")>> \o body \o <<F("shut")>>
        [] target = Chat -> (IF kind = "call" THEN <<F("open")>> ELSE <<>>) \o body
        [] target = Responses ->
             <<F("open")>> \o body
               \o (IF half THEN <<>> ELSE IF kind = "call" THEN <<F("all"), F("shut")>> ELSE <<F("shut")>>)

(* All it is sent for an answer.                                           *)
Frames(w, target, m, n, r) ==
  LET calls == Contains(r.pieces, "call")
      word == CASE target = Anthropic -> IF r.max THEN "max_tokens" ELSE IF calls THEN "tool_use" ELSE "end_turn"
                [] target = Chat -> IF r.max THEN "length" ELSE IF calls THEN "tool_calls" ELSE "stop"
                [] target = Responses -> IF r.max THEN "max_output_tokens" ELSE "completed"
      Bare(k) == [k |-> k, at |-> 0, kind |-> "", word |-> word]
      tail == CASE target = Anthropic -> <<Bare("word"), Bare("end")>>
                [] target = Chat -> <<Bare("word"), Bare("usage"), Bare("done")>>
                [] target = Responses -> <<Bare("word")>>
  IN  <<Bare("start")>> \o FlattenSeq([i \in 1 .. Len(r.pieces) |-> PieceFrames(w, target, m, n, r, i)]) \o tail

(* An answer in one body, its ids as the provider minted them; chat has no *)
(* order between the text and the calls of a message.                      *)
Blocks(w, target, m, n, pieces) ==
  LET all == [i \in 1 .. Len(pieces) |->
               CASE pieces[i] = "think" -> Thought(target)
                 [] pieces[i] = "text" -> TextBlock(i)
                 [] pieces[i] = "call" -> Use(Minted(target, n, pieces, i), ToolOf(w, m, pieces, i))]
  IN  IF target = Chat THEN Those(all, {i \in DOMAIN all : all[i].k # "use"}) \o Only(all, {"use"}) ELSE all

-----------------------------------------------------------------------------
(* The client's side.                                                      *)

UserSays(w, doc) ==
  LET parts == <<TextBlock(0)>> \o IF doc THEN <<Unknown(w)>> ELSE <<>>
  IN  IF w = Chat THEN <<[role |-> "user", parts |-> parts, calls |-> <<>>]>>
      ELSE IF w = Anthropic THEN <<[role |-> "user", parts |-> parts]>>
      ELSE <<[k |-> "message", role |-> "user", parts |-> parts]>>

(* What it keeps of an answer, in the order it was given.                  *)
Keeps(w, blocks) ==
  CASE blocks = <<>> -> <<>>
    [] blocks # <<>> /\ w = Anthropic -> <<[role |-> "assistant", parts |-> blocks]>>
    [] blocks # <<>> /\ w = Chat -> <<[role |-> "assistant", parts |-> Only(blocks, {"text"}),
                                       calls |-> Only(blocks, {"use"})]>>
    [] blocks # <<>> /\ w = Responses ->
         [i \in 1 .. Len(blocks) |->
           IF blocks[i].k = "text" THEN [k |-> "message", role |-> "assistant", parts |-> <<blocks[i]>>]
           ELSE blocks[i]]

Results(w, calls) ==
  LET results == [i \in 1 .. Len(calls) |-> Result(calls[i].id)]
  IN  CASE calls = <<>> -> <<>>
        [] calls # <<>> /\ w = Anthropic ->   \* with a reminder from the agent
             <<[role |-> "user", parts |-> Append(results, TextBlock(0))]>>
        [] calls # <<>> /\ w = Chat -> [i \in 1 .. Len(calls) |-> [role |-> "tool", id |-> calls[i].id]]
        [] calls # <<>> /\ w = Responses -> results

(* It runs the calls it was told to, and speaks to the user otherwise.     *)
Continued(w, blocks, runs, doc) ==
  LET kept == IF runs THEN blocks ELSE Only(blocks, {"text", "reasoning"})
      results == Results(w, Only(kept, {"use"}))
  IN  Keeps(w, kept) \o IF results # <<>> THEN results ELSE UserSays(w, doc)

Came(k) == {i \in 1 .. Len(got) : got[i].k = k}
Word == IF Came("word") = {} THEN None ELSE got[Max(Came("word"))].word
RunsTools == Word \in {"tool_use", "tool_calls"} \/ (wire = Responses /\ Came("word") # {})
Given == LET es == Only(got, {"text", "call"})
         IN  [i \in 1 .. Len(es) |-> IF es[i].k = "text" THEN TextBlock(es[i].t) ELSE Use(es[i].id, es[i].name)]

-----------------------------------------------------------------------------
Nothing == /\ to = None /\ asked = <<>> /\ said = [pieces |-> <<>>, max |-> FALSE] /\ frames = <<>>
           /\ whole = TRUE /\ t = Translator(None, None, [x \in {} |-> x]) /\ got = <<>>

Init ==
  /\ wire \in Wire
  /\ \E doc \in BOOLEAN : hist = UserSays(wire, doc)
  /\ last = None /\ turn = 0 /\ faults = 0 /\ phase = "ask"
  /\ Nothing

(* A tool loop stays with the backend it is on, as routing promises.       *)
Next_(target) == /\ phase = "ask" /\ turn < Turns
                 /\ mid_tool_loop(wire, hist) => target = last

Read_(blocks, runs) == \E doc \in BOOLEAN : hist' = hist \o Continued(wire, blocks, runs, doc)

(* A backend on the client's own wire: its bytes pass as they are.         *)
Native ==
  /\ Next_(wire)
  /\ \E pieces \in Replies :
       Read_(Blocks(wire, wire, [x \in {} |-> x], turn, pieces), TRUE)
  /\ last' = wire /\ turn' = turn + 1
  /\ UNCHANGED <<wire, faults, phase, answer>>

(* Namespaces have an expression on chat alone, and content of an unknown  *)
(* type on none but its own: such a request is not sent.                   *)
translate_request(target, h) ==
  /\ (target = Anthropic /\ wire = Responses) => \A i \in 1 .. Len(Tools) : ~Namespaced(Tools[i])
  /\ ~Untranslatable(target, parse_request(wire, h))
  /\ asked' = emit_request(target, Renamed(parse_request(wire, h), LAMBDA x : Flat(Names(wire, target, h), x)))

(* A streaming request: translated_stream takes over.                      *)
Ask(target) ==
  /\ target # wire /\ Next_(target)
  /\ translate_request(target, hist)
  /\ \E pieces \in Replies, max \in BOOLEAN :
       LET m == Names(wire, target, hist)
           r == [pieces |-> pieces, max |-> max]
       IN  /\ said' = r
           /\ frames' = Frames(wire, target, m, turn, r)
           /\ t' = Translator(target, wire, m)
  /\ to' = target /\ got' = <<>> /\ whole' = TRUE /\ phase' = "reply"
  /\ last' = target /\ turn' = turn + 1
  /\ UNCHANGED <<wire, hist, faults>>

(* A request for one body: translated_body.  A body that broke off is no   *)
(* JSON, and is translated as an empty answer.                             *)
AskWhole(target) ==
  /\ target # wire /\ Next_(target)
  /\ translate_request(target, hist)
  /\ \E pieces \in Replies, broke \in BOOLEAN :
       LET m == Names(wire, target, hist)
           body == IF broke THEN <<>> ELSE Blocks(wire, target, m, turn, pieces)
           spelled == emit_completion(wire, m, parse_completion(target, body))
       IN  /\ broke => faults < MaxFaults
           /\ faults' = IF broke THEN faults + 1 ELSE faults
           /\ Read_(spelled, Contains(pieces, "call"))
  /\ to' = None /\ phase' = "ask" /\ last' = target /\ turn' = turn + 1
  /\ UNCHANGED <<wire, said, frames, whole, t, got>>

Forward(r) == t' = r.t /\ got' = got \o r.out

(* A frame arrives whole.                                                  *)
Frame ==
  /\ phase = "reply" /\ frames # <<>>
  /\ Forward(consume(t, Head(frames)))
  /\ frames' = Tail(frames)
  /\ UNCHANGED <<wire, hist, last, turn, faults, phase, to, asked, said, whole>>

(* A frame too large to keep is dropped up to the next boundary.           *)
Lose ==
  /\ phase = "reply" /\ frames # <<>> /\ faults < MaxFaults
  /\ Head(frames).k \in {"think", "text", "args", "all"}
  /\ frames' = Tail(frames) /\ whole' = FALSE /\ faults' = faults + 1
  /\ UNCHANGED <<wire, hist, last, turn, phase, to, asked, said, t, got>>

(* The upstream's stream ends, in order or with an error: finish, which    *)
(* reads what is left in the buffer as a last frame.                       *)
Finish ==
  /\ phase = "reply" /\ frames = <<>>
  /\ Forward(close(t)) /\ phase' = "read"
  /\ UNCHANGED <<wire, hist, last, turn, faults, to, asked, said, frames, whole>>

Cut ==
  /\ phase = "reply" /\ frames # <<>> /\ faults < MaxFaults
  /\ \E tail \in BOOLEAN :
       LET r == consume(t, Head(frames))
           c == close(r.t)
       IN  IF tail THEN t' = c.t /\ got' = got \o r.out \o c.out ELSE Forward(close(t))
  /\ phase' = "read" /\ frames' = <<>> /\ whole' = FALSE /\ faults' = faults + 1
  /\ UNCHANGED <<wire, hist, last, turn, to, asked, said>>

(* The client reads the answer; one that failed it forgets.                *)
ReadReply ==
  /\ phase = "read"
  /\ IF Came("fail") # {} THEN Read_(<<>>, FALSE) ELSE Read_(Given, RunsTools)
  /\ phase' = "ask" /\ to' = None /\ asked' = <<>> /\ said' = [pieces |-> <<>>, max |-> FALSE]
  /\ frames' = <<>> /\ whole' = TRUE /\ t' = Translator(None, None, [x \in {} |-> x]) /\ got' = <<>>
  /\ UNCHANGED <<wire, last, turn, faults>>

Next == \/ Native
        \/ \E target \in Wire : Ask(target) \/ AskWhole(target)
        \/ Frame \/ Lose \/ Finish \/ Cut \/ ReadReply

Spec == Init /\ [][Next]_vars

-----------------------------------------------------------------------------
(* Properties.                                                             *)

OpenAt(i) == {b \in {got[j].at : j \in 1 .. i} :
                \E j \in 1 .. i : /\ got[j].k = "open" /\ got[j].at = b
                                  /\ \A n \in (j + 1) .. i : ~(got[n].k = "shut" /\ got[n].at = b)}
Terminal == {"end", "fail"}

(* The block the event at i opens is numbered one past the block before    *)
(* it, from 0 up.  One numbering is known not to hold, and is admitted     *)
(* here and nowhere else: on messages, text that follows a call opens      *)
(* block 0 again, and what comes next counts on from there                 *)
(* (ensure_anthropic_text sets index 0 and next_index 1), though the       *)
(* comment at stream.rs:609-612 reckons with "a client tracking blocks by  *)
(* index".                                                                 *)
BlockZeroAgain(i, j) ==
  wire = Anthropic /\ got[j].kind = "call" /\ got[i].kind = "text" /\ got[i].at = 0

Numbered(i) ==
  LET before == {j \in 1 .. (i - 1) : got[j].k = "open"}
  IN  \/ before = {} /\ got[i].at = 0
      \/ \E j \in before : /\ \A h \in before : h <= j
                           /\ got[i].at = got[j].at + 1 \/ BlockZeroAgain(i, j)

(* What the client receives, whatever frames were lost and wherever the    *)
(* upstream broke off: it begins once and first, has one block open at a   *)
(* time, writes into the open block only, and ends once, with nothing      *)
(* after it; its blocks are numbered from 0 up, in order, but for text     *)
(* after a call on messages, which takes the number 0 a second time.       *)
(* (Translator::close, close_anthropic_text, ensure_anthropic_text,        *)
(* finish_responses_text.)                                                 *)
StreamIsWellFormed ==
  LET n == Len(got) IN
  /\ got # <<>> => got[1].k = "begin"
  /\ \A i \in 2 .. n : got[i].k # "begin"
  /\ \A i \in 1 .. n : got[i].k \in Terminal => i = n
  /\ phase = "read" => n > 0 /\ got[n].k \in Terminal
  /\ wire # Chat =>
       \A i \in 1 .. n : /\ Cardinality(OpenAt(i)) <= 1
                         /\ got[i].k \in {"text", "call"} => got[i].at \in OpenAt(i)
                         /\ got[i].k \in {"word", "end"} => OpenAt(i) = {}
                         /\ got[i].k = "open" => Numbered(i)

Calls == {i \in 1 .. Len(said.pieces) : said.pieces[i] = "call"}

(* A call's number among the parser's slots, of all blocks on anthropic:   *)
(* an answer is within the bounds when its last call is.                   *)
Place(i) == IF to = Anthropic THEN i - 1 ELSE Rank(said.pieces, i)
InBounds == /\ \A i \in Calls : Place(i) < MaxCalls
            /\ Cardinality(Calls) * Parts <= MaxBytes

(* Every call of an answer that arrived whole, and fits the bounds, is     *)
(* delivered once, in order, with all its arguments, the name the client   *)
(* declared and an id that is decoded to the provider's own.               *)
CallsReachTheAgent ==
  (phase = "read" /\ whole /\ Came("fail") = {} /\ InBounds) =>
    /\ Cardinality(Came("call")) = Cardinality(Calls)
    /\ \A x \in Came("call"), i \in Calls :
         Cardinality({y \in Came("call") : y < x}) = Rank(said.pieces, i) =>
           /\ got[x].name = ToolOf(wire, [y \in {} |-> y], said.pieces, i)
           /\ got[x].n = Parts \/ (said.max /\ i = Len(said.pieces))
           /\ to # Anthropic =>
                encode(decode(got[x].id, wire), to) = Minted(to, turn - 1, said.pieces, i)
    /\ \A x, y \in Came("call") : got[x].id = got[y].id => x = y

(* A client that was handed a call is told to run it: the reason to stop   *)
(* is the wire's word for a tool call, even when the upstream never said,  *)
(* unless it said that it ran out of tokens.                               *)
WaitsForItsTools ==
  (phase = "read" /\ Came("call") # {} /\ ~said.max /\ Came("fail") = {}) =>
    RunsTools /\ Word # "null"

(* The message at i, with those of its role that follow it directly.       *)
RunsOn(i, j) == \A k \in i .. j : asked[k].role = asked[i].role
IdsOf(parts, kind) == {parts[i].id : i \in {j \in 1 .. Len(parts) : parts[j].k = kind}}

Paired ==
  CASE to = Anthropic ->
         LET Uses(i) == UNION {IdsOf(asked[k].parts, "use") : k \in {j \in 1 .. i : RunsOn(j, i)}}
             Found(i) == UNION {IdsOf(asked[k].parts, "result") : k \in {j \in i .. Len(asked) : RunsOn(i, j)}}
         IN  \A i \in 1 .. Len(asked) :
               /\ IdsOf(asked[i].parts, "result") # {} =>
                    i > 1 /\ asked[i - 1].role = "assistant" /\ IdsOf(asked[i].parts, "result") \subseteq Uses(i - 1)
               /\ asked[i].role = "assistant" /\ Uses(i) # {} =>
                    i < Len(asked) /\ (asked[i + 1].role = "user" => Uses(i) \subseteq Found(i + 1))
    [] to = Chat ->
         \A i \in 1 .. Len(asked) :
           /\ asked[i].role = "tool" =>
                \E j \in 1 .. (i - 1) :
                  /\ asked[j].role = "assistant" /\ asked[i].id \in IdsOf(asked[j].calls, "use")
                  /\ \A k \in (j + 1) .. i : asked[k].role = "tool"
           /\ asked[i].role = "assistant" =>
                \A id \in IdsOf(asked[i].calls, "use") :
                  \E j \in (i + 1) .. Len(asked) : /\ asked[j].role = "tool" /\ asked[j].id = id
                                                   /\ \A k \in (i + 1) .. j : asked[k].role = "tool"
    [] to = Responses ->
         \A i \in 1 .. Len(asked) :
           /\ asked[i].k = "result" => \E j \in 1 .. (i - 1) : asked[j].k = "use" /\ asked[j].id = asked[i].id
           /\ asked[i].k = "use" => \E j \in (i + 1) .. Len(asked) : asked[j].k = "result" /\ asked[j].id = asked[i].id

Amount(turns, kind) ==
  FoldLeft(LAMBDA n, x : n + Len(Only(x.blocks, {kind})), 0, turns)

(* A Responses history where the model spoke between a call and its result.*)
Interrupted ==
  /\ wire = Responses
  /\ \E i, j \in 1 .. Len(hist) : /\ i < j /\ hist[i].k = "use" /\ hist[j].k = "message"
                                  /\ hist[j].role = "assistant"
                                  /\ \A k \in i .. j : hist[k].k # "result"

(* The history a backend is sent stands up: every result answers a call of *)
(* the message before it, every call is answered, and nothing but          *)
(* reasoning was left out.  (emit_turn makes one message of each turn, so  *)
(* an interrupted history has its call and its result apart on chat.)      *)
HistoryStandsUp ==
  (phase = "reply") =>
    /\ (Interrupted /\ to = Chat) \/ Paired
    /\ \A kind \in {"text", "use", "result", "unknown"} :
         Amount(parse_request(to, asked), kind) = Amount(parse_request(wire, hist), kind)
=============================================================================
