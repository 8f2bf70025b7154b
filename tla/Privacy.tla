------------------------------ MODULE Privacy ------------------------------
(***************************************************************************)
(* The privacy filter: what one request has substituted, and how the       *)
(* answer to it gets its real values back.                                 *)
(*                                                                         *)
(* A request's text is replaced value by value with placeholders minted    *)
(* from the salt of its conversation.  The salts are kept in memory, in    *)
(* order of arrival and at most MaxSalts of them; the map of one request   *)
(* belongs to that request alone.  The answer arrives in chunks the        *)
(* network cut anywhere, in the middle of a character too.                 *)
(*                                                                         *)
(* Text is a sequence of symbols, each as small as the reverser tells      *)
(* apart: a placeholder is its opening bracket, its class, the first four  *)
(* digits of its digest (the evidence of a mangled placeholder), the other *)
(* digits and its closing bracket.  The bracket is two bytes here.         *)
(***************************************************************************)
EXTENDS Integers, Sequences, SequencesExt, FiniteSets

CONSTANTS
  Values,      \* where a request's text holds a value: its first and last place
  Convs,       \* conversation keys
  MaxSalts,    \* MAX_SALTS
  Speech,      \* the kinds of things a model says, see Say
  MaxItems,    \* bound: things said in one answer
  MaxChunk,    \* bound: bytes of one network chunk
  MaxMinted    \* bound: salts ever minted

ASSUME PrivacyAssumption ==
  /\ Values \subseteq {s \in Nat \X Nat : s[1] <= s[2]}
  /\ MaxSalts \in Nat \ {0}
  /\ Speech \subseteq {"text", "token", "stale", "invented", "cut", "open", "split", "bad"}
  /\ {MaxItems, MaxChunk, MaxMinted} \subseteq Nat

VARIABLES
  salts,    \* the salt of each conversation, 0 where there is none
  order,    \* the conversations with a salt, oldest first
  minted,   \* how many salts have been minted
  found,    \* what the detector found in the request's text
  conv,     \* the conversation of the exchange in flight
  map,      \* the placeholders its request minted
  said,     \* what the model says, item by item
  wire,     \* the bytes of it still to arrive
  carry,    \* bytes that end inside a character
  pending,  \* symbols the reverser cannot classify yet
  sent,     \* the bytes forwarded to the client
  phase     \* "idle", "flowing", "ended" or "failed"

vars == <<salts, order, minted, found, conv, map, said, wire, carry, pending, sent, phase>>

-----------------------------------------------------------------------------
(* Symbols and placeholders.  A placeholder is the salt and the value it   *)
(* was minted from: the digest is taken to be collision free.              *)

Token == (1 .. MaxMinted) \X Values
Open == <<"open">>
Close == <<"close">>
Class == <<"class">>
Text == <<"text">>
Envelope == <<"envelope">>   \* the JSON between the texts of two events
Bad == <<"bad">>             \* a byte no character contains
Digest(t) == <<"digest", t>>
Rest(t) == <<"rest", t>>
Plain(v) == <<"plain", v>>

Symbol == {Open, Close, Class, Text, Envelope, Bad} \cup {Digest(t) : t \in Token}
            \cup {Rest(t) : t \in Token} \cup {Plain(v) : v \in Values}

placeholder(t) == <<Open, Class, Digest(t), Rest(t), Close>>
max_placeholder_len == 5
Evidence == 3   \* symbols of a placeholder that show it is one of ours

Weight(s) == FoldLeft(LAMBDA n, x : n + (IF x = Envelope THEN max_placeholder_len ELSE 1), 0, s)

First(x, s) == CHOOSE i \in 1 .. Len(s) : s[i] = x /\ \A j \in 1 .. (i - 1) : s[j] # x

-----------------------------------------------------------------------------
(* The bytes of a text.  OpenA and OpenB are the halves of a bracket.      *)

OpenA == <<"openA">>
OpenB == <<"openB">>

Bytes(text) == FlattenSeq([i \in 1 .. Len(text) |->
                 IF text[i] = Open THEN <<OpenA, OpenB>> ELSE <<text[i]>>])

(* str::from_utf8 of the bytes carried: the text before the first fault,   *)
(* and whether the fault is a character cut short or no character at all.  *)
Split(bytes) == bytes # <<>> /\ Last(bytes) = OpenA
Invalid(bytes) == \E i \in 1 .. Len(bytes) :
                    bytes[i] = Bad \/ (bytes[i] = OpenB /\ (i = 1 \/ bytes[i - 1] # OpenA))

Chars(bytes) == FoldLeft(LAMBDA text, b : IF b = OpenA THEN text
                                          ELSE Append(text, IF b = OpenB THEN Open ELSE b),
                         <<>>, bytes)

-----------------------------------------------------------------------------
(* The reverser.                                                           *)

Fragment(p) == SubSeq(p, First(Open, p), Len(p))

(* Mutant: a character cut off at the end of a placeholder is let through. *)
NothingDangles(m, p) == FALSE

(* The stream ended in the middle of a placeholder we minted.              *)
dangling(m, p) == /\ Contains(p, Open)
                  /\ \E t \in m : IsPrefix(Fragment(p), placeholder(t))

(* One of our placeholders, altered after enough of its digest.            *)
mangled(m, p) ==
  /\ Contains(p, Open)
  /\ \E t \in m : /\ IsPrefix(SubSeq(placeholder(t), 1, Evidence), Fragment(p))
                  /\ ~IsPrefix(placeholder(t), Fragment(p))

(* As many symbols as fit in the bound.                                    *)
Fitting(p) == CHOOSE k \in 0 .. Len(p) :
                /\ Weight(SubSeq(p, 1, k)) <= max_placeholder_len
                /\ k = Len(p) \/ Weight(SubSeq(p, 1, k + 1)) > max_placeholder_len

Unplaced(m, candidate) ==
  IF \E t \in m : placeholder(t) = candidate
  THEN <<Plain((CHOOSE t \in m : placeholder(t) = candidate)[2])>>
  ELSE candidate

(* Emit everything that can be classified; hold the rest.                  *)
drain(m, text, final) ==
  LET Drain[p \in Seq(Symbol)] ==
        IF ~Contains(p, Open)
        THEN LET safe == IF final THEN Len(p) ELSE IF p = <<>> THEN 0 ELSE Len(p) - 1
             IN  [out |-> SubSeq(p, 1, safe), rest |-> SubSeq(p, safe + 1, Len(p))]
        ELSE LET q == Fragment(p)
                 before == SubSeq(p, 1, First(Open, p) - 1)
                 Go(done, shown) ==
                   LET next == Drain[SubSeq(q, done + 1, Len(q))]
                   IN  [out |-> before \o shown \o next.out, rest |-> next.rest]
             IN  IF Contains(q, Close)
                 THEN Go(First(Close, q), Unplaced(m, SubSeq(q, 1, First(Close, q))))
                 ELSE IF Weight(q) > max_placeholder_len /\ ~mangled(m, q)
                 THEN Go(Fitting(q), SubSeq(q, 1, Fitting(q)))
                 ELSE [out |-> before, rest |-> q]
  IN  Drain[text]

-----------------------------------------------------------------------------
(* What of the findings is replaced.                                       *)

Overlap(a, b) == a[1] <= b[2] /\ b[1] <= a[2]

(* Keep the first, and of those at one place the longest.                  *)
resolve_overlaps(spans) ==
  FoldLeft(LAMBDA out, s : IF out # <<>> /\ Overlap(Last(out), s) THEN out ELSE Append(out, s),
           <<>>, SetToSortSeq(spans, LAMBDA a, b : a[1] < b[1] \/ (a[1] = b[1] /\ a[2] > b[2])))

(* The spans substituted: none inside a code fence, none of a tool result. *)
Replaced(spans) == ToSet(resolve_overlaps(spans))

-----------------------------------------------------------------------------
(* Salts.                                                                  *)

(* Mint a salt on first sight; the oldest goes when there are too many.    *)
salt_for(c) ==
  IF salts[c] # 0 THEN UNCHANGED <<salts, order, minted>>
  ELSE /\ minted < MaxMinted
       /\ minted' = minted + 1
       /\ LET queue == Append(order, c)
              kept == SubSeq(queue, 1 + (IF Len(queue) > MaxSalts THEN 1 ELSE 0), Len(queue))
          IN  /\ order' = kept
              /\ salts' = [d \in Convs |-> IF ~Contains(kept, d) THEN 0
                                           ELSE IF d = c THEN minted + 1 ELSE salts[d]]

(* The placeholders one request minted.                                    *)
Minted(c, spans) == {<<salts'[c], v>> : v \in Replaced(spans)}

(* What a model can say with the request's text before it.  A placeholder  *)
(* of a salt the request does not use is a stale one; a cut one is a       *)
(* placeholder a paraphrase dropped the end of; a split one goes out in    *)
(* two events of the stream.                                               *)
Say(m) ==
  [text |-> {<<Text>>, [i \in 1 .. max_placeholder_len |-> Text]},
   token |-> {placeholder(t) : t \in m},
   stale |-> {placeholder(t) : t \in {u \in (1 .. minted) \X Values : u \notin m}},
   invented |-> {<<Open, Text, Close>>},
   cut |-> {SubSeq(placeholder(t), 1, k) : t \in m, k \in 1 .. 4},
   open |-> {<<Open>>},
   split |-> {SubSeq(placeholder(t), 1, k) \o <<Envelope>> \o SubSeq(placeholder(t), k + 1, 5)
                : t \in m, k \in 1 .. 4},
   bad |-> {<<Bad>>}]

Loose == {"cut", "open"}
Item(m) == UNION {{[kind |-> k, text |-> s] : s \in Say(m)[k]} : k \in Speech}

(* A bracket left open is followed by text only, and a byte of no          *)
(* character stands in an answer without placeholders.                     *)
Answers(m) ==
  {a \in BoundedSeq(Item(m), MaxItems) :
     /\ \A i \in 1 .. Len(a) : a[i].kind \in Loose =>
          \A j \in (i + 1) .. Len(a) : a[j].kind = "text"
     /\ (\E i \in 1 .. Len(a) : a[i].kind = "bad") => \A i \in 1 .. Len(a) : a[i].kind \in {"bad", "text"}}

Spoken(a) == FlattenSeq([i \in 1 .. Len(a) |-> a[i].text])

-----------------------------------------------------------------------------
Init ==
  /\ salts = [c \in Convs |-> 0] /\ order = <<>> /\ minted = 0
  /\ found = {} /\ conv \in Convs /\ map = {} /\ said = <<>> /\ wire = <<>>
  /\ carry = <<>> /\ pending = <<>> /\ sent = <<>>
  /\ phase = "idle"

stream == <<found, conv, map, said, wire, carry, pending, sent, phase>>

(* PrivacyFilter::apply, then the answer of a model to what it was sent.   *)
Turn(c, spans) ==
  /\ phase = "idle"
  /\ salt_for(c)
  /\ conv' = c
  /\ found' = spans
  /\ map' = Minted(c, spans)
  /\ said' \in Answers(map')
  /\ wire' = Bytes(Spoken(said'))
  /\ phase' = "flowing"
  /\ UNCHANGED <<carry, pending, sent>>

(* A request of another conversation, while this answer flows.             *)
Meanwhile(c) == phase = "flowing" /\ c # conv /\ salts[c] = 0 /\ salt_for(c) /\ UNCHANGED stream

(* A change of the privacy mode installs a filter with no salts.           *)
Replace == /\ \E c \in Convs : salts[c] # 0
           /\ salts' = [c \in Convs |-> 0] /\ order' = <<>>
           /\ UNCHANGED minted /\ UNCHANGED stream

(* One chunk of the answer, through reverse_stream.                        *)
Chunk(n) ==
  /\ phase = "flowing" /\ n <= Len(wire)
  /\ wire' = SubSeq(wire, n + 1, Len(wire))
  /\ LET bytes == carry \o SubSeq(wire, 1, n)
     IN  IF Invalid(bytes)
         THEN /\ sent' = sent \o bytes /\ carry' = <<>>
              /\ UNCHANGED pending
         ELSE LET r == drain(map, pending \o Chars(bytes), FALSE)
              IN  /\ sent' = sent \o Bytes(r.out)
                  /\ pending' = r.rest
                  /\ carry' = IF Split(bytes) THEN <<OpenA>> ELSE <<>>
  /\ UNCHANGED <<salts, order, minted, found, conv, map, said, phase>>

(* The answer is over: what is held is forwarded, or the exchange fails.   *)
Finish ==
  /\ phase = "flowing" /\ wire = <<>>
  /\ LET r == drain(map, pending, TRUE)
     IN  IF dangling(map, r.rest) \/ mangled(map, r.rest)
         THEN phase' = "failed" /\ UNCHANGED <<sent, carry>>
         ELSE /\ phase' = "ended"
              /\ sent' = sent \o Bytes(r.out \o r.rest) \o carry
              /\ carry' = <<>>
  /\ pending' = <<>>
  /\ UNCHANGED <<salts, order, minted, found, conv, map, said, wire>>

(* The upstream breaks: its error is forwarded and nothing after it.       *)
Break ==
  /\ phase = "flowing" /\ wire # <<>>
  /\ phase' = "failed" /\ wire' = <<>> /\ carry' = <<>> /\ pending' = <<>>
  /\ UNCHANGED <<salts, order, minted, found, conv, map, said, sent>>

(* The exchange is dropped, and its map with it.                           *)
Drop ==
  /\ phase \in {"ended", "failed"}
  /\ phase' = "idle" /\ found' = {} /\ map' = {} /\ said' = <<>> /\ sent' = <<>>
  /\ UNCHANGED <<salts, order, minted, conv, wire, carry, pending>>

Next ==
  \/ \E c \in Convs, spans \in SUBSET Values : Turn(c, spans)
  \/ \E c \in Convs : Meanwhile(c)
  \/ Replace
  \/ \E n \in 1 .. MaxChunk : Chunk(n)
  \/ Finish
  \/ Break
  \/ Drop

Spec == Init /\ [][Next]_vars

-----------------------------------------------------------------------------
(* What the client should read: each placeholder of this request as its    *)
(* value, everything else as the model said it.                            *)
Meant == FlattenSeq([i \in 1 .. Len(said) |->
           IF said[i].kind = "token"
           THEN <<Plain((CHOOSE t \in map : placeholder(t) = said[i].text)[2])>>
           ELSE said[i].text])

(* A bracket and a class alone may open any placeholder; with four digits  *)
(* of one of ours behind them the answer holds one that was cut.           *)
HoldsACutOne == \E i \in 1 .. Len(said) : said[i].kind = "cut" /\
                  (Len(said[i].text) >= Evidence \/ i = Len(said))
EndsOpen == said # <<>> /\ Last(said).kind = "open" /\ map # {}

(* An answer is forwarded as it was meant, whichever way the network cut   *)
(* it and whatever happened to the salts meanwhile; and it fails only when *)
(* a placeholder of this request was cut, or it broke upstream             *)
(* (reverse.rs, rules 1 and 2; reverse_stream).  Not so after a byte of no *)
(* character, which overtakes the text held before it.                     *)
RestoredOrFailed ==
  Spoken(said) # <<>> /\ ~Contains(Spoken(said), Bad) =>
  /\ phase = "ended" => sent = Bytes(Meant) /\ ~HoldsACutOne /\ ~EndsOpen
  /\ (phase = "failed" /\ wire = <<>>) \/ phase = "flowing" => IsPrefix(sent, Bytes(Meant))

(* No digit of a placeholder this request minted reaches the client: the   *)
(* rule of docs/PRIVACY.md section 5, over the events of a stream as well  *)
(* as over its chunks.                                                     *)
NoTokenLeaks == \A t \in map : ~Contains(sent, Digest(t)) /\ ~Contains(sent, Rest(t))
=============================================================================
