------------------------------- MODULE Stream -------------------------------
(***************************************************************************)
(* ironwire_proxy::resilience::guard: the event stream of one reply, from  *)
(* an upstream that may go quiet, fail, close early or be started over, to *)
(* a client that is told the truth about it.                               *)
(*                                                                         *)
(* A frame is known by the try that produced it, its place in that try and *)
(* what it is to the guard.  A chunk is any number of frames, and may end  *)
(* in a piece of the next one.  Keepalives carry nothing and leave no      *)
(* trace in `sent`.  The client stays until the end; the reconnect is one  *)
(* step here, and a whole request in Dispatch.                             *)
(***************************************************************************)
EXTENDS Naturals, Sequences

CONSTANTS
    Envelopes,      \* frames before content: 1 on Anthropic, 2 on Responses
    MayQuote,       \* whether text may contain the name of a terminal event
    MaxFrames,      \* bound: frames in one try
    MaxReconnects,  \* 2
    StallTicks      \* stall_timeout / keepalive

ASSUME StreamAssumption ==
    /\ Envelopes \in Nat
    /\ MayQuote \in BOOLEAN
    /\ MaxFrames \in Nat
    /\ MaxReconnects \in Nat
    /\ StallTicks \in Nat \ {0}

VARIABLES
    told,       \* frames of the current try the upstream has sent in full
    over,       \* the upstream's own terminal frame is among them
    queue,      \* frames of the chunk at hand not yet looked at
    verbatim,   \* the chunk at hand arrived after the commitment
    tail,       \* the try whose unfinished frame is in `buffer`, or 0
    envelope,   \* the frame held back, if any
    committed,
    sawTerminal,
    silence,    \* keepalives since the upstream was last heard
    try,        \* 1 + reconnects
    sent,       \* what the client has, keepalives aside
    end         \* "open", or how the guard ended the stream

upstream == <<told, over>>
stream == <<told, over, queue, verbatim, tail, envelope, committed, sawTerminal,
          silence, try, sent, end>>

\* "quote" is text that names a terminal event, as text about SSE streams does.
Kind  == {"envelope", "ping", "text", "quote", "terminal"}
SseFrame == [try : 1 .. MaxReconnects + 1, place : 0 .. MaxFrames, kind : Kind]

IronWireError == [try |-> 0, place |-> 0, kind |-> "error"]

StreamInit ==
    /\ told = 0 /\ over = FALSE
    /\ queue = <<>> /\ verbatim = FALSE /\ tail = 0
    /\ envelope = <<>>
    /\ committed = FALSE /\ sawTerminal = FALSE
    /\ silence = 0
    /\ try = 1
    /\ sent = <<>>
    /\ end = "open"

IsTerminal(f) == f.kind \in {"terminal", "quote"}

-----------------------------------------------------------------------------
(* The upstream: envelopes, then text, then a terminal frame (an error frame
   may come at once), heartbeats anywhere. *)

MaySay(kind) ==
    /\ ~over
    /\ CASE kind = "ping"     -> TRUE
         [] kind = "envelope" -> told < Envelopes
         [] kind = "terminal" -> told < MaxFrames
         [] kind = "text"     -> told >= Envelopes /\ told + 1 < MaxFrames
         [] kind = "quote"    -> told >= Envelopes /\ told + 1 < MaxFrames /\ MayQuote

Utters(kind) ==
    /\ MaySay(kind)
    /\ told' = IF kind = "ping" THEN told ELSE told + 1
    /\ over' = (kind = "terminal")

Waiting == end = "open" /\ queue = <<>>

\* Bytes left over from another try swallow the frame they run into.
Landed(kind) ==
    IF tail \in {0, try} THEN [try |-> try, place |-> told', kind |-> kind]
    ELSE [try |-> tail, place |-> told', kind |-> "text"]

\* The first frame of a chunk.
Receive(kind) ==
    /\ Waiting
    /\ Utters(kind)
    /\ queue' = <<Landed(kind)>>
    /\ verbatim' = committed
    /\ tail' = 0
    /\ silence' = 0
    /\ UNCHANGED <<envelope, committed, sawTerminal, try, sent, end>>

\* Another frame of the same chunk.
Extend(kind) ==
    /\ Len(queue) = 1
    /\ Utters(kind)
    /\ queue' = Append(queue, Landed(kind))
    /\ UNCHANGED <<verbatim, tail, envelope, committed, sawTerminal, silence, try, sent, end>>

\* A chunk, or what is left of one, that ends inside a frame.
Fragment ==
    /\ Waiting
    /\ ~over
    /\ tail' = try
    /\ silence' = 0
    /\ UNCHANGED <<upstream, queue, verbatim, envelope, committed, sawTerminal, try, sent, end>>

-----------------------------------------------------------------------------
(* The guard, frame by frame *)

Looks(f) == end = "open" /\ queue # <<>> /\ f = Head(queue) /\ queue' = Tail(queue)

Shown(f) == IF f.kind = "ping" THEN <<>> ELSE <<f>>

\* Past the point of no return every frame goes through as it is.
PassOn(f) ==
    /\ Looks(f)
    /\ verbatim
    /\ sawTerminal' = (sawTerminal \/ IsTerminal(f))
    /\ sent' = sent \o Shown(f)
    /\ UNCHANGED <<upstream, verbatim, tail, envelope, committed, silence, try, end>>

Heartbeat(f) ==
    /\ Looks(f)
    /\ ~verbatim /\ f.kind = "ping"
    /\ UNCHANGED <<upstream, verbatim, tail, envelope, committed, sawTerminal, silence,
                   try, sent, end>>

Hold(f) ==
    /\ Looks(f)
    /\ ~verbatim /\ f.kind = "envelope"
    /\ envelope' = <<f>>
    /\ UNCHANGED <<upstream, verbatim, tail, committed, sawTerminal, silence, try, sent, end>>

\* Mutant: content goes out without the envelope it belongs to.
CommitBare(f) ==
    /\ Looks(f)
    /\ ~verbatim /\ f.kind \notin {"ping", "envelope"}
    /\ committed' = TRUE
    /\ envelope' = <<>>
    /\ sawTerminal' = (sawTerminal \/ IsTerminal(f))
    /\ sent' = sent \o <<f>>
    /\ UNCHANGED <<upstream, verbatim, tail, silence, try, end>>

Commit(f) ==
    /\ Looks(f)
    /\ ~verbatim /\ f.kind \notin {"ping", "envelope"}
    /\ committed' = TRUE
    /\ envelope' = <<>>
    /\ sawTerminal' = (sawTerminal \/ IsTerminal(f))
    /\ sent' = sent \o envelope \o <<f>>
    /\ UNCHANGED <<upstream, verbatim, tail, silence, try, end>>

Fail(how) ==
    /\ end' = how
    /\ sent' = Append(sent, IronWireError)
    /\ UNCHANGED <<upstream, queue, verbatim, tail, envelope, committed, sawTerminal, try>>

\* Mutant: a keepalive counts as hearing from the upstream.
SilentForgets ==
    /\ Waiting
    /\ silence + 1 < StallTicks
    /\ silence' = 0
    /\ UNCHANGED <<upstream, queue, verbatim, tail, envelope, committed, sawTerminal,
                   try, sent, end>>

\* A keepalive interval without a byte.
Silent ==
    /\ Waiting
    /\ silence + 1 < StallTicks
    /\ silence' = silence + 1
    /\ UNCHANGED <<upstream, queue, verbatim, tail, envelope, committed, sawTerminal,
                   try, sent, end>>

Stall ==
    /\ Waiting
    /\ silence + 1 >= StallTicks
    /\ silence' = silence + 1
    /\ Fail("stalled")

\* Mutant: the envelope of a try that died is kept.
RestartHolding ==
    /\ ~committed
    /\ try <= MaxReconnects
    /\ try' = try + 1
    /\ told' = 0 /\ over' = FALSE
    /\ tail' = 0
    /\ silence' = 0
    /\ UNCHANGED <<queue, verbatim, envelope, committed, sawTerminal, sent, end>>

\* Nothing the client holds is of this try: start over, from nothing.
Restart ==
    /\ ~committed
    /\ try <= MaxReconnects
    /\ try' = try + 1
    /\ told' = 0 /\ over' = FALSE
    /\ tail' = 0
    /\ envelope' = <<>>
    /\ silence' = 0
    /\ UNCHANGED <<queue, verbatim, committed, sawTerminal, sent, end>>

\* Committed, out of reconnects, or none could be had.
Admit(how) == UNCHANGED silence /\ Fail(how)

\* The upstream fails.
Break == Waiting /\ (Restart \/ Admit("broken"))

Conclude ==
    /\ end' = "finished"
    /\ UNCHANGED <<upstream, queue, verbatim, tail, envelope, committed, sawTerminal,
                   silence, try, sent>>

\* Mutant: any close after content is taken for an end.
CloseQuietly ==
    /\ Waiting
    /\ \/ committed /\ Conclude
       \/ ~committed /\ (Restart \/ Admit("closed"))

\* The upstream closes the stream, having ended the message or not.
Close ==
    /\ Waiting
    /\ \/ sawTerminal /\ Conclude
       \/ ~sawTerminal /\ (Restart \/ Admit("closed"))

Heard(f) == PassOn(f) \/ Heartbeat(f) \/ Hold(f) \/ Commit(f)

Speaks == (\E kind \in Kind : Receive(kind) \/ Extend(kind)) \/ Fragment

Handles == queue # <<>> /\ Heard(Head(queue))

StreamNext == Speaks \/ Handles \/ Silent \/ Stall \/ Break \/ Close

StreamSpec == StreamInit /\ [][StreamNext]_stream

\* The guard is polled: frames at hand are handled and its timer fires.
StreamFairSpec == StreamSpec /\ WF_stream(Handles) /\ WF_stream(Silent \/ Stall)

-----------------------------------------------------------------------------
(* Properties *)

\* The shape of the state.
StreamTypeOK ==
    /\ told \in 0 .. MaxFrames /\ over \in BOOLEAN
    /\ queue \in Seq(SseFrame) /\ verbatim \in BOOLEAN
    /\ tail \in 0 .. MaxReconnects + 1
    /\ envelope \in Seq(SseFrame) /\ Len(envelope) <= 1
    /\ committed \in BOOLEAN /\ sawTerminal \in BOOLEAN
    /\ silence \in 0 .. StallTicks
    /\ try \in 1 .. MaxReconnects + 1
    /\ sent \in Seq(SseFrame \cup {IronWireError})
    /\ end \in {"open", "finished", "stalled", "broken", "closed"}

Upstreams == {i \in DOMAIN sent : sent[i] # IronWireError}

\* "A restart is invisible": however often the upstream died, all the client has
\* is of one try, in its order, with nothing twice.
OneTryInOrder ==
    \A i, j \in Upstreams : i < j =>
        sent[i].try = sent[j].try /\ sent[i].place < sent[j].place

\* "SSE event order, event names and frame boundaries are preserved exactly"
\* (docs/PROTOCOL.md section 9): once content has gone out, nothing the upstream
\* sent has been kept from the client.
NothingIsWithheld ==
    committed /\ queue = <<>> =>
        \A p \in 1 .. told : \E i \in Upstreams : sent[i].place = p /\ sent[i].try = try

\* "Ending a dead stream honestly" (docs/PROTOCOL.md section 5): the last thing
\* the client reads is the upstream's terminal event or ours.
EndsHonestly ==
    end # "open" => sent # <<>> /\ sent[Len(sent)].kind \in {"terminal", "error"}

\* "We give up too": an upstream never heard from again does not hold the client.
GivesUpOnSilence == <>[][~Speaks]_stream => <>(end # "open")
=============================================================================
