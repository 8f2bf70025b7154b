---------------------------- MODULE AnswerProofs ----------------------------
(***************************************************************************)
(* What a client is promised of a guarded stream, for any number of        *)
(* restarts, any stall timeout and any length of a try; and of the model   *)
(* its request is given, for any backends, catalogues and requests; and of *)
(* an answer that is translated for it, whatever the backend sends.        *)
(*                                                                         *)
(* The guard remembers only the envelope it holds and whether content has  *)
(* gone out.  What the client has is therefore compared with Done: the     *)
(* frames of the current try that the guard has looked at, which is all    *)
(* the upstream told but for the chunk at hand.                            *)
(***************************************************************************)
EXTENDS Answer, SequenceTheorems, FiniteSetTheorems, NaturalsInduction, WellFoundedInduction, TLAPS

Content == {"text", "quote", "terminal"}
Ends    == {"open", "finished", "stalled", "broken", "closed"}
AnyFrame == [try : Nat, place : Nat, kind : Kind]

\* The frames before the first of the queue, or all of them.
Before(f) == IF f.kind = "ping" THEN f.place ELSE f.place - 1
Done == IF queue = <<>> THEN told ELSE Before(queue[1])

GuardTypeOK ==
    /\ told \in Nat /\ over \in BOOLEAN
    /\ queue \in Seq(AnyFrame) /\ Len(queue) <= 2
    /\ verbatim \in BOOLEAN
    /\ try \in Nat \ {0} /\ tail \in {0, try}
    /\ envelope \in Seq(AnyFrame)
    /\ committed \in BOOLEAN /\ sawTerminal \in BOOLEAN
    /\ sent \in Seq(AnyFrame \cup {IronWireError})
    /\ end \in Ends

\* The chunk at hand: frames of this try, one after the other, the last one the
\* last the upstream told.
InPlace(f) == f.try = try /\ (f.kind # "ping" => f.place >= 1)

ChunkIsLatest ==
    /\ end # "open" => queue = <<>>
    /\ \A i \in 1 .. Len(queue) : InPlace(queue[i])
    /\ queue # <<>> => queue[Len(queue)].place = told
    /\ Len(queue) = 2 => Before(queue[2]) = queue[1].place

\* Envelopes come first and the terminal frame comes last.
InTurn(f) ==
    /\ f.kind = "envelope" => f.place <= Envelopes
    /\ f.kind \in Content => told >= Envelopes \/ over
    /\ f.kind = "terminal" => over
    /\ f.kind = "quote" => MayQuote

ChunkIsOrderly ==
    /\ \A i \in 1 .. Len(queue) : InTurn(queue[i])
    /\ Len(queue) = 2 => queue[1].kind # "terminal"
    /\ Len(queue) = 2 /\ queue[1].kind \in Content => queue[2].kind # "envelope"

\* Before content the client has nothing, and the guard all there was.
NothingSentYet ==
    ~committed =>
        /\ ~verbatim
        /\ end = "open" => sent = <<>>
        /\ \A i \in DOMAIN sent : sent[i] = IronWireError
        /\ Len(envelope) <= 1
        /\ envelope # <<>> =>
               /\ envelope[1].try = try /\ envelope[1].kind = "envelope"
               /\ envelope[1].place >= 1 /\ envelope[1].place <= Done
        /\ Envelopes <= 1 => Done = Len(envelope)

\* After it the client has what was looked at, of this try and in order.
AllSentSince ==
    committed =>
        /\ envelope = <<>>
        /\ told >= Envelopes \/ over
        /\ \A i \in 1 .. Len(queue) : queue[i].kind # "envelope"
        /\ \A i \in Upstreams : sent[i].try = try /\ sent[i].place <= Done
        /\ Envelopes <= 1 => \A p \in 1 .. Done : \E i \in Upstreams : sent[i].place = p

\* A terminal event is the last of everything.
TerminalIsLast ==
    /\ sawTerminal => committed
    /\ sawTerminal /\ ~MayQuote =>
        over /\ queue = <<>> /\ sent # <<>> /\ sent[Len(sent)].kind \in {"terminal", "error"}
    /\ end # "open" /\ ~MayQuote => sent # <<>> /\ sent[Len(sent)].kind \in {"terminal", "error"}

GuardInv ==
    /\ GuardTypeOK /\ ChunkIsLatest /\ ChunkIsOrderly
    /\ NothingSentYet /\ AllSentSince /\ OneTryInOrder /\ TerminalIsLast

-----------------------------------------------------------------------------
(* The first frame of the chunk *)

LEMMA ShortQueue ==
    ASSUME NEW S, NEW q \in Seq(S), q # <<>>, Len(q) <= 2
    PROVE  /\ Len(q) \in 1 .. 2 /\ Head(q) = q[1] /\ q[1] \in S
           /\ Tail(q) \in Seq(S) /\ Len(Tail(q)) <= 2
           /\ Len(q) = 1 => Tail(q) = <<>>
           /\ Len(q) = 2 => Len(Tail(q)) = 1 /\ Tail(q)[1] = q[2] /\ q[2] \in S
<1>1. Len(q) \in 1 .. 2 /\ Head(q) = q[1]
  <2>1. Len(q) \in Nat \ {0}
    BY EmptySeq
  <2>2. Head(q) = q[1]
    BY SMT
  <2>3. \A n \in Nat \ {0} : n <= 2 => n \in 1 .. 2
    OBVIOUS
  <2> QED  BY <2>1, <2>2, <2>3, Zenon
<1>2. q[1] \in S /\ (Len(q) = 2 => q[2] \in S)
  BY <1>1, ElementOfSeq
<1>3. Tail(q) \in Seq(S) /\ Len(Tail(q)) = Len(q) - 1 /\ \A i \in 1 .. Len(q) - 1 : Tail(q)[i] = q[i + 1]
  BY HeadTailProperties
<1>4. Len(q) = 1 => Tail(q) = <<>>
  <2>1. Tail(q) # <<>> => Len(Tail(q)) \in Nat \ {0}
    BY <1>3, EmptySeq
  <2> QED  BY <1>3, <2>1
<1>5. Len(q) = 2 => Len(Tail(q)) = 1 /\ Tail(q)[1] = q[2]
  BY <1>3
<1>6. Len(Tail(q)) <= 2
  <2>1. \A n \in Nat : n <= 2 => n - 1 <= 2
    OBVIOUS
  <2> QED  BY <1>1, <1>3, <2>1
<1> QED  BY <1>1, <1>2, <1>3, <1>4, <1>5, <1>6, Zenon

LEMMA LookedAt ==
    ASSUME GuardInv, NEW f, Looks(f), UNCHANGED <<told, over, try, end>>
    PROVE  /\ f \in AnyFrame /\ InPlace(f) /\ InTurn(f) /\ Len(queue) \in 1 .. 2 /\ f = queue[1]
           /\ end = "open"
           /\ queue' \in Seq(AnyFrame) /\ Len(queue') <= 2
           /\ ChunkIsLatest' /\ ChunkIsOrderly'
           /\ Done = Before(f) /\ Done' = f.place /\ Done \in Nat
           /\ Len(queue) = 1 => queue' = <<>>
           /\ Len(queue) = 2 => Len(queue') = 1 /\ queue' # <<>> /\ queue'[1] = queue[2]
           /\ ~(sawTerminal /\ ~MayQuote)
<1> USE DEF Looks
<1>1. /\ queue # <<>> /\ queue' = Tail(queue) /\ f = Head(queue) /\ end = "open" /\ end' = "open"
      /\ queue \in Seq(AnyFrame) /\ Len(queue) <= 2
  BY DEF GuardInv, GuardTypeOK
<1>2. Len(queue) \in 1 .. 2 /\ f = queue[1] /\ f \in AnyFrame /\ queue' \in Seq(AnyFrame) /\ Len(queue') <= 2
  BY <1>1, ShortQueue
<1>3. InPlace(f) /\ InTurn(f) /\ Done = Before(f)
  BY <1>1, <1>2 DEF GuardInv, ChunkIsLatest, ChunkIsOrderly, Done
<1>4. Done \in Nat
  BY <1>2, <1>3 DEF AnyFrame, Before, InPlace
<1>5. ~(sawTerminal /\ ~MayQuote)
  BY <1>1 DEF GuardInv, TerminalIsLast
<1>6. CASE Len(queue) = 1
  <2>1. queue' = <<>> /\ 1 .. Len(queue') = {} /\ Len(queue') # 2 /\ Len(queue) # 2
    BY <1>1, <1>6, ShortQueue
  <2>2. Done' = f.place
    BY <1>1, <1>2, <1>6, <2>1 DEF GuardInv, ChunkIsLatest, Done
  <2>3. ChunkIsLatest'
    BY <1>1, <2>1, Zenon DEF ChunkIsLatest
  <2>4. ChunkIsOrderly'
    BY <2>1, Zenon DEF ChunkIsOrderly
  <2> QED  BY <1>1, <1>2, <1>3, <1>4, <1>5, <1>6, <2>1, <2>2, <2>3, <2>4, Zenon
<1>7. CASE Len(queue) = 2
  <2>1. Len(queue') = 1 /\ queue' # <<>> /\ queue'[1] = queue[2] /\ queue[2] \in AnyFrame
    BY <1>1, <1>7, ShortQueue
  <2>2. InPlace(queue[2]) /\ InTurn(queue[2]) /\ queue[2].place = told /\ Before(queue[2]) = f.place
    BY <1>1, <1>2, <1>7 DEF GuardInv, ChunkIsLatest, ChunkIsOrderly
  <2>3. Done' = f.place
    BY <2>1, <2>2 DEF Done, Before
  <2>4. InPlace(queue[1])' /\ InTurn(queue[1])'
    BY <2>1, <2>2 DEF InPlace, InTurn
  <2>5. (\A i \in 1 .. Len(queue') : i = 1) /\ Len(queue') # 2 /\ Len(queue) # 1
    <3>1. (\A i \in 1 .. 1 : i = 1) /\ 1 # 2
      OBVIOUS
    <3> QED  BY <1>7, <2>1, <3>1, Zenon
  <2>6. ChunkIsLatest'
    BY <1>1, <2>1, <2>2, <2>4, <2>5 DEF ChunkIsLatest
  <2>7. ChunkIsOrderly'
    BY <2>4, <2>5 DEF ChunkIsOrderly
  <2> QED  BY <1>1, <1>2, <1>3, <1>4, <1>5, <1>7, <2>1, <2>3, <2>5, <2>6, <2>7, Zenon
<1> QED  BY <1>2, <1>6, <1>7

LEMMA Remaining ==
    ASSUME GuardInv, NEW f, Looks(f), NEW i \in 1 .. Len(queue')
    PROVE  i + 1 \in 1 .. Len(queue) /\ queue'[i] = queue[i + 1]
<1>1. queue \in Seq(AnyFrame) /\ queue # <<>> /\ queue' = Tail(queue)
  BY DEF GuardInv, GuardTypeOK, Looks
<1>2. Len(queue') = Len(queue) - 1 /\ \A k \in 1 .. Len(queue) - 1 : queue'[k] = queue[k + 1]
  BY <1>1, HeadTailProperties
<1>3. Len(queue) \in Nat
  BY <1>1
<1> QED  BY <1>2, <1>3

LEMMA FrameIsNoError ==
    ASSUME NEW f \in AnyFrame, f.try = try, GuardInv  PROVE f # IronWireError
  BY DEF IronWireError, GuardInv, GuardTypeOK

-----------------------------------------------------------------------------
(* What goes to the client *)

\* A frame of the committed try goes through as it is.
LEMMA GoesThrough ==
    ASSUME GuardInv, committed, NEW f, Looks(f), f.kind # "ping", sent' = Append(sent, f),
           sawTerminal' = (sawTerminal \/ IsTerminal(f)), committed' = TRUE, envelope' = <<>>,
           UNCHANGED <<upstream, verbatim, tail, silence, try, end>>
    PROVE  GuardInv'
<1> USE DEF upstream
<1>1. /\ f \in AnyFrame /\ InPlace(f) /\ InTurn(f) /\ f = queue[1] /\ end = "open"
      /\ Len(queue) \in 1 .. 2
      /\ queue' \in Seq(AnyFrame) /\ Len(queue') <= 2 /\ ChunkIsLatest' /\ ChunkIsOrderly'
      /\ Done = Before(f) /\ Done' = f.place /\ Done \in Nat
      /\ ~(sawTerminal /\ ~MayQuote)
  BY LookedAt
<1>2. f # IronWireError /\ f.try = try /\ f.place \in Nat \ {0} /\ Done = f.place - 1
  BY <1>1, FrameIsNoError DEF InPlace, Before, AnyFrame
<1> DEFINE n == Len(sent)
<1>3. /\ sent \in Seq(AnyFrame \cup {IronWireError}) /\ n \in Nat
      /\ sent' \in Seq(AnyFrame \cup {IronWireError})
      /\ Len(sent') = n + 1 /\ sent'[n + 1] = f
      /\ \A i \in 1 .. n : sent'[i] = sent[i]
      /\ DOMAIN sent = 1 .. n /\ DOMAIN sent' = 1 .. n + 1
  BY <1>1 DEF GuardInv, GuardTypeOK
<1> HIDE DEF n
<1>4. Upstreams' = Upstreams \cup {n + 1} /\ n + 1 \notin Upstreams
  BY <1>2, <1>3 DEF Upstreams
<1>5. \A i \in Upstreams : i \in 1 .. n /\ sent'[i] = sent[i]
  BY <1>3 DEF Upstreams
<1>6. \A i \in Upstreams : sent[i].try = try /\ sent[i].place <= Done
  BY DEF GuardInv, AllSentSince
<1>7. \A i \in Upstreams : sent[i].place \in Nat
  BY <1>3, <1>5 DEF Upstreams, AnyFrame
<1>8. GuardTypeOK'
  BY <1>1, <1>3 DEF GuardInv, GuardTypeOK
<1>9. NothingSentYet'
  BY DEF NothingSentYet
<1>10. OneTryInOrder'
  <2>1. \A i, j \in Upstreams : i < j => sent[i].try = sent[j].try /\ sent[i].place < sent[j].place
    BY DEF GuardInv, OneTryInOrder
  <2>2. \A i \in Upstreams : sent'[i].try = f.try /\ sent'[i].place < f.place
    <3>1. \A k \in Nat : k <= Done => k < f.place
      BY <1>1, <1>2
    <3> QED  BY <1>2, <1>5, <1>6, <1>7, <3>1, Zenon
  <2>3. \A i, j \in Upstreams' : i < j => i \in Upstreams
    BY <1>3, <1>4, <1>5
  <2> QED  BY <1>3, <1>4, <1>5, <2>1, <2>2, <2>3 DEF OneTryInOrder
<1>11. AllSentSince'
  <2>1. \A i \in 1 .. Len(queue') : queue'[i].kind # "envelope"
    BY Remaining DEF GuardInv, AllSentSince
  <2>2. \A i \in Upstreams' : sent'[i].try = try /\ sent'[i].place <= Done'
    BY <1>1, <1>2, <1>3, <1>4, <1>5, <1>6, <1>7
  <2>3. ASSUME Envelopes <= 1, NEW p \in 1 .. Done'
        PROVE  \E i \in Upstreams' : sent'[i].place = p
    <3>1. CASE p = f.place
      BY <1>3, <1>4, <3>1
    <3>2. CASE p # f.place
      <4>1. p \in 1 .. Done
        BY <1>1, <1>2, <3>2
      <4>2. PICK i \in Upstreams : sent[i].place = p
        BY <2>3, <4>1 DEF GuardInv, AllSentSince
      <4> QED  BY <1>4, <1>5, <4>2, Zenon
    <3> QED  BY <3>1, <3>2, Zenon
  <2> QED  BY <2>1, <2>2, <2>3, Zenon DEF AllSentSince, GuardInv
<1>12. TerminalIsLast'
  <2>1. ASSUME sawTerminal', ~MayQuote
        PROVE  over /\ queue' = <<>> /\ f.kind = "terminal"
    <3>1. f.kind = "terminal" /\ over
      <4>1. IsTerminal(f) /\ f.kind # "quote"
        BY <1>1, <2>1, Zenon DEF InTurn
      <4>2. f.kind = "terminal"
        BY <4>1 DEF IsTerminal
      <4> QED  BY <1>1, <4>2, Zenon DEF InTurn
    <3>2. Len(queue) # 2
      BY <1>1, <3>1 DEF GuardInv, ChunkIsOrderly
    <3>3. Len(queue) = 1
      BY <1>1, <3>2
    <3> QED  BY <3>1, <3>3, LookedAt
  <2>2. sent' # <<>>
    BY <1>3
  <2>3. sent'[Len(sent')] = f
    BY <1>3
  <2> QED  BY <1>1, <2>1, <2>2, <2>3 DEF TerminalIsLast
<1> QED  BY <1>1, <1>8, <1>9, <1>10, <1>11, <1>12 DEF GuardInv

-----------------------------------------------------------------------------
(* The steps of the guard and of the upstream *)

\* A frame that is looked at and not sent.
LEMMA KeptBack ==
    ASSUME GuardInv, NEW f, Looks(f), f.kind \in {"ping", "envelope"},
           envelope' = IF f.kind = "ping" THEN envelope ELSE <<f>>,
           UNCHANGED <<upstream, verbatim, tail, committed, sawTerminal, silence, try, sent, end>>
    PROVE  GuardInv'
<1> USE DEF upstream
<1>1. /\ f \in AnyFrame /\ InPlace(f) /\ InTurn(f) /\ f = queue[1] /\ end = "open"
      /\ Len(queue) \in 1 .. 2
      /\ queue' \in Seq(AnyFrame) /\ Len(queue') <= 2 /\ ChunkIsLatest' /\ ChunkIsOrderly'
      /\ Done = Before(f) /\ Done' = f.place /\ Done \in Nat
      /\ ~(sawTerminal /\ ~MayQuote)
  BY LookedAt
<1>2. GuardTypeOK'
  <2>1. envelope' \in Seq(AnyFrame)
    BY <1>1 DEF GuardInv, GuardTypeOK
  <2> QED  BY <1>1, <2>1 DEF GuardInv, GuardTypeOK
<1>3. OneTryInOrder'
  BY DEF GuardInv, OneTryInOrder, Upstreams
<1>4. TerminalIsLast'
  BY <1>1 DEF GuardInv, TerminalIsLast
<1>5. CASE f.kind = "ping"
  <2>1. envelope' = envelope /\ Done' = Done
    BY <1>1, <1>5 DEF Before
  <2>2. NothingSentYet'
    BY <2>1 DEF GuardInv, NothingSentYet
  <2>3. AllSentSince'
    <3>1. committed => \A i \in 1 .. Len(queue') : queue'[i].kind # "envelope"
      BY Remaining DEF GuardInv, AllSentSince
    <3>2. Upstreams' = Upstreams
      BY DEF Upstreams
    <3> QED  BY <2>1, <3>1, <3>2 DEF GuardInv, AllSentSince
  <2> QED  BY <1>1, <1>2, <1>3, <1>4, <2>2, <2>3 DEF GuardInv
<1>6. CASE f.kind = "envelope"
  <2>1. ~committed
    BY <1>1, <1>6 DEF GuardInv, AllSentSince
  <2>2. f.place >= 1 /\ f.place <= Envelopes /\ f.try = try
    BY <1>1, <1>6 DEF InPlace, InTurn
  <2>3. envelope' = <<f>> /\ envelope'[1] = f /\ Len(envelope') = 1
    BY <1>6
  <2>4. Envelopes <= 1 => Done' = 1
    BY <1>1, <2>2, StreamAssumption DEF AnyFrame
  <2>5. NothingSentYet'
    <3>1. f.place <= Done' /\ envelope' # <<>>
      BY <1>1, <2>3 DEF AnyFrame
    <3>2. ~verbatim /\ (end = "open" => sent = <<>>)
      BY <2>1 DEF GuardInv, NothingSentYet
    <3>3. \A i \in DOMAIN sent : sent[i] = IronWireError
      BY <2>1 DEF GuardInv, NothingSentYet
    <3>4. 1 <= 1
      OBVIOUS
    <3> QED  BY <1>6, <2>1, <2>2, <2>3, <2>4, <3>1, <3>2, <3>3, <3>4, Zenon DEF NothingSentYet
  <2>6. AllSentSince'
    BY <2>1 DEF AllSentSince
  <2> QED  BY <1>1, <1>2, <1>3, <1>4, <2>5, <2>6 DEF GuardInv
<1> QED  BY <1>5, <1>6

\* The first content, with the envelope it belongs to.
LEMMA FirstContent ==
    ASSUME GuardInv, NEW f, Commit(f), ~committed  PROVE GuardInv'
<1> USE DEF upstream
<1>0. /\ Looks(f) /\ ~verbatim /\ f.kind \notin {"ping", "envelope"}
      /\ committed' = TRUE /\ envelope' = <<>>
      /\ sawTerminal' = (sawTerminal \/ IsTerminal(f))
      /\ sent' = sent \o envelope \o <<f>>
      /\ UNCHANGED <<told, over, verbatim, tail, silence, try, end>>
  BY DEF Commit
<1>1. /\ f \in AnyFrame /\ InPlace(f) /\ InTurn(f) /\ f = queue[1] /\ end = "open"
      /\ Len(queue) \in 1 .. 2
      /\ queue' \in Seq(AnyFrame) /\ Len(queue') <= 2 /\ ChunkIsLatest' /\ ChunkIsOrderly'
      /\ Done = Before(f) /\ Done' = f.place /\ Done \in Nat
      /\ ~(sawTerminal /\ ~MayQuote)
  BY <1>0, LookedAt
<1>2. f # IronWireError /\ f.try = try /\ f.place \in Nat \ {0} /\ Done = f.place - 1
  BY <1>0, <1>1, FrameIsNoError DEF InPlace, Before, AnyFrame
<1>3. sent = <<>> /\ envelope \in Seq(AnyFrame) /\ Len(envelope) <= 1
  BY <1>1 DEF GuardInv, NothingSentYet, GuardTypeOK
<1>4. f.kind \in Content
  BY <1>0, <1>1 DEF AnyFrame, Kind, Content
<1>5. /\ sent' \in Seq(AnyFrame \cup {IronWireError}) /\ Len(sent') = Len(envelope) + 1
      /\ Len(envelope) \in {0, 1} /\ sent'[Len(envelope) + 1] = f
      /\ Len(envelope) = 1 => sent'[1] = envelope[1] /\ envelope[1] \in AnyFrame
  <2> DEFINE F == AnyFrame \cup {IronWireError}
             l == Len(envelope)
  <2>1. l \in {0, 1} /\ (l = 1 => envelope[1] \in AnyFrame)
    <3>1. l \in Nat /\ (\A n \in Nat : n <= 1 => n \in {0, 1})
      BY <1>3
    <3>2. l = 1 => envelope[1] \in AnyFrame
      BY <1>3, ElementOfSeq
    <3> QED  BY <1>3, <3>1, <3>2, Zenon
  <2>2. envelope \in Seq(F) /\ <<f>> \in Seq(F) /\ Len(<<f>>) = 1 /\ <<f>>[1] = f
    BY <1>1, <1>3
  <2>3. sent \o envelope = envelope
    BY <1>3, <2>2, ConcatEmptySeq
  <2>4. sent' = envelope \o <<f>>
    BY <1>0, <2>3
  <2>5. /\ sent' \in Seq(F) /\ Len(sent') = l + 1 /\ sent'[l + 1] = f
        /\ l = 1 => sent'[1] = envelope[1]
    BY <2>1, <2>2, <2>4
  <2> QED  BY <2>1, <2>5
<1>6. Len(envelope) = 1 =>
        /\ envelope[1] # IronWireError /\ envelope[1].try = try
        /\ envelope[1].place \in Nat \ {0} /\ envelope[1].place <= Done
  <2>1. Len(envelope) = 1 =>
          envelope # <<>> /\ envelope[1].try = try /\ envelope[1].place >= 1 /\ envelope[1].place <= Done
    BY DEF GuardInv, NothingSentYet
  <2>2. Len(envelope) = 1 => envelope[1].place \in Nat /\ envelope[1] # IronWireError
    BY <1>5, <2>1, FrameIsNoError DEF AnyFrame
  <2> QED  BY <2>1, <2>2
<1> DEFINE l == Len(envelope)
<1>7. l \in {0, 1} /\ Len(sent') = l + 1 /\ DOMAIN sent' = 1 .. l + 1
  BY <1>5
<1>8. Upstreams' = 1 .. l + 1
  <2> HIDE DEF l
  <2>0. \A k \in {0, 1} : \A i \in 1 .. k + 1 : i = k + 1 \/ (i = 1 /\ k = 1)
    OBVIOUS
  <2>1. \A i \in 1 .. l + 1 : i = l + 1 \/ (i = 1 /\ l = 1)
    BY <1>7, <2>0, Zenon
  <2>3. sent'[l + 1] = f /\ (l = 1 => sent'[1] # IronWireError)
    BY <1>5, <1>6 DEF l
  <2>2. \A i \in 1 .. l + 1 : sent'[i] # IronWireError
    BY <1>2, <2>1, <2>3, Zenon
  <2> QED  BY <1>7, <2>2 DEF Upstreams
<1>9. /\ sent'[l + 1].try = try /\ sent'[l + 1].place = Done + 1
      /\ l = 1 => sent'[1].try = try /\ sent'[1].place \in 1 .. Done
  BY <1>1, <1>2, <1>5, <1>6
<1> HIDE DEF l
<1>10. GuardTypeOK'
  BY <1>0, <1>1, <1>5 DEF GuardInv, GuardTypeOK
<1>11. NothingSentYet'
  BY <1>0 DEF NothingSentYet
<1>12. OneTryInOrder'
  <2>1. \A i, j \in 1 .. l + 1 : i < j => i = 1 /\ j = l + 1 /\ l = 1
    BY <1>7
  <2>2. \A i, j \in 1 .. l + 1 : i < j =>
          sent'[i].try = sent'[j].try /\ sent'[i].place < sent'[j].place
    BY <1>1, <1>9, <2>1
  <2> QED  BY <1>8, <2>2 DEF OneTryInOrder
<1>13. AllSentSince'
  <2>1. told >= Envelopes \/ over
    BY <1>1, <1>4 DEF InTurn
  <2>2. \A i \in 1 .. Len(queue') : queue'[i].kind # "envelope"
    <3> SUFFICES ASSUME NEW i \in 1 .. Len(queue')  PROVE queue'[i].kind # "envelope"
      OBVIOUS
    <3>1. i + 1 \in 1 .. Len(queue) /\ queue'[i] = queue[i + 1]
      BY <1>0, Remaining
    <3>2. Len(queue) = 2 /\ i = 1
      BY <1>1, <3>1
    <3> QED  BY <1>1, <1>4, <3>1, <3>2 DEF GuardInv, ChunkIsOrderly
  <2>3. \A i \in 1 .. l + 1 : sent'[i].try = try /\ sent'[i].place <= Done'
    <3>1. \A i \in 1 .. l + 1 : i = l + 1 \/ (i = 1 /\ l = 1)
      BY <1>7
    <3> QED  BY <1>1, <1>2, <1>9, <3>1
  <2>4. ASSUME Envelopes <= 1, NEW p \in 1 .. Done'
        PROVE  \E i \in 1 .. l + 1 : sent'[i].place = p
    <3>1. Done = l
      BY <2>4 DEF GuardInv, NothingSentYet, l
    <3>2. p = l + 1 \/ (p = 1 /\ l = 1)
      BY <1>1, <1>2, <1>7, <3>1
    <3>3. CASE p = l + 1
      BY <1>7, <1>9, <3>1, <3>3
    <3>4. CASE p = 1 /\ l = 1
      BY <1>9, <3>1, <3>4
    <3> QED  BY <3>2, <3>3, <3>4
  <2> QED  BY <1>0, <1>8, <2>1, <2>2, <2>3, <2>4, Zenon DEF AllSentSince
<1>14. TerminalIsLast'
  <2>1. ASSUME sawTerminal', ~MayQuote
        PROVE  over /\ queue' = <<>> /\ f.kind = "terminal"
    <3>1. f.kind = "terminal" /\ over
      <4>1. IsTerminal(f) /\ f.kind # "quote"
        BY <1>0, <1>1, <2>1, Zenon DEF InTurn
      <4>2. f.kind = "terminal"
        BY <4>1 DEF IsTerminal
      <4> QED  BY <1>1, <4>2, Zenon DEF InTurn
    <3>2. Len(queue) # 2
      BY <1>1, <3>1 DEF GuardInv, ChunkIsOrderly
    <3>3. Len(queue) = 1
      BY <1>1, <3>2
    <3> QED  BY <1>0, <3>1, <3>3, LookedAt
  <2>2. sent' # <<>> /\ sent'[Len(sent')] = f
    BY <1>5, <1>7
  <2> QED  BY <1>0, <1>1, <2>1, <2>2 DEF TerminalIsLast
<1> QED  BY <1>1, <1>10, <1>11, <1>12, <1>13, <1>14 DEF GuardInv

\* The guard ends the stream, with a word of its own.
LEMMA Failing ==
    ASSUME GuardInv, NEW how \in {"stalled", "broken", "closed"}, Waiting, Fail(how)
    PROVE  GuardInv'
<1>1. /\ queue = <<>> /\ end = "open" /\ end' = how
      /\ sent' = Append(sent, IronWireError)
      /\ UNCHANGED <<told, over, queue, verbatim, tail, envelope, committed, sawTerminal, try>>
  BY DEF Waiting, Fail, upstream
<1> DEFINE n == Len(sent)
<1>2. /\ sent \in Seq(AnyFrame \cup {IronWireError}) /\ n \in Nat
      /\ sent' \in Seq(AnyFrame \cup {IronWireError})
      /\ Len(sent') = n + 1 /\ sent'[n + 1] = IronWireError
      /\ \A i \in 1 .. n : sent'[i] = sent[i]
      /\ DOMAIN sent = 1 .. n /\ DOMAIN sent' = 1 .. n + 1
  BY <1>1 DEF GuardInv, GuardTypeOK, IronWireError
<1>3. sent' # <<>> /\ sent'[Len(sent')].kind = "error"
  BY <1>2 DEF IronWireError
<1> HIDE DEF n
<1>4. Upstreams' = Upstreams
  BY <1>2 DEF Upstreams
<1>5. \A i \in Upstreams : sent'[i] = sent[i]
  BY <1>2 DEF Upstreams
<1>6. Done' = Done
  BY <1>1 DEF Done, Before
<1>7. GuardTypeOK'
  BY <1>1, <1>2 DEF GuardInv, GuardTypeOK, Ends
<1>8. ChunkIsLatest' /\ ChunkIsOrderly'
  BY <1>1 DEF GuardInv, ChunkIsLatest, ChunkIsOrderly, InPlace, InTurn, Before
<1>9. NothingSentYet'
  <2>1. ~committed => \A i \in 1 .. n : sent[i] = IronWireError
    BY <1>2 DEF GuardInv, NothingSentYet
  <2>2. ~committed => \A i \in 1 .. n + 1 : sent'[i] = IronWireError
    BY <1>2, <2>1
  <2> QED  BY <1>1, <1>2, <1>6, <2>2 DEF GuardInv, NothingSentYet
<1>10. AllSentSince'
  BY <1>1, <1>4, <1>5, <1>6, Zenon DEF GuardInv, AllSentSince
<1>11. OneTryInOrder'
  BY <1>4, <1>5 DEF GuardInv, OneTryInOrder
<1>12. TerminalIsLast'
  BY <1>1, <1>3 DEF GuardInv, TerminalIsLast
<1> QED  BY <1>7, <1>8, <1>9, <1>10, <1>11, <1>12 DEF GuardInv

\* What the upstream says joins the chunk.
LEMMA SaidFrame ==
    ASSUME GuardInv, NEW kind \in Kind, Utters(kind), end = "open"
    PROVE  /\ ~over /\ told \in Nat /\ told' \in Nat /\ over' \in BOOLEAN
           /\ Landed(kind) = [try |-> try, place |-> told', kind |-> kind]
           /\ Landed(kind) \in AnyFrame
           /\ InPlace(Landed(kind)) /\ Before(Landed(kind)) = told
           /\ kind = "envelope" => told < Envelopes /\ told' <= Envelopes
           /\ kind \in {"text", "quote"} => told >= Envelopes /\ told' >= Envelopes
           /\ kind = "terminal" <=> over'
           /\ kind = "quote" => MayQuote
           /\ told >= Envelopes => told' >= Envelopes
<1>1. /\ told \in Nat /\ try \in Nat /\ tail \in {0, try} /\ ~over
      /\ told' = (IF kind = "ping" THEN told ELSE told + 1) /\ over' = (kind = "terminal")
  BY DEF GuardInv, GuardTypeOK, Utters, MaySay
<1>2. told' \in Nat /\ (told >= Envelopes => told' >= Envelopes)
  BY <1>1, StreamAssumption
<1>3. /\ Landed(kind) = [try |-> try, place |-> told', kind |-> kind]
      /\ Landed(kind) \in AnyFrame
  BY <1>1, <1>2 DEF Landed, AnyFrame
<1>4. InPlace(Landed(kind)) /\ Before(Landed(kind)) = told
  BY <1>1, <1>3 DEF InPlace, Before
<1>5. kind = "envelope" => told < Envelopes /\ told' <= Envelopes
  BY <1>1, StreamAssumption DEF Utters, MaySay
<1>6. /\ kind \in {"text", "quote"} => told >= Envelopes
      /\ kind = "quote" => MayQuote
  BY Zenon DEF Utters, MaySay
<1> QED  BY <1>1, <1>2, <1>3, <1>4, <1>5, <1>6, Zenon

LEMMA Receiving ==
    ASSUME GuardInv, NEW kind \in Kind, Receive(kind)  PROVE GuardInv'
<1> DEFINE f == Landed(kind)
<1>1. /\ end = "open" /\ queue = <<>> /\ Utters(kind)
      /\ queue' = <<f>> /\ verbatim' = committed /\ tail' = 0
      /\ UNCHANGED <<envelope, committed, sawTerminal, try, sent, end>>
  BY DEF Receive, Waiting
<1>2. /\ ~over /\ told \in Nat /\ told' \in Nat /\ over' \in BOOLEAN
      /\ f.try = try /\ f.place = told' /\ f.kind = kind
      /\ f \in AnyFrame /\ InPlace(f) /\ Before(f) = told
      /\ kind = "envelope" => told < Envelopes /\ told' <= Envelopes
      /\ kind \in {"text", "quote"} => told >= Envelopes /\ told' >= Envelopes
      /\ kind = "terminal" <=> over'
      /\ kind = "quote" => MayQuote
      /\ told >= Envelopes => told' >= Envelopes
  BY <1>1, SaidFrame
<1> HIDE DEF f
<1>3. /\ Len(queue') = 1 /\ queue' # <<>> /\ queue'[1] = f
      /\ queue' \in Seq(AnyFrame) /\ \A i \in 1 .. Len(queue') : i = 1
  BY <1>1, <1>2
<1>4. Done = told /\ Done' = told
  BY <1>1, <1>2, <1>3, Zenon DEF Done, Before
<1>5. InPlace(queue[1])' /\ InTurn(queue[1])'
  BY <1>1, <1>2, <1>3 DEF InPlace, InTurn, Content
<1>6. GuardTypeOK'
  BY <1>1, <1>2, <1>3 DEF GuardInv, GuardTypeOK
<1>7. ChunkIsLatest'
  BY <1>1, <1>2, <1>3, <1>5 DEF ChunkIsLatest
<1>8. ChunkIsOrderly'
  BY <1>3, <1>5 DEF ChunkIsOrderly
<1>9. NothingSentYet'
  BY <1>1, <1>4 DEF GuardInv, NothingSentYet
<1>10. AllSentSince'
  <2>1. committed => told >= Envelopes
    BY <1>2 DEF GuardInv, AllSentSince
  <2>2. committed => kind # "envelope"
    BY <1>2, <2>1, StreamAssumption
  <2>3. Upstreams' = Upstreams
    BY <1>1 DEF Upstreams
  <2> QED  BY <1>1, <1>2, <1>3, <1>4, <2>1, <2>2, <2>3 DEF GuardInv, AllSentSince
<1>11. OneTryInOrder'
  BY <1>1 DEF GuardInv, OneTryInOrder, Upstreams
<1>12. TerminalIsLast'
  BY <1>1, <1>2 DEF GuardInv, TerminalIsLast
<1> QED  BY <1>6, <1>7, <1>8, <1>9, <1>10, <1>11, <1>12 DEF GuardInv

LEMMA Extending ==
    ASSUME GuardInv, NEW kind \in Kind, Extend(kind)  PROVE GuardInv'
<1> DEFINE f == Landed(kind)
           g == queue[1]
<1>1. /\ Len(queue) = 1 /\ Utters(kind) /\ queue' = Append(queue, f)
      /\ UNCHANGED <<verbatim, tail, envelope, committed, sawTerminal, try, sent, end>>
  BY DEF Extend
<1>2. queue # <<>> /\ end = "open" /\ queue \in Seq(AnyFrame)
  BY <1>1 DEF GuardInv, ChunkIsLatest, GuardTypeOK
<1>3. /\ ~over /\ told \in Nat /\ told' \in Nat /\ over' \in BOOLEAN
      /\ f.try = try /\ f.place = told' /\ f.kind = kind
      /\ f \in AnyFrame /\ InPlace(f) /\ Before(f) = told
      /\ kind = "envelope" => told < Envelopes /\ told' <= Envelopes
      /\ kind \in {"text", "quote"} => told >= Envelopes /\ told' >= Envelopes
      /\ kind = "terminal" <=> over'
      /\ kind = "quote" => MayQuote
      /\ told >= Envelopes => told' >= Envelopes
  BY <1>1, <1>2, SaidFrame
<1>4. g \in AnyFrame /\ InPlace(g) /\ InTurn(g) /\ g.place = told
  BY <1>1, <1>2 DEF GuardInv, ChunkIsLatest, ChunkIsOrderly
<1> HIDE DEF f
<1>5. /\ Len(queue') = 2 /\ queue' # <<>> /\ queue'[1] = g /\ queue'[2] = f
      /\ queue' \in Seq(AnyFrame)
  <2>1. /\ queue' \in Seq(AnyFrame) /\ queue' # <<>> /\ Len(queue') = 1 + 1
        /\ queue'[1] = queue[1] /\ queue'[1 + 1] = f
    <3>1. /\ Append(queue, f) \in Seq(AnyFrame) /\ Append(queue, f) # <<>>
          /\ Len(Append(queue, f)) = Len(queue) + 1
          /\ \A i \in 1 .. Len(queue) : Append(queue, f)[i] = queue[i]
          /\ Append(queue, f)[Len(queue) + 1] = f
      BY <1>2, <1>3, AppendProperties
    <3>2. 1 \in 1 .. 1
      OBVIOUS
    <3> QED  BY <1>1, <3>1, <3>2, Zenon
  <2>2. 1 + 1 = 2
    OBVIOUS
  <2> QED  BY <2>1, <2>2, Zenon
<1>6. \A i \in 1 .. Len(queue') : i = 1 \/ i = 2
  BY <1>5
<1>7. Done' = Done
  BY <1>2, <1>5 DEF Done, Before
<1> HIDE DEF g
<1>8. /\ InPlace(queue[1])' /\ InTurn(queue[1])'
      /\ InPlace(queue[2])' /\ InTurn(queue[2])'
  BY <1>1, <1>3, <1>4, <1>5 DEF InPlace, InTurn, Content
<1>9. g.kind # "terminal" /\ (g.kind \in Content => f.kind # "envelope")
  BY <1>3, <1>4, StreamAssumption DEF InTurn
<1>10. GuardTypeOK'
  BY <1>1, <1>3, <1>5 DEF GuardInv, GuardTypeOK
<1>11. ChunkIsLatest'
  <2>1. Before(queue[2])' = (queue[1].place)'
    BY <1>3, <1>4, <1>5, Zenon DEF Before
  <2> QED  BY <1>1, <1>2, <1>3, <1>5, <1>6, <1>8, <2>1 DEF ChunkIsLatest
<1>12. ChunkIsOrderly'
  BY <1>5, <1>6, <1>8, <1>9 DEF ChunkIsOrderly
<1>13. NothingSentYet'
  BY <1>1, <1>7 DEF GuardInv, NothingSentYet
<1>14. AllSentSince'
  <2>1. committed => told >= Envelopes
    BY <1>3 DEF GuardInv, AllSentSince
  <2>2. committed => kind # "envelope" /\ g.kind # "envelope"
    BY <1>1, <1>3, <2>1, StreamAssumption DEF GuardInv, AllSentSince, g
  <2>3. Upstreams' = Upstreams
    BY <1>1 DEF Upstreams
  <2>4. committed => \A i \in 1 .. Len(queue') : queue'[i].kind # "envelope"
    BY <1>3, <1>5, <1>6, <2>2
  <2> QED  BY <1>1, <1>3, <1>7, <2>1, <2>3, <2>4 DEF GuardInv, AllSentSince
<1>15. OneTryInOrder'
  BY <1>1 DEF GuardInv, OneTryInOrder, Upstreams
<1>16. TerminalIsLast'
  BY <1>1, <1>2, <1>3 DEF GuardInv, TerminalIsLast
<1> QED  BY <1>10, <1>11, <1>12, <1>13, <1>14, <1>15, <1>16 DEF GuardInv

\* Bytes and seconds that bring no frame.
LEMMA NothingSaid ==
    ASSUME GuardInv, tail' \in {0, try},
           UNCHANGED <<told, over, queue, verbatim, envelope, committed, sawTerminal, try, sent, end>>
    PROVE  GuardInv'
<1>1. Done' = Done /\ Upstreams' = Upstreams
  BY DEF Done, Before, Upstreams
<1>2. GuardTypeOK'
  BY DEF GuardInv, GuardTypeOK
<1>3. ChunkIsLatest' /\ ChunkIsOrderly'
  BY DEF GuardInv, ChunkIsLatest, ChunkIsOrderly, InPlace, InTurn, Before
<1>4. NothingSentYet' /\ AllSentSince'
  BY <1>1 DEF GuardInv, NothingSentYet, AllSentSince
<1>5. OneTryInOrder' /\ TerminalIsLast'
  BY <1>1 DEF GuardInv, OneTryInOrder, TerminalIsLast
<1> QED  BY <1>2, <1>3, <1>4, <1>5 DEF GuardInv

LEMMA Restarting == ASSUME GuardInv, Waiting, Restart  PROVE GuardInv'
<1>1. /\ queue = <<>> /\ end = "open" /\ ~committed /\ try' = try + 1
      /\ told' = 0 /\ over' = FALSE /\ tail' = 0 /\ envelope' = <<>>
      /\ UNCHANGED <<queue, verbatim, committed, sawTerminal, sent, end>>
  BY DEF Waiting, Restart
<1>2. sent = <<>> /\ ~verbatim
  BY <1>1 DEF GuardInv, NothingSentYet
<1>3. Done' = 0 /\ 1 .. Len(queue) = {} /\ Len(queue) # 2
  BY <1>1 DEF Done
<1>4. Upstreams' = {} /\ DOMAIN sent = {} /\ Len(envelope') = 0
  BY <1>1, <1>2 DEF Upstreams
<1>5. GuardTypeOK'
  <2>1. try' \in Nat \ {0} /\ tail' \in {0, try'}
    BY <1>1 DEF GuardInv, GuardTypeOK
  <2>2. told' \in Nat /\ over' \in BOOLEAN /\ envelope' \in Seq(AnyFrame)
    BY <1>1, EmptySeq, Zenon
  <2> QED  BY <1>1, <2>1, <2>2 DEF GuardInv, GuardTypeOK
<1>6. ChunkIsLatest' /\ ChunkIsOrderly'
  BY <1>1, <1>3 DEF ChunkIsLatest, ChunkIsOrderly
<1>7. NothingSentYet' /\ AllSentSince'
  BY <1>1, <1>2, <1>3, <1>4 DEF NothingSentYet, AllSentSince
<1>8. OneTryInOrder'
  BY <1>4 DEF OneTryInOrder
<1>9. TerminalIsLast'
  BY <1>1 DEF GuardInv, TerminalIsLast
<1> QED  BY <1>5, <1>6, <1>7, <1>8, <1>9 DEF GuardInv

LEMMA Concluding == ASSUME GuardInv, Waiting, sawTerminal, Conclude  PROVE GuardInv'
<1>1. /\ queue = <<>> /\ end' = "finished" /\ committed
      /\ UNCHANGED <<told, over, queue, verbatim, tail, envelope, committed, sawTerminal, try, sent>>
  BY DEF Waiting, Conclude, upstream, GuardInv, TerminalIsLast
<1>2. Done' = Done /\ Upstreams' = Upstreams
  BY <1>1 DEF Done, Before, Upstreams
<1>3. GuardTypeOK'
  BY <1>1 DEF GuardInv, GuardTypeOK, Ends
<1>4. ChunkIsLatest' /\ ChunkIsOrderly'
  BY <1>1 DEF GuardInv, ChunkIsLatest, ChunkIsOrderly, InPlace, InTurn, Before
<1>5. NothingSentYet' /\ AllSentSince'
  BY <1>1, <1>2 DEF GuardInv, NothingSentYet, AllSentSince
<1>6. OneTryInOrder' /\ TerminalIsLast'
  BY <1>1, <1>2 DEF GuardInv, OneTryInOrder, TerminalIsLast
<1> QED  BY <1>3, <1>4, <1>5, <1>6 DEF GuardInv

LEMMA Looking == ASSUME GuardInv, NEW f, Heard(f)  PROVE GuardInv'
<1>1. CASE PassOn(f)
  <2>1. /\ Looks(f) /\ committed /\ sent' = sent \o Shown(f)
        /\ sawTerminal' = (sawTerminal \/ IsTerminal(f))
        /\ envelope = <<>> /\ envelope' = envelope /\ committed' = committed
        /\ UNCHANGED <<upstream, verbatim, tail, silence, try, end>>
    BY <1>1 DEF PassOn, GuardInv, NothingSentYet, AllSentSince
  <2>2. CASE f.kind = "ping"
    <3>1. sent' = sent
      BY <2>1, <2>2, ConcatEmptySeq DEF Shown, GuardInv, GuardTypeOK
    <3>2. sawTerminal' = sawTerminal
      BY <2>1, <2>2 DEF IsTerminal, GuardInv, GuardTypeOK
    <3> QED  BY <2>1, <2>2, <3>1, <3>2, KeptBack
  <2>3. CASE f.kind # "ping"
    <3>1. f \in AnyFrame
      BY <2>1, LookedAt DEF upstream
    <3>3. sent' = Append(sent, f)
      BY <2>1, <2>3, <3>1, AppendIsConcat DEF Shown, GuardInv, GuardTypeOK
    <3>2. committed' = TRUE /\ envelope' = <<>>
      BY <2>1 DEF GuardInv, GuardTypeOK
    <3> QED  BY <2>1, <2>3, <3>2, <3>3, GoesThrough
  <2> QED  BY <2>2, <2>3
<1>2. CASE Heartbeat(f)
  BY <1>2, KeptBack DEF Heartbeat
<1>3. CASE Hold(f)
  BY <1>3, KeptBack DEF Hold
<1>4. CASE Commit(f)
  <2>1. CASE committed
    <3>1. /\ Looks(f) /\ f.kind # "ping" /\ sent' = sent \o envelope \o <<f>>
          /\ sawTerminal' = (sawTerminal \/ IsTerminal(f)) /\ committed' = TRUE /\ envelope' = <<>>
          /\ UNCHANGED <<upstream, verbatim, tail, silence, try, end>>
      BY <1>4 DEF Commit
    <3>2. f \in AnyFrame
      BY <3>1, LookedAt DEF upstream
    <3>3. sent \o envelope = sent
      BY <2>1, ConcatEmptySeq DEF GuardInv, GuardTypeOK, AllSentSince
    <3>4. sent' = Append(sent, f)
      BY <3>1, <3>2, <3>3, AppendIsConcat DEF GuardInv, GuardTypeOK
    <3> QED  BY <2>1, <3>1, <3>4, GoesThrough
  <2>2. CASE ~committed
    BY <1>4, <2>2, FirstContent
  <2> QED  BY <2>1, <2>2
<1> QED  BY <1>1, <1>2, <1>3, <1>4 DEF Heard

LEMMA StreamInvInit == StreamInit => GuardInv
<1> SUFFICES ASSUME StreamInit  PROVE GuardInv
  OBVIOUS
<1>1. /\ told = 0 /\ over = FALSE /\ queue = <<>> /\ verbatim = FALSE /\ tail = 0
      /\ envelope = <<>> /\ committed = FALSE /\ sawTerminal = FALSE
      /\ try = 1 /\ sent = <<>> /\ end = "open"
  BY DEF StreamInit
<1>2. 1 .. Len(queue) = {} /\ Len(queue) # 2 /\ DOMAIN sent = {} /\ Len(envelope) = 0
  BY <1>1
<1>3. GuardTypeOK
  <2>1. <<>> \in Seq(AnyFrame) /\ <<>> \in Seq(AnyFrame \cup {IronWireError}) /\ Len(<<>>) = 0
    BY EmptySeq
  <2>2. 1 \in Nat \ {0} /\ 0 \in Nat /\ 0 <= 2
    OBVIOUS
  <2> QED  BY <1>1, <2>1, <2>2, Zenon DEF GuardTypeOK, Ends
<1>4. ChunkIsLatest /\ ChunkIsOrderly
  BY <1>1, <1>2 DEF ChunkIsLatest, ChunkIsOrderly
<1>5. NothingSentYet /\ AllSentSince
  BY <1>1, <1>2 DEF NothingSentYet, AllSentSince, Done
<1>6. OneTryInOrder /\ TerminalIsLast
  BY <1>1, <1>2 DEF OneTryInOrder, TerminalIsLast, Upstreams
<1> QED  BY <1>3, <1>4, <1>5, <1>6 DEF GuardInv

LEMMA StreamInvStep == GuardInv /\ [StreamNext]_stream => GuardInv'
<1> SUFFICES ASSUME GuardInv, [StreamNext]_stream  PROVE GuardInv'
  OBVIOUS
<1>1. ASSUME NEW kind \in Kind, Receive(kind) \/ Extend(kind)  PROVE GuardInv'
  BY <1>1, Receiving, Extending
<1>2. ASSUME Fragment \/ Silent  PROVE GuardInv'
  <2>1. tail' \in {0, try}
    BY <1>2 DEF Fragment, Silent, GuardInv, GuardTypeOK
  <2>2. UNCHANGED <<told, over, queue, verbatim, envelope, committed, sawTerminal, try, sent, end>>
    BY <1>2 DEF Fragment, Silent, upstream
  <2> QED  BY <2>1, <2>2, NothingSaid
<1>3. CASE Handles
  BY <1>3, Looking DEF Handles
<1>4. CASE Stall
  BY <1>4, Failing DEF Stall
<1>5. CASE Break
  BY <1>5, Restarting, Failing DEF Break, Admit
<1>6. CASE Close
  BY <1>6, Restarting, Failing, Concluding DEF Close, Admit
<1>7. CASE UNCHANGED stream
  <2>1. tail' \in {0, try}
    BY <1>7 DEF stream, GuardInv, GuardTypeOK
  <2>2. UNCHANGED <<told, over, queue, verbatim, envelope, committed, sawTerminal, try, sent, end>>
    BY <1>7 DEF stream
  <2> QED  BY <2>1, <2>2, NothingSaid
<1> QED  BY <1>1, <1>2, <1>3, <1>4, <1>5, <1>6, <1>7 DEF StreamNext, Speaks

-----------------------------------------------------------------------------
(* What holds of every stream *)

LEMMA NothingIsKept == ASSUME GuardInv, Envelopes <= 1  PROVE NothingIsWithheld
<1>1. committed /\ queue = <<>> =>
        \A p \in 1 .. told : \E i \in Upstreams : sent[i].place = p
  BY DEF GuardInv, AllSentSince, Done
<1> QED  BY <1>1 DEF GuardInv, AllSentSince, NothingIsWithheld

LEMMA GuardInvHolds == AnswerSpec => []GuardInv
<1>1. AnswerInit => GuardInv
  BY StreamInvInit DEF AnswerInit
<1>2. GuardInv /\ [AnswerNext]_answered => GuardInv'
  BY StreamInvStep DEF AnswerNext, answered
<1> QED  BY <1>1, <1>2, PTL DEF AnswerSpec

(***************************************************************************)
(* However often the upstream of a guarded stream dies, and wherever its   *)
(* chunks are cut, what the client has is of one try and in its order      *)
(* (resilience.rs guard: only a stream nothing of which has gone out is    *)
(* started over).                                                          *)
(***************************************************************************)
THEOREM RestartIsInvisible == AnswerSpec => []OneTryInOrder
<1>1. GuardInv => OneTryInOrder
  BY DEF GuardInv
<1> QED  BY <1>1, GuardInvHolds, PTL

(***************************************************************************)
(* On a wire with at most one envelope, from the first content on nothing  *)
(* is kept from the client; and where no text can be taken for a terminal  *)
(* event, the stream ends with its provider's last event or with an error. *)
(* Both provisos are the disagreements the README tells of: with two       *)
(* envelopes the guard keeps the latter only, and a terminal event is      *)
(* found by its name anywhere in a frame (resilience.rs guard).            *)
(***************************************************************************)
THEOREM StreamsAreWhole ==
    ASSUME Envelopes <= 1, ~MayQuote  PROVE AnswerSpec => []GuardIsTransparent
<1>1. GuardInv => GuardIsTransparent
  BY NothingIsKept DEF GuardIsTransparent, GuardInv, TerminalIsLast, EndsHonestly
<1> QED  BY <1>1, GuardInvHolds, PTL

-----------------------------------------------------------------------------
(* The choice of a model: no step but a turn gives an answer, so what is    *)
(* proved is of one turn, from the shelves as they are.                    *)

\* What is known of the shelves and the home between turns.
WorldInv ==
    /\ shelf \in [Vendor -> UNION {Shelf[v] : v \in Vendor}]
    /\ \A v \in Vendor : shelf[v] \in Shelf[v]
    /\ home = Nil \/ home.at \in Vendor

\* A request as `TakeTurn` reads it from a body.
Reads(b, r) ==
    /\ r.model = b.model /\ r.size = b.size /\ r.limit = b.limit
    /\ r.mid = MidLoop(b) /\ r.tier = from_model_hint(b)

IsRoute(d) ==
    d = [at |-> d.at, model |-> d.model, rung |-> d.rung, how |-> d.how, forced |-> d.forced]

Picked(d, r) == pick_model(shelf[d.at], r.tier)

\* The routes `select` chooses: what is sent is what was sized, or a name the
\* provider is left to judge.
Chosen(d, r) ==
    /\ IsRoute(d) /\ d.at \in Vendor /\ ~d.forced
    /\ usable(d.at, r) = "ok"
    /\ \/ d.model = Picked(d, r)
       \/ d.model = Nil /\ (Picked(d, r) = r.model \/ unrecognised(d.at, r))
    /\ d.rung = Top =>
          /\ ~Crosses(d.at)
          /\ \/ d.model = Nil /\ r.model # Nil
             \/ ~(Picked(d, r) # Nil /\ Hint[Picked(d, r)] < r.tier)

LEMMA LeastNatural ==
    ASSUME NEW T, T \subseteq Nat, T # {}
    PROVE  \E x \in T : \A y \in T : x <= y
<1>1. PICK x \in T : \A y \in T : <<y, x>> \notin OpToRel(<, Nat)
  BY NatLessThanWellFounded, WFMin, Zenon
<1>2. \A y \in T : ~(y < x)
  BY <1>1, Zenon DEF OpToRel
<1> QED  BY <1>2

\* Of several candidates one is best.
LEMMA SomeBest ==
    ASSUME NEW r, NEW vs \in SUBSET Vendor, vs # {}
    PROVE  Best(vs, r) \in vs
<1> DEFINE key(v) == SortKey(v, r)
           keys == {key(v) : v \in vs}
<1>1. \A v \in vs : key(v) \in Nat
  <2> SUFFICES ASSUME NEW v \in vs  PROVE key(v) \in Nat
    OBVIOUS
  <2> DEFINE beyond == One(Cost[v] = 0 /\ ~serves_tier(shelf[v], r.tier))
             lesser == One(~serves_tier(shelf[v], r.tier))
             bare   == One(pick_model(shelf[v], r.tier) = Nil)
             other  == One(~is_own_login(v))
             hot    == One(state[v] = "pressed")
  <2>1. beyond \in Nat /\ lesser \in Nat /\ bare \in Nat /\ other \in Nat /\ hot \in Nat
    BY DEF One
  <2>2. Cost[v] \in Nat /\ Seat[v] \in Nat
    BY ChoiceAssumption
  <2>3. key(v) = 10 * (10000 * hot + 1000 * beyond
                       + (IF r.compact THEN 100 * lesser + 10 * Cost[v] + other
                          ELSE 100 * Cost[v] + 10 * other + bare)) + Seat[v]
    BY DEF SortKey
  <2> HIDE DEF beyond, lesser, bare, other, hot, key
  <2> QED  BY <2>1, <2>2, <2>3
<1>2. PICK v \in vs : \A u \in vs : key(v) <= key(u)
  <2>1. keys \subseteq Nat /\ keys # {}
    BY <1>1
  <2>2. PICK k \in keys : \A l \in keys : k <= l
    <3> HIDE DEF keys
    <3> QED  BY <2>1, LeastNatural, Zenon
  <2> QED  BY <2>2
<1> QED  BY <1>2 DEF Best

LEMMA SelectedRoute ==
    ASSUME WorldInv, NEW r, NEW d \in select(r)
    PROVE  Chosen(d, r) /\ d.how = "fresh"
<1> DEFINE fit    == {v \in Vendor : usable(v, r) = "ok"}
           native == {v \in fit : ~Crosses(v)}
<1>1. CASE native # {}
  <2> DEFINE b == Best(native, r)
  <2>1. b \in native
    <3> HIDE DEF native
    <3>1. native \in SUBSET Vendor
      BY DEF native
    <3> QED  BY <3>1, <1>1, SomeBest
  <2>2. d = NativeRoute(b, r)
    BY <1>1 DEF select
  <2>3. b \in Vendor /\ usable(b, r) = "ok" /\ ~Crosses(b)
    BY <2>1
  <2> HIDE DEF b, native, fit
  <2> DEFINE m == pick_model(shelf[b], r.tier)
  <2> HIDE DEF m
  <2>4. CASE unrecognised(b, r) /\ state[b] # "pressed"
    <3>1. d = Route(b, Nil, IF AnotherCredential(b, r) THEN Another ELSE Top, "fresh")
      BY <2>2, <2>4 DEF NativeRoute
    <3>2. r.model # Nil
      BY <2>4 DEF unrecognised
    <3> QED  BY <3>1, <3>2, <2>3, <2>4 DEF Chosen, Route, IsRoute, Top, Another
  <2>5. CASE ~(unrecognised(b, r) /\ state[b] # "pressed")
    <3>1. d = Route(b, IF m = r.model THEN Nil ELSE m,
                    IF AnotherCredential(b, r) THEN Another
                    ELSE IF m # Nil /\ Hint[m] < r.tier THEN Smaller ELSE Top, "fresh")
      BY <2>2, <2>5 DEF NativeRoute, m
    <3>2. d.at = b /\ d.how = "fresh" /\ ~d.forced /\ IsRoute(d)
      BY <3>1 DEF Route, IsRoute
    <3>3. d.model = IF m = r.model THEN Nil ELSE m
      BY <3>1 DEF Route
    <3>4. d.rung = Top => ~(m # Nil /\ Hint[m] < r.tier)
      BY <3>1 DEF Route, Top, Smaller, Another
    <3>5. Picked(d, r) = m
      BY <3>2 DEF Picked, m
    <3> QED  BY <3>2, <3>3, <3>4, <3>5, <2>3 DEF Chosen
  <2> QED  BY <2>4, <2>5
<1>2. CASE native = {} /\ fit # {}
  <2> DEFINE b == Best(fit, r)
  <2>1. b \in fit
    <3> HIDE DEF fit
    <3>1. fit \in SUBSET Vendor
      BY DEF fit
    <3> QED  BY <3>1, <1>2, SomeBest
  <2>2. d = Route(b, pick_model(shelf[b], r.tier), Abroad, "fresh")
    BY <1>2 DEF select
  <2> HIDE DEF b
  <2> QED  BY <2>1, <2>2 DEF Chosen, Route, IsRoute, Picked, Top, Abroad
<1> QED  BY <1>1, <1>2 DEF select

\* Nothing is said of the window of a model the provider does not list.
LEMMA Unlisted ==
    ASSUME NEW v, NEW r, NEW m, NEW n,
           ~(shelf[v].stated /\ m \in Listed(shelf[v])), ~(shelf[v].stated /\ n \in Listed(shelf[v])),
           Fits(v, r, m)
    PROVE  Fits(v, r, n)
BY Zenon DEF Fits, Window

LEMMA UsableIsEligible ==
    ASSUME NEW v, NEW r, usable(v, r) = "ok"
    PROVE  eligible(v, r, served_model(shelf[v], Nil, r), FALSE) = "ok"
BY Zenon DEF usable

LEMMA EligibleFits ==
    ASSUME NEW v, NEW r, NEW m, NEW c, eligible(v, r, m, c) = "ok"
    PROVE  Fits(v, r, m)
BY DEF eligible

\* A listed name is sent as it is, whatever the route says.
LEMMA ListedName ==
    ASSUME WorldInv, NEW b, NEW r, r.model = b.model, NEW d, IsRoute(d), d.at \in Vendor, ~d.forced,
           Selects(shelf[d.at], r)
    PROVE  apply_model(b, keep_listed_model(d, r)) = b.model
<1>1. r.model # Nil
  BY ChoiceAssumption DEF WorldInv, Selects
<1> QED  BY <1>1 DEF keep_listed_model, apply_model, IsRoute

\* Any other is the route's own.
LEMMA RouteName ==
    ASSUME NEW b, NEW r, NEW d, d.forced \/ ~Selects(shelf[d.at], r)
    PROVE  apply_model(b, keep_listed_model(d, r)) = apply_model(b, d)
BY DEF keep_listed_model

\* What leaves on a route whose model is not the request's fits as the model
\* that was sized did.
LEMMA PickedFits ==
    ASSUME WorldInv, NEW b, NEW r, r.model = b.model, NEW d, IsRoute(d), d.at \in Vendor, ~d.forced,
           \/ d.model = Picked(d, r)
           \/ d.model = Nil /\ (Picked(d, r) = r.model \/ unrecognised(d.at, r)),
           Fits(d.at, r, served_model(shelf[d.at], Nil, r))
    PROVE  Fits(d.at, r, apply_model(b, keep_listed_model(d, r)))
<1> DEFINE v == d.at
           m == Picked(d, r)
<1>1. CASE Selects(shelf[v], r)
  BY <1>1, ListedName DEF served_model
<1>2. CASE ~Selects(shelf[v], r)
  <2>1. served_model(shelf[v], Nil, r) = m
    BY <1>2 DEF served_model, Picked
  <2>2. apply_model(b, keep_listed_model(d, r)) = apply_model(b, d)
    BY <1>2, RouteName
  <2>3. ~(shelf[v].stated /\ b.model \in Listed(shelf[v]))
    BY <1>2 DEF Selects
  <2>4. Nil \notin Listed(shelf[v]) /\ "default" \notin Listed(shelf[v])
    BY ChoiceAssumption DEF WorldInv
  <2>5. CASE d.model # Nil
    BY <2>1, <2>2, <2>5 DEF apply_model
  <2>6. CASE d.model = Nil
    <3>1. apply_model(b, d) \in {b.model, "default"}
      BY <2>6 DEF apply_model
    <3>2. ~(shelf[v].stated /\ apply_model(b, d) \in Listed(shelf[v]))
      BY <3>1, <2>3, <2>4
    <3>3. ~(shelf[v].stated /\ m \in Listed(shelf[v]))
      BY <2>3, <2>4, <2>6 DEF unrecognised
    <3> QED  BY <3>2, <3>3, <2>1, <2>2, Unlisted
  <2> QED  BY <2>5, <2>6
<1> QED  BY <1>1, <1>2

\* The three things a route promises of what is sent on it.
Promises(b, d, out) ==
    /\ ~d.forced /\ Selects(shelf[d.at], b) => out = b.model
    /\ \/ Fits(d.at, b, out)
       \/ d.how = "sticky" /\ ~Selects(shelf[d.at], b)
       \/ d.how = "sticky" /\ Crosses(d.at) /\ MidLoop(b)
    /\ \/ d.rung # Top \/ d.how \in {"named", "sticky"}
       \/ Selects(shelf[d.at], b)
       \/ ~(out \in DOMAIN Hint /\ Hint[out] < from_model_hint(b))

LEMMA FitsAlike ==
    ASSUME NEW b, NEW r, Reads(b, r), NEW v, NEW m
    PROVE  /\ Fits(v, b, m) <=> Fits(v, r, m)
           /\ Selects(shelf[v], b) <=> Selects(shelf[v], r)
BY DEF Fits, context_needed, Selects, Reads

LEMMA ChosenKeeps ==
    ASSUME WorldInv, NEW b, NEW r, Reads(b, r), NEW d, Chosen(d, r)
    PROVE  Promises(b, d, apply_model(b, keep_listed_model(d, r)))
<1> DEFINE s == apply_model(b, keep_listed_model(d, r))
<1>1. Selects(shelf[d.at], b) => s = b.model
  BY ListedName, FitsAlike DEF Chosen, Reads
<1>2. Fits(d.at, b, s)
  <2>1. Fits(d.at, r, served_model(shelf[d.at], Nil, r))
    BY UsableIsEligible, EligibleFits, Zenon DEF Chosen
  <2>2. Fits(d.at, r, s)
    BY <2>1, PickedFits DEF Chosen, Reads
  <2> QED  BY <2>2, FitsAlike
<1>3. ASSUME d.rung = Top, ~Selects(shelf[d.at], b), s \in DOMAIN Hint
      PROVE  ~(Hint[s] < from_model_hint(b))
  <2>1. s = apply_model(b, d)
    BY <1>3, RouteName, FitsAlike
  <2>2. s # Nil /\ Hint[s] \in 0 .. 2
    BY <1>3, ChoiceAssumption
  <2>3. CASE s = b.model
    BY <2>2, <2>3 DEF from_model_hint
  <2>4. CASE s # b.model
    <3>1. s = d.model /\ d.model # Nil
      BY <2>1, <2>4, <1>3 DEF apply_model, Chosen
    <3> QED  BY <3>1, <2>2, <1>3 DEF Chosen, Reads
  <2> QED  BY <2>3, <2>4
<1> HIDE DEF s
<1>4. Promises(b, d, s)
  BY <1>1, <1>2, <1>3 DEF Promises
<1> QED  BY <1>4 DEF s

\* A sticky turn outside a tool loop of another wire was sized too.
LEMMA StickyKeeps ==
    ASSUME WorldInv, NEW b, NEW r, Reads(b, r), Inherits(r)
    PROVE  Promises(b, Sticky, apply_model(b, keep_listed_model(Sticky, r)))
<1> DEFINE v == home.at
           s == apply_model(b, keep_listed_model(Sticky, r))
<1>1. Sticky.at = v /\ IsRoute(Sticky) /\ Sticky.how = "sticky" /\ ~Sticky.forced /\ v \in Vendor
  BY DEF Sticky, IsRoute, Inherits, WorldInv
<1>2. Selects(shelf[v], b) => s = b.model
  BY <1>1, ListedName, FitsAlike DEF Reads
<1>3. ASSUME Selects(shelf[v], b), ~(Crosses(v) /\ MidLoop(b))
      PROVE  Fits(v, b, b.model)
  <2>1. Selects(shelf[v], r)
    BY <1>3, FitsAlike
  <2>2. usable(v, r) = "ok"
    BY <1>3 DEF Inherits, usable, eligible, serves_this_client, Reads
  <2>3. Fits(v, r, served_model(shelf[v], Nil, r))
    BY <2>2, UsableIsEligible, EligibleFits, Zenon
  <2> QED  BY <2>1, <2>3, FitsAlike DEF served_model, Reads
<1> HIDE DEF s
<1>4. Promises(b, Sticky, s)
  BY <1>1, <1>2, <1>3 DEF Promises
<1> QED  BY <1>4 DEF s

\* Named by the user, whose choice of a model is kept.
LEMMA NamedKeeps ==
    ASSUME WorldInv, NEW b, NEW r, Reads(b, r), NEW f, f.at \in Vendor, ForcedRefusal(f, r) = "none"
    PROVE  Promises(b, ForcedRoute(f, r), apply_model(b, keep_listed_model(ForcedRoute(f, r), r)))
<1> DEFINE d == ForcedRoute(f, r)
           s == apply_model(b, keep_listed_model(d, r))
<1>1. d.at = f.at /\ IsRoute(d) /\ d.how = "named" /\ (d.forced <=> f.model # Nil) /\ d.forced \in BOOLEAN
  BY Zenon DEF ForcedRoute, IsRoute
<1>2. ~d.forced => d.model = Picked(d, r)
  BY <1>1 DEF ForcedRoute, Picked
<1>3. d.forced => d.model = f.model
  BY <1>1 DEF ForcedRoute
<1>4. Fits(f.at, r, served_model(shelf[f.at], f.model, r))
  BY EligibleFits DEF ForcedRefusal
<1> HIDE DEF d, s
<1>5. ASSUME d.forced  PROVE Promises(b, d, s)
  <2>1. s = f.model
    BY <1>1, <1>3, <1>5 DEF s, keep_listed_model, apply_model
  <2>2. Fits(d.at, b, s)
    BY <2>1, <1>1, <1>4, <1>5, FitsAlike DEF served_model
  <2> QED  BY <2>2, <1>1, <1>5 DEF Promises
<1>6. ASSUME ~d.forced  PROVE Promises(b, d, s)
  <2>1. Selects(shelf[d.at], b) => s = b.model
    BY <1>1, <1>6, ListedName, FitsAlike DEF s, Reads
  <2>2. served_model(shelf[f.at], f.model, r) = served_model(shelf[d.at], Nil, r)
    BY <1>1, <1>6 DEF served_model
  <2>3. Fits(d.at, r, s)
    BY <2>2, <1>1, <1>2, <1>4, <1>6, PickedFits DEF s, Reads
  <2> QED  BY <2>1, <2>3, <1>1, <1>6, FitsAlike DEF Promises
<1>7. Promises(b, d, s)
  BY <1>5, <1>6
<1> QED  BY <1>7 DEF d, s

LEMMA RoutesKeep ==
    ASSUME WorldInv, NEW b, NEW r, Reads(b, r), NEW d \in Routes(r)
    PROVE  IsRoute(d) /\ d.at \in Vendor /\ Promises(b, d, apply_model(b, keep_listed_model(d, r)))
<1>1. CASE d \in select(r)
  BY <1>1, SelectedRoute, ChosenKeeps DEF Chosen
<1>2. CASE Inherits(r) /\ d = Sticky
  <2>1. d.at \in Vendor /\ IsRoute(d)
    BY <1>2 DEF Sticky, IsRoute, Inherits, WorldInv
  <2> QED  BY <2>1, <1>2, StickyKeeps
<1>3. CASE d \in Promoted(r)
  <2>1. PICK e \in select(r) : d = [e EXCEPT !.how = "promoted"]
    BY <1>3 DEF Promoted
  <2>2. Chosen(e, r)
    BY <2>1, SelectedRoute
  <2>3. IsRoute(d) /\ d.at = e.at /\ d.model = e.model /\ d.rung = e.rung /\ d.forced = e.forced
    BY <2>1, <2>2 DEF Chosen, IsRoute
  <2>4. Chosen(d, r)
    BY <2>2, <2>3 DEF Chosen, Picked
  <2> QED  BY <2>4, ChosenKeeps DEF Chosen
<1> QED  BY <1>1, <1>2, <1>3 DEF Routes

\* A route that keeps its promises makes a sound answer.
LEMMA ServedSoundly ==
    ASSUME WorldInv, NEW b, NEW r, Reads(b, r), NEW d, d.at \in Vendor, IsRoute(d),
           Promises(b, d, apply_model(b, keep_listed_model(d, r))),
           Serve(b, keep_listed_model(d, r)),
           UNCHANGED <<holder, shelf, state>>
    PROVE  ChoiceIsSound' /\ home'.at \in Vendor
<1> DEFINE e == keep_listed_model(d, r)
           s == apply_model(b, e)
<1>1. /\ e.at = d.at /\ e.how = d.how /\ e.forced = d.forced
      /\ e.rung = d.rung \/ Selects(shelf[d.at], b)
  <2>1. CASE d.forced \/ ~Selects(shelf[d.at], r)
    BY <2>1 DEF keep_listed_model
  <2>2. CASE ~d.forced /\ Selects(shelf[d.at], r)
    <3>1. e = [[d EXCEPT !.model = IF Crosses(d.at) THEN r.model ELSE Nil]
                  EXCEPT !.rung = IF d.rung = Smaller THEN Top ELSE d.rung]
      BY <2>2 DEF keep_listed_model
    <3>2. Selects(shelf[d.at], b)
      BY <2>2, FitsAlike
    <3> QED  BY <3>1, <3>2 DEF IsRoute
  <2> QED  BY <2>1, <2>2
<1> HIDE DEF e
<1> DEFINE w == [asked |-> b, at |-> d.at, sent |-> s, rung |-> e.rung, how |-> d.how,
                 forced |-> d.forced, status |-> 200]
<1>2. verdict' = w /\ home'.at = d.at
  BY <1>1 DEF Serve, e
<1>3. Promises(b, d, s)
  BY DEF e
<1> HIDE DEF s
<1>4. /\ verdict'.asked = b /\ verdict'.at = d.at /\ verdict'.sent = s /\ verdict'.rung = e.rung
      /\ verdict'.how = d.how /\ verdict'.forced = d.forced /\ verdict'.status = 200
  BY <1>2
<1> HIDE DEF w
<1>5. ListedIsServed'
  BY <1>3, <1>4 DEF ListedIsServed, Served, Promises, Selects
<1>6. FitsItsWindow'
  <2>1. Reads(b, Peek(b))
    BY DEF Reads, Peek
  <2>2. SUFFICES ASSUME (Served /\ (verdict.how # "sticky" \/ Selects(shelf[verdict.at], verdict.asked)) /\ ~CarriesOn)'
                 PROVE  Fits(verdict.at, Peek(verdict.asked), verdict.sent)'
    BY DEF FitsItsWindow
  <2>3. Fits(d.at, b, s)
    BY <1>3, <1>4, <2>2 DEF Promises, Served, CarriesOn, Selects, Crosses, MidLoop
  <2>4. Fits(d.at, Peek(b), s)
    BY <2>1, <2>3, FitsAlike
  <2>5. Peek(verdict.asked)' = Peek(b)
    BY <1>4 DEF Peek, inspect_anthropic, inspect_openai, MidLoop, Compacts, from_model_hint
  <2>6. Window(shelf[verdict.at], verdict.sent)' = Window(shelf[d.at], s)
    BY <1>4 DEF Window
  <2> QED  BY <1>4, <2>4, <2>5, <2>6 DEF Fits, context_needed
<1>7. DescentIsSeen'
  BY <1>1, <1>3, <1>4 DEF DescentIsSeen, Downgraded, Served, Promises, Selects
<1>8. WaitingHelps'
  BY <1>4 DEF WaitingHelps
<1> QED  BY <1>2, <1>4, <1>5, <1>6, <1>7, <1>8 DEF ChoiceIsSound

\* Whoever is refused for now would be served by what is busy.
LEMMA ToldToWait ==
    ASSUME NEW r, NoRoute(r) \in {"cap", "exhausted"}
    PROVE  /\ \E v \in Vendor : serves_this_client(v) = "ok" /\ state[v] \in {"down", "spent", "capped"}
           /\ (\E v \in Vendor : state[v] = "capped")
              \/ ~WrongUrl([v \in Vendor |-> serves_this_client(v)])
<1> DEFINE whys == [v \in Vendor |-> usable(v, r)]
<1>1. \A v \in Vendor : usable(v, r) \in {"unhealthy", "capacity"} =>
         serves_this_client(v) = "ok" /\ state[v] \in {"down", "spent", "capped"}
  BY DEF usable, eligible, serves_this_client
<1>2. \A v \in Vendor : usable(v, r) = "another" <=> serves_this_client(v) = "another"
  BY DEF usable, eligible, serves_this_client
<1>3. CASE NoRoute(r) = "cap"
  <2>1. PICK v \in Vendor : whys[v] = "capacity" /\ state[v] = "capped"
    BY <1>3 DEF NoRoute
  <2> QED  BY <2>1, <1>1
<1>4. CASE NoRoute(r) = "exhausted"
  <2>1. ~WrongUrl(whys) /\ \E v \in Vendor : is_transient(whys[v])
    BY <1>4 DEF NoRoute
  <2>2. ~WrongUrl([v \in Vendor |-> serves_this_client(v)])
    BY <2>1, <1>2 DEF WrongUrl
  <2> QED  BY <2>1, <2>2, <1>1 DEF is_transient
<1> QED  BY <1>3, <1>4

LEMMA DeclinedSoundly ==
    ASSUME NEW b, NEW r, NEW why, Decline(b, why),
           why = NoRoute(r) \/ why \in {"unknown", "untrusted", "identity", "unusable"},
           UNCHANGED <<holder, shelf, state>>
    PROVE  ChoiceIsSound' /\ home' = home
<1>1. verdict'.status = StatusOf(why) /\ home' = home
  BY DEF Decline
<1>2. StatusOf(why) # 200
  BY DEF StatusOf
<1>3. StatusOf(why) = 429 => NoRoute(r) \in {"cap", "exhausted"}
  BY DEF StatusOf
<1>4. WaitingHelps'
  BY <1>1, <1>3, ToldToWait DEF WaitingHelps, WrongUrl, serves_this_client, is_own_login
<1> QED  BY <1>1, <1>2, <1>4 DEF ChoiceIsSound, ListedIsServed, FitsItsWindow, DescentIsSeen, Downgraded, Served

LEMMA TurnIsSound ==
    ASSUME WorldInv, TakeTurn
    PROVE  WorldInv' /\ ChoiceIsSound'
<1>1. PICK b \in Bodies, h \in Forces \cup {Nil} : DecideFor(b, h)
  BY DEF TakeTurn
<1>2. UNCHANGED <<holder, shelf, state, agreed, full, pin>>
  BY DEF TakeTurn
<1> DEFINE r == Warmed(Peek(b))
           f == IF h # Nil THEN h ELSE pin
<1>3. Reads(b, r)
  BY DEF Reads, Warmed, Peek
<1>4. \/ Decline(b, "unknown")
      \/ f.at \in Vendor /\ ForcedRefusal(f, r) = "none" /\ Serve(b, keep_listed_model(ForcedRoute(f, r), r))
      \/ Decline(b, ForcedRefusal(f, r)) /\ ForcedRefusal(f, r) # "none"
      \/ \E d \in Routes(r) : Serve(b, keep_listed_model(d, r))
      \/ Decline(b, NoRoute(r))
  BY <1>1 DEF DecideFor
<1> HIDE DEF r, f
<1>5. ASSUME ChoiceIsSound', home' = home \/ home'.at \in Vendor  PROVE WorldInv' /\ ChoiceIsSound'
  BY <1>2, <1>5 DEF WorldInv
<1>6. CASE Decline(b, "unknown")
  BY <1>2, <1>5, <1>6, DeclinedSoundly
<1>7. CASE f.at \in Vendor /\ ForcedRefusal(f, r) = "none" /\ Serve(b, keep_listed_model(ForcedRoute(f, r), r))
  <2>1. ForcedRoute(f, r).at \in Vendor /\ IsRoute(ForcedRoute(f, r))
    BY <1>7 DEF ForcedRoute, IsRoute
  <2> QED  BY <2>1, <1>2, <1>3, <1>5, <1>7, NamedKeeps, ServedSoundly
<1>8. CASE Decline(b, ForcedRefusal(f, r)) /\ ForcedRefusal(f, r) # "none"
  <2>1. ForcedRefusal(f, r) \in {"untrusted", "identity", "unusable"}
    BY <1>8 DEF ForcedRefusal
  <2> QED  BY <2>1, <1>2, <1>5, <1>8, DeclinedSoundly
<1>9. CASE \E d \in Routes(r) : Serve(b, keep_listed_model(d, r))
  <2>1. PICK d \in Routes(r) : Serve(b, keep_listed_model(d, r))
    BY <1>9
  <2>2. IsRoute(d) /\ d.at \in Vendor /\ Promises(b, d, apply_model(b, keep_listed_model(d, r)))
    BY <1>3, RoutesKeep
  <2> QED  BY <2>1, <2>2, <1>2, <1>3, <1>5, ServedSoundly
<1>10. CASE Decline(b, NoRoute(r))
  BY <1>2, <1>5, <1>10, DeclinedSoundly
<1> QED  BY <1>4, <1>6, <1>7, <1>8, <1>9, <1>10

\* An answer lasts until the client has it, and its world as long.
ChoiceInv == WorldInv /\ ChoiceIsSound

LEMMA ChoiceInvInit == ChoiceInit => ChoiceInv
BY DEF ChoiceInit, ChoiceInv, WorldInv, ChoiceIsSound, ListedIsServed, FitsItsWindow, DescentIsSeen,
       Downgraded, Served, WaitingHelps

LEMMA ChoiceInvStep == ChoiceInv /\ [ChoiceNext]_choice => ChoiceInv'
<1> SUFFICES ASSUME ChoiceInv, [ChoiceNext]_choice  PROVE ChoiceInv'
  OBVIOUS
<1>1. ASSUME verdict' = Nil  PROVE ChoiceIsSound'
  BY <1>1 DEF ChoiceIsSound, ListedIsServed, FitsItsWindow, DescentIsSeen, Downgraded, Served, WaitingHelps
<1>2. CASE verdict' = Nil /\ UNCHANGED <<holder, shelf, state, agreed, full, pin, home>>
  BY <1>1, <1>2 DEF ChoiceInv, WorldInv
<1>3. CASE TakeTurn
  BY <1>3, TurnIsSound DEF ChoiceInv
<1>4. CASE verdict' = Nil /\ Restock
  <2>1. PICK v \in Vendor : \E cat \in Shelf[v] : shelf' = [shelf EXCEPT ![v] = cat]
    BY <1>4, Zenon DEF Restock
  <2> QED  BY <1>1, <1>4, <2>1 DEF ChoiceInv, WorldInv, Restock
<1>5. CASE verdict' = Nil /\ (Fare \/ Settle \/ Unhome)
  BY <1>1, <1>5 DEF ChoiceInv, WorldInv, Fare, Settle, Unhome
<1>6. CASE UNCHANGED choice
  <2>1. WorldInv'
    BY <1>6 DEF choice, ChoiceInv, WorldInv
  <2>2. ListedIsServed' /\ DescentIsSeen'
    BY <1>6 DEF choice, ChoiceInv, ChoiceIsSound, ListedIsServed, DescentIsSeen, Downgraded, Served, Selects
  <2>3. FitsItsWindow'
    BY <1>6 DEF choice, ChoiceInv, ChoiceIsSound, FitsItsWindow, CarriesOn, Served, Selects, Fits, Window,
                Crosses, Peek, inspect_anthropic, inspect_openai, context_needed, MidLoop
  <2>4. WaitingHelps'
    BY <1>6 DEF choice, ChoiceInv, ChoiceIsSound, WaitingHelps, WrongUrl, serves_this_client, is_own_login
  <2> QED  BY <2>1, <2>2, <2>3, <2>4 DEF ChoiceInv, ChoiceIsSound
<1> QED  BY <1>2, <1>3, <1>4, <1>5, <1>6 DEF ChoiceNext

LEMMA ChoiceInvHolds == AnswerSpec => []ChoiceInv
<1>1. AnswerInit => ChoiceInv
  BY ChoiceInvInit DEF AnswerInit
<1>2. ChoiceInv /\ [AnswerNext]_answered => ChoiceInv'
  BY ChoiceInvStep DEF AnswerNext, answered, choice
<1> QED  BY <1>1, <1>2, PTL DEF AnswerSpec

(***************************************************************************)
(* Whatever catalogues, prices and abilities the backends have: a name its *)
(* provider lists is the one it gets; the model that leaves was sized for  *)
(* its window, on every turn that is not replayed; who is given less than  *)
(* asked for is on a rung that climbs back; and who is told to wait has    *)
(* something to wait for (policy.rs decide_with_override, select,          *)
(* keep_listed_model; facade/error.rs).                                    *)
(***************************************************************************)
THEOREM ModelsAreChosenSoundly == AnswerSpec => []ChoiceIsSound
<1>1. ChoiceInv => ChoiceIsSound
  BY DEF ChoiceInv
<1> QED  BY <1>1, ChoiceInvHolds, PTL

-----------------------------------------------------------------------------
(* What the client of a translated answer reads (Reply, over Translate).   *)
(* A stream is followed event by event: which blocks it has open and how   *)
(* many numbers it has given, and whether it may go on or is over.         *)

IsSeq(s) == \E S : s \in Seq(S)

\* OpenAt, of any stream.
OpenIn(g, i) == {b \in {g[j].at : j \in 1 .. i} :
                   \E j \in 1 .. i : /\ g[j].k = "open" /\ g[j].at = b
                                     /\ \A n \in (j + 1) .. i : ~(g[n].k = "shut" /\ g[n].at = b)}
Opens(g, i) == {j \in 1 .. i : g[j].k = "open"}

\* The last of s; whether the last block g opened is a call's, and how many
\* numbers g has given; Numbered, of any stream.
IsLast(j, s) == j \in s /\ \A h \in s : h <= j
EndsInCall(g) == \E j : IsLast(j, Opens(g, Len(g))) /\ g[j].kind = "call"
NumbersGiven(g, n) == \/ Opens(g, Len(g)) = {} /\ n = 0
                \/ \E j : IsLast(j, Opens(g, Len(g))) /\ n = g[j].at + 1
NumberedIn(w, g, i) ==
    \/ Opens(g, i - 1) = {} /\ g[i].at = 0
    \/ \E j : /\ IsLast(j, Opens(g, i - 1))
              /\ \/ g[i].at = g[j].at + 1
                 \/ w = Anthropic /\ g[j].kind = "call" /\ g[i].kind = "text" /\ g[i].at = 0

\* What StreamIsWellFormed says of blocks.
BlocksKept(w, g) ==
    /\ g # <<>> => g[1].k = "begin"
    /\ \A i \in 2 .. Len(g) : g[i].k # "begin"
    /\ w # Chat =>
         \A i \in 1 .. Len(g) :
            /\ Cardinality(OpenIn(g, i)) <= 1
            /\ g[i].k \in {"text", "call"} => g[i].at \in OpenIn(g, i)
            /\ g[i].k \in {"word", "end"} => OpenIn(g, i) = {}
            /\ g[i].k = "open" => NumberedIn(w, g, i)

\* A stream that goes on, with S the open blocks and n numbers given ...
Going(w, g, S, n) ==
    /\ IsSeq(g) /\ BlocksKept(w, g)
    /\ \A i \in 1 .. Len(g) : g[i].k \notin Terminal
    /\ w # Chat => OpenIn(g, Len(g)) = S
    /\ w # Chat => NumbersGiven(g, n)

\* ... and one that has ended.
Over(w, g) ==
    /\ IsSeq(g) /\ BlocksKept(w, g)
    /\ g # <<>> /\ g[Len(g)].k \in Terminal
    /\ \A i \in 1 .. Len(g) : g[i].k \in Terminal => i = Len(g)

LEMMA Appending ==
    ASSUME NEW g, IsSeq(g), NEW ev
    PROVE  /\ IsSeq(Append(g, ev)) /\ g \o <<ev>> = Append(g, ev)
           /\ Len(g) \in Nat /\ (g = <<>> <=> Len(g) = 0)
           /\ Len(Append(g, ev)) = Len(g) + 1
           /\ \A i \in 1 .. Len(g) : Append(g, ev)[i] = g[i]
           /\ Append(g, ev)[Len(g) + 1] = ev
<1>1. PICK S : g \in Seq(S)
  BY DEF IsSeq
<1>2. g \in Seq(S \cup {ev})
  BY <1>1, SeqMonotonic
<1>3. Append(g, ev) \in Seq(S \cup {ev})
  BY <1>2, AppendProperties
<1>4. Len(g) \in Nat /\ (g = <<>> <=> Len(g) = 0)
  BY <1>2, EmptySeq, LenProperties
<1>5. g \o <<ev>> = Append(g, ev)
  BY <1>2, AppendIsConcat
<1> QED  BY <1>2, <1>3, <1>4, <1>5, AppendProperties DEF IsSeq

LEMMA OpenAfter ==
    ASSUME NEW g, IsSeq(g), NEW ev, NEW h, h = Append(g, ev)
    PROVE  /\ \A i \in 1 .. Len(g) : OpenIn(h, i) = OpenIn(g, i)
           /\ OpenIn(h, Len(h)) = IF ev.k = "open" THEN OpenIn(g, Len(g)) \cup {ev.at}
                                  ELSE IF ev.k = "shut" THEN OpenIn(g, Len(g)) \ {ev.at}
                                  ELSE OpenIn(g, Len(g))
           /\ \A i \in 0 .. Len(g) : Opens(h, i) = Opens(g, i)
           /\ Opens(h, Len(h)) = IF ev.k = "open" THEN Opens(g, Len(g)) \cup {Len(h)}
                                 ELSE Opens(g, Len(g))
<1>1. /\ Len(g) \in Nat /\ Len(h) = Len(g) + 1 /\ h[Len(h)] = ev
      /\ \A i \in 1 .. Len(g) : h[i] = g[i]
  BY Appending
<1>2. ASSUME NEW i \in 1 .. Len(g)  PROVE OpenIn(h, i) = OpenIn(g, i)
  <2>1. \A j \in 1 .. i : j \in 1 .. Len(g) /\ h[j] = g[j]
    BY <1>1
  <2>2. \A j \in 1 .. i : \A n \in (j + 1) .. i : h[n] = g[n]
    BY <1>1
  <2>3. {h[j].at : j \in 1 .. i} = {g[j].at : j \in 1 .. i}
    BY <2>1
  <2> QED  BY <2>1, <2>2, <2>3 DEF OpenIn
<1>3. \A i \in 0 .. Len(g) : Opens(h, i) = Opens(g, i)
  BY <1>1 DEF Opens
<1>4. Opens(h, Len(h)) = IF ev.k = "open" THEN Opens(g, Len(g)) \cup {Len(h)}
                         ELSE Opens(g, Len(g))
  BY <1>1 DEF Opens
<1> DEFINE E(s, i, b) == \E j \in 1 .. i : /\ s[j].k = "open" /\ s[j].at = b
                                           /\ \A n \in (j + 1) .. i : ~(s[n].k = "shut" /\ s[n].at = b)
<1>5. \A b : b \in OpenIn(g, Len(g)) <=> E(g, Len(g), b)
  BY DEF OpenIn
<1>6. \A b : b \in OpenIn(h, Len(h)) <=> E(h, Len(h), b)
  BY DEF OpenIn
<1>7. ASSUME NEW b
      PROVE  E(h, Len(h), b) <=> \/ E(g, Len(g), b) /\ ~(ev.k = "shut" /\ ev.at = b)
                                 \/ ev.k = "open" /\ ev.at = b
  <2>1. ASSUME E(h, Len(h), b)
        PROVE  \/ E(g, Len(g), b) /\ ~(ev.k = "shut" /\ ev.at = b)
               \/ ev.k = "open" /\ ev.at = b
    <3>1. PICK j \in 1 .. Len(h) : /\ h[j].k = "open" /\ h[j].at = b
                                   /\ \A n \in (j + 1) .. Len(h) : ~(h[n].k = "shut" /\ h[n].at = b)
      BY <2>1
    <3>2. CASE j = Len(h)
      BY <1>1, <3>1, <3>2
    <3>3. CASE j \in 1 .. Len(g)
      <4>1. g[j].k = "open" /\ g[j].at = b
        BY <1>1, <3>1, <3>3
      <4>2. \A n \in (j + 1) .. Len(g) : ~(g[n].k = "shut" /\ g[n].at = b)
        BY <1>1, <3>1, <3>3
      <4>3. ~(ev.k = "shut" /\ ev.at = b)
        BY <1>1, <3>1, <3>3
      <4> QED  BY <3>3, <4>1, <4>2, <4>3
    <3> QED  BY <1>1, <3>2, <3>3
  <2>2. ASSUME ev.k = "open", ev.at = b  PROVE E(h, Len(h), b)
    BY <1>1, <2>2
  <2>3. ASSUME E(g, Len(g), b), ~(ev.k = "shut" /\ ev.at = b)  PROVE E(h, Len(h), b)
    <3>1. PICK j \in 1 .. Len(g) : /\ g[j].k = "open" /\ g[j].at = b
                                   /\ \A n \in (j + 1) .. Len(g) : ~(g[n].k = "shut" /\ g[n].at = b)
      BY <2>3
    <3>2. h[j].k = "open" /\ h[j].at = b /\ j \in 1 .. Len(h)
      BY <1>1, <3>1
    <3>3. ASSUME NEW n \in (j + 1) .. Len(h)  PROVE ~(h[n].k = "shut" /\ h[n].at = b)
      BY <1>1, <2>3, <3>1
    <3> QED  BY <3>2, <3>3
  <2> QED  BY <2>1, <2>2, <2>3, Zenon
<1> HIDE DEF E
<1>8. OpenIn(h, Len(h)) = IF ev.k = "open" THEN OpenIn(g, Len(g)) \cup {ev.at}
                          ELSE IF ev.k = "shut" THEN OpenIn(g, Len(g)) \ {ev.at}
                          ELSE OpenIn(g, Len(g))
  BY <1>5, <1>6, <1>7, Zenon
<1> QED  BY <1>2, <1>3, <1>4, <1>8

\* The number an event may open a block with, after g and its n numbers.
MayOpen(w, g, n, ev) ==
    ev.at = n \/ (w = Anthropic /\ EndsInCall(g) /\ ev.kind = "text" /\ ev.at = 0)

\* An event that may come next after g, from S and n to S2 and n2.
Next1(w, g, S, n, ev, S2, n2) ==
    /\ ev.k # "begin"
    /\ w # Chat =>
          /\ n2 = IF ev.k = "open" THEN ev.at + 1 ELSE n
          /\ S2 = IF ev.k = "open" THEN S \cup {ev.at} ELSE IF ev.k = "shut" THEN S \ {ev.at} ELSE S
          /\ S2 = {} \/ \E b : S2 = {b}
          /\ ev.k \in {"text", "call"} => ev.at \in S2
          /\ ev.k \in {"word", "end"} => S2 = {}
          /\ ev.k = "open" => MayOpen(w, g, n, ev)

LEMMA Pushed ==
    ASSUME NEW w, NEW g, NEW S, NEW n, NEW ev, NEW S2, NEW n2,
           Going(w, g, S, n), g # <<>>, Next1(w, g, S, n, ev, S2, n2)
    PROVE  /\ Append(g, ev) # <<>>
           /\ ev.k \notin Terminal => Going(w, Append(g, ev), S2, n2)
           /\ ev.k \in Terminal => Over(w, Append(g, ev))
<1> USE DEF Next1
<1> DEFINE h == Append(g, ev)
<1>0. IsSeq(g)
  BY DEF Going
<1>1. /\ Len(g) \in Nat \ {0} /\ Len(h) = Len(g) + 1 /\ h[Len(h)] = ev /\ h # <<>>
      /\ \A i \in 1 .. Len(g) : h[i] = g[i]
      /\ IsSeq(h) /\ g \o <<ev>> = h
  <2>1. IsSeq(h)
    BY <1>0, Appending
  <2>2. Len(h) = 0 <=> h = <<>>
    BY <2>1, Appending
  <2> HIDE DEF h
  <2>3. /\ Len(g) \in Nat \ {0} /\ Len(h) = Len(g) + 1 /\ h[Len(h)] = ev
        /\ \A i \in 1 .. Len(g) : h[i] = g[i]
        /\ g \o <<ev>> = h
    BY <1>0, Appending DEF h
  <2> QED  BY <2>1, <2>2, <2>3
<1>2. /\ \A i \in 1 .. Len(g) : OpenIn(h, i) = OpenIn(g, i)
      /\ OpenIn(h, Len(h)) = IF ev.k = "open" THEN OpenIn(g, Len(g)) \cup {ev.at}
                                  ELSE IF ev.k = "shut" THEN OpenIn(g, Len(g)) \ {ev.at}
                                  ELSE OpenIn(g, Len(g))
      /\ \A i \in 0 .. Len(g) : Opens(h, i) = Opens(g, i)
      /\ Opens(h, Len(h)) = IF ev.k = "open" THEN Opens(g, Len(g)) \cup {Len(h)}
                                 ELSE Opens(g, Len(g))
  BY <1>0, OpenAfter, Zenon
<1> HIDE DEF h
<1>3. w # Chat => OpenIn(h, Len(h)) = S2 /\ Cardinality(S2) <= 1
  <2>1. \A b : Cardinality({b}) = 1
    BY FS_Singleton, Zenon
  <2>2. Cardinality({}) = 0
    BY FS_EmptySet
  <2>3. w # Chat => OpenIn(h, Len(h)) = S2
    BY <1>2 DEF Going
  <2>4. ASSUME w # Chat  PROVE Cardinality(S2) <= 1
    <3>1. S2 = {} \/ \E b : S2 = {b}
      BY <2>4
    <3>2. CASE S2 = {}
      BY <2>2, <3>2
    <3>3. ASSUME NEW b, S2 = {b}  PROVE Cardinality(S2) <= 1
      <4>1. Cardinality({b}) = 1
        BY <2>1, Zenon
      <4> QED  BY <3>3, <4>1
    <3> QED  BY <3>1, <3>2, <3>3, Zenon
  <2> QED  BY <2>3, <2>4
<1>9. Opens(g, Len(g)) \subseteq 1 .. Len(g)
  BY DEF Opens
<1>8. \A x \in 1 .. Len(h) : \A y : IsLast(y, Opens(h, x - 1)) => h[y] = g[y]
  <2>1. \A x \in 1 .. Len(h) : Opens(h, x - 1) \subseteq 1 .. Len(g)
    BY <1>1 DEF Opens
  <2> QED  BY <1>1, <2>1, Zenon DEF IsLast
<1>4. BlocksKept(w, h)
  <2>1. h[1].k = "begin"
    BY <1>1 DEF Going, BlocksKept
  <2>2. \A i \in 2 .. Len(h) : h[i].k # "begin"
    BY <1>1 DEF Going, BlocksKept
  <2>3. ASSUME w # Chat, NEW i \in 1 .. Len(h)
        PROVE  /\ Cardinality(OpenIn(h, i)) <= 1
               /\ h[i].k \in {"text", "call"} => h[i].at \in OpenIn(h, i)
               /\ h[i].k \in {"word", "end"} => OpenIn(h, i) = {}
               /\ h[i].k = "open" => NumberedIn(w, h, i)
    <3>0. \A x \in 1 .. Len(h) : \A y : IsLast(y, Opens(h, x - 1)) => h[y] = g[y]
      BY <1>8
    <3>1. CASE i \in 1 .. Len(g)
      <4>1. h[i] = g[i] /\ OpenIn(h, i) = OpenIn(g, i) /\ Opens(h, i - 1) = Opens(g, i - 1)
        BY <1>1, <1>2, <3>1
      <4>2. /\ Cardinality(OpenIn(g, i)) <= 1
            /\ g[i].k \in {"text", "call"} => g[i].at \in OpenIn(g, i)
            /\ g[i].k \in {"word", "end"} => OpenIn(g, i) = {}
            /\ g[i].k = "open" => NumberedIn(w, g, i)
        BY <2>3, <3>1 DEF Going, BlocksKept
      <4>3. NumberedIn(w, g, i) => NumberedIn(w, h, i)
        BY <3>0, <4>1 DEF NumberedIn
      <4> QED  BY <4>1, <4>2, <4>3, Zenon
    <3>2. CASE i = Len(h)
      <4>1. Opens(h, i - 1) = Opens(g, Len(g)) /\ h[i] = ev
        BY <1>1, <1>2, <3>2
      <4>2. NumbersGiven(g, n)
        BY <2>3 DEF Going
      <4>3. ev.k = "open" => MayOpen(w, g, n, ev)
        BY <2>3
      <4>4. MayOpen(w, g, n, ev) => NumberedIn(w, h, i)
        BY <3>0, <4>1, <4>2 DEF MayOpen, NumberedIn, NumbersGiven, EndsInCall
      <4>5. /\ Cardinality(OpenIn(h, i)) <= 1
            /\ h[i].k \in {"text", "call"} => h[i].at \in OpenIn(h, i)
            /\ h[i].k \in {"word", "end"} => OpenIn(h, i) = {}
        BY <1>1, <1>3, <2>3, <3>2
      <4> QED  BY <4>1, <4>3, <4>4, <4>5
    <3> QED  BY <1>1, <3>1, <3>2
  <2> QED  BY <2>1, <2>2, <2>3 DEF BlocksKept
<1>5. w # Chat => NumbersGiven(h, n2)
  <2>1. CASE ev.k = "open"
    <3>1. IsLast(Len(h), Opens(h, Len(h)))
      BY <1>1, <1>2, <1>9, <2>1 DEF IsLast
    <3> QED  BY <1>1, <2>1, <3>1 DEF NumbersGiven
  <2>2. CASE ev.k # "open"
    <3>1. Opens(h, Len(h)) = Opens(g, Len(g))
      BY <1>2, <2>2
    <3>2. \A y : IsLast(y, Opens(g, Len(g))) => h[y] = g[y]
      BY <1>1, <1>9 DEF IsLast
    <3> QED  BY <2>2, <3>1, <3>2 DEF NumbersGiven, Going
  <2> QED  BY <2>1, <2>2
<1>6. \A i \in 1 .. Len(g) : h[i].k \notin Terminal
  BY <1>1 DEF Going
<1>7. CASE ev.k \notin Terminal
  <2>1. \A i \in 1 .. Len(h) : h[i].k \notin Terminal
    BY <1>1, <1>6, <1>7
  <2> QED  BY <1>1, <1>3, <1>4, <1>5, <1>7, <2>1 DEF Going, h
<1>10. CASE ev.k \in Terminal
  <2>1. \A i \in 1 .. Len(h) : h[i].k \in Terminal => i = Len(h)
    BY <1>1, <1>6
  <2> QED  BY <1>1, <1>4, <1>10, <2>1 DEF Over, h
<1> QED  BY <1>7, <1>10

\* The block opened last, after one more event.
LEMMA LastOpened ==
    ASSUME NEW g, IsSeq(g), NEW ev
    PROVE  /\ ev.k = "open" /\ ev.kind = "call" => EndsInCall(Append(g, ev))
           /\ ev.k # "open" /\ EndsInCall(g) => EndsInCall(Append(g, ev))
<1>a. PICK h : h = Append(g, ev)
  BY Zenon
<1>1. /\ Len(g) \in Nat /\ Len(h) = Len(g) + 1 /\ h[Len(h)] = ev
      /\ \A i \in 1 .. Len(g) : h[i] = g[i]
  BY <1>a, Appending
<1>2. Opens(h, Len(h)) = IF ev.k = "open" THEN Opens(g, Len(g)) \cup {Len(h)}
                         ELSE Opens(g, Len(g))
  <2>1. Opens(Append(g, ev), Len(Append(g, ev)))
          = IF ev.k = "open" THEN Opens(g, Len(g)) \cup {Len(Append(g, ev))} ELSE Opens(g, Len(g))
    BY OpenAfter, Zenon
  <2> QED  BY ONLY <1>a, <2>1, Zenon
<1>3. Opens(g, Len(g)) \subseteq 1 .. Len(g)
  BY DEF Opens
<1>4. ASSUME ev.k = "open", ev.kind = "call"  PROVE EndsInCall(h)
  <2>1. IsLast(Len(h), Opens(h, Len(h)))
    BY <1>1, <1>2, <1>3, <1>4 DEF IsLast
  <2> QED  BY <1>1, <1>4, <2>1 DEF EndsInCall
<1>5. ASSUME ev.k # "open", EndsInCall(g)  PROVE EndsInCall(h)
  <2>1. PICK j : IsLast(j, Opens(g, Len(g))) /\ g[j].kind = "call"
    BY <1>5 DEF EndsInCall
  <2>2. IsLast(j, Opens(h, Len(h))) /\ h[j] = g[j]
    BY <1>1, <1>2, <1>3, <1>5, <2>1 DEF IsLast
  <2> QED  BY <2>1, <2>2 DEF EndsInCall
<1> QED  BY <1>4, <1>5, <1>a

LEMMA PushOpen ==
    ASSUME NEW w, NEW g, NEW n, NEW ev,
           Going(w, g, {}, n), g # <<>>, ev.k = "open", MayOpen(w, g, n, ev)
    PROVE  /\ Append(g, ev) # <<>> /\ Going(w, Append(g, ev), {ev.at}, ev.at + 1)
           /\ ev.kind = "call" => EndsInCall(Append(g, ev))
<1>1. ev.k \notin Terminal
  BY DEF Terminal
<1>2. Next1(w, g, {}, n, ev, {ev.at}, ev.at + 1)
  BY Zenon DEF Next1
<1>3. Append(g, ev) # <<>> /\ (ev.k \notin Terminal => Going(w, Append(g, ev), {ev.at}, ev.at + 1))
  BY <1>2, Pushed
<1>4. IsSeq(g)
  BY DEF Going
<1>5. ev.kind = "call" => EndsInCall(Append(g, ev))
  BY <1>4, LastOpened
<1> QED  BY <1>1, <1>3, <1>5

LEMMA PushShut ==
    ASSUME NEW w, NEW g, NEW n, NEW ev,
           Going(w, g, {ev.at}, n), g # <<>>, ev.k = "shut"
    PROVE  Append(g, ev) # <<>> /\ Going(w, Append(g, ev), {}, n)
<1>1. ev.k \notin Terminal
  BY DEF Terminal
<1>2. Next1(w, g, {ev.at}, n, ev, {}, n)
  BY DEF Next1
<1>3. Append(g, ev) # <<>> /\ (ev.k \notin Terminal => Going(w, Append(g, ev), {}, n))
  BY <1>2, Pushed
<1> QED  BY <1>1, <1>3

LEMMA PushIn ==
    ASSUME NEW w, NEW g, NEW n, NEW ev, NEW S,
           Going(w, g, S, n), g # <<>>, ev.k \in {"text", "call"}, w # Chat => S = {ev.at}
    PROVE  Append(g, ev) # <<>> /\ Going(w, Append(g, ev), S, n)
<1>1. ev.k \notin Terminal
  BY DEF Terminal
<1>2. Next1(w, g, S, n, ev, S, n)
  BY Zenon DEF Next1
<1>3. Append(g, ev) # <<>> /\ (ev.k \notin Terminal => Going(w, Append(g, ev), S, n))
  BY <1>2, Pushed
<1> QED  BY <1>1, <1>3

LEMMA PushWord ==
    ASSUME NEW w, NEW g, NEW n, NEW ev, NEW S,
           Going(w, g, S, n), g # <<>>, ev.k = "word", w # Chat => S = {}
    PROVE  Append(g, ev) # <<>> /\ Going(w, Append(g, ev), S, n)
<1>1. ev.k \notin Terminal
  BY DEF Terminal
<1>2. Next1(w, g, S, n, ev, S, n)
  BY DEF Next1
<1>3. Append(g, ev) # <<>> /\ (ev.k \notin Terminal => Going(w, Append(g, ev), S, n))
  BY <1>2, Pushed
<1> QED  BY <1>1, <1>3

LEMMA PushLast ==
    ASSUME NEW w, NEW g, NEW n, NEW ev, NEW S,
           Going(w, g, S, n), g # <<>>, ev.k \in {"end", "fail"}, w # Chat => S = {} \/ (ev.k = "fail" /\ \E b : S = {b})
    PROVE  Over(w, Append(g, ev))
<1>1. ev.k \in Terminal
  BY DEF Terminal
<1>2. Next1(w, g, S, n, ev, S, n)
  BY Zenon DEF Next1
<1>3. ev.k \in Terminal => Over(w, Append(g, ev))
  BY <1>2, Pushed
<1> QED  BY <1>1, <1>3

-----------------------------------------------------------------------------
Emitters(N, B) == [target : Wire, names : N, started : BOOLEAN, textOpen : BOOLEAN, next : Nat,
                   bytes : B, failed : BOOLEAN]
IsEmitter(e) == \E N, B : e \in Emitters(N, B)

\* The block the emitter has open, and only text is left open.
OpenNow(e) == IF e.textOpen THEN {IF e.target = Anthropic THEN 0 ELSE e.next - 1} ELSE {}

\* The emitter knows of the stream it has written what it needs; `called` when
\* the parser has heard of a call.
Flowing(e, g, called) ==
    /\ IsEmitter(e)
    /\ e.started <=> g # <<>>
    /\ e.textOpen => e.started /\ e.next > 0
    /\ e.failed => e.target = Responses /\ Over(e.target, g)
    /\ ~e.failed => Going(e.target, g, OpenNow(e), e.next)
    /\ e.target = Anthropic /\ ~e.textOpen /\ e.next > 0 => EndsInCall(g)

\* What a parser may say next: it starts once and first.
Legal(d, e, called) ==
    /\ d.k \in {"start", "text", "think", "call", "stop"}
    /\ d.k = "start" <=> ~e.started
    /\ d.k = "call" => called

Goes(x, e, g, called) ==
    /\ IsSeq(x.out) /\ x.e.target = e.target /\ x.e.started
    /\ Flowing(x.e, g \o x.out, called)

Ended(x, e, g) ==
    IsSeq(x.out) /\ IsEmitter(x.e) /\ x.e.target = e.target /\ Over(e.target, g \o x.out)

LEMMA Joining ==
    ASSUME NEW a, IsSeq(a), NEW b, IsSeq(b), NEW c, IsSeq(c)
    PROVE  (a \o b) \o c = a \o (b \o c)
<1>1. PICK S : a \in Seq(S)
  BY DEF IsSeq
<1>2. PICK T : b \in Seq(T)
  BY DEF IsSeq
<1>3. PICK U : c \in Seq(U)
  BY DEF IsSeq
<1> DEFINE V == S \cup T \cup U
<1>4. a \in Seq(V) /\ b \in Seq(V) /\ c \in Seq(V)
  BY <1>1, <1>2, <1>3, SeqMonotonic
<1> HIDE DEF V
<1> QED  BY <1>4, ConcatAssociative

LEMMA TupleOne ==
    ASSUME NEW g, IsSeq(g), NEW a
    PROVE  /\ IsSeq(<<>>) /\ g \o <<>> = g
           /\ IsSeq(<<a>>) /\ g \o <<a>> = Append(g, a) /\ IsSeq(Append(g, a))
<1>1. PICK S : g \in Seq(S)
  BY DEF IsSeq
<1>2. g \o <<>> = g
  BY <1>1, ConcatEmptySeq
<1>3. <<a>> \in Seq({a}) /\ <<>> \in Seq({a})
  OBVIOUS
<1> QED  BY <1>2, <1>3, Appending DEF IsSeq

LEMMA TupleTwo ==
    ASSUME NEW g, IsSeq(g), NEW a, NEW b
    PROVE  IsSeq(<<a, b>>) /\ g \o <<a, b>> = Append(Append(g, a), b)
<1> DEFINE T == {a, b}
<1>1. <<a>> \in Seq(T) /\ <<b>> \in Seq(T) /\ <<a, b>> \in Seq(T)
  OBVIOUS
<1>2. <<a>> \o <<b>> = <<a, b>>
  <2>1. Len(<<a>>) = 1 /\ Len(<<b>>) = 1 /\ Len(<<a, b>>) = 2
    OBVIOUS
  <2>2. <<a>> \o <<b>> \in Seq(T) /\ Len(<<a>> \o <<b>>) = 2
    BY <1>1, <2>1, ConcatProperties
  <2>3. \A i \in 1 .. 2 : (<<a>> \o <<b>>)[i] = <<a, b>>[i]
    OBVIOUS
  <2> QED  BY <1>1, <2>1, <2>2, <2>3, SeqEqual, Zenon
<1>3. IsSeq(<<a>>) /\ IsSeq(<<b>>) /\ IsSeq(<<a, b>>)
  BY <1>1, Zenon DEF IsSeq
<1>4. (g \o <<a>>) \o <<b>> = g \o (<<a>> \o <<b>>)
  <2> DEFINE s == <<a>>
             z == <<b>>
  <2>1. IsSeq(s) /\ IsSeq(z)
    BY <1>3
  <2> HIDE DEF s, z
  <2>2. (g \o s) \o z = g \o (s \o z)
    BY <2>1, Joining
  <2> QED  BY <2>2 DEF s, z
<1>5. g \o <<a>> = Append(g, a) /\ IsSeq(Append(g, a))
  BY TupleOne, Zenon
<1>6. Append(g, a) \o <<b>> = Append(Append(g, a), b)
  BY <1>5, TupleOne
<1> QED  BY <1>2, <1>3, <1>4, <1>5, <1>6

LEMMA TupleThree ==
    ASSUME NEW g, IsSeq(g), NEW a, NEW b, NEW c
    PROVE  IsSeq(<<a, b, c>>) /\ g \o <<a, b, c>> = Append(Append(Append(g, a), b), c)
<1> DEFINE T == {a, b, c}
<1>1. <<a, b>> \in Seq(T) /\ <<c>> \in Seq(T) /\ <<a, b, c>> \in Seq(T)
  OBVIOUS
<1>2. <<a, b>> \o <<c>> = <<a, b, c>>
  <2>1. Len(<<a, b>>) = 2 /\ Len(<<c>>) = 1 /\ Len(<<a, b, c>>) = 3
    OBVIOUS
  <2>2. <<a, b>> \o <<c>> \in Seq(T) /\ Len(<<a, b>> \o <<c>>) = 3
    BY <1>1, <2>1, ConcatProperties
  <2>3. \A i \in 1 .. 3 : (<<a, b>> \o <<c>>)[i] = <<a, b, c>>[i]
    OBVIOUS
  <2> QED  BY <1>1, <2>1, <2>2, <2>3, SeqEqual, Zenon
<1>3. IsSeq(<<a, b>>) /\ IsSeq(<<c>>) /\ IsSeq(<<a, b, c>>)
  BY <1>1, Zenon DEF IsSeq
<1>4. (g \o <<a, b>>) \o <<c>> = g \o (<<a, b>> \o <<c>>)
  <2> DEFINE s == <<a, b>>
             z == <<c>>
  <2>1. IsSeq(s) /\ IsSeq(z)
    BY <1>3
  <2> HIDE DEF s, z
  <2>2. (g \o s) \o z = g \o (s \o z)
    BY <2>1, Joining
  <2> QED  BY <2>2 DEF s, z
<1>5. g \o <<a, b>> = Append(Append(g, a), b) /\ IsSeq(Append(Append(g, a), b))
  <2>1. IsSeq(Append(g, a))
    BY TupleOne, Zenon
  <2>2. IsSeq(Append(Append(g, a), b))
    BY <2>1, TupleOne, Zenon
  <2> QED  BY <2>2, TupleTwo
<1>6. Append(Append(g, a), b) \o <<c>> = Append(Append(Append(g, a), b), c)
  BY <1>5, TupleOne
<1> QED  BY <1>2, <1>3, <1>4, <1>5, <1>6

\* Where nothing but a beginning was written.
LEMMA OnlyBegun ==
    ASSUME NEW w, NEW h, IsSeq(h), Len(h) \in {0, 1}, h # <<>> => h[1].k = "begin",
           \A i \in 0 .. Len(h) : OpenIn(h, i) = {} /\ Opens(h, i) = {}
    PROVE  Going(w, h, {}, 0)
<1>1. Cardinality({}) = 0
  BY FS_EmptySet
<1>2. \A i \in 1 .. Len(h) : h[i].k = "begin"
  <2>1. Len(h) = 1 => h # <<>>
    BY Appending
  <2> QED  BY <2>1
<1>3. ASSUME NEW i \in 1 .. Len(h)
      PROVE  /\ Cardinality(OpenIn(h, i)) <= 1
             /\ h[i].k \in {"text", "call"} => h[i].at \in OpenIn(h, i)
             /\ h[i].k \in {"word", "end"} => OpenIn(h, i) = {}
             /\ h[i].k = "open" => NumberedIn(w, h, i)
  <2>1. h[i].k = "begin" /\ OpenIn(h, i) = {}
    BY <1>2
  <2> QED  BY <1>1, <2>1
<1>4. BlocksKept(w, h)
  <2>1. \A i \in 2 .. Len(h) : h[i].k # "begin"
    OBVIOUS
  <2> QED  BY <1>3, <2>1 DEF BlocksKept
<1>5. \A i \in 1 .. Len(h) : h[i].k \notin Terminal
  BY <1>2 DEF Terminal
<1>6. OpenIn(h, Len(h)) = {} /\ NumbersGiven(h, 0)
  <2>1. Len(h) \in 0 .. Len(h)
    OBVIOUS
  <2>2. OpenIn(h, Len(h)) = {} /\ Opens(h, Len(h)) = {}
    BY <2>1
  <2> QED  BY <2>2 DEF NumbersGiven
<1> QED  BY <1>4, <1>5, <1>6 DEF Going

\* A stream begins.
LEMMA Begins ==
    ASSUME NEW w, NEW g, IsSeq(g), Len(g) = 0, NEW ev, ev.k = "begin"
    PROVE  /\ Going(w, g, {}, 0)
           /\ Going(w, Append(g, ev), {}, 0)
           /\ Append(g, ev) # <<>>
<1>1. OpenIn(g, 0) = {} /\ Opens(g, 0) = {}
  BY DEF OpenIn, Opens
<1>2. g = <<>>
  BY Appending
<1>3. Going(w, g, {}, 0)
  <2>1. g # <<>> => g[1].k = "begin"
    BY <1>2
  <2>2. \A i \in 0 .. Len(g) : OpenIn(g, i) = {} /\ Opens(g, i) = {}
    BY <1>1
  <2>3. Len(g) \in {0, 1}
    OBVIOUS
  <2> QED  BY <2>1, <2>2, <2>3, OnlyBegun, Zenon
<1> DEFINE h == Append(g, ev)
<1> HIDE DEF h
<1>4. IsSeq(h) /\ Len(h) = 1 /\ h[1] = ev
  <2>1. IsSeq(h) /\ Len(h) = Len(g) + 1 /\ h[Len(g) + 1] = ev
    BY Appending, Zenon DEF h
  <2>2. Len(g) + 1 = 1
    OBVIOUS
  <2> QED  BY <2>1, <2>2
<1>5. h # <<>>
  BY <1>4, Appending
<1>6. \A i \in 0 .. Len(h) : OpenIn(h, i) = {} /\ Opens(h, i) = {}
  <2>1. OpenIn(h, Len(h)) = {} /\ Opens(h, Len(h)) = {}
    BY <1>1, OpenAfter, Zenon DEF h
  <2>2. OpenIn(h, 0) = {} /\ Opens(h, 0) = {}
    BY DEF OpenIn, Opens
  <2> QED  BY <1>4, <2>1, <2>2
<1>7. Going(w, h, {}, 0)
  BY <1>4, <1>6, OnlyBegun, Zenon
<1> QED  BY <1>3, <1>5, <1>7 DEF h

LEMMA ConcatIsSeq ==
    ASSUME NEW a, IsSeq(a), NEW b, IsSeq(b)
    PROVE  IsSeq(a \o b)
<1>1. PICK S : a \in Seq(S)
  BY DEF IsSeq
<1>2. PICK T : b \in Seq(T)
  BY DEF IsSeq
<1>3. a \in Seq(S \cup T) /\ b \in Seq(S \cup T)
  BY <1>1, <1>2, SeqMonotonic
<1>4. a \o b \in Seq(S \cup T)
  BY <1>3, ConcatProperties
<1> QED  BY <1>4 DEF IsSeq

\* Three events and two after what shut the text.
LEMMA AfterThree ==
    ASSUME NEW g, IsSeq(g), NEW c, IsSeq(c), NEW a, NEW b, NEW d, NEW h, h = g \o c, NEW s, s = <<a, b, d>>
    PROVE  g \o (c \o s) = Append(Append(Append(h, a), b), d)
<1>1. IsSeq(s) /\ IsSeq(h)
  <2>1. IsSeq(s)
    BY TupleThree
  <2> QED  BY <2>1, ConcatIsSeq
<1>3. h \o s = Append(Append(Append(h, a), b), d)
  BY <1>1, TupleThree
<1>4. (g \o c) \o s = g \o (c \o s)
  BY ONLY <1>1, IsSeq(g), IsSeq(c), Joining
<1> QED  BY <1>3, <1>4, Zenon

-----------------------------------------------------------------------------
(* What the emitters write *)

\* Nothing, or what shuts the one open block.
Shuts(c, S) == \/ c = <<>> /\ S = {}
               \/ \E ev : c = <<ev>> /\ ev.k = "shut" /\ S = {ev.at}

LEMMA ShutPushes ==
    ASSUME NEW w, NEW g, NEW S, NEW n, n \in Nat,
           Going(w, g, S, n), g # <<>>, NEW c, Shuts(c, S), NEW h, h = g \o c
    PROVE  IsSeq(c) /\ IsSeq(h) /\ h # <<>> /\ Going(w, h, {}, n)
<1>0. IsSeq(g)
  BY DEF Going
<1>1. CASE c = <<>> /\ S = {}
  BY <1>0, <1>1, TupleOne, Zenon
<1>2. ASSUME NEW ev, c = <<ev>>, ev.k = "shut", S = {ev.at}
      PROVE  IsSeq(c) /\ IsSeq(h) /\ h # <<>> /\ Going(w, h, {}, n)
  <2>1. h = Append(g, ev) /\ IsSeq(c) /\ IsSeq(Append(g, ev))
    BY <1>0, <1>2, TupleOne
  <2>2. Going(w, g, {ev.at}, n)
    BY <1>2
  <2>3. Append(g, ev) # <<>> /\ Going(w, Append(g, ev), {}, n)
    BY <1>2, <2>2, PushShut
  <2> QED  BY <2>1, <2>3
<1> QED  BY <1>1, <1>2 DEF Shuts

LEMMA CallPushes ==
    ASSUME NEW w, NEW g, NEW S, NEW n, n \in Nat,
           Going(w, g, S, n), g # <<>>, NEW c, Shuts(c, S),
           NEW a, a.k = "open", a.kind = "call", a.at = n, NEW b, b.k = "call", b.at = n, NEW d, d.k = "shut", d.at = n,
           NEW out, out = c \o <<a, b, d>>, NEW h, h = g \o out
    PROVE  IsSeq(out) /\ h # <<>> /\ Going(w, h, {}, n + 1) /\ EndsInCall(h)
<1>0. IsSeq(g)
  BY DEF Going
<1>a. PICK f : f = g \o c
  BY Zenon
<1>1. IsSeq(c) /\ IsSeq(f) /\ f # <<>> /\ Going(w, f, {}, n)
  BY <1>a, ShutPushes, Zenon
<1>b. PICK k : k = Append(f, a)
  BY Zenon
<1>c. PICK l : l = Append(k, b)
  BY Zenon
<1>2. IsSeq(out) /\ g \o out = Append(l, d)
  <2>a. PICK s : s = <<a, b, d>>
    OBVIOUS
  <2>b. IsSeq(g) /\ IsSeq(c)
    BY ONLY <1>0, <1>1
  <2>c. IsSeq(s)
    BY ONLY <1>0, <2>a, TupleThree
  <2>d. IsSeq(c \o s)
    BY ONLY <2>b, <2>c, ConcatIsSeq
  <2>e. g \o (c \o s) = Append(Append(Append(f, a), b), d)
    BY ONLY <1>a, <2>a, <2>b, AfterThree, SMTT(40)
  <2>f. out = c \o s
    BY ONLY <2>a, out = c \o <<a, b, d>>
  <2>1. IsSeq(out) /\ g \o out = Append(Append(Append(f, a), b), d)
    BY ONLY <2>d, <2>e, <2>f, Zenon
  <2> QED  BY ONLY <2>1, <1>b, <1>c
<1>6. MayOpen(w, f, n, a)
  BY Zenon DEF MayOpen
<1>3. k # <<>> /\ Going(w, k, {n}, n + 1) /\ EndsInCall(k)
  BY <1>1, <1>6, <1>b, PushOpen, Zenon
<1>4. l # <<>> /\ Going(w, l, {n}, n + 1) /\ EndsInCall(l)
  <2>1. l # <<>> /\ Going(w, l, {n}, n + 1)
    BY <1>3, <1>c, PushIn, Zenon
  <2>2. IsSeq(k)
    BY <1>3 DEF Going
  <2> QED  BY <1>3, <1>c, <2>1, <2>2, LastOpened
<1>5. Append(l, d) # <<>> /\ Going(w, Append(l, d), {}, n + 1) /\ EndsInCall(Append(l, d))
  <2>1. Append(l, d) # <<>> /\ Going(w, Append(l, d), {}, n + 1)
    BY <1>4, PushShut, Zenon
  <2>2. IsSeq(l)
    BY <1>4 DEF Going
  <2> QED  BY <1>4, <2>1, <2>2, LastOpened
<1> QED  BY <1>2, <1>5, Zenon

LEMMA StopPushes ==
    ASSUME NEW w, NEW g, NEW S, NEW n, n \in Nat,
           Going(w, g, S, n), g # <<>>, NEW c, Shuts(c, S),
           NEW a, a.k = "word", NEW b, b.k = "end",
           NEW out, out = c \o <<a, b>>, NEW h, h = g \o out
    PROVE  IsSeq(out) /\ Over(w, h)
<1>0. IsSeq(g)
  BY DEF Going
<1>a. PICK f : f = g \o c
  BY Zenon
<1>1. IsSeq(c) /\ IsSeq(f) /\ f # <<>> /\ Going(w, f, {}, n)
  BY <1>a, ShutPushes, Zenon
<1>b. PICK k : k = Append(f, a)
  BY Zenon
<1>2. IsSeq(out) /\ g \o out = Append(k, b)
  <2>a. PICK s : s = <<a, b>>
    OBVIOUS
  <2>b. IsSeq(g) /\ IsSeq(c)
    BY ONLY <1>0, <1>1
  <2>c. IsSeq(s)
    BY ONLY <1>0, <2>a, TupleTwo
  <2>d. IsSeq(c \o s)
    BY ONLY <2>b, <2>c, ConcatIsSeq
  <2>e. g \o (c \o s) = Append(Append(f, a), b)
    <3>1. (g \o c) \o s = g \o (c \o s)
      BY ONLY <2>b, <2>c, Joining
    <3>2. IsSeq(f)
      BY ONLY <1>1
    <3>3. f \o s = Append(Append(f, a), b)
      BY ONLY <2>a, <3>2, TupleTwo
    <3> QED  BY ONLY <1>a, <3>1, <3>3, Zenon
  <2>f. out = c \o s
    BY ONLY <2>a, out = c \o <<a, b>>
  <2>1. IsSeq(out) /\ g \o out = Append(Append(f, a), b)
    BY ONLY <2>d, <2>e, <2>f, Zenon
  <2> QED  BY ONLY <2>1, <1>b
<1>3. k # <<>> /\ Going(w, k, {}, n)
  BY <1>1, <1>b, PushWord, Zenon
<1>4. Over(w, Append(k, b))
  BY <1>3, PushLast, Zenon
<1> QED  BY <1>2, <1>4, Zenon

LEMMA TextPushes ==
    ASSUME NEW w, w # Chat, NEW g, NEW n, n \in Nat,
           Going(w, g, {}, n), g # <<>>,
           NEW a, a.k = "open", MayOpen(w, g, n, a), NEW b, b.k = "text", b.at = a.at,
           NEW out, out = <<a>> \o <<b>>, NEW h, h = g \o out
    PROVE  IsSeq(out) /\ h # <<>> /\ Going(w, h, {a.at}, a.at + 1)
<1>0. IsSeq(g)
  BY DEF Going
<1>a. PICK s : s = <<a>>
  OBVIOUS
<1>b. PICK z : z = <<b>>
  OBVIOUS
<1>c. PICK k : k = Append(g, a)
  BY Zenon
<1>1. IsSeq(s) /\ g \o s = k /\ IsSeq(k)
  BY ONLY <1>0, <1>a, <1>c, TupleOne
<1>2. IsSeq(z) /\ k \o z = Append(k, b)
  BY ONLY <1>1, <1>b, TupleOne
<1>d. IsSeq(g) /\ IsSeq(s) /\ IsSeq(z)
  BY ONLY <1>0, <1>1, <1>2
<1>3. (g \o s) \o z = g \o (s \o z)
  BY ONLY <1>d, Joining
<1>4. IsSeq(s \o z)
  BY ONLY <1>d, ConcatIsSeq
<1>5. out = s \o z
  BY <1>a, <1>b
<1>6. k # <<>> /\ Going(w, k, {a.at}, a.at + 1)
  BY <1>c, PushOpen, Zenon
<1>7. Append(k, b) # <<>> /\ Going(w, Append(k, b), {a.at}, a.at + 1)
  BY <1>6, PushIn, Zenon
<1>8. h = Append(k, b)
  BY ONLY <1>1, <1>2, <1>3, <1>5, h = g \o out, Zenon
<1> QED  BY <1>4, <1>5, <1>7, <1>8, Zenon


-----------------------------------------------------------------------------
(* What an emitter writes of one delta, wire by wire.                      *)

LEMMA GoingOn ==
    ASSUME NEW w, NEW g, NEW S, NEW n, Going(w, g, S, n),
           g = <<>>, NEW ev, ev.k = "begin"
    PROVE  Append(g, ev) # <<>> /\ Going(w, Append(g, ev), S, n)
<1>1. IsSeq(g) /\ Len(g) = 0
  <2>1. IsSeq(g)
    BY DEF Going
  <2> QED  BY <2>1, Appending
<1>2. /\ Going(w, g, {}, 0) /\ Going(w, Append(g, ev), {}, 0)
      /\ Append(g, ev) # <<>>
  BY <1>1, Begins, Zenon
<1>3. w # Chat => S = {}
  BY <1>2 DEF Going
<1>4. w # Chat => n = 0
  <2>1. Opens(g, Len(g)) = {}
    BY <1>1 DEF Opens
  <2> QED  BY <2>1 DEF Going, NumbersGiven, IsLast
<1> QED  BY <1>2, <1>3, <1>4, Zenon DEF Going

LEMMA GoingLoose ==
    ASSUME NEW w, NEW g, NEW S, NEW n, Going(w, g, S, n),
           NEW m, w # Chat => m = n
    PROVE  Going(w, g, S, m)
BY DEF Going

LEMMA EmitterIs ==
    ASSUME NEW e, IsEmitter(e)
    PROVE  /\ IsEmitter([e EXCEPT !.started = TRUE])
           /\ [e EXCEPT !.started = TRUE].started = TRUE
           /\ [e EXCEPT !.started = TRUE].target = e.target
           /\ [e EXCEPT !.started = TRUE].next = e.next
           /\ [e EXCEPT !.started = TRUE].textOpen = e.textOpen
           /\ [e EXCEPT !.started = TRUE].failed = e.failed
<1>1. PICK N, B : e \in Emitters(N, B)
  BY DEF IsEmitter
<1> DEFINE f == [e EXCEPT !.started = TRUE]
<1>2. f \in Emitters(N, B)
  BY <1>1, Zenon DEF Emitters
<1>3. IsEmitter(f)
  BY <1>2 DEF IsEmitter
<1>4. /\ f.started = TRUE /\ f.target = e.target /\ f.next = e.next
      /\ f.textOpen = e.textOpen /\ f.failed = e.failed
  BY <1>1 DEF Emitters
<1> QED  BY <1>3, <1>4

LEMMA EmitterHas ==
    ASSUME NEW e, IsEmitter(e)
    PROVE  /\ e.target \in Wire /\ e.next \in Nat
           /\ e.started \in BOOLEAN /\ e.textOpen \in BOOLEAN /\ e.failed \in BOOLEAN
BY DEF IsEmitter, Emitters

\* A writer that neither failed nor began writes the beginning.
LEMMA StartWrites ==
    ASSUME NEW e, NEW g, NEW called, Flowing(e, g, called), ~e.started,
           NEW x, x = [e |-> [e EXCEPT !.started = TRUE], out |-> <<Ev("begin", 0)>>]
    PROVE  Goes(x, e, g, called)
<1> DEFINE f == [e EXCEPT !.started = TRUE]
           ev == Ev("begin", 0)
<1>1. /\ IsEmitter(f) /\ f.started /\ f.target = e.target /\ f.next = e.next
      /\ f.textOpen = e.textOpen /\ f.failed = e.failed
  BY EmitterIs DEF Flowing
<1>2. x.e = f /\ x.out = <<ev>>
  OBVIOUS
<1>3. ev.k = "begin"
  BY DEF Ev
<1>4. g = <<>> /\ ~e.textOpen /\ ~e.failed
  <2>1. g = <<>> /\ ~e.textOpen
    BY DEF Flowing
  <2>2. e.failed => g # <<>>
    BY DEF Flowing, Over
  <2> QED  BY <2>1, <2>2
<1> HIDE DEF f, ev
<1>5. Going(e.target, g, OpenNow(e), e.next) /\ IsSeq(g)
  BY <1>4 DEF Flowing, Going
<1>6. Append(g, ev) # <<>> /\ Going(e.target, Append(g, ev), OpenNow(e), e.next)
  BY <1>3, <1>4, <1>5, GoingOn, Zenon
<1>7. IsSeq(<<ev>>) /\ g \o <<ev>> = Append(g, ev)
  BY <1>5, TupleOne
<1>8. OpenNow(f) = OpenNow(e)
  BY <1>1 DEF OpenNow
<1>10. e.target = Anthropic /\ e.next > 0 => EndsInCall(Append(g, ev))
  <2>1. ev.k # "open"
    BY <1>3
  <2>2. e.target = Anthropic /\ e.next > 0 => EndsInCall(g)
    BY <1>4 DEF Flowing
  <2> QED  BY <1>5, <2>1, <2>2, LastOpened, Zenon
<1>9. Flowing(f, Append(g, ev), called)
  BY <1>1, <1>4, <1>6, <1>8, <1>10 DEF Flowing
<1> QED  BY <1>1, <1>2, <1>7, <1>9, Zenon DEF Goes

\* Nothing is written.
LEMMA NothingWrites ==
    ASSUME NEW e, NEW g, NEW called, Flowing(e, g, called), e.started,
           NEW x, x = [e |-> e, out |-> <<>>]
    PROVE  Goes(x, e, g, called)
<1>1. x.e = e /\ x.out = <<>>
  OBVIOUS
<1>2. IsSeq(g)
  BY DEF Flowing, Going, Over
<1>3. IsSeq(<<>>) /\ g \o <<>> = g
  BY <1>2, TupleOne, Zenon
<1> QED  BY <1>1, <1>3 DEF Goes

\* One more event, and the writer as it was.
LEMMA OneWrites ==
    ASSUME NEW e, NEW g, NEW called, Flowing(e, g, called), e.started, ~e.failed,
           NEW ev, ev.k \in {"text", "call"}, e.target # Chat => OpenNow(e) = {ev.at},
           NEW x, x = [e |-> e, out |-> <<ev>>]
    PROVE  Goes(x, e, g, called)
<1>1. x.e = e /\ x.out = <<ev>>
  OBVIOUS
<1>2. Going(e.target, g, OpenNow(e), e.next) /\ g # <<>>
  BY DEF Flowing
<1>3. IsSeq(g)
  BY <1>2 DEF Going
<1>4. IsSeq(<<ev>>) /\ g \o <<ev>> = Append(g, ev)
  BY <1>3, TupleOne
<1>5. Append(g, ev) # <<>> /\ Going(e.target, Append(g, ev), OpenNow(e), e.next)
  BY <1>2, PushIn
<1>6. Flowing(e, Append(g, ev), called)
  <2>1. e.target = Anthropic => e.textOpen
    BY DEF OpenNow, Anthropic, Chat
  <2> QED  BY <1>5, <2>1 DEF Flowing
<1> QED  BY <1>1, <1>4, <1>6, Zenon DEF Goes

LEMMA ChatWrites ==
    ASSUME NEW e, NEW g, NEW called, Flowing(e, g, called), e.target = Chat,
           NEW d, Legal(d, e, called), d.k # "stop"
    PROVE  Goes(write_chat(e, d), e, g, called)
<1>0. ~e.failed
  BY DEF Flowing, Anthropic, Chat, Responses
<1>1. CASE d.k = "start"
  <2>1. write_chat(e, d) = [e |-> [e EXCEPT !.started = TRUE], out |-> <<Ev("begin", 0)>>]
    BY <1>1 DEF write_chat
  <2>2. ~e.started
    BY <1>1 DEF Legal
  <2> QED  BY <2>1, <2>2, StartWrites
<1>2. CASE d.k = "think"
  <2>1. write_chat(e, d) = [e |-> e, out |-> <<>>]
    BY <1>2 DEF write_chat
  <2>2. e.started
    BY <1>2, EmitterHas DEF Legal, Flowing
  <2> QED  BY <2>1, <2>2, NothingWrites
<1>3. CASE d.k \in {"text", "call"}
  <2>1. PICK ev : /\ write_chat(e, d) = [e |-> e, out |-> <<ev>>]
                  /\ ev.k \in {"text", "call"}
    <3>1. CASE d.k = "text"
      <4>1. write_chat(e, d) = [e |-> e, out |-> <<EText(0, d.t)>>]
        BY <3>1 DEF write_chat
      <4>2. EText(0, d.t).k \in {"text", "call"}
        BY DEF EText
      <4> QED  BY <4>1, <4>2, Zenon
    <3>2. CASE d.k = "call"
      <4>1. write_chat(e, d) = [e |-> e, out |-> <<ECall(d.at, d, Chat, d.name)>>]
        BY <3>2 DEF write_chat
      <4>2. ECall(d.at, d, Chat, d.name).k \in {"text", "call"}
        BY DEF ECall
      <4> QED  BY <4>1, <4>2, Zenon
    <3> QED  BY <1>3, <3>1, <3>2
  <2>2. e.started
    BY <1>3, EmitterHas DEF Legal, Flowing
  <2> QED  BY <1>0, <2>1, <2>2, OneWrites
<1> QED  BY <1>1, <1>2, <1>3 DEF Legal

LEMMA TextShutIs ==
    ASSUME NEW e, IsEmitter(e), e.textOpen => e.next > 0
    PROVE  /\ Shuts(TextShut(e).out, OpenNow(e))
           /\ IsEmitter(TextShut(e).e)
           /\ TextShut(e).e.target = e.target /\ TextShut(e).e.next = e.next
           /\ TextShut(e).e.started = e.started /\ TextShut(e).e.failed = e.failed
           /\ TextShut(e).e.textOpen = FALSE
<1>1. CASE ~e.textOpen
  <2>1. TextShut(e) = [e |-> e, out |-> <<>>]
    BY <1>1 DEF TextShut
  <2>2. OpenNow(e) = {}
    BY <1>1 DEF OpenNow
  <2> QED  BY <1>1, <2>1, <2>2 DEF Shuts, IsEmitter
<1>2. CASE e.textOpen
  <2> DEFINE f == [e EXCEPT !.textOpen = FALSE]
             ev == Ev("shut", IF e.target = Anthropic THEN 0 ELSE e.next - 1)
  <2>1. TextShut(e) = [e |-> f, out |-> <<ev>>]
    BY <1>2 DEF TextShut
  <2>2. ev.k = "shut" /\ OpenNow(e) = {ev.at}
    BY <1>2 DEF OpenNow, Ev
  <2>3. /\ IsEmitter(f) /\ f.target = e.target /\ f.next = e.next /\ f.started = e.started
        /\ f.failed = e.failed /\ f.textOpen = FALSE
    <3>1. PICK N, B : e \in Emitters(N, B)
      BY DEF IsEmitter
    <3>2. f \in Emitters(N, B)
      BY <3>1, Zenon DEF Emitters
    <3>3. IsEmitter(f)
      BY <3>2 DEF IsEmitter
    <3>4. /\ f.target = e.target /\ f.next = e.next /\ f.started = e.started
          /\ f.failed = e.failed /\ f.textOpen = FALSE
      BY <3>1 DEF Emitters
    <3> QED  BY <3>3, <3>4
  <2> HIDE DEF f, ev
  <2>4. Shuts(<<ev>>, OpenNow(e))
    BY <2>2 DEF Shuts
  <2> QED  BY <2>1, <2>3, <2>4
<1> QED  BY <1>1, <1>2, Zenon

\* What a call writes, what the end does, and what text does where none is open.
IsCall(x, e) == \E a, b, d :
    /\ a.k = "open" /\ a.kind = "call" /\ a.at = e.next
    /\ b.k = "call" /\ b.at = e.next
    /\ d.k = "shut" /\ d.at = e.next
    /\ x.out = TextShut(e).out \o <<a, b, d>>
    /\ x.e = [TextShut(e).e EXCEPT !.next = @ + 1]
IsStop(x, e) == \E a, b :
    /\ a.k = "word" /\ b.k = "end"
    /\ x.out = TextShut(e).out \o <<a, b>> /\ x.e = TextShut(e).e
IsText(x, e, g) == \E a, b :
    /\ a.k = "open" /\ MayOpen(e.target, g, e.next, a)
    /\ b.k = "text" /\ b.at = a.at
    /\ IsEmitter(x.e) /\ x.e.target = e.target /\ x.e.started /\ ~x.e.failed /\ x.e.textOpen /\ x.e.next > 0
    /\ x.e.next = a.at + 1
    /\ OpenNow(x.e) = {a.at}
    /\ x.out = <<a>> \o <<b>>

LEMMA CallWrites ==
    ASSUME NEW e, NEW g, NEW called, called,
           Flowing(e, g, called), e.started, ~e.failed, NEW x, IsCall(x, e)
    PROVE  Goes(x, e, g, called)
<1>p. PICK a, b, d :
        /\ a.k = "open" /\ a.kind = "call" /\ a.at = e.next
        /\ b.k = "call" /\ b.at = e.next
        /\ d.k = "shut" /\ d.at = e.next
        /\ x.out = TextShut(e).out \o <<a, b, d>>
        /\ x.e = [TextShut(e).e EXCEPT !.next = @ + 1]
  BY Zenon DEF IsCall
<1>q. PICK out : out = x.out
  OBVIOUS
<1>0. IsEmitter(e) /\ (e.textOpen => e.next > 0)
  BY DEF Flowing
<1>a. PICK f : f = TextShut(e).e
  OBVIOUS
<1>b. PICK c : c = TextShut(e).out
  OBVIOUS
<1>c. PICK h : h = g \o out
  BY Zenon
<1>d. PICK f2 : f2 = [f EXCEPT !.next = @ + 1]
  BY Zenon
<1>1. /\ Shuts(c, OpenNow(e))
      /\ IsEmitter(f) /\ f.target = e.target /\ f.next = e.next
      /\ f.started = e.started /\ f.failed = e.failed /\ f.textOpen = FALSE
  BY <1>0, <1>a, <1>b, TextShutIs, Zenon
<1>2. /\ IsEmitter(f2) /\ f2.target = e.target /\ f2.next = e.next + 1
      /\ f2.started = e.started /\ f2.failed = e.failed /\ f2.textOpen = FALSE
  <2>1. IsEmitter(f2) /\ f2.next = f.next + 1 /\ f2.target = f.target /\ f2.started = f.started
        /\ f2.failed = f.failed /\ f2.textOpen = f.textOpen
    <3>1. PICK N, B : f \in Emitters(N, B)
      BY <1>1 DEF IsEmitter
    <3>2. f2 \in Emitters(N, B)
      BY ONLY <1>d, <3>1 DEF Emitters
    <3>3. IsEmitter(f2)
      BY <3>2 DEF IsEmitter
    <3>4. f2.next = f.next + 1 /\ f2.target = f.target /\ f2.started = f.started
          /\ f2.failed = f.failed /\ f2.textOpen = f.textOpen
      BY ONLY <1>d, <3>1 DEF Emitters
    <3> QED  BY <3>3, <3>4
  <2> QED  BY <1>1, <2>1
<1>3. Going(e.target, g, OpenNow(e), e.next) /\ g # <<>> /\ e.next \in Nat
  BY <1>0, EmitterHas DEF Flowing
<1>4. out = c \o <<a, b, d>>
  BY <1>b, <1>p, <1>q
<1>5. IsSeq(out) /\ h # <<>> /\ Going(e.target, h, {}, e.next + 1) /\ EndsInCall(h)
  <2>1. PICK w, S, n : w = e.target /\ S = OpenNow(e) /\ n = e.next
    OBVIOUS
  <2>2. /\ Going(w, g, S, n) /\ g # <<>> /\ n \in Nat /\ Shuts(c, S)
        /\ a.at = n /\ b.at = n /\ d.at = n /\ a.k = "open" /\ a.kind = "call" /\ b.k = "call" /\ d.k = "shut"
    BY <1>1, <1>3, <1>p, <2>1
  <2>3. IsSeq(out) /\ h # <<>> /\ Going(w, h, {}, n + 1) /\ EndsInCall(h)
    BY ONLY <1>4, <1>c, <2>2, CallPushes, Zenon
  <2> QED  BY <2>1, <2>3
<1>6. OpenNow(f2) = {}
  BY <1>2 DEF OpenNow
<1>7. Flowing(f2, h, called)
  BY <1>2, <1>5, <1>6 DEF Flowing
<1>8. x.e = f2 /\ x.out = out
  BY ONLY <1>a, <1>d, <1>p, <1>q
<1> QED  BY <1>2, <1>5, <1>7, <1>8, <1>c, Zenon DEF Goes

LEMMA StopWrites ==
    ASSUME NEW e, NEW g, NEW called,
           Flowing(e, g, called), e.started, ~e.failed, NEW x, IsStop(x, e)
    PROVE  Ended(x, e, g)
<1>p. PICK a, b : /\ a.k = "word" /\ b.k = "end"
                  /\ x.out = TextShut(e).out \o <<a, b>> /\ x.e = TextShut(e).e
  BY Zenon DEF IsStop
<1>q. PICK out : out = x.out
  OBVIOUS
<1>0. IsEmitter(e) /\ (e.textOpen => e.next > 0)
  BY DEF Flowing
<1>b. PICK c : c = TextShut(e).out
  OBVIOUS
<1>c. PICK h : h = g \o out
  BY Zenon
<1>1. Shuts(c, OpenNow(e)) /\ IsEmitter(TextShut(e).e) /\ TextShut(e).e.target = e.target
  BY <1>0, <1>b, TextShutIs, Zenon
<1>3. Going(e.target, g, OpenNow(e), e.next) /\ g # <<>> /\ e.next \in Nat
  BY <1>0, EmitterHas DEF Flowing
<1>4. out = c \o <<a, b>>
  BY <1>b, <1>p, <1>q
<1>5. IsSeq(out) /\ Over(e.target, h)
  <2>1. PICK w, S, n : w = e.target /\ S = OpenNow(e) /\ n = e.next
    OBVIOUS
  <2>2. /\ Going(w, g, S, n) /\ g # <<>> /\ n \in Nat /\ Shuts(c, S)
        /\ a.k = "word" /\ b.k = "end"
    BY <1>1, <1>3, <1>p, <2>1
  <2>3. IsSeq(out) /\ Over(w, h)
    BY ONLY <1>4, <1>c, <2>2, StopPushes, Zenon
  <2> QED  BY <2>1, <2>3
<1>6. x.e = TextShut(e).e /\ x.out = out
  BY <1>p, <1>q
<1> QED  BY <1>1, <1>5, <1>6, <1>c DEF Ended

\* Text where none is open.
LEMMA TextWrites ==
    ASSUME NEW e, NEW g, NEW called,
           Flowing(e, g, called), e.started, ~e.failed, ~e.textOpen, e.target # Chat,
           NEW x, IsText(x, e, g)
    PROVE  Goes(x, e, g, called)
<1>p. PICK a, b :
        /\ a.k = "open" /\ MayOpen(e.target, g, e.next, a)
        /\ b.k = "text" /\ b.at = a.at
        /\ IsEmitter(x.e) /\ x.e.target = e.target /\ x.e.started /\ ~x.e.failed /\ x.e.textOpen /\ x.e.next > 0
        /\ x.e.next = a.at + 1
        /\ OpenNow(x.e) = {a.at}
        /\ x.out = <<a>> \o <<b>>
  BY Zenon DEF IsText
<1>a. PICK f, out : f = x.e /\ out = x.out
  OBVIOUS
<1>b. PICK w, n : w = e.target /\ n = e.next
  OBVIOUS
<1>c. PICK h : h = g \o out
  BY Zenon
<1>1. OpenNow(e) = {}
  BY DEF OpenNow
<1>3. Going(w, g, {}, n) /\ g # <<>> /\ n \in Nat /\ w # Chat
  BY <1>1, <1>b, EmitterHas DEF Flowing
<1>4. a.k = "open" /\ MayOpen(w, g, n, a) /\ b.k = "text" /\ b.at = a.at /\ out = <<a>> \o <<b>>
  BY <1>a, <1>b, <1>p
<1>5. IsSeq(out) /\ h # <<>> /\ Going(w, h, {a.at}, a.at + 1)
  BY ONLY <1>3, <1>4, <1>c, TextPushes, Zenon
<1>6. /\ IsEmitter(f) /\ f.target = w /\ f.started /\ ~f.failed /\ f.textOpen /\ f.next > 0
      /\ f.next = a.at + 1
      /\ OpenNow(f) = {a.at}
  BY <1>a, <1>b, <1>p
<1>7. Going(w, h, {a.at}, f.next)
  BY ONLY <1>5, <1>6
<1>8. Flowing(f, h, called)
  BY ONLY <1>5, <1>6, <1>7 DEF Flowing
<1> QED  BY ONLY <1>5, <1>6, <1>8, <1>a, <1>b, <1>c DEF Goes

LEMMA JoinOne ==
    ASSUME NEW b
    PROVE  <<>> \o <<b>> = <<b>>
<1>1. PICK z : z = <<b>>
  BY Zenon
<1>2. z \in Seq({b})
  BY <1>1
<1>3. <<>> \o z = z
  BY <1>2, ConcatEmptySeq
<1> QED  BY <1>1, <1>3

LEMMA MessagesWrites ==
    ASSUME NEW e, NEW g, NEW called, Flowing(e, g, called),
           e.target = Anthropic, NEW d, Legal(d, e, called), d.k # "stop"
    PROVE  Goes(write_anthropic(e, d), e, g, called)
<1>0. ~e.failed /\ IsEmitter(e) /\ e.target # Chat
  BY DEF Flowing, Anthropic, Chat, Responses
<1>1. CASE d.k = "start"
  <2>2. ~e.started
    BY <1>1 DEF Legal
  <2>1. write_anthropic(e, d) = [e |-> [e EXCEPT !.started = TRUE], out |-> <<Ev("begin", 0)>>]
    BY <1>1, <2>2 DEF write_anthropic
  <2> QED  BY <2>1, <2>2, StartWrites
<1>b. ASSUME d.k # "start"  PROVE e.started
  BY <1>0, <1>b, EmitterHas DEF Legal
<1>2. CASE d.k = "think"
  <2>1. write_anthropic(e, d) = [e |-> e, out |-> <<>>]
    BY <1>2 DEF write_anthropic
  <2> QED  BY <1>2, <1>b, <2>1, NothingWrites
<1>3. CASE d.k = "text" /\ e.textOpen
  <2>1. write_anthropic(e, d) = [e |-> e, out |-> <<>> \o <<EText(0, d.t)>>]
    BY <1>3 DEF write_anthropic
  <2>2. PICK ev : ev = EText(0, d.t)
    OBVIOUS
  <2>3. ev.k \in {"text", "call"} /\ OpenNow(e) = {ev.at}
    BY <1>3, <2>2 DEF EText, OpenNow
  <2>4. <<>> \o <<ev>> = <<ev>>
    BY JoinOne
  <2>5. write_anthropic(e, d) = [e |-> e, out |-> <<ev>>]
    BY ONLY <2>1, <2>2, <2>4
  <2> QED  BY <1>0, <1>3, <1>b, <2>3, <2>5, OneWrites
<1>4. CASE d.k = "text" /\ ~e.textOpen
  <2> DEFINE f == [e EXCEPT !.textOpen = TRUE, !.next = 1]
             a == Opened("text", 0)
             b == EText(0, d.t)
  <2>1. write_anthropic(e, d) = [e |-> f, out |-> <<a>> \o <<b>>]
    BY <1>4 DEF write_anthropic
  <2>2. a.k = "open" /\ a.at = 0 /\ a.kind = "text" /\ b.k = "text" /\ b.at = 0
    BY DEF Opened, EText
  <2>3. /\ IsEmitter(f) /\ f.target = e.target /\ f.started = e.started /\ f.failed = e.failed
        /\ f.textOpen = TRUE /\ f.next = 1
    <3>1. PICK N, B : e \in Emitters(N, B)
      BY <1>0 DEF IsEmitter
    <3>2. f \in Emitters(N, B)
      BY ONLY <3>1, Zenon DEF Emitters
    <3>3. IsEmitter(f)
      BY ONLY <3>2 DEF IsEmitter
    <3>4. /\ f.target = e.target /\ f.started = e.started /\ f.failed = e.failed
          /\ f.textOpen = TRUE /\ f.next = 1
      BY ONLY <3>1 DEF Emitters
    <3> QED  BY <3>3, <3>4
  <2> HIDE DEF f, a, b
  <2>4. MayOpen(e.target, g, e.next, a)
    <3>1. e.next \in Nat
      BY <1>0, EmitterHas
    <3>2. e.next = 0 \/ EndsInCall(g)
      BY <1>4, <3>1 DEF Flowing
    <3> QED  BY ONLY <2>2, <3>2, e.target = Anthropic DEF MayOpen
  <2>5. OpenNow(f) = {a.at}
    BY <2>2, <2>3 DEF OpenNow
  <2>6. PICK x : x = write_anthropic(e, d)
    OBVIOUS
  <2>7. x.e = f /\ x.out = <<a>> \o <<b>>
    BY <2>1, <2>6
  <2>8. IsText(x, e, g)
    <3>1. f.started /\ ~f.failed
      BY <1>0, <1>4, <1>b, <2>3
    <3>2. /\ a.k = "open" /\ MayOpen(e.target, g, e.next, a)
          /\ b.k = "text" /\ b.at = a.at
          /\ IsEmitter(x.e) /\ x.e.target = e.target /\ x.e.started /\ ~x.e.failed /\ x.e.textOpen /\ x.e.next > 0
          /\ x.e.next = a.at + 1
          /\ OpenNow(x.e) = {a.at}
      BY ONLY <2>2, <2>3, <2>4, <2>5, <2>7, <3>1
    <3>3. x.out = <<a>> \o <<b>>
      BY <2>7
    <3> QED  BY ONLY <3>2, <3>3, Zenon DEF IsText
  <2>9. Goes(x, e, g, called)
    BY <1>0, <1>4, <1>b, <2>8, TextWrites
  <2> QED  BY ONLY <2>6, <2>9
<1>5. CASE d.k = "call"
  <2> DEFINE d2 == [d EXCEPT !.n = IF @ = Parts THEN @ ELSE 0]
  <2>1. PICK a, b, c : /\ a = Opened("call", e.next)
                       /\ b = ECall(e.next, d2, Anthropic, d.name)
                       /\ c = Ev("shut", e.next)
    OBVIOUS
  <2>2. /\ a.k = "open" /\ a.kind = "call" /\ a.at = e.next /\ b.k = "call" /\ b.at = e.next
        /\ c.k = "shut" /\ c.at = e.next
    BY <2>1 DEF Ev, Opened, ECall
  <2>3. PICK x : x = write_anthropic(e, d)
    OBVIOUS
  <2>4. /\ x.e = [TextShut(e).e EXCEPT !.next = @ + 1]
        /\ x.out = TextShut(e).out \o <<a, b, c>>
    <3>1. write_anthropic(e, d) =
            [e |-> [TextShut(e).e EXCEPT !.next = @ + 1],
             out |-> TextShut(e).out \o <<Opened("call", e.next), ECall(e.next, d2, Anthropic, d.name), Ev("shut", e.next)>>]
      BY <1>5 DEF write_anthropic
    <3> QED  BY ONLY <2>1, <2>3, <3>1
  <2>5. called /\ e.started
    BY <1>5, <1>b DEF Legal
  <2>6. IsCall(x, e)
    BY ONLY <2>2, <2>4, Zenon DEF IsCall
  <2>7. Goes(x, e, g, called)
    BY <1>0, <2>5, <2>6, CallWrites, Zenon
  <2> QED  BY ONLY <2>3, <2>7
<1> QED  BY <1>1, <1>2, <1>3, <1>4, <1>5 DEF Legal

\* No writer that is done says more.
LEMMA FailedWrites ==
    ASSUME NEW e, NEW g, NEW called, Flowing(e, g, called), e.failed,
           NEW x, x.e = e, x.out = <<>>
    PROVE  Goes(x, e, g, called) /\ Ended(x, e, g)
<1>1. Over(e.target, g) /\ IsSeq(g) /\ g # <<>>
  BY DEF Flowing, Over
<1>2. IsSeq(<<>>) /\ g \o <<>> = g
  BY <1>1, TupleOne, Zenon
<1>3. e.started /\ IsEmitter(e)
  BY <1>1, EmitterHas DEF Flowing
<1> QED  BY <1>1, <1>2, <1>3 DEF Goes, Ended

\* The Responses writer gives up on text that is too long.
LEMMA FailWrites ==
    ASSUME NEW e, NEW g, NEW called, Flowing(e, g, called), e.started, ~e.failed,
           e.target = Responses, NEW ev, ev.k = "fail",
           NEW x, x.e = [e EXCEPT !.failed = TRUE], x.out = <<ev>>
    PROVE  Goes(x, e, g, called)
<1>a. PICK f, w, S, n : f = x.e /\ w = e.target /\ S = OpenNow(e) /\ n = e.next
  OBVIOUS
<1>1. Going(w, g, S, n) /\ g # <<>> /\ IsEmitter(e)
  BY <1>a DEF Flowing
<1>2. S = {} \/ \E b : S = {b}
  BY <1>a, Zenon DEF OpenNow
<1>3. Over(w, Append(g, ev))
  BY ONLY <1>1, <1>2, ev.k = "fail", PushLast, Zenon
<1>4. IsSeq(g)
  BY <1>1 DEF Going
<1>5. IsSeq(<<ev>>) /\ g \o <<ev>> = Append(g, ev)
  BY ONLY <1>4, TupleOne
<1>6. /\ IsEmitter(f) /\ f.target = e.target /\ f.next = e.next /\ f.started = e.started
      /\ f.textOpen = e.textOpen /\ f.failed = TRUE
  <2>1. PICK N, B : e \in Emitters(N, B)
    BY <1>1 DEF IsEmitter
  <2>0. f = [e EXCEPT !.failed = TRUE]
    BY <1>a
  <2>2. f \in Emitters(N, B)
    BY ONLY <2>0, <2>1, Zenon DEF Emitters
  <2>3. IsEmitter(f)
    BY ONLY <2>2 DEF IsEmitter
  <2>4. /\ f.target = e.target /\ f.next = e.next /\ f.started = e.started
        /\ f.textOpen = e.textOpen /\ f.failed = TRUE
    BY ONLY <2>0, <2>1 DEF Emitters
  <2> QED  BY <2>3, <2>4
<1>7. Append(g, ev) # <<>>
  BY <1>3 DEF Over
<1>8. e.textOpen => e.next > 0
  BY DEF Flowing
<1>9. Flowing(f, Append(g, ev), called)
  <2>1. f.target = Responses /\ Responses # Anthropic /\ f.target = w /\ f.started
    BY <1>6, <1>a DEF Responses, Anthropic
  <2> QED  BY ONLY <1>3, <1>6, <1>7, <1>8, <2>1 DEF Flowing
<1> QED  BY <1>5, <1>6, <1>9, <1>a, Zenon DEF Goes

LEMMA CountedIs ==
    ASSUME NEW e, IsEmitter(e), NEW f, f = [e EXCEPT !.bytes = @ + 1]
    PROVE  /\ IsEmitter(f) /\ f.target = e.target /\ f.next = e.next /\ f.started = e.started
           /\ f.textOpen = e.textOpen /\ f.failed = e.failed
<1>1. PICK N, B : e \in Emitters(N, B)
  BY DEF IsEmitter
<1>2. f \in Emitters(N, B \cup {e.bytes + 1})
  BY <1>1 DEF Emitters
<1>3. IsEmitter(f)
  BY ONLY <1>2 DEF IsEmitter
<1>4. /\ f.target = e.target /\ f.next = e.next /\ f.started = e.started
      /\ f.textOpen = e.textOpen /\ f.failed = e.failed
  BY <1>1 DEF Emitters
<1> QED  BY <1>3, <1>4

LEMMA ItemsWrites ==
    ASSUME NEW e, NEW g, NEW called, Flowing(e, g, called),
           e.target = Responses, NEW d, Legal(d, e, called), d.k # "stop"
    PROVE  Goes(write_responses(e, d), e, g, called)
<1>0. IsEmitter(e) /\ e.target # Chat /\ e.target # Anthropic /\ e.next \in Nat
  BY EmitterHas DEF Flowing, Anthropic, Chat, Responses
<1>x. PICK x : x = write_responses(e, d)
  OBVIOUS
<1>b. ASSUME d.k # "start"  PROVE e.started
  BY <1>0, <1>b, EmitterHas DEF Legal
<1>1. CASE e.failed
  <2>1. x.e = e /\ x.out = <<>>
    BY <1>x, <1>1 DEF write_responses
  <2> QED  BY <1>x, <1>1, <2>1, FailedWrites
<1>2. CASE ~e.failed /\ d.k = "start"
  <2>2. ~e.started
    BY <1>2 DEF Legal
  <2>1. write_responses(e, d) = [e |-> [e EXCEPT !.started = TRUE], out |-> <<Ev("begin", 0)>>]
    BY <1>2, <2>2 DEF write_responses
  <2> QED  BY <2>1, <2>2, StartWrites
<1>3. CASE ~e.failed /\ d.k = "think"
  <2>1. write_responses(e, d) = [e |-> e, out |-> <<>>]
    BY <1>3 DEF write_responses
  <2> QED  BY <1>3, <1>b, <2>1, NothingWrites
<1>4. CASE ~e.failed /\ d.k = "text" /\ e.bytes + 1 > MaxBytes
  <2>1. PICK ev : ev = Ev("fail", 0)
    OBVIOUS
  <2>2. x.e = [e EXCEPT !.failed = TRUE] /\ x.out = <<ev>>
    BY <1>x, <1>4, <2>1 DEF write_responses
  <2>3. ev.k = "fail"
    BY <2>1 DEF Ev
  <2>4. Goes(x, e, g, called)
    BY <1>4, <1>b, <2>2, <2>3, FailWrites
  <2> QED  BY ONLY <1>x, <2>4
<1>5. CASE ~e.failed /\ d.k = "text" /\ ~(e.bytes + 1 > MaxBytes) /\ e.textOpen
  <2>1. PICK ev : ev = EText(e.next - 1, d.t)
    OBVIOUS
  <2>2. x.e = [e EXCEPT !.bytes = @ + 1] /\ x.out = <<>> \o <<ev>>
    BY <1>x, <1>5, <2>1 DEF write_responses
  <2>3. ev.k = "text" /\ OpenNow(e) = {ev.at}
    BY <1>0, <1>5, <2>1 DEF EText, OpenNow
  <2>4. x.out = <<ev>>
    BY ONLY <2>2, JoinOne
  <2>5. /\ IsEmitter(x.e) /\ x.e.target = e.target /\ x.e.next = e.next /\ x.e.started = e.started
        /\ x.e.textOpen = e.textOpen /\ x.e.failed = e.failed
    BY <1>0, <2>2, CountedIs
  <2>6. PICK y : y = [e |-> e, out |-> <<ev>>]
    BY Zenon
  <2>7. Goes(y, e, g, called)
    BY <1>5, <1>b, <2>3, <2>6, OneWrites
  <2>8. Flowing(e, g \o <<ev>>, called) /\ IsSeq(<<ev>>)
    BY ONLY <2>6, <2>7 DEF Goes
  <2>9. Flowing(x.e, g \o <<ev>>, called)
    BY ONLY <2>5, <2>8 DEF Flowing, OpenNow
  <2>10. Goes(x, e, g, called)
    BY <1>5, <1>b, <2>4, <2>5, <2>8, <2>9 DEF Goes
  <2> QED  BY ONLY <1>x, <2>10
<1>6. CASE ~e.failed /\ d.k = "text" /\ ~(e.bytes + 1 > MaxBytes) /\ ~e.textOpen
  <2>1. PICK f, a, b : /\ f = [e EXCEPT !.textOpen = TRUE, !.next = @ + 1]
                       /\ a = Opened("text", e.next) /\ b = EText(f.next - 1, d.t)
    OBVIOUS
  <2>2. x.e = [f EXCEPT !.bytes = @ + 1] /\ x.out = <<a>> \o <<b>>
    BY <1>x, <1>6, <2>1 DEF write_responses
  <2>3. /\ IsEmitter(f) /\ f.target = e.target /\ f.started = e.started /\ f.failed = e.failed
        /\ f.textOpen = TRUE /\ f.next = e.next + 1
    <3>0. f = [e EXCEPT !.textOpen = TRUE, !.next = @ + 1]
      BY <2>1
    <3>1. PICK N, B : e \in Emitters(N, B)
      BY <1>0 DEF IsEmitter
    <3>2. f \in Emitters(N, B)
      <4>1. PICK k : k = [e EXCEPT !.textOpen = TRUE]
        BY Zenon
      <4>2. k \in Emitters(N, B) /\ k.next = e.next
        BY ONLY <3>1, <4>1, Zenon DEF Emitters
      <4>3. e.next + 1 \in Nat
        BY <1>0
      <4>4. f = [k EXCEPT !.next = e.next + 1]
        BY ONLY <3>0, <4>1
      <4> QED  BY ONLY <4>2, <4>3, <4>4 DEF Emitters
    <3>3. IsEmitter(f)
      BY ONLY <3>2 DEF IsEmitter
    <3>4. /\ f.target = e.target /\ f.started = e.started /\ f.failed = e.failed
          /\ f.textOpen = TRUE /\ f.next = e.next + 1
      BY ONLY <3>0, <3>1 DEF Emitters
    <3> QED  BY <3>3, <3>4
  <2>4. /\ IsEmitter(x.e) /\ x.e.target = f.target /\ x.e.next = f.next /\ x.e.started = f.started
        /\ x.e.textOpen = f.textOpen /\ x.e.failed = f.failed
    BY <2>2, <2>3, CountedIs
  <2>5. a.k = "open" /\ a.at = e.next /\ b.k = "text" /\ b.at = f.next - 1
    BY ONLY <2>1 DEF Opened, EText
  <2>6. e.started
    BY <1>6, <1>b
  <2>7. OpenNow(x.e) = {e.next}
    BY ONLY <1>0, <2>3, <2>4 DEF OpenNow
  <2>12. MayOpen(e.target, g, e.next, a)
    BY <2>5 DEF MayOpen
  <2>8. /\ a.k = "open" /\ MayOpen(e.target, g, e.next, a)
        /\ b.k = "text" /\ b.at = a.at
        /\ IsEmitter(x.e) /\ x.e.target = e.target /\ x.e.started /\ ~x.e.failed /\ x.e.textOpen /\ x.e.next > 0
        /\ x.e.next = a.at + 1
        /\ OpenNow(x.e) = {a.at}
    BY ONLY <1>0, <1>6, <2>3, <2>4, <2>5, <2>6, <2>7, <2>12
  <2>9. x.out = <<a>> \o <<b>>
    BY <2>2
  <2>10. IsText(x, e, g)
    BY ONLY <2>8, <2>9, Zenon DEF IsText
  <2>11. Goes(x, e, g, called)
    BY <1>0, <1>6, <1>b, <2>10, TextWrites
  <2> QED  BY ONLY <1>x, <2>11
<1>7. CASE ~e.failed /\ d.k = "call"
  <2>1. PICK a, b, c : /\ a = Opened("call", e.next)
                       /\ b = ECall(e.next, d, Responses, restore_item(e.names, d.name))
                       /\ c = Ev("shut", e.next)
    OBVIOUS
  <2>2. /\ a.k = "open" /\ a.kind = "call" /\ a.at = e.next /\ b.k = "call" /\ b.at = e.next
        /\ c.k = "shut" /\ c.at = e.next
    BY ONLY <2>1 DEF Ev, Opened, ECall
  <2>4. /\ x.e = [TextShut(e).e EXCEPT !.next = @ + 1]
        /\ x.out = TextShut(e).out \o <<a, b, c>>
    BY <1>7, <1>x, <2>1, Zenon DEF write_responses
  <2>5. called /\ e.started
    BY <1>7, <1>b DEF Legal
  <2>6. IsCall(x, e)
    BY ONLY <2>2, <2>4, Zenon DEF IsCall
  <2>7. Goes(x, e, g, called)
    BY <1>7, <2>5, <2>6, CallWrites, Zenon
  <2> QED  BY ONLY <1>x, <2>7
<1> QED  BY <1>1, <1>2, <1>3, <1>4, <1>5, <1>6, <1>7 DEF Legal

LEMMA Writes ==
    ASSUME NEW e, NEW g, NEW called, Flowing(e, g, called),
           NEW d, Legal(d, e, called), d.k # "stop"
    PROVE  Goes(write(e, d), e, g, called)
<1>1. e.target \in Wire
  BY EmitterHas DEF Flowing
<1>2. CASE e.target = Anthropic
  <2>1. write(e, d) = write_anthropic(e, d)
    BY <1>2 DEF write, Anthropic, Chat, Responses
  <2> QED  BY <1>2, <2>1, MessagesWrites
<1>3. CASE e.target = Chat
  <2>1. write(e, d) = write_chat(e, d)
    BY <1>3 DEF write, Anthropic, Chat, Responses
  <2> QED  BY <1>3, <2>1, ChatWrites
<1>4. CASE e.target = Responses
  <2>1. write(e, d) = write_responses(e, d)
    BY <1>4 DEF write, Anthropic, Chat, Responses
  <2> QED  BY <1>4, <2>1, ItemsWrites
<1> QED  BY <1>1, <1>2, <1>3, <1>4 DEF Wire

\* The end, in chat, which shuts nothing.
LEMMA ChatStops ==
    ASSUME NEW e, NEW g, NEW called, Flowing(e, g, called), e.started, ~e.failed,
           e.target = Chat, NEW a, a.k = "word", NEW b, b.k = "end",
           NEW x, x.e = e, x.out = <<a, b>>
    PROVE  Ended(x, e, g)
<1>a. PICK w, S, n : w = e.target /\ S = OpenNow(e) /\ n = e.next
  OBVIOUS
<1>b. PICK k : k = Append(g, a)
  BY Zenon
<1>1. Going(w, g, S, n) /\ g # <<>> /\ IsEmitter(e) /\ w = Chat
  BY <1>a DEF Flowing
<1>2. k # <<>> /\ Going(w, k, S, n)
  BY <1>1, <1>b, PushWord
<1>3. Over(w, Append(k, b))
  BY <1>1, <1>2, PushLast, Zenon
<1>4. IsSeq(g)
  BY <1>1 DEF Going
<1>5. IsSeq(<<a, b>>) /\ g \o <<a, b>> = Append(Append(g, a), b)
  BY ONLY <1>4, TupleTwo
<1> QED  BY <1>1, <1>3, <1>5, <1>a, <1>b, Zenon DEF Ended

LEMMA WritesLast ==
    ASSUME NEW e, NEW g, NEW called, Flowing(e, g, called), e.started,
           NEW d, d.k = "stop"
    PROVE  Ended(write(e, d), e, g)
<1>0. IsEmitter(e) /\ e.target \in Wire /\ (e.failed => e.target = Responses)
  BY EmitterHas DEF Flowing
<1>x. PICK x : x = write(e, d)
  OBVIOUS
<1>1. CASE e.failed
  <2>1. x = write_responses(e, d)
    BY <1>0, <1>1, <1>x DEF write, Anthropic, Chat, Responses
  <2>2. x.e = e /\ x.out = <<>>
    BY <1>1, <2>1 DEF write_responses
  <2> QED  BY <1>1, <1>x, <2>2, FailedWrites
<1>2. CASE ~e.failed /\ e.target = Chat
  <2>1. x = write_chat(e, d)
    BY <1>2, <1>x DEF write, Anthropic, Chat, Responses
  <2>2. PICK a, b : a = EWord(Chat, d.reason) /\ b = Ev("end", 0)
    OBVIOUS
  <2>3. x.e = e /\ x.out = <<a, b>>
    BY <2>1, <2>2 DEF write_chat
  <2>4. a.k = "word" /\ b.k = "end"
    BY ONLY <2>2 DEF EWord, Ev
  <2> QED  BY <1>2, <1>x, <2>3, <2>4, ChatStops
<1>3. CASE ~e.failed /\ e.target # Chat
  <2>1. PICK a, b : a = EWord(e.target, d.reason) /\ b = Ev("end", 0)
    OBVIOUS
  <2>2. a.k = "word" /\ b.k = "end"
    BY ONLY <2>1 DEF EWord, Ev
  <2>3. x.e = TextShut(e).e /\ x.out = TextShut(e).out \o <<a, b>>
    <3>1. CASE e.target = Anthropic
      <4>1. x = write_anthropic(e, d)
        BY <3>1, <1>x DEF write, Anthropic, Chat, Responses
      <4> QED  BY <3>1, <4>1, <2>1, Zenon DEF write_anthropic
    <3>2. CASE e.target = Responses
      <4>1. x = write_responses(e, d)
        BY <3>2, <1>x DEF write, Anthropic, Chat, Responses
      <4> QED  BY <1>3, <3>2, <4>1, <2>1 DEF write_responses
    <3> QED  BY <1>0, <1>3, <3>1, <3>2, Zenon DEF Wire
  <2>4. IsStop(x, e)
    BY ONLY <2>2, <2>3, Zenon DEF IsStop
  <2>5. Ended(x, e, g)
    BY <1>3, <2>4, StopWrites
  <2> QED  BY ONLY <1>x, <2>5
<1> QED  BY <1>1, <1>2, <1>3


-----------------------------------------------------------------------------
(* What it writes of all the deltas of a frame, and of those at the end.   *)

LEMMA Ladder ==
    ASSUME NEW n \in Nat, NEW G, 0 \in G, \A i \in 0 .. n : i < n /\ i \in G => i + 1 \in G
    PROVE  \A i \in 0 .. n : i \in G
<1> DEFINE T == {i \in 0 .. n : i \notin G}
<1> SUFFICES ASSUME T # {}  PROVE FALSE
  OBVIOUS
<1>0. T \subseteq Nat /\ T # {}
  OBVIOUS
<1> HIDE DEF T
<1>1. PICK x \in T : \A y \in T : x <= y
  BY <1>0, LeastNatural, Zenon
<1> USE DEF T
<1>2. x \in 0 .. n /\ x \notin G /\ x # 0
  OBVIOUS
<1>3. x - 1 \in 0 .. n /\ x - 1 < n /\ x - 1 \notin T
  BY <1>1, <1>2
<1>4. x - 1 \in G
  BY <1>3
<1>5. (x - 1) + 1 \in G
  BY <1>3, <1>4
<1> QED  BY <1>2, <1>5

After1(a, d) == [e |-> write(a.e, d).e, out |-> a.out \o write(a.e, d).out]
Starts(e) == [e |-> e, out |-> <<>>]
Traces(f, e, ds, m) == f = [i \in 0 .. m |-> IF i = 0 THEN Starts(e) ELSE After1(f[i - 1], ds[i])]

LEMMA TraceExists ==
    ASSUME NEW e, NEW ds, NEW n \in Nat
    PROVE  \E f : Traces(f, e, ds, n)
<1> DEFINE G == {m \in 0 .. n : \E f : Traces(f, e, ds, m)}
<1>1. 0 \in G
  <2> DEFINE f == [i \in 0 .. 0 |-> Starts(e)]
  <2>1. f = [i \in 0 .. 0 |-> IF i = 0 THEN Starts(e) ELSE After1(f[i - 1], ds[i])]
    OBVIOUS
  <2> HIDE DEF f
  <2> QED  BY <2>1 DEF Traces
<1>2. ASSUME NEW m \in 0 .. n, m < n, m \in G  PROVE m + 1 \in G
  <2>1. PICK f : Traces(f, e, ds, m)
    BY <1>2
  <2> DEFINE h == [i \in 0 .. (m + 1) |-> IF i = m + 1 THEN After1(f[m], ds[m + 1]) ELSE f[i]]
  <2>2. \A i \in 0 .. m : f[i] = IF i = 0 THEN Starts(e) ELSE After1(f[i - 1], ds[i])
    BY <2>1 DEF Traces
  <2>3. \A i \in 0 .. (m + 1) : h[i] = IF i = 0 THEN Starts(e) ELSE After1(h[i - 1], ds[i])
    <3>1. SUFFICES ASSUME NEW i \in 0 .. (m + 1)
                   PROVE  h[i] = IF i = 0 THEN Starts(e) ELSE After1(h[i - 1], ds[i])
      OBVIOUS
    <3>2. CASE i = m + 1
      <4>1. h[i] = After1(f[m], ds[m + 1]) /\ h[i - 1] = f[m]
        BY <3>2
      <4> QED  BY <3>2, <4>1
    <3>3. CASE i = 0
      BY <2>2, <3>3
    <3>4. CASE i \in 1 .. m
      <4>1. h[i] = f[i] /\ h[i - 1] = f[i - 1]
        BY <3>4
      <4> QED  BY <2>2, <3>4, <4>1
    <3> QED  BY <3>2, <3>3, <3>4
  <2>4. h = [i \in 0 .. (m + 1) |-> IF i = 0 THEN Starts(e) ELSE After1(h[i - 1], ds[i])]
    <3>1. h = [i \in 0 .. (m + 1) |-> h[i]]
      OBVIOUS
    <3> HIDE DEF h
    <3> QED  BY <2>3, <3>1, Zenon
  <2> HIDE DEF h
  <2>5. Traces(h, e, ds, m + 1)
    BY <2>4 DEF Traces
  <2>6. m + 1 \in 0 .. n /\ \E g : Traces(g, e, ds, m + 1)
    BY <1>2, <2>5
  <2> QED  BY <2>6
<1> HIDE DEF G
<1>3. n \in G
  BY <1>1, <1>2, Ladder
<1> QED  BY <1>3 DEF G

LEMMA WritingIs ==
    ASSUME NEW e, NEW ds, Len(ds) \in Nat
    PROVE  \E f : /\ f[0] = Starts(e)
                  /\ \A i \in 1 .. Len(ds) : f[i] = After1(f[i - 1], ds[i])
                  /\ Writing(e, ds) = f[Len(ds)]
<1> DEFINE f == CHOOSE f : f = [i \in 0 .. Len(ds) |->
                  IF i = 0 THEN [e |-> e, out |-> <<>>]
                  ELSE LET x == write(f[i - 1].e, ds[i]) IN [e |-> x.e, out |-> f[i - 1].out \o x.out]]
<1>1. \E g : Traces(g, e, ds, Len(ds))
  BY TraceExists, Zenon
<1>2. f = CHOOSE g : Traces(g, e, ds, Len(ds))
  BY DEF Traces, Starts, After1
<1>3. Traces(f, e, ds, Len(ds))
  BY <1>1, <1>2
<1>4. Writing(e, ds) = f[Len(ds)]
  BY DEF Writing
<1> HIDE DEF f
<1>5. f[0] = Starts(e) /\ \A i \in 1 .. Len(ds) : f[i] = After1(f[i - 1], ds[i])
  BY <1>3 DEF Traces
<1> QED  BY <1>4, <1>5

IsCallDelta(d) == d = [k |-> "call", at |-> d.at, id |-> d.id, name |-> d.name, n |-> d.n]

\* What a parser may tell before the end: m deltas of ds.
Tell(d, started, called) ==
    /\ d.k \in {"start", "text", "think", "call"}
    /\ d.k = "start" <=> ~started
    /\ d.k = "call" => called /\ IsCallDelta(d)
Tells(ds, m, started, called) ==
    \A i \in 1 .. m : Tell(ds[i], started \/ i > 1, called)

\* How the stream stands once the writer a has written its part.
Stands(a, w, started, g, called) ==
    /\ IsSeq(a.out) /\ a.e.target = w /\ a.e.started = started
    /\ Flowing(a.e, g \o a.out, called)

LEMMA OneMore ==
    ASSUME NEW a, NEW w, NEW started \in BOOLEAN, NEW g, NEW called,
           IsSeq(g), Stands(a, w, started, g, called),
           NEW d, Tell(d, started, called)
    PROVE  Stands(After1(a, d), w, TRUE, g, called)
<1>1. IsSeq(a.out) /\ a.e.target = w /\ a.e.started = started /\ Flowing(a.e, g \o a.out, called)
  BY DEF Stands
<1>2. PICK x, e, h : x = write(a.e, d) /\ e = a.e /\ h = g \o a.out
  BY Zenon
<1>3. Legal(d, e, called) /\ d.k # "stop"
  BY <1>1, <1>2 DEF Legal, Tell
<1>4. Goes(x, e, h, called)
  BY <1>1, <1>2, <1>3, Writes
<1>5. IsSeq(x.out) /\ x.e.target = w /\ x.e.started /\ Flowing(x.e, h \o x.out, called)
  BY <1>1, <1>2, <1>4 DEF Goes
<1>6. PICK u, v : u = a.out /\ v = x.out
  OBVIOUS
<1>7. IsSeq(g) /\ IsSeq(u) /\ IsSeq(v)
  BY <1>1, <1>5, <1>6
<1>8. (g \o u) \o v = g \o (u \o v)
  BY ONLY <1>7, Joining
<1>9. IsSeq(u \o v)
  BY ONLY <1>7, ConcatIsSeq
<1>10. After1(a, d).e = x.e /\ After1(a, d).out = u \o v
  BY <1>2, <1>6, Zenon DEF After1
<1>11. Flowing(x.e, g \o (u \o v), called)
  BY ONLY <1>2, <1>5, <1>6, <1>8
<1>12. x.e.started = TRUE
  BY <1>5, EmitterHas DEF Flowing
<1> QED  BY ONLY <1>5, <1>9, <1>10, <1>11, <1>12 DEF Stands

LEMMA TraceStands ==
    ASSUME NEW e, NEW g, NEW called, Flowing(e, g, called), IsSeq(g),
           NEW ds, NEW m \in Nat, Tells(ds, m, e.started, called),
           NEW f, f[0] = Starts(e), \A i \in 1 .. m : f[i] = After1(f[i - 1], ds[i])
    PROVE  Stands(f[m], e.target, e.started \/ m > 0, g, called)
<1> DEFINE G == {i \in 0 .. m : Stands(f[i], e.target, e.started \/ i > 0, g, called)}
<1>0. e.started \in BOOLEAN
  BY EmitterHas DEF Flowing
<1>1. 0 \in G
  <2>1. f[0].e = e /\ f[0].out = <<>>
    BY DEF Starts
  <2>2. IsSeq(<<>>) /\ g \o <<>> = g
    BY TupleOne, Zenon
  <2>3. Stands(f[0], e.target, e.started, g, called)
    BY <2>1, <2>2 DEF Stands
  <2>4. e.started = (e.started \/ 0 > 0)
    BY <1>0
  <2> QED  BY <2>3, <2>4
<1>2. ASSUME NEW i \in 0 .. m, i < m, i \in G  PROVE i + 1 \in G
  <2>1. PICK started, j, d, a : started = (e.started \/ i > 0) /\ j = i + 1 /\ d = ds[j] /\ a = f[i]
    OBVIOUS
  <2>2. /\ started \in BOOLEAN /\ j \in 1 .. m /\ Stands(a, e.target, started, g, called)
        /\ f[j] = After1(a, d)
    BY <1>0, <1>2, <2>1
  <2>3. Tell(d, started, called)
    <3>1. Tell(ds[j], e.started \/ j > 1, called)
      BY <2>2 DEF Tells
    <3>2. j > 1 <=> i > 0
      BY <2>1
    <3>3. (e.started \/ j > 1) = started
      BY <2>1, <3>2
    <3> QED  BY <2>1, <3>1, <3>3
  <2>4. Stands(After1(a, d), e.target, TRUE, g, called)
    BY <2>2, <2>3, OneMore, Zenon
  <2>5. (e.started \/ j > 0) = TRUE /\ j \in 0 .. m
    BY <1>0, <2>2
  <2>6. Stands(f[j], e.target, e.started \/ j > 0, g, called)
    BY <2>2, <2>4, <2>5, Zenon
  <2> QED  BY <2>1, <2>5, <2>6
<1> HIDE DEF G
<1>3. m \in G
  BY <1>1, <1>2, Ladder
<1> QED  BY <1>3 DEF G

LEMMA Written1 ==
    ASSUME NEW e, NEW g, NEW called, Flowing(e, g, called), IsSeq(g),
           NEW ds, IsSeq(ds), Tells(ds, Len(ds), e.started, called)
    PROVE  Stands(Writing(e, ds), e.target, e.started \/ ds # <<>>, g, called)
<1>1. Len(ds) \in Nat /\ (ds = <<>> <=> Len(ds) = 0)
  BY Appending
<1>2. PICK f : /\ f[0] = Starts(e)
               /\ \A i \in 1 .. Len(ds) : f[i] = After1(f[i - 1], ds[i])
               /\ Writing(e, ds) = f[Len(ds)]
  BY <1>1, WritingIs
<1>3. Stands(f[Len(ds)], e.target, e.started \/ Len(ds) > 0, g, called)
  BY <1>1, <1>2, TraceStands
<1>4. (e.started \/ Len(ds) > 0) = (e.started \/ ds # <<>>)
  BY <1>1, EmitterHas DEF Flowing
<1> QED  BY <1>2, <1>3, <1>4

LEMMA WrittenLast ==
    ASSUME NEW e, NEW g, NEW called, Flowing(e, g, called), IsSeq(g),
           NEW ds, IsSeq(ds), NEW m \in Nat, Len(ds) = m + 1, Tells(ds, m, e.started, called),
           e.started \/ m > 0, ds[m + 1].k = "stop"
    PROVE  Ended(Writing(e, ds), e, g)
<1>1. Len(ds) \in Nat
  OBVIOUS
<1>2. PICK f : /\ f[0] = Starts(e)
               /\ \A i \in 1 .. Len(ds) : f[i] = After1(f[i - 1], ds[i])
               /\ Writing(e, ds) = f[Len(ds)]
  BY ONLY <1>1, WritingIs
<1>3. Stands(f[m], e.target, e.started \/ m > 0, g, called)
  <2>1. \A i \in 1 .. m : f[i] = After1(f[i - 1], ds[i])
    BY <1>2
  <2> QED  BY <1>2, <2>1, TraceStands
<1>4. PICK a, d, w : a = f[m] /\ d = ds[m + 1] /\ w = e.target
  OBVIOUS
<1>5. Writing(e, ds) = After1(a, d) /\ d.k = "stop"
  BY <1>2, <1>4
<1>6. /\ IsSeq(a.out) /\ a.e.target = w /\ a.e.started
      /\ Flowing(a.e, g \o a.out, called)
  BY <1>3, <1>4, EmitterHas DEF Stands, Flowing
<1>7. PICK x, u, v, h : x = write(a.e, d) /\ u = a.out /\ v = x.out /\ h = g \o u
  BY Zenon
<1>8. Ended(x, a.e, h)
  BY <1>5, <1>6, <1>7, WritesLast
<1>9. IsSeq(v) /\ IsEmitter(x.e) /\ x.e.target = w /\ Over(w, h \o v)
  BY <1>6, <1>7, <1>8 DEF Ended
<1>10. IsSeq(g) /\ IsSeq(u) /\ IsSeq(v)
  BY <1>6, <1>7, <1>9
<1>11. (g \o u) \o v = g \o (u \o v)
  BY ONLY <1>10, Joining
<1>12. IsSeq(u \o v)
  BY ONLY <1>10, ConcatIsSeq
<1>13. After1(a, d).e = x.e /\ After1(a, d).out = u \o v
  BY <1>7, Zenon DEF After1
<1>14. Over(w, g \o (u \o v))
  BY ONLY <1>7, <1>9, <1>11
<1>15. PICK y : y = Writing(e, ds)
  OBVIOUS
<1>16. Ended(y, e, g)
  BY ONLY <1>4, <1>5, <1>9, <1>12, <1>13, <1>14, <1>15, Zenon DEF Ended
<1> QED  BY <1>15, <1>16


-----------------------------------------------------------------------------
(* Sequences made of sequences: FlattenSeq keeps their order.              *)

LEMMA FunctionIsSeq ==
    ASSUME NEW n \in Nat, NEW f, f = [i \in 1 .. n |-> f[i]]
    PROVE  IsSeq(f) /\ Len(f) = n
<1> DEFINE S == {f[i] : i \in 1 .. n}
<1>1. f \in [1 .. n -> S]
  OBVIOUS
<1>2. f \in Seq(S)
  BY <1>1, SeqDef
<1>3. Len(f) = n
  BY <1>1, <1>2, LenProperties
<1> QED  BY <1>2, <1>3, Zenon DEF IsSeq

Joined(a, b) == a \o b
Flattens(f, ss, m) == f = [i \in 1 .. m |-> IF i = 1 THEN ss[i] ELSE Joined(f[i - 1], ss[i])]

LEMMA FlattenExists ==
    ASSUME NEW ss, NEW n \in Nat
    PROVE  \E f : Flattens(f, ss, n)
<1> DEFINE G == {m \in 0 .. n : \E f : Flattens(f, ss, m)}
<1>1. 0 \in G
  <2> DEFINE f == [i \in 1 .. 0 |-> ss[i]]
  <2>1. f = [i \in 1 .. 0 |-> IF i = 1 THEN ss[i] ELSE Joined(f[i - 1], ss[i])]
    OBVIOUS
  <2> HIDE DEF f
  <2>2. \E g : Flattens(g, ss, 0)
    BY <2>1 DEF Flattens
  <2> QED  BY <2>2
<1>2. ASSUME NEW m \in 0 .. n, m < n, m \in G  PROVE m + 1 \in G
  <2>1. PICK f : Flattens(f, ss, m)
    BY <1>2
  <2> DEFINE h == [i \in 1 .. (m + 1) |-> IF i = m + 1 THEN IF i = 1 THEN ss[i] ELSE Joined(f[m], ss[i]) ELSE f[i]]
  <2>2. \A i \in 1 .. m : f[i] = IF i = 1 THEN ss[i] ELSE Joined(f[i - 1], ss[i])
    BY <2>1 DEF Flattens
  <2>3. \A i \in 1 .. (m + 1) : h[i] = IF i = 1 THEN ss[i] ELSE Joined(h[i - 1], ss[i])
    <3>1. SUFFICES ASSUME NEW i \in 1 .. (m + 1)
                   PROVE  h[i] = IF i = 1 THEN ss[i] ELSE Joined(h[i - 1], ss[i])
      OBVIOUS
    <3>2. CASE i = m + 1 /\ i = 1
      BY <3>2
    <3>3. CASE i = m + 1 /\ i # 1
      <4>1. h[i] = Joined(f[m], ss[i]) /\ h[i - 1] = f[m]
        BY <3>3
      <4> QED  BY <3>3, <4>1
    <3>4. CASE i = 1 /\ i \in 1 .. m
      <4>1. h[i] = f[i]
        BY <3>4
      <4> QED  BY <2>2, <3>4, <4>1
    <3>5. CASE i \in 2 .. m
      <4>1. h[i] = f[i] /\ h[i - 1] = f[i - 1]
        BY <3>5
      <4> QED  BY <2>2, <3>5, <4>1
    <3> QED  BY <3>2, <3>3, <3>4, <3>5
  <2>4. h = [i \in 1 .. (m + 1) |-> IF i = 1 THEN ss[i] ELSE Joined(h[i - 1], ss[i])]
    <3>1. h = [i \in 1 .. (m + 1) |-> h[i]]
      OBVIOUS
    <3> HIDE DEF h
    <3> QED  BY <2>3, <3>1, Zenon
  <2> HIDE DEF h
  <2>5. Flattens(h, ss, m + 1)
    BY <2>4 DEF Flattens
  <2>6. m + 1 \in 0 .. n /\ \E g : Flattens(g, ss, m + 1)
    BY <1>2, <2>5
  <2> QED  BY <2>6
<1> HIDE DEF G
<1>3. n \in G
  BY <1>1, <1>2, Ladder
<1> QED  BY <1>3 DEF G

LEMMA FlattenIs ==
    ASSUME NEW ss, Len(ss) \in Nat \ {0}
    PROVE  \E f : /\ f[1] = ss[1]
                  /\ \A i \in 2 .. Len(ss) : f[i] = Joined(f[i - 1], ss[i])
                  /\ FlattenSeq(ss) = f[Len(ss)]
<1> DEFINE f == CHOOSE f : f = [i \in 1 .. Len(ss) |-> IF i = 1 THEN ss[i] ELSE f[i - 1] \o ss[i]]
<1>1. \E g : Flattens(g, ss, Len(ss))
  BY FlattenExists
<1>2. f = CHOOSE g : Flattens(g, ss, Len(ss))
  BY DEF Flattens, Joined
<1>3. Flattens(f, ss, Len(ss))
  BY <1>1, <1>2
<1>4. FlattenSeq(ss) = f[Len(ss)]
  BY DEF FlattenSeq
<1> HIDE DEF f
<1>5. f[1] = ss[1] /\ \A i \in 2 .. Len(ss) : f[i] = Joined(f[i - 1], ss[i])
  BY <1>3 DEF Flattens
<1> QED  BY <1>4, <1>5

\* What a sequence made of others has in it, in their order.
InOrder(F, T, n) ==
    /\ IsSeq(F)
    /\ \A x, y \in 1 .. Len(F) : x <= y =>
         \E i, j \in 1 .. n : i <= j /\ F[x] \in T[i] /\ F[y] \in T[j]

IsJoin(c, a, b) ==
    /\ IsSeq(c) /\ Len(a) \in Nat /\ Len(b) \in Nat /\ Len(c) = Len(a) + Len(b)
    /\ \A x \in 1 .. Len(a) : c[x] = a[x]
    /\ \A x \in 1 .. Len(c) : x > Len(a) => x - Len(a) \in 1 .. Len(b) /\ c[x] = b[x - Len(a)]

LEMMA ConcatParts ==
    ASSUME NEW a, IsSeq(a), NEW b, IsSeq(b), NEW c, c = Joined(a, b)
    PROVE  IsJoin(c, a, b)
<1>1. PICK S : a \in Seq(S)
  BY DEF IsSeq
<1>2. PICK T : b \in Seq(T)
  BY DEF IsSeq
<1>3. a \in Seq(S \cup T) /\ b \in Seq(S \cup T)
  BY <1>1, <1>2, SeqMonotonic
<1>4. /\ c \in Seq(S \cup T) /\ Len(c) = Len(a) + Len(b)
      /\ \A i \in 1 .. Len(c) : c[i] = IF i <= Len(a) THEN a[i] ELSE b[i - Len(a)]
  BY <1>3, ConcatProperties DEF Joined
<1>5. Len(a) \in Nat /\ Len(b) \in Nat
  BY <1>3, LenProperties
<1> QED  BY <1>4, <1>5 DEF IsSeq, IsJoin

LEMMA OneMorePart ==
    ASSUME NEW F, NEW T, NEW n \in Nat, InOrder(F, T, n), NEW b, b \in Seq(T[n + 1])
    PROVE  InOrder(Joined(F, b), T, n + 1)
<1>1. IsSeq(F) /\ IsSeq(b)
  BY DEF InOrder, IsSeq
<1>2. PICK c : c = Joined(F, b)
  OBVIOUS
<1>3. /\ IsSeq(c) /\ Len(F) \in Nat /\ Len(b) \in Nat /\ Len(c) = Len(F) + Len(b)
      /\ \A x \in 1 .. Len(F) : c[x] = F[x]
      /\ \A x \in 1 .. Len(c) : x > Len(F) => x - Len(F) \in 1 .. Len(b) /\ c[x] = b[x - Len(F)]
  <2>1. IsJoin(c, F, b)
    BY ONLY <1>1, <1>2, ConcatParts
  <2> QED  BY ONLY <2>1 DEF IsJoin
<1>4. \A x \in 1 .. Len(b) : b[x] \in T[n + 1]
  BY ElementOfSeq
<1>5. ASSUME NEW x \in 1 .. Len(c), NEW y \in 1 .. Len(c), x <= y
      PROVE  \E i, j \in 1 .. (n + 1) : i <= j /\ c[x] \in T[i] /\ c[y] \in T[j]
  <2>1. CASE y <= Len(F)
    <3>1. x \in 1 .. Len(F) /\ y \in 1 .. Len(F) /\ c[x] = F[x] /\ c[y] = F[y]
      BY <1>3, <1>5, <2>1
    <3>2. PICK i \in 1 .. n, j \in 1 .. n : i <= j /\ F[x] \in T[i] /\ F[y] \in T[j]
      BY <1>5, <3>1 DEF InOrder
    <3> QED  BY <3>1, <3>2
  <2>2. CASE x <= Len(F) /\ y > Len(F)
    <3>1. x \in 1 .. Len(F) /\ c[x] = F[x] /\ c[y] \in T[n + 1]
      BY <1>3, <1>4, <2>2
    <3>2. PICK i \in 1 .. n : F[x] \in T[i]
      BY <3>1 DEF InOrder
    <3> QED  BY <3>1, <3>2
  <2>3. CASE x > Len(F)
    <3>1. c[x] \in T[n + 1] /\ c[y] \in T[n + 1]
      BY <1>3, <1>4, <1>5, <2>3
    <3> QED  BY <3>1
  <2> QED  BY <1>3, <1>5, <2>1, <2>2, <2>3
<1> QED  BY <1>2, <1>3, <1>5 DEF InOrder

LEMMA Flattened ==
    ASSUME NEW n \in Nat, NEW ss, ss = [i \in 1 .. n |-> ss[i]], NEW T, \A i \in 1 .. n : ss[i] \in Seq(T[i])
    PROVE  InOrder(FlattenSeq(ss), T, n)
<1>1. IsSeq(ss) /\ Len(ss) = n
  BY FunctionIsSeq
<1>2. CASE n = 0
  <2>1. FlattenSeq(ss) = ss
    BY <1>1, <1>2 DEF FlattenSeq
  <2> QED  BY <1>1, <1>2, <2>1 DEF InOrder
<1>3. CASE n # 0
  <2>1. PICK f : /\ f[1] = ss[1]
                 /\ \A i \in 2 .. n : f[i] = Joined(f[i - 1], ss[i])
                 /\ FlattenSeq(ss) = f[n]
    BY <1>1, <1>3, FlattenIs, Zenon
  <2> DEFINE G == {i \in 0 .. n : i > 0 => InOrder(f[i], T, i)}
  <2> HIDE DEF G
  <2>2. 0 \in G
    BY DEF G
  <2>3. ASSUME NEW i \in 0 .. n, i < n, i \in G  PROVE i + 1 \in G
    <3>1. CASE i = 0
      <4>1. ss[1] \in Seq(T[1])
        BY <1>3
      <4>2. \A x \in 1 .. Len(ss[1]) : ss[1][x] \in T[1]
        BY <4>1, ElementOfSeq
      <4>3. InOrder(ss[1], T, 1)
        BY <4>1, <4>2 DEF InOrder, IsSeq
      <4>4. f[i + 1] = ss[1] /\ i + 1 = 1
        BY <2>1, <3>1
      <4> QED  BY <1>3, <4>3, <4>4 DEF G
    <3>2. CASE i > 0
      <4>1. InOrder(f[i], T, i) /\ i + 1 \in 2 .. n /\ i + 1 \in 1 .. n /\ i \in Nat
        BY <2>3, <3>2 DEF G
      <4>2. PICK j, b, F : j = i + 1 /\ b = ss[i + 1] /\ F = f[i]
        BY Zenon
      <4>3. f[j] = Joined(F, b) /\ b \in Seq(T[j])
        <5>1. j \in 2 .. n /\ j - 1 = i
          BY <4>1, <4>2
        <5>2. f[j] = Joined(f[j - 1], ss[j])
          BY <2>1, <5>1, Zenon
        <5> QED  BY <4>1, <4>2, <5>1, <5>2
      <4>4. InOrder(Joined(F, b), T, j)
        BY <4>1, <4>2, <4>3, OneMorePart
      <4>5. InOrder(f[j], T, j)
        BY <4>3, <4>4
      <4> QED  BY ONLY <4>1, <4>2, <4>5 DEF G
    <3> QED  BY <3>1, <3>2
  <2> HIDE DEF G
  <2>4. n \in G
    BY <2>2, <2>3, Ladder
  <2> QED  BY <1>3, <2>1, <2>4 DEF G
<1> QED  BY <1>2, <1>3


-----------------------------------------------------------------------------
(* What a parser's operations leave of it: whether it has begun, and       *)
(* whether it has heard of a call.                                         *)

Parsers(C, D, B, L) == [source : Wire, started : BOOLEAN, stop : C, slots : Seq(L), bytes : B, seen : Seq(D)]
IsParser(p) == \E C, D, B, L : p \in Parsers(C, D, B, L)

LEMMA ParserHas ==
    ASSUME NEW p, IsParser(p)
    PROVE  p.source \in Wire /\ p.started \in BOOLEAN /\ IsSeq(p.slots) /\ IsSeq(p.seen)
BY DEF IsParser, Parsers, IsSeq

LEMMA SlotsSet ==
    ASSUME NEW p, IsParser(p), NEW s, IsSeq(s), NEW q, q = [p EXCEPT !.slots = s]
    PROVE  IsParser(q) /\ q.source = p.source /\ q.started = p.started /\ q.stop = p.stop /\ q.slots = s
<1>1. PICK C, D, B, L : p \in Parsers(C, D, B, L)
  BY DEF IsParser
<1>2. PICK M : s \in Seq(M)
  BY DEF IsSeq
<1>3. q \in Parsers(C, D, B, M)
  BY ONLY <1>1, <1>2, q = [p EXCEPT !.slots = s], Zenon DEF Parsers
<1>4. q.source = p.source /\ q.started = p.started /\ q.stop = p.stop /\ q.slots = s
  BY ONLY <1>1, q = [p EXCEPT !.slots = s] DEF Parsers
<1>5. IsParser(q)
  BY ONLY <1>3 DEF IsParser
<1> QED  BY <1>4, <1>5

LEMMA StopSet ==
    ASSUME NEW p, IsParser(p), NEW v, NEW q, q = [p EXCEPT !.stop = v]
    PROVE  IsParser(q) /\ q.source = p.source /\ q.started = p.started /\ q.stop = v /\ q.slots = p.slots
<1>1. PICK C, D, B, L : p \in Parsers(C, D, B, L)
  BY DEF IsParser
<1>3. q \in Parsers({v}, D, B, L)
  BY ONLY <1>1, q = [p EXCEPT !.stop = v], Zenon DEF Parsers
<1>4. q.source = p.source /\ q.started = p.started /\ q.stop = v /\ q.slots = p.slots
  BY ONLY <1>1, q = [p EXCEPT !.stop = v] DEF Parsers
<1>5. IsParser(q)
  BY ONLY <1>3 DEF IsParser
<1> QED  BY <1>4, <1>5

LEMMA BytesSet ==
    ASSUME NEW p, IsParser(p), NEW v, NEW q, q = [p EXCEPT !.bytes = v]
    PROVE  IsParser(q) /\ q.source = p.source /\ q.started = p.started /\ q.stop = p.stop /\ q.slots = p.slots
<1>1. PICK C, D, B, L : p \in Parsers(C, D, B, L)
  BY DEF IsParser
<1>3. q \in Parsers(C, D, {v}, L)
  BY ONLY <1>1, q = [p EXCEPT !.bytes = v], Zenon DEF Parsers
<1>4. q.source = p.source /\ q.started = p.started /\ q.stop = p.stop /\ q.slots = p.slots
  BY ONLY <1>1, q = [p EXCEPT !.bytes = v] DEF Parsers
<1>5. IsParser(q)
  BY ONLY <1>3 DEF IsParser
<1> QED  BY <1>4, <1>5

LEMMA SeenSet ==
    ASSUME NEW p, IsParser(p), NEW v, IsSeq(v), NEW q, q = [p EXCEPT !.seen = v]
    PROVE  IsParser(q) /\ q.source = p.source /\ q.started = p.started /\ q.stop = p.stop /\ q.slots = p.slots
<1>1. PICK C, D, B, L : p \in Parsers(C, D, B, L)
  BY DEF IsParser
<1>2. PICK M : v \in Seq(M)
  BY DEF IsSeq
<1>3. q \in Parsers(C, M, B, L)
  BY ONLY <1>1, <1>2, q = [p EXCEPT !.seen = v], Zenon DEF Parsers
<1>4. q.source = p.source /\ q.started = p.started /\ q.stop = p.stop /\ q.slots = p.slots
  BY ONLY <1>1, q = [p EXCEPT !.seen = v] DEF Parsers
<1>5. IsParser(q)
  BY ONLY <1>3 DEF IsParser
<1> QED  BY <1>4, <1>5

LEMMA StartedSet ==
    ASSUME NEW p, IsParser(p), NEW q, q = [p EXCEPT !.started = TRUE]
    PROVE  IsParser(q) /\ q.source = p.source /\ q.started = TRUE /\ q.stop = p.stop /\ q.slots = p.slots
<1>1. PICK C, D, B, L : p \in Parsers(C, D, B, L)
  BY DEF IsParser
<1>3. q \in Parsers(C, D, B, L)
  BY ONLY <1>1, q = [p EXCEPT !.started = TRUE], Zenon DEF Parsers
<1>4. q.source = p.source /\ q.started = TRUE /\ q.stop = p.stop /\ q.slots = p.slots
  BY ONLY <1>1, q = [p EXCEPT !.started = TRUE] DEF Parsers
<1>5. IsParser(q)
  BY ONLY <1>3 DEF IsParser
<1> QED  BY <1>4, <1>5

\* The parser q is p, with no fewer calls; or with none if p has none.
Grown(q, p) == /\ IsParser(q) /\ q.source = p.source
               /\ p.slots # <<>> => q.slots # <<>>
Same(q, p) == Grown(q, p) /\ (p.slots = <<>> => q.slots = <<>>)

LEMMA SlotKept ==
    ASSUME NEW p, IsParser(p), NEW at \in Nat
    PROVE  Grown(slot(p, at), p) /\ slot(p, at).started = p.started /\ slot(p, at).stop = p.stop
<1>0. MaxCalls \in Nat
  BY TranslateAssumption
<1>1. CASE at >= MaxCalls \/ at < Len(p.slots)
  BY <1>1 DEF slot, Grown
<1>2. CASE ~(at >= MaxCalls \/ at < Len(p.slots))
  <2>1. PICK n, m, s : n = Len(p.slots) /\ m = at + 1 - n /\ s = p.slots
    BY Zenon
  <2>2. IsSeq(s) /\ n = Len(s) /\ n \in Nat
    BY <2>1, ParserHas, Appending
  <2>3. m \in Nat /\ m > 0
    <3>1. ~(at < n) /\ m = at + 1 - n
      BY ONLY <1>2, <2>1
    <3> QED  BY ONLY <2>2, <3>1, at \in Nat
  <2>4. PICK b : b = [i \in 1 .. m |-> Blank]
    BY Zenon
  <2>5. b = [i \in 1 .. m |-> b[i]]
    BY <2>4
  <2>6. IsSeq(b) /\ Len(b) = m
    BY ONLY <2>3, <2>5, FunctionIsSeq
  <2>7. PICK c : c = Joined(s, b)
    OBVIOUS
  <2>8. IsJoin(c, s, b)
    BY ONLY <2>2, <2>6, <2>7, ConcatParts
  <2>9. IsSeq(c) /\ Len(c) > 0
    BY ONLY <2>2, <2>3, <2>6, <2>8 DEF IsJoin
  <2>10. c # <<>>
    BY ONLY <2>9, Appending
  <2>11. slot(p, at) = [p EXCEPT !.slots = c]
    BY ONLY <1>2, <2>1, <2>4, <2>7 DEF slot, Joined
  <2>12. PICK q : q = slot(p, at)
    OBVIOUS
  <2>13. IsParser(q) /\ q.source = p.source /\ q.started = p.started /\ q.stop = p.stop /\ q.slots = c
    BY <2>9, <2>11, <2>12, SlotsSet
  <2> QED  BY <2>10, <2>12, <2>13 DEF Grown
<1> QED  BY <1>1, <1>2

OtherSlot(r, q, at) == \E v : r = [q EXCEPT !.slots = [q.slots EXCEPT ![at + 1] = v]]

LEMMA SlotChanged ==
    ASSUME NEW p, IsParser(p), NEW at \in Nat, NEW r, OtherSlot(r, slot(p, at), at)
    PROVE  Grown(r, p) /\ r.started = p.started /\ r.stop = p.stop
<1>q. PICK q : q = slot(p, at)
  OBVIOUS
<1>v. PICK v : r = [q EXCEPT !.slots = [q.slots EXCEPT ![at + 1] = v]]
  BY <1>q, Zenon DEF OtherSlot
<1>1. Grown(q, p) /\ q.started = p.started /\ q.stop = p.stop
  BY <1>q, SlotKept
<1>2. PICK s, z : s = q.slots /\ z = [s EXCEPT ![at + 1] = v]
  BY Zenon
<1>3. IsParser(q) /\ IsSeq(s) /\ Len(s) \in Nat
  BY <1>1, <1>2, ParserHas, Appending DEF Grown
<1>4. PICK S : s \in Seq(S)
  BY <1>3 DEF IsSeq
<1>5. z \in Seq(S \cup {v}) /\ Len(z) = Len(s)
  <2>1. s \in Seq(S \cup {v})
    BY <1>4, SeqMonotonic
  <2>2. CASE at + 1 \in 1 .. Len(s)
    BY ONLY <1>2, <2>1, <2>2, ExceptSeq
  <2>3. CASE at + 1 \notin 1 .. Len(s)
    <3>1. s = [i \in 1 .. Len(s) |-> s[i]]
      BY ONLY <2>1
    <3>2. z = s
      BY <1>2, <2>3, <3>1
    <3> QED  BY <2>1, <3>2
  <2> QED  BY <2>2, <2>3
<1>6. IsSeq(z) /\ (s # <<>> => z # <<>>)
  <2>1. IsSeq(z)
    BY ONLY <1>5 DEF IsSeq
  <2>2. (s = <<>> <=> Len(s) = 0) /\ (z = <<>> <=> Len(z) = 0)
    BY ONLY <1>3, <2>1, Appending
  <2> QED  BY <1>5, <2>1, <2>2
<1>7. r = [q EXCEPT !.slots = z]
  BY <1>2, <1>v
<1>8. IsParser(r) /\ r.source = q.source /\ r.started = q.started /\ r.stop = q.stop /\ r.slots = z
  BY ONLY <1>3, <1>6, <1>7, SlotsSet
<1> QED  BY <1>1, <1>2, <1>6, <1>8 DEF Grown

LEMMA IdentitySet ==
    ASSUME NEW p, IsParser(p), NEW at \in Nat, NEW id, NEW name
    PROVE  /\ Grown(set_identity(p, at, id, name), p)
           /\ set_identity(p, at, id, name).started = p.started /\ set_identity(p, at, id, name).stop = p.stop
<1>1. CASE at >= MaxCalls
  <2>1. set_identity(p, at, id, name) = p
    BY ONLY <1>1 DEF set_identity, OnSlot
  <2> QED  BY <2>1 DEF Grown
<1>2. CASE ~(at >= MaxCalls)
  <2>1. PICK q, v : q = slot(p, at) /\ v = [q.slots[at + 1] EXCEPT !.id = id, !.name = name]
    BY Zenon
  <2>2. PICK r : r = set_identity(p, at, id, name)
    OBVIOUS
  <2>3. r = [q EXCEPT !.slots = [q.slots EXCEPT ![at + 1] = v]]
    BY ONLY <1>2, <2>1, <2>2 DEF set_identity, OnSlot
  <2>4. OtherSlot(r, slot(p, at), at)
    BY ONLY <2>1, <2>3, Zenon DEF OtherSlot
  <2>5. Grown(r, p) /\ r.started = p.started /\ r.stop = p.stop
    BY <2>4, SlotChanged
  <2> QED  BY <2>2, <2>5
<1> QED  BY <1>1, <1>2

LEMMA ArgumentsFilled ==
    ASSUME NEW p, IsParser(p), NEW at \in Nat
    PROVE  /\ Grown(fill_arguments(p, at), p)
           /\ fill_arguments(p, at).started = p.started /\ fill_arguments(p, at).stop = p.stop
<1>1. CASE at >= MaxCalls
  BY <1>1 DEF fill_arguments, OnSlot, Grown
<1>2. CASE ~(at >= MaxCalls)
  <2>1. PICK q, v : q = slot(p, at) /\ v = [q.slots[at + 1] EXCEPT !.n = IF @ = 0 THEN Parts ELSE @]
    BY Zenon
  <2>2. PICK r : r = fill_arguments(p, at)
    OBVIOUS
  <2>3. r = [q EXCEPT !.slots = [q.slots EXCEPT ![at + 1] = v]]
    BY ONLY <1>2, <2>1, <2>2 DEF fill_arguments, OnSlot
  <2>4. OtherSlot(r, slot(p, at), at)
    BY ONLY <2>1, <2>3, Zenon DEF OtherSlot
  <2>5. Grown(r, p) /\ r.started = p.started /\ r.stop = p.stop
    BY <2>4, SlotChanged
  <2> QED  BY <2>2, <2>5
<1> QED  BY <1>1, <1>2

LEMMA ArgumentsPushed ==
    ASSUME NEW p, IsParser(p), NEW at \in Nat
    PROVE  /\ Grown(push_arguments(p, at), p)
           /\ push_arguments(p, at).started = p.started /\ push_arguments(p, at).stop = p.stop
<1>0. PICK w : w = push_arguments(p, at)
  OBVIOUS
<1>1. CASE p.bytes + 1 > MaxBytes
  <2>1. CASE at >= MaxCalls
    BY <1>1, <2>1 DEF push_arguments, OnSlot, Grown
  <2>2. CASE ~(at >= MaxCalls)
    <3>1. PICK q, v : q = slot(p, at) /\ v = [q.slots[at + 1] EXCEPT !.overflowed = TRUE]
      BY Zenon
    <3>2. w = [q EXCEPT !.slots = [q.slots EXCEPT ![at + 1] = v]]
      BY ONLY <1>0, <1>1, <2>2, <3>1 DEF push_arguments, OnSlot
    <3>4. OtherSlot(w, slot(p, at), at)
      BY ONLY <3>1, <3>2, Zenon DEF OtherSlot
    <3>3. Grown(w, p) /\ w.started = p.started /\ w.stop = p.stop
      BY <3>4, SlotChanged
    <3> QED  BY <1>0, <3>3
  <2> QED  BY <2>1, <2>2
<1>2. CASE ~(p.bytes + 1 > MaxBytes)
  <2>1. PICK r, b : /\ r = OnSlot(p, at, LAMBDA s : [s EXCEPT !.n = @ + 1])
                    /\ b = r.bytes + IF at < MaxCalls THEN 1 ELSE 0
    BY Zenon
  <2>2. w = [r EXCEPT !.bytes = b]
    BY ONLY <1>0, <1>2, <2>1 DEF push_arguments
  <2>3. Grown(r, p) /\ r.started = p.started /\ r.stop = p.stop
    <3>1. CASE at >= MaxCalls
      BY <2>1, <3>1 DEF OnSlot, Grown
    <3>2. CASE ~(at >= MaxCalls)
      <4>1. PICK q, v : q = slot(p, at) /\ v = [q.slots[at + 1] EXCEPT !.n = @ + 1]
        BY Zenon
      <4>2. r = [q EXCEPT !.slots = [q.slots EXCEPT ![at + 1] = v]]
        BY ONLY <2>1, <3>2, <4>1 DEF OnSlot
      <4>3. OtherSlot(r, slot(p, at), at)
        BY ONLY <4>1, <4>2, Zenon DEF OtherSlot
      <4> QED  BY <4>3, SlotChanged
    <3> QED  BY <3>1, <3>2
  <2>4. IsParser(w) /\ w.source = r.source /\ w.started = r.started /\ w.stop = r.stop /\ w.slots = r.slots
    <3>1. IsParser(r)
      BY <2>3 DEF Grown
    <3> QED  BY ONLY <2>2, <3>1, BytesSet
  <2>5. Grown(w, p) /\ w.started = p.started /\ w.stop = p.stop
    BY ONLY <2>3, <2>4 DEF Grown
  <2> QED  BY <1>0, <2>5
<1> QED  BY <1>1, <1>2


LEMMA SlotFound ==
    ASSUME NEW p, IsParser(p), NEW at
    PROVE  /\ Same(responses_slot(p, at).p, p)
           /\ responses_slot(p, at).p.started = p.started /\ responses_slot(p, at).p.stop = p.stop
           /\ responses_slot(p, at).at \in Nat
<1>1. PICK s : s = p.seen
  OBVIOUS
<1>2. IsSeq(s)
  BY <1>1, ParserHas
<1>3. Len(s) \in Nat
  BY <1>2, Appending
<1>4. CASE Contains(s, at)
  <2>1. \E i \in 1 .. Len(s) : s[i] = at
    BY <1>4 DEF Contains
  <2>2. PICK n : n = CHOOSE i \in 1 .. Len(s) : s[i] = at
    OBVIOUS
  <2>3. n \in 1 .. Len(s)
    BY <2>1, <2>2
  <2>4. responses_slot(p, at) = [p |-> p, at |-> n - 1]
    BY ONLY <1>1, <1>4, <2>2 DEF responses_slot
  <2>5. n - 1 \in Nat
    BY <1>3, <2>3
  <2> QED  BY <2>4, <2>5 DEF Same, Grown
<1>5. CASE ~Contains(s, at)
  <2>1. PICK v, q : v = Append(s, at) /\ q = [p EXCEPT !.seen = v]
    BY Zenon
  <2>2. IsSeq(v)
    BY <1>2, <2>1, Appending
  <2>3. responses_slot(p, at) = [p |-> q, at |-> Len(s)]
    BY ONLY <1>1, <1>5, <2>1 DEF responses_slot
  <2>4. IsParser(q) /\ q.source = p.source /\ q.started = p.started /\ q.stop = p.stop /\ q.slots = p.slots
    <3>1. q = [p EXCEPT !.seen = v]
      BY <2>1
    <3> QED  BY ONLY <2>2, <3>1, IsParser(p), SeenSet
  <2> QED  BY <1>3, <2>3, <2>4 DEF Same, Grown
<1> QED  BY <1>4, <1>5

\* Calls, all of them.
AllCalls(ds) == IsSeq(ds) /\ \A x \in 1 .. Len(ds) : ds[x].k = "call" /\ IsCallDelta(ds[x])

LEMMA Completes ==
    ASSUME NEW p, IsParser(p), NEW indices
    PROVE  /\ Same(complete(p, indices).p, p)
           /\ complete(p, indices).p.started = p.started /\ complete(p, indices).p.stop = p.stop
           /\ AllCalls(complete(p, indices).out)
           /\ complete(p, indices).out # <<>> => p.slots # <<>>
<1>1. PICK s, n : s = p.slots /\ n = Len(s)
  BY Zenon
<1>2. IsSeq(s) /\ n \in Nat /\ (s = <<>> <=> n = 0)
  BY <1>1, ParserHas, Appending
<1> DEFINE due == {i \in 1 .. Len(p.slots) :
                    i - 1 \in indices /\ ~p.slots[i].emitted /\ p.slots[i].name # NoName}
<1>3. PICK D : D = due
  BY Zenon
<1> DEFINE Z == [i \in 1 .. n |-> IF i \in D THEN [s[i] EXCEPT !.emitted = TRUE] ELSE s[i]]
           T == [i \in 1 .. n |-> {DCall(i - 1, s[i], p.source)}]
           ss == [i \in 1 .. n |-> IF i \in D /\ ~s[i].overflowed
                                   THEN <<DCall(i - 1, s[i], p.source)>> ELSE <<>>]
<1>4. PICK z, y, q : z = Z /\ y = ss /\ q = [p EXCEPT !.slots = z]
  BY Zenon
<1>5. complete(p, indices) = [p |-> q, out |-> FlattenSeq(y)]
  BY ONLY <1>1, <1>3, <1>4 DEF complete
<1>6. z = [i \in 1 .. n |-> z[i]]
  BY ONLY <1>4
<1>7. IsSeq(z) /\ Len(z) = n
  BY ONLY <1>2, <1>6, FunctionIsSeq
<1>8. z = <<>> <=> n = 0
  BY ONLY <1>7, Appending
<1>9. IsParser(q) /\ q.source = p.source /\ q.started = p.started /\ q.stop = p.stop /\ q.slots = z
  <2>1. q = [p EXCEPT !.slots = z]
    BY <1>4
  <2>2. IsSeq(z)
    BY <1>7
  <2> HIDE DEF due, Z, T, ss
  <2> QED  BY ONLY <2>1, <2>2, IsParser(p), SlotsSet
<1>10. y = [i \in 1 .. n |-> y[i]]
  BY ONLY <1>4
<1>11. PICK U : U = T
  BY Zenon
<1>12. \A i \in 1 .. n : y[i] \in Seq(U[i])
  <2> SUFFICES ASSUME NEW i \in 1 .. n  PROVE y[i] \in Seq(U[i])
    OBVIOUS
  <2>1. PICK c : c = DCall(i - 1, s[i], p.source)
    OBVIOUS
  <2>2. U[i] = {c} /\ (y[i] = <<c>> \/ y[i] = <<>>)
    BY ONLY <1>4, <1>11, <2>1, i \in 1 .. n
  <2>3. <<c>> \in Seq({c}) /\ <<>> \in Seq({c})
    OBVIOUS
  <2> QED  BY ONLY <2>2, <2>3, Zenon
<1>13. PICK F : F = FlattenSeq(y)
  OBVIOUS
<1>14. InOrder(F, U, n)
  BY ONLY <1>2, <1>10, <1>12, <1>13, Flattened
<1>15. ASSUME NEW x \in 1 .. Len(F)  PROVE F[x].k = "call" /\ IsCallDelta(F[x]) /\ n # 0
  <2>1. IsSeq(F) /\ Len(F) \in Nat /\ x <= x
    BY <1>14, Appending DEF InOrder
  <2>2. PICK i \in 1 .. n : F[x] \in U[i]
    BY <1>14, <2>1 DEF InOrder
  <2>3. F[x] = DCall(i - 1, s[i], p.source)
    BY ONLY <1>11, <2>2, i \in 1 .. n
  <2>4. F[x].k = "call" /\ IsCallDelta(F[x])
    BY ONLY <2>3 DEF DCall, IsCallDelta
  <2> QED  BY <1>2, <2>4
<1>16. IsSeq(F)
  BY <1>14 DEF InOrder
<1>17. F # <<>> => n # 0
  <2>1. Len(F) \in Nat /\ (F = <<>> <=> Len(F) = 0)
    BY ONLY <1>16, Appending
  <2>2. F # <<>> => 1 \in 1 .. Len(F)
    BY ONLY <2>1
  <2> QED  BY <1>15, <2>2
<1>18. complete(p, indices).p = q /\ complete(p, indices).out = F
  BY ONLY <1>5, <1>13
<1>19. AllCalls(F)
  BY ONLY <1>15, <1>16 DEF AllCalls
<1>20. Same(q, p) /\ (F # <<>> => p.slots # <<>>)
  BY ONLY <1>1, <1>2, <1>8, <1>9, <1>17 DEF Same, Grown
<1> QED  BY ONLY <1>9, <1>18, <1>19, <1>20

-----------------------------------------------------------------------------
\* What is told of p, in r; c when there are calls in the end.
Told(r, p, c) ==
    /\ Grown(r.p, p) /\ IsSeq(r.out)
    /\ Tells(r.out, Len(r.out), p.started, c)
    /\ r.p.started = (p.started \/ r.out # <<>>)

LEMMA QuietTold ==
    ASSUME NEW p, IsParser(p), NEW q, Grown(q, p), q.started = p.started, NEW c
    PROVE  Told(Quiet(q), p, c)
<1>1. PICK r : r = Quiet(q)
  OBVIOUS
<1>2. r.p = q /\ r.out = <<>>
  BY <1>1 DEF Quiet
<1>3. IsSeq(<<>>)
  BY DEF IsSeq
<1>4. Len(<<>>) = 0
  OBVIOUS
<1>5. Tells(<<>>, Len(<<>>), p.started, c)
  BY <1>4 DEF Tells
<1>6. q.started = (p.started \/ <<>> # <<>>)
  BY ParserHas
<1>7. Told(r, p, c)
  BY ONLY <1>2, <1>3, <1>5, <1>6, Grown(q, p) DEF Told
<1> QED  BY <1>1, <1>7

LEMMA SaysTold ==
    ASSUME NEW p, IsParser(p), NEW q, Grown(q, p), q.started = TRUE, NEW c,
           NEW d, Tell(d, p.started, c)
    PROVE  Told(Says(q, d), p, c)
<1>1. PICK r, ds : r = Says(q, d) /\ ds = <<d>>
  BY Zenon
<1>2. r.p = q /\ r.out = ds
  BY <1>1 DEF Says
<1>3. ds \in Seq({d}) /\ Len(ds) = 1 /\ ds[1] = d /\ ds # <<>>
  BY ONLY <1>1
<1>4. IsSeq(ds)
  BY ONLY <1>3 DEF IsSeq
<1>5. Tells(ds, Len(ds), p.started, c)
  <2>1. (p.started \/ 1 > 1) = p.started
    BY ParserHas
  <2>2. Tell(ds[1], p.started \/ 1 > 1, c)
    BY <1>3, <2>1
  <2> QED  BY ONLY <1>3, <2>2 DEF Tells
<1>6. q.started = (p.started \/ ds # <<>>)
  BY <1>3, Zenon
<1>7. Told(r, p, c)
  BY ONLY <1>2, <1>4, <1>5, <1>6, Grown(q, p) DEF Told
<1> QED  BY <1>1, <1>7

LEMMA StartTold ==
    ASSUME NEW p, IsParser(p), NEW c
    PROVE  /\ Told(start(p), p, c) /\ Same(start(p).p, p)
           /\ start(p).p.started = TRUE /\ start(p).p.stop = p.stop
<1>1. CASE p.started
  <2>1. start(p) = Quiet(p)
    BY <1>1 DEF start
  <2>2. Quiet(p).p = p
    BY DEF Quiet
  <2>3. Grown(p, p) /\ Same(p, p) /\ p.started = TRUE
    BY <1>1, ParserHas DEF Grown, Same
  <2>4. Told(Quiet(p), p, c)
    BY <2>3, QuietTold
  <2> QED  BY <2>1, <2>2, <2>3, <2>4
<1>2. CASE ~p.started
  <2>1. PICK q, d : q = [p EXCEPT !.started = TRUE] /\ d = [k |-> "start"]
    BY Zenon
  <2>2. start(p) = Says(q, d)
    BY ONLY <1>2, <2>1 DEF start
  <2>3. IsParser(q) /\ q.source = p.source /\ q.started = TRUE /\ q.stop = p.stop /\ q.slots = p.slots
    BY <2>1, StartedSet, Zenon
  <2>4. Same(q, p) /\ Grown(q, p)
    BY <2>3 DEF Same, Grown
  <2>5. Tell(d, p.started, c)
    BY <1>2, <2>1 DEF Tell
  <2>6. Told(Says(q, d), p, c)
    BY <2>3, <2>4, <2>5, SaysTold, Zenon
  <2>7. Says(q, d).p = q
    BY DEF Says
  <2> QED  BY <2>2, <2>3, <2>4, <2>6, <2>7
<1> QED  BY <1>1, <1>2, Zenon

LEMMA CompleteTold ==
    ASSUME NEW p, IsParser(p), p.started, NEW indices, NEW c, p.slots # <<>> => c
    PROVE  Told(complete(p, indices), p, c)
<1>1. PICK r, ds : r = complete(p, indices) /\ ds = r.out
  OBVIOUS
<1>2. /\ Same(r.p, p) /\ r.p.started = p.started /\ AllCalls(ds)
      /\ ds # <<>> => p.slots # <<>>
  BY <1>1, Completes, Zenon
<1>3. IsSeq(ds) /\ Len(ds) \in Nat /\ (ds = <<>> <=> Len(ds) = 0)
  BY <1>2, Appending DEF AllCalls
<1>4. ASSUME NEW i \in 1 .. Len(ds)  PROVE Tell(ds[i], p.started \/ i > 1, c)
  <2>1. ds[i].k = "call" /\ IsCallDelta(ds[i]) /\ ds # <<>>
    BY <1>2, <1>3 DEF AllCalls
  <2>2. c
    BY <1>2, <2>1
  <2> QED  BY <2>1, <2>2 DEF Tell
<1>5. Tells(ds, Len(ds), p.started, c)
  BY <1>4 DEF Tells
<1>6. r.p.started = (p.started \/ ds # <<>>)
  BY <1>2, ParserHas, Zenon
<1>7. Told(r, p, c)
  BY ONLY <1>1, <1>2, <1>3, <1>5, <1>6 DEF Told, Same
<1> QED  BY <1>1, <1>7

LEMMA TellsOn ==
    ASSUME NEW a, IsSeq(a), NEW b, IsSeq(b), NEW started \in BOOLEAN, NEW c,
           Tells(a, Len(a), started, c), Tells(b, Len(b), started \/ a # <<>>, c),
           NEW ds, ds = Joined(a, b)
    PROVE  Tells(ds, Len(ds), started, c) /\ IsSeq(ds) /\ (ds # <<>> <=> a # <<>> \/ b # <<>>)
<1>1. IsJoin(ds, a, b)
  BY ConcatParts
<1>2. /\ IsSeq(ds) /\ Len(a) \in Nat /\ Len(b) \in Nat /\ Len(ds) = Len(a) + Len(b)
      /\ \A x \in 1 .. Len(a) : ds[x] = a[x]
      /\ \A x \in 1 .. Len(ds) : x > Len(a) => x - Len(a) \in 1 .. Len(b) /\ ds[x] = b[x - Len(a)]
  BY <1>1 DEF IsJoin
<1>3. (a = <<>> <=> Len(a) = 0) /\ (b = <<>> <=> Len(b) = 0) /\ (ds = <<>> <=> Len(ds) = 0)
  BY <1>2, Appending
<1>4. ASSUME NEW x \in 1 .. Len(ds)  PROVE Tell(ds[x], started \/ x > 1, c)
  <2>1. CASE x <= Len(a)
    <3>1. x \in 1 .. Len(a) /\ ds[x] = a[x]
      BY <1>2, <2>1
    <3> QED  BY <3>1 DEF Tells
  <2>2. CASE x > Len(a)
    <3>1. PICK y : y = x - Len(a)
      OBVIOUS
    <3>2. y \in 1 .. Len(b) /\ ds[x] = b[y]
      BY <1>2, <2>2, <3>1
    <3>3. Tell(b[y], (started \/ a # <<>>) \/ y > 1, c)
      BY <3>2 DEF Tells
    <3>4. x > 1 <=> a # <<>> \/ y > 1
      BY <1>2, <1>3, <2>2, <3>1, <3>2
    <3>5. ((started \/ a # <<>>) \/ y > 1) = (started \/ x > 1)
      BY <3>4
    <3> QED  BY <3>2, <3>3, <3>5
  <2> QED  BY <1>2, <2>1, <2>2
<1>5. Tells(ds, Len(ds), started, c)
  BY <1>4 DEF Tells
<1> QED  BY <1>2, <1>3, <1>5

LEMMA ThenTold ==
    ASSUME NEW p, IsParser(p), NEW r, NEW s, NEW c,
           Told(r, p, c), Told(s, r.p, c)
    PROVE  Told(Then(r, s), p, c)
<1>1. PICK x, a, b, ds : x = Then(r, s) /\ a = r.out /\ b = s.out /\ ds = Joined(a, b)
  OBVIOUS
<1>2. x.p = s.p /\ x.out = ds
  BY <1>1, Zenon DEF Then, Joined
<1>3. /\ IsSeq(a) /\ IsSeq(b) /\ Grown(r.p, p) /\ Grown(s.p, r.p) /\ p.started \in BOOLEAN
      /\ Tells(a, Len(a), p.started, c)
      /\ r.p.started = (p.started \/ a # <<>>)
      /\ Tells(b, Len(b), r.p.started, c)
      /\ s.p.started = (r.p.started \/ b # <<>>)
  BY <1>1, ParserHas DEF Told
<1>4. Tells(b, Len(b), p.started \/ a # <<>>, c)
  BY ONLY <1>3
<1>5. Tells(ds, Len(ds), p.started, c) /\ IsSeq(ds) /\ (ds # <<>> <=> a # <<>> \/ b # <<>>)
  BY <1>1, <1>3, <1>4, TellsOn
<1>6. Grown(s.p, p)
  BY ONLY <1>3 DEF Grown
<1>7. s.p.started = (p.started \/ ds # <<>>)
  BY ONLY <1>3, <1>5, Zenon
<1>8. Told(x, p, c)
  BY ONLY <1>2, <1>5, <1>6, <1>7 DEF Told
<1> QED  BY <1>1, <1>8

\* Of a parser that grew first.
LEMMA GrownTold ==
    ASSUME NEW p, IsParser(p), NEW q, Grown(q, p), q.started = p.started, NEW r, NEW c,
           Told(r, q, c)
    PROVE  Told(r, p, c)
BY DEF Told, Grown


-----------------------------------------------------------------------------
(* What a parser tells of one frame, wire by wire.                         *)

\* A frame that is about a call.
Stirs(f) == f.k \in {"open", "args", "all", "shut"} /\ f.kind = "call"

\* What an upstream's next frame is, for the parser p it comes to.
Ready(p, f) ==
    /\ IsParser(p) /\ f.at \in Nat
    /\ ~p.started => f.k = "start"
    /\ f.k \in {"args", "all"} \/ (p.source = Chat /\ f.k = "open") => f.kind = "call"

\* The parser q is p, but for a call f may have brought.
Moved(q, p, f) == /\ Grown(q, p) /\ q.started = p.started
                  /\ ~Stirs(f) => (p.slots = <<>> => q.slots = <<>>)
                  /\ f.k # "word" => q.stop = p.stop

Fed(r, p, f) ==
    /\ Told(r, p, r.p.slots # <<>>)
    /\ ~Stirs(f) => (p.slots = <<>> => r.p.slots = <<>>)
    /\ f.k # "word" => r.p.stop = p.stop

LEMMA MovedOn ==
    ASSUME NEW p, NEW q, NEW r, NEW f, Moved(q, p, f), Moved(r, q, f)
    PROVE  Moved(r, p, f)
BY DEF Moved, Grown

LEMMA MovedSame ==
    ASSUME NEW p, NEW q, NEW f, Same(q, p), q.started = p.started, q.stop = p.stop
    PROVE  Moved(q, p, f)
BY DEF Moved, Same

LEMMA MovedNot ==
    ASSUME NEW p, IsParser(p), NEW f
    PROVE  Moved(p, p, f)
BY DEF Moved, Grown

LEMMA QuietFed ==
    ASSUME NEW p, IsParser(p), NEW f, NEW q, Moved(q, p, f)
    PROVE  Fed(Quiet(q), p, f)
<1>1. PICK r : r = Quiet(q)
  OBVIOUS
<1>2. r.p = q
  BY <1>1 DEF Quiet
<1>3. Told(r, p, r.p.slots # <<>>)
  BY <1>1, QuietTold DEF Moved
<1> QED  BY <1>1, <1>2, <1>3 DEF Fed, Moved

LEMMA CompleteFed ==
    ASSUME NEW p, IsParser(p), p.started, NEW f, NEW q, Moved(q, p, f), NEW indices
    PROVE  Fed(complete(q, indices), p, f)
<1>1. PICK r, c : r = complete(q, indices) /\ c = (r.p.slots # <<>>)
  OBVIOUS
<1>2. IsParser(q) /\ q.started /\ q.started = p.started /\ Grown(q, p)
  BY DEF Moved, Grown
<1>3. Same(r.p, q) /\ r.p.stop = q.stop
  BY <1>1, <1>2, Completes
<1>4. q.slots # <<>> => c
  BY <1>1, <1>3, Zenon DEF Same, Grown
<1>5. Told(r, q, c)
  BY <1>1, <1>2, <1>4, CompleteTold
<1>6. Told(r, p, c)
  BY <1>2, <1>5, GrownTold, Zenon
<1>7. (~Stirs(f) => (p.slots = <<>> => r.p.slots = <<>>)) /\ (f.k # "word" => r.p.stop = p.stop)
  BY <1>3 DEF Moved, Same
<1>8. Fed(r, p, f)
  BY ONLY <1>1, <1>6, <1>7 DEF Fed
<1> QED  BY <1>1, <1>8

LEMMA StartFed ==
    ASSUME NEW p, IsParser(p), NEW f
    PROVE  Fed(start(p), p, f)
<1>1. Told(start(p), p, start(p).p.slots # <<>>) /\ Same(start(p).p, p) /\ start(p).p.stop = p.stop
  BY StartTold, Zenon
<1> QED  BY <1>1 DEF Fed, Same

LEMMA SpokenFed ==
    ASSUME NEW p, IsParser(p), p.started, NEW f, f.k \in {"text", "think"}
    PROVE  Fed(Says(p, [k |-> f.k, t |-> f.t]), p, f)
<1>1. PICK d, r : d = [k |-> f.k, t |-> f.t] /\ r = Says(p, d)
  BY Zenon
<1>2. d.k = f.k
  BY <1>1
<1>3. r.p = p
  BY <1>1 DEF Says
<1>4. Tell(d, p.started, p.slots # <<>>)
  BY <1>2 DEF Tell
<1>5. Grown(p, p) /\ p.started = TRUE
  BY ParserHas DEF Grown
<1>6. Told(r, p, p.slots # <<>>)
  BY <1>1, <1>4, <1>5, SaysTold, Zenon
<1>7. Fed(r, p, f)
  BY <1>3, <1>6 DEF Fed
<1> QED  BY <1>1, <1>7

LEMMA StopMoves ==
    ASSUME NEW p, IsParser(p), NEW f, f.k = "word", NEW v
    PROVE  Moved([p EXCEPT !.stop = v], p, f)
<1>1. PICK q : q = [p EXCEPT !.stop = v]
  BY Zenon
<1>2. IsParser(q) /\ q.source = p.source /\ q.started = p.started /\ q.slots = p.slots
  BY <1>1, StopSet
<1> QED  BY <1>1, <1>2 DEF Moved, Grown

LEMMA IdentityMoves ==
    ASSUME NEW p, IsParser(p), NEW f, Stirs(f), NEW at \in Nat, NEW id, NEW name
    PROVE  Moved(set_identity(p, at, id, name), p, f)
BY IdentitySet DEF Moved

LEMMA ArgumentsMove ==
    ASSUME NEW p, IsParser(p), NEW f, Stirs(f), NEW at \in Nat
    PROVE  Moved(push_arguments(p, at), p, f) /\ Moved(fill_arguments(p, at), p, f)
BY ArgumentsPushed, ArgumentsFilled DEF Moved

\* The reason a frame gives, as each wire's parser reads it.
Parsed(p, f) ==
    CASE p.source = Anthropic -> parse_stop_anthropic(f.word)
      [] p.source = Chat -> parse_stop_chat(f.word)
      [] p.source = Responses -> parse_stop_responses(f.word, p.slots # <<>>)

LEMMA AnthropicFeeds ==
    ASSUME NEW p, NEW f, Ready(p, f), NEW r, r = feed_anthropic(p, f)
    PROVE  Fed(r, p, f) /\ (f.k = "word" => r.p.stop = parse_stop_anthropic(f.word))
<1>1. IsParser(p) /\ f.at \in Nat /\ (p.started \/ f.k = "start")
  BY DEF Ready
<1>2. CASE f.k = "start"
  <2>1. r = start(p)
    BY <1>2 DEF feed_anthropic
  <2> QED  BY <1>2, <1>1, <2>1, StartFed
<1>3. CASE f.k = "open"
  <2>1. CASE f.kind = "call"
    <3>1. r = Quiet(set_identity(p, f.at, f.id, f.name))
      BY <1>3, <2>1 DEF feed_anthropic
    <3>2. Stirs(f)
      BY <1>3, <2>1 DEF Stirs
    <3> QED  BY <1>3, <2>1, <1>1, <3>1, <3>2, IdentityMoves, QuietFed
  <2>2. CASE f.kind # "call"
    <3>1. r = start(p)
      BY <1>3, <2>2 DEF feed_anthropic
    <3> QED  BY <1>3, <2>2, <1>1, <3>1, StartFed
  <2> QED  BY <2>1, <2>2
<1>4. CASE f.k \in {"text", "think"}
  <2>1. r = Says(p, [k |-> f.k, t |-> f.t])
    BY <1>4 DEF feed_anthropic
  <2>2. p.started
    BY <1>1, <1>4 DEF Ready
  <2> QED  BY <1>1, <1>4, <2>1, <2>2, SpokenFed
<1>5. CASE f.k = "args"
  <2>1. r = Quiet(push_arguments(p, f.at))
    BY <1>5 DEF feed_anthropic
  <2>2. Stirs(f)
    BY <1>5 DEF Stirs, Ready
  <2> QED  BY <1>5, <1>1, <2>1, <2>2, ArgumentsMove, QuietFed
<1>6. CASE f.k = "shut"
  <2>1. r = complete(p, {f.at})
    BY <1>6 DEF feed_anthropic
  <2>2. p.started /\ Moved(p, p, f)
    BY <1>1, <1>6, MovedNot
  <2> QED  BY <1>6, <1>1, <2>1, <2>2, CompleteFed
<1>7. CASE f.k = "word"
  <2>1. PICK v, q : v = parse_stop_anthropic(f.word) /\ q = [p EXCEPT !.stop = v]
    BY Zenon
  <2>2. r = Quiet(q)
    BY <1>7, <2>1 DEF feed_anthropic
  <2>3. Moved(q, p, f)
    BY <1>1, <1>7, <2>1, StopMoves
  <2>4. r.p.stop = v
    <3>1. q.stop = v
      BY <1>1, <2>1, StopSet
    <3>2. r.p = q
      BY ONLY <2>2 DEF Quiet
    <3> QED  BY ONLY <3>1, <3>2
  <2> QED  BY <1>1, <2>1, <2>2, <2>3, <2>4, QuietFed
<1>8. CASE f.k \notin {"start", "open", "text", "think", "args", "shut", "word"}
  <2>1. r = Quiet(p)
    BY <1>8 DEF feed_anthropic
  <2> QED  BY <1>8, <1>1, <2>1, MovedNot, QuietFed
<1> QED  BY <1>2, <1>3, <1>4, <1>5, <1>6, <1>7, <1>8


LEMMA StartThenFed ==
    ASSUME NEW p, IsParser(p), NEW f, NEW s, s = start(p), NEW r, Fed(r, s.p, f)
    PROVE  Fed(Then(s, r), p, f)
<1>1. PICK x, c : x = Then(s, r) /\ c = (r.p.slots # <<>>)
  OBVIOUS
<1>2. x.p = r.p
  BY <1>1 DEF Then
<1>3. Told(s, p, c) /\ Same(s.p, p) /\ s.p.stop = p.stop
  BY StartTold, Zenon
<1>4. Told(r, s.p, c)
  BY <1>1 DEF Fed
<1>5. Told(x, p, c)
  BY <1>1, <1>3, <1>4, ThenTold
<1>6. (~Stirs(f) => (p.slots = <<>> => x.p.slots = <<>>)) /\ (f.k # "word" => x.p.stop = p.stop)
  BY <1>2, <1>3 DEF Fed, Same
<1>7. Fed(x, p, f)
  BY ONLY <1>1, <1>2, <1>5, <1>6 DEF Fed
<1> QED  BY <1>1, <1>7

LEMMA CompleteThenFed ==
    ASSUME NEW p, IsParser(p), p.started, NEW f, NEW r, Fed(r, p, f), NEW indices
    PROVE  Fed(Then(r, complete(r.p, indices)), p, f)
<1>1. PICK s, x, c : s = complete(r.p, indices) /\ x = Then(r, s) /\ c = (s.p.slots # <<>>)
  OBVIOUS
<1>2. x.p = s.p
  BY <1>1 DEF Then
<1>3. IsParser(r.p) /\ r.p.started
  <2>1. Grown(r.p, p) /\ r.p.started = (p.started \/ r.out # <<>>)
    BY DEF Fed, Told
  <2>2. (p.started \/ r.out # <<>>) = TRUE
    BY ParserHas
  <2> QED  BY <2>1, <2>2, Zenon DEF Grown
<1>4. Same(s.p, r.p) /\ s.p.stop = r.p.stop
  BY <1>1, <1>3, Completes
<1>5. c = (r.p.slots # <<>>)
  BY <1>1, <1>4 DEF Same, Grown
<1>6. Told(r, p, c)
  BY <1>5 DEF Fed
<1>7. Told(s, r.p, c)
  BY <1>1, <1>3, <1>5, CompleteTold, Zenon
<1>8. Told(x, p, c)
  BY <1>1, <1>6, <1>7, ThenTold
<1>9. (~Stirs(f) => (p.slots = <<>> => x.p.slots = <<>>)) /\ (f.k # "word" => x.p.stop = p.stop)
  BY <1>2, <1>4 DEF Fed, Same
<1>10. Fed(x, p, f)
  BY ONLY <1>1, <1>2, <1>8, <1>9 DEF Fed
<1> QED  BY <1>1, <1>10

LEMMA ChatFeeds ==
    ASSUME NEW p, NEW f, p.source = Chat, Ready(p, f), NEW z, z = feed_chat(p, f)
    PROVE  /\ Fed(z, p, f) /\ (f.k # "usage" => z.p.started)
           /\ f.k = "word" => z.p.stop = parse_stop_chat(f.word)
<1>1. IsParser(p) /\ f.at \in Nat
  BY DEF Ready
<1>2. CASE f.k = "usage"
  <2>1. z = Quiet(p)
    BY <1>2 DEF feed_chat
  <2> QED  BY <1>1, <1>2, <2>1, MovedNot, QuietFed
<1>3. CASE f.k # "usage"
  <2>1. PICK s, b : s = start(p) /\ b = s.p
    OBVIOUS
  <2>2. IsParser(b) /\ b.started /\ Same(b, p)
    BY <1>1, <2>1, StartTold, Zenon DEF Same, Grown
  <2>3. PICK q : q = IF f.k = "word" THEN [b EXCEPT !.stop = parse_stop_chat(f.word)] ELSE b
    BY Zenon
  <2>4. PICK r : r = CASE f.k \in {"text", "think"} -> Says(q, [k |-> f.k, t |-> f.t])
                       [] f.k = "open" -> Quiet(set_identity(q, f.at, f.id, f.name))
                       [] f.k = "args" -> Quiet(push_arguments(q, f.at))
                       [] OTHER -> Quiet(q)
    OBVIOUS
  <2>5. PICK y : y = IF q.stop # None THEN Then(r, complete(r.p, every(r.p))) ELSE r
    OBVIOUS
  <2>6. z = Then(s, y)
    BY ONLY <1>3, <2>1, <2>3, <2>4, <2>5, z = feed_chat(p, f) DEF feed_chat
  <2>7. Fed(r, b, f)
    <3>1. CASE f.k \in {"text", "think"}
      <4>1. r = Says(b, [k |-> f.k, t |-> f.t])
        BY <2>3, <2>4, <3>1
      <4> QED  BY <2>2, <3>1, <4>1, SpokenFed
    <3>2. CASE f.k = "open"
      <4>1. r = Quiet(set_identity(b, f.at, f.id, f.name))
        BY <2>3, <2>4, <3>2
      <4>2. Stirs(f)
        BY <3>2 DEF Stirs, Ready
      <4> QED  BY <1>1, <2>2, <4>1, <4>2, IdentityMoves, QuietFed
    <3>3. CASE f.k = "args"
      <4>1. r = Quiet(push_arguments(b, f.at))
        BY <2>3, <2>4, <3>3
      <4>2. Stirs(f)
        BY <3>3 DEF Stirs, Ready
      <4> QED  BY <1>1, <2>2, <4>1, <4>2, ArgumentsMove, QuietFed
    <3>4. CASE f.k \notin {"text", "think", "open", "args"}
      <4>1. r = Quiet(q)
        BY <2>4, <3>4
      <4>2. Moved(q, b, f)
        BY <2>2, <2>3, StopMoves, MovedNot
      <4> QED  BY <2>2, <4>1, <4>2, QuietFed
    <3> QED  BY <3>1, <3>2, <3>3, <3>4
  <2>8. Fed(y, b, f)
    BY <2>2, <2>5, <2>7, CompleteThenFed
  <2>9. z.p.started
    <3>1. z.p = y.p /\ y.p.started = (b.started \/ y.out # <<>>)
      BY <2>6, <2>8 DEF Then, Fed, Told
    <3>2. (b.started \/ y.out # <<>>) = TRUE
      BY <2>2
    <3> QED  BY <3>1, <3>2, Zenon
  <2>10. ASSUME f.k = "word"  PROVE z.p.stop = parse_stop_chat(f.word)
    <3>1. PICK v : v = parse_stop_chat(f.word) /\ q = [b EXCEPT !.stop = v]
      BY <2>3, <2>10
    <3>2. IsParser(q) /\ q.stop = v
      BY <2>2, <3>1, StopSet
    <3>3. r = Quiet(q)
      BY <2>4, <2>10
    <3>4. r.p = q
      BY <3>3 DEF Quiet
    <3>5. y.p.stop = v
      <4>1. PICK c : c = complete(r.p, every(r.p))
        OBVIOUS
      <4>2. c.p.stop = v
        BY <3>2, <3>4, <4>1, Completes
      <4>3. y = Then(r, c) \/ y = r
        BY <2>5, <4>1
      <4>4. Then(r, c).p = c.p
        BY ONLY DEF Then
      <4> QED  BY ONLY <3>2, <3>4, <4>2, <4>3, <4>4
    <3> QED  BY <2>6, <3>1, <3>5 DEF Then
  <2> QED  BY <1>1, <2>1, <2>6, <2>8, <2>9, <2>10, StartThenFed
<1> QED  BY <1>2, <1>3

LEMMA FilledFed ==
    ASSUME NEW p, IsParser(p), p.started, NEW f, Stirs(f), NEW q, Moved(q, p, f), NEW at \in Nat,
           NEW z, z = complete(fill_arguments(q, at), {at})
    PROVE  Fed(z, p, f)
<1>1. PICK g : g = fill_arguments(q, at)
  OBVIOUS
<1>2. IsParser(q)
  BY DEF Moved, Grown
<1>3. Moved(g, q, f)
  BY <1>1, <1>2, ArgumentsMove
<1>4. Moved(g, p, f)
  BY <1>3, MovedOn
<1> QED  BY <1>1, <1>4, CompleteFed

LEMMA ResponsesFeeds ==
    ASSUME NEW p, NEW f, Ready(p, f), NEW r, r = feed_responses(p, f)
    PROVE  /\ Fed(r, p, f)
           /\ f.k = "word" => r.p.stop = parse_stop_responses(f.word, p.slots # <<>>)
<1>1. IsParser(p) /\ f.at \in Nat /\ (p.started \/ f.k = "start")
  BY DEF Ready
<1>2. PICK c, n, q : c = responses_slot(p, f.at) /\ n = c.at /\ q = c.p
  OBVIOUS
<1>3. Moved(q, p, f) /\ n \in Nat /\ IsParser(q)
  BY <1>1, <1>2, SlotFound, MovedSame DEF Same, Grown
<1>4. CASE f.k = "start"
  <2>1. r = start(p)
    BY <1>4 DEF feed_responses
  <2> QED  BY <1>4, <1>1, <2>1, StartFed
<1>5. CASE f.k \in {"text", "think"}
  <2>1. r = Says(p, [k |-> f.k, t |-> f.t])
    BY <1>5 DEF feed_responses
  <2>2. p.started
    BY <1>1, <1>5 DEF Ready
  <2> QED  BY <1>1, <1>5, <2>1, <2>2, SpokenFed
<1>6. CASE f.k = "open" /\ f.kind = "call"
  <2>1. r = Quiet(set_identity(q, n, f.id, f.name))
    BY ONLY <1>2, <1>6, r = feed_responses(p, f) DEF feed_responses
  <2>2. Stirs(f)
    BY <1>6 DEF Stirs
  <2>3. Moved(set_identity(q, n, f.id, f.name), p, f)
    BY <1>3, <2>2, IdentityMoves, MovedOn
  <2> QED  BY <1>6, <1>1, <2>1, <2>3, QuietFed
<1>7. CASE f.k = "args"
  <2>1. r = Quiet(push_arguments(q, n))
    BY ONLY <1>2, <1>7, r = feed_responses(p, f) DEF feed_responses
  <2>2. Stirs(f)
    BY <1>7 DEF Stirs, Ready
  <2>3. Moved(push_arguments(q, n), p, f)
    BY <1>3, <2>2, ArgumentsMove, MovedOn
  <2> QED  BY <1>7, <1>1, <2>1, <2>3, QuietFed
<1>8. CASE f.k = "all"
  <2>1. r = complete(fill_arguments(q, n), {n})
    BY ONLY <1>2, <1>8, r = feed_responses(p, f) DEF feed_responses
  <2>2. Stirs(f) /\ p.started
    BY <1>1, <1>8 DEF Stirs, Ready
  <2> QED  BY <1>8, <1>1, <1>3, <2>1, <2>2, FilledFed
<1>9. CASE f.k = "shut" /\ f.kind = "call"
  <2>1. PICK g : g = set_identity(q, n, f.id, f.name)
    OBVIOUS
  <2>2. r = complete(fill_arguments(g, n), {n})
    BY ONLY <1>2, <1>9, <2>1, r = feed_responses(p, f) DEF feed_responses
  <2>3. Stirs(f) /\ p.started
    BY <1>1, <1>9 DEF Stirs
  <2>4. Moved(g, p, f)
    BY <1>3, <2>1, <2>3, IdentityMoves, MovedOn
  <2> QED  BY <1>9, <1>1, <1>3, <2>2, <2>3, <2>4, FilledFed
<1>10. CASE f.k = "word"
  <2>1. PICK s, v, y : /\ s = complete(p, every(p)) /\ v = parse_stop_responses(f.word, p.slots # <<>>)
                       /\ y = [s.p EXCEPT !.stop = v]
    BY Zenon
  <2>2. r = [s EXCEPT !.p = y]
    BY ONLY <1>10, <2>1, r = feed_responses(p, f) DEF feed_responses
  <2>3. s = [p |-> s.p, out |-> s.out]
    BY ONLY <2>1 DEF complete
  <2>4. r.p = y /\ r.out = s.out
    BY ONLY <2>2, <2>3
  <2>5. Fed(s, p, f)
    BY <1>1, <1>10, <2>1, MovedNot, CompleteFed
  <2>6. IsParser(s.p) /\ Grown(s.p, p)
    BY <2>5 DEF Fed, Told, Grown
  <2>7. IsParser(y) /\ y.source = s.p.source /\ y.started = s.p.started /\ y.stop = v /\ y.slots = s.p.slots
    BY ONLY <2>1, <2>6, StopSet
  <2>8. r.p.stop = parse_stop_responses(f.word, p.slots # <<>>)
    BY ONLY <2>1, <2>4, <2>7
  <2>9. Fed(r, p, f)
    BY ONLY <1>10, <2>4, <2>5, <2>7 DEF Fed, Told, Grown
  <2> QED  BY ONLY <2>8, <2>9
<1>11. CASE /\ f.k \notin {"start", "text", "think", "args", "all", "word"}
            /\ ~(f.k \in {"open", "shut"} /\ f.kind = "call")
  <2>1. r = Quiet(p)
    BY ONLY <1>11, r = feed_responses(p, f) DEF feed_responses
  <2> QED  BY <1>11, <1>1, <2>1, MovedNot, QuietFed
<1> QED  BY <1>4, <1>5, <1>6, <1>7, <1>8, <1>9, <1>10, <1>11

LEMMA Feeds ==
    ASSUME NEW p, NEW f, Ready(p, f)
    PROVE  /\ Fed(feed(p, f), p, f) /\ (f.k = "start" => feed(p, f).p.started)
           /\ f.k = "word" => feed(p, f).p.stop = Parsed(p, f)
<1>0. PICK r : r = feed(p, f)
  OBVIOUS
<1>1. p.source \in Wire
  BY ParserHas DEF Ready
<1>2. CASE p.source = Anthropic
  <2>1. r = feed_anthropic(p, f)
    BY ONLY <1>0, <1>2 DEF feed, Chat, Anthropic, Responses
  <2>2. f.k = "start" => r = start(p)
    BY <2>1 DEF feed_anthropic
  <2>3. start(p).p.started
    BY StartTold, Zenon DEF Ready
  <2> QED  BY <1>0, <1>2, <2>1, <2>2, <2>3, AnthropicFeeds DEF Parsed, Chat, Anthropic, Responses
<1>3. CASE p.source = Chat
  <2>1. r = feed_chat(p, f)
    BY ONLY <1>0, <1>3 DEF feed, Chat, Anthropic, Responses
  <2> QED  BY <1>0, <1>3, <2>1, ChatFeeds DEF Parsed, Chat, Anthropic, Responses
<1>4. CASE p.source = Responses
  <2>1. r = feed_responses(p, f)
    BY ONLY <1>0, <1>4 DEF feed, Responses, Anthropic, Chat
  <2>2. f.k = "start" => r = start(p)
    BY <2>1 DEF feed_responses
  <2>3. start(p).p.started
    BY StartTold, Zenon DEF Ready
  <2> QED  BY <1>0, <1>4, <2>1, <2>2, <2>3, ResponsesFeeds DEF Parsed, Chat, Anthropic, Responses
<1> QED  BY <1>1, <1>2, <1>3, <1>4 DEF Wire


-----------------------------------------------------------------------------
(* The translator: a frame, and the end of the stream.                     *)

\* What is owed at the end: m deltas, and the word that ends, with its reason.
GivenReason(p) == IF p.stop # None THEN p.stop ELSE IF p.slots # <<>> THEN "ToolUse" ELSE "EndTurn"
Owes(ds, m, p) ==
    /\ IsSeq(ds) /\ m \in Nat /\ Len(ds) = m + 1 /\ ds[m + 1].k = "stop"
    /\ Tells(ds, m, p.started, p.slots # <<>>)
    /\ p.started \/ m > 0
    /\ ds[m + 1].reason = GivenReason(p)

LEMMA OwedTold ==
    ASSUME NEW p, IsParser(p)
    PROVE  \E m : Owes(Owed(p).out, m, p)
<1>1. PICK s, x, r, c : /\ s = start(p) /\ x = complete(s.p, every(s.p)) /\ r = Then(s, x)
                        /\ c = (p.slots # <<>>)
  OBVIOUS
<1>2. Told(s, p, c) /\ Same(s.p, p) /\ s.p.started = TRUE
  BY <1>1, StartTold, Zenon
<1>3. IsParser(s.p) /\ s.p.started /\ (s.p.slots # <<>> => c)
  BY <1>1, <1>2, Zenon DEF Same, Grown
<1>4. Told(x, s.p, c) /\ x.p.started = s.p.started
  BY <1>1, <1>3, CompleteTold, Completes, Zenon
<1>5. Told(r, p, c)
  BY <1>1, <1>2, <1>4, ThenTold
<1>6. r.p = x.p
  BY <1>1 DEF Then
<1>7. PICK a, m, v, d, ds : /\ a = r.out /\ m = Len(a) /\ d = [k |-> "stop", reason |-> v] /\ ds = Append(a, d)
                            /\ v = IF p.stop # None THEN p.stop ELSE IF p.slots # <<>> THEN "ToolUse" ELSE "EndTurn"
  BY Zenon
<1>8. /\ IsSeq(a) /\ Tells(a, m, p.started, c) /\ r.p.started = (p.started \/ a # <<>>)
      /\ p.started \in BOOLEAN
  BY <1>5, <1>7, ParserHas DEF Told
<1>9. /\ IsSeq(ds) /\ a \o <<d>> = ds /\ m \in Nat /\ (a = <<>> <=> m = 0) /\ Len(ds) = m + 1
      /\ (\A i \in 1 .. m : ds[i] = a[i]) /\ ds[m + 1] = d
  BY ONLY <1>7, <1>8, Appending
<1>10. Owed(p).out = a \o <<d>>
  BY ONLY <1>1, <1>7, Zenon DEF Owed, Then, Says
<1>11. d.k = "stop" /\ d.reason = GivenReason(p)
  BY ONLY <1>7 DEF GivenReason
<1>12. Tells(ds, m, p.started, c)
  BY ONLY <1>8, <1>9 DEF Tells
<1>13. p.started \/ m > 0
  BY <1>2, <1>4, <1>6, <1>8, <1>9
<1>14. Owes(ds, m, p)
  BY ONLY <1>1, <1>9, <1>11, <1>12, <1>13 DEF Owes
<1> QED  BY ONLY <1>9, <1>10, <1>14, Zenon

LEMMA FlowingIsSeq ==
    ASSUME NEW e, NEW g, NEW called, Flowing(e, g, called)
    PROVE  IsSeq(g) /\ IsEmitter(e)
BY EmitterHas DEF Flowing, Going, Over

\* A translator at work for a client of the wire w, which has received g ...
Runs(u, w, g) ==
    /\ u = [p |-> u.p, e |-> u.e, closed |-> FALSE] /\ IsParser(u.p)
    /\ u.e.target = w /\ u.e.started = u.p.started
    /\ Flowing(u.e, g, u.p.slots # <<>>)

\* ... and one that is done.
Finished(u, w, g) == u.closed = TRUE /\ Over(w, g)

LEMMA Closes ==
    ASSUME NEW u, NEW w, NEW g, Runs(u, w, g)
    PROVE  IsSeq(close(u).out) /\ Finished(close(u).t, w, g \o close(u).out)
<1>1. PICK p, e, c, ds : p = u.p /\ e = u.e /\ c = (p.slots # <<>>) /\ ds = Owed(p).out
  OBVIOUS
<1>2. /\ u = [p |-> p, e |-> e, closed |-> FALSE] /\ IsParser(p) /\ e.target = w
      /\ e.started = p.started /\ Flowing(e, g, c)
  BY <1>1 DEF Runs
<1>3. IsSeq(g)
  BY <1>2, FlowingIsSeq
<1>4. PICK m : Owes(ds, m, p)
  BY <1>1, <1>2, OwedTold
<1>5. PICK y : y = Writing(e, ds)
  OBVIOUS
<1>6. Ended(y, e, g)
  <2>1. /\ IsSeq(ds) /\ m \in Nat /\ Len(ds) = m + 1 /\ ds[m + 1].k = "stop"
        /\ Tells(ds, m, e.started, c) /\ (e.started \/ m > 0)
    BY ONLY <1>1, <1>2, <1>4 DEF Owes
  <2> QED  BY <1>2, <1>3, <1>5, <2>1, WrittenLast
<1>7. close(u) = Written([u EXCEPT !.closed = TRUE], Owed(p))
  BY <1>1, <1>2 DEF close
<1>8. PICK z : z = [u EXCEPT !.closed = TRUE]
  BY Zenon
<1>9. z = [p |-> p, e |-> e, closed |-> TRUE]
  BY ONLY <1>2, <1>8, Zenon
<1>10. close(u).out = y.out /\ close(u).t = [z EXCEPT !.p = Owed(p).p, !.e = y.e]
  BY ONLY <1>1, <1>5, <1>7, <1>8, <1>9 DEF Written
<1>11. close(u).t.closed = TRUE
  BY ONLY <1>9, <1>10
<1> QED  BY ONLY <1>2, <1>6, <1>10, <1>11 DEF Ended, Finished

LEMMA ClosedAlready ==
    ASSUME NEW u, NEW w, NEW g, Finished(u, w, g)
    PROVE  close(u).t = u /\ close(u).out = <<>> /\ g \o close(u).out = g /\ IsSeq(<<>>)
<1>1. close(u) = [t |-> u, out |-> <<>>]
  BY DEF close, Finished
<1>2. IsSeq(g)
  BY DEF Finished, Over
<1>3. g \o <<>> = g /\ IsSeq(<<>>)
  BY <1>2, TupleOne, Zenon
<1> QED  BY <1>1, <1>3

LEMMA Consumes ==
    ASSUME NEW u, NEW w, NEW g, Runs(u, w, g),
           NEW f, f.k # "done", Ready(u.p, f)
    PROVE  /\ IsSeq(consume(u, f).out) /\ Runs(consume(u, f).t, w, g \o consume(u, f).out)
           /\ consume(u, f).t.p.source = u.p.source
           /\ consume(u, f).t.p.started
           /\ ~Stirs(f) => (u.p.slots = <<>> => consume(u, f).t.p.slots = <<>>)
           /\ consume(u, f).t.p.stop = IF f.k = "word" THEN Parsed(u.p, f) ELSE u.p.stop
<1>1. PICK p, e, r, c, ds, y : /\ p = u.p /\ e = u.e /\ r = feed(p, f) /\ c = (r.p.slots # <<>>) /\ ds = r.out
                               /\ y = Writing(e, ds)
  OBVIOUS
<1>2. /\ u = [p |-> p, e |-> e, closed |-> FALSE] /\ IsParser(p) /\ e.target = w
      /\ e.started = p.started /\ Flowing(e, g, p.slots # <<>>)
  BY <1>1 DEF Runs
<1>3. Fed(r, p, f) /\ (f.k = "start" => r.p.started) /\ (f.k = "word" => r.p.stop = Parsed(p, f))
  BY <1>1, Feeds
<1>4. /\ Grown(r.p, p) /\ IsSeq(ds) /\ Tells(ds, Len(ds), p.started, c)
      /\ r.p.started = (p.started \/ ds # <<>>)
      /\ ~Stirs(f) => (p.slots = <<>> => r.p.slots = <<>>)
  BY ONLY <1>1, <1>3 DEF Fed, Told
<1>5. Flowing(e, g, c)
  <2>1. p.slots # <<>> => c
    BY <1>1, <1>4, Zenon DEF Grown
  <2> QED  BY ONLY <1>2, <2>1 DEF Flowing
<1>6. IsSeq(g)
  BY <1>5, FlowingIsSeq
<1>7. Stands(y, w, r.p.started, g, c)
  BY <1>1, <1>2, <1>4, <1>5, <1>6, Written1
<1>8. consume(u, f) = Written(u, r)
  BY ONLY <1>1, f.k # "done" DEF consume
<1>9. consume(u, f).out = y.out /\ consume(u, f).t = [u EXCEPT !.p = r.p, !.e = y.e]
  BY ONLY <1>1, <1>2, <1>8 DEF Written
<1>10. consume(u, f).t = [p |-> r.p, e |-> y.e, closed |-> FALSE]
  BY ONLY <1>2, <1>9, Zenon
<1>11. PICK v, o : v = consume(u, f).t /\ o = consume(u, f).out
  OBVIOUS
<1>12. v.p = r.p /\ v.e = y.e /\ v = [p |-> v.p, e |-> v.e, closed |-> FALSE] /\ o = y.out
  BY ONLY <1>9, <1>10, <1>11
<1>13. IsSeq(o) /\ Runs(v, w, g \o o)
  BY ONLY <1>1, <1>4, <1>7, <1>12 DEF Runs, Stands, Grown
<1>14. r.p.started
  <2>1. p.started \/ f.k = "start"
    BY <1>1 DEF Ready
  <2>2. (p.started \/ ds # <<>>) = TRUE \/ f.k = "start"
    BY <2>1
  <2> QED  BY <1>3, <1>4, <2>2, Zenon
<1>15. r.p.source = p.source
  BY <1>4 DEF Grown
<1>16. r.p.stop = IF f.k = "word" THEN Parsed(p, f) ELSE p.stop
  BY ONLY <1>3 DEF Fed
<1> QED  BY ONLY <1>1, <1>4, <1>11, <1>12, <1>13, <1>14, <1>15, <1>16

LEMMA ConsumesDone ==
    ASSUME NEW u, NEW w, NEW g, Runs(u, w, g), NEW f, f.k = "done"
    PROVE  IsSeq(consume(u, f).out) /\ Finished(consume(u, f).t, w, g \o consume(u, f).out)
<1>1. consume(u, f) = close(u)
  BY DEF consume
<1> QED  BY <1>1, Closes


-----------------------------------------------------------------------------
(* The frames of an upstream: they start with "start", and end with "done" *)
(* if they have it.                                                        *)

\* A frame an upstream of the wire w may send.
Sound(f, w) == /\ f.at \in Nat
               /\ f.k \in {"args", "all"} \/ (w = Chat /\ f.k = "open") => f.kind = "call"

\* The frames fs that are yet to come, for the parser p.
Comes(fs, p) ==
    /\ IsSeq(fs)
    /\ \A i \in 1 .. Len(fs) : Sound(fs[i], p.source) /\ (fs[i].k = "done" => i = Len(fs))
    /\ fs # <<>> /\ ~p.started => fs[1].k = "start"

LEMMA HeadTail ==
    ASSUME NEW fs, IsSeq(fs), fs # <<>>, NEW ts, ts = Tail(fs)
    PROVE  /\ Head(fs) = fs[1] /\ IsSeq(ts) /\ Len(fs) \in Nat /\ 1 \in 1 .. Len(fs)
           /\ Len(ts) = Len(fs) - 1 /\ \A i \in 1 .. Len(ts) : i + 1 \in 1 .. Len(fs) /\ ts[i] = fs[i + 1]
           /\ (ts = <<>> <=> Len(fs) = 1)
<1>1. PICK S : fs \in Seq(S)
  BY DEF IsSeq
<1>2. /\ ts \in Seq(S) /\ Len(ts) = Len(fs) - 1 /\ \A i \in 1 .. Len(ts) : ts[i] = fs[i + 1]
  BY <1>1, HeadTailProperties
<1>3. IsSeq(ts)
  BY <1>2 DEF IsSeq
<1>4. Len(fs) \in Nat /\ Len(fs) # 0 /\ Len(ts) \in Nat /\ (ts = <<>> <=> Len(ts) = 0)
  <2>1. Len(fs) \in Nat /\ Len(fs) # 0
    BY ONLY IsSeq(fs), fs # <<>>, Appending
  <2>2. Len(ts) \in Nat /\ (ts = <<>> <=> Len(ts) = 0)
    BY ONLY <1>3, Appending
  <2> QED  BY ONLY <2>1, <2>2
<1>5. Head(fs) = fs[1]
  BY <1>1
<1> QED  BY <1>2, <1>3, <1>4, <1>5

LEMMA HeadReady ==
    ASSUME NEW fs, NEW p, IsParser(p), Comes(fs, p), fs # <<>>
    PROVE  Ready(p, Head(fs))
<1>1. PICK f : f = Head(fs)
  OBVIOUS
<1>2. f = fs[1] /\ 1 \in 1 .. Len(fs)
  BY <1>1, HeadTail DEF Comes
<1>3. Sound(f, p.source) /\ (~p.started => f.k = "start")
  BY <1>2 DEF Comes
<1>5. Ready(p, f)
  BY <1>3 DEF Ready, Sound
<1> QED  BY <1>1, <1>5

LEMMA TailComes ==
    ASSUME NEW fs, NEW p, Comes(fs, p), fs # <<>>, NEW q, q.source = p.source, q.started
    PROVE  Comes(Tail(fs), q)
<1>1. PICK ts, n : ts = Tail(fs) /\ n = Len(fs)
  BY Zenon
<1>2. IsSeq(fs)
  BY DEF Comes
<1>3. /\ Head(fs) = fs[1] /\ IsSeq(ts) /\ n \in Nat /\ 1 \in 1 .. n
      /\ Len(ts) = n - 1 /\ \A i \in 1 .. Len(ts) : i + 1 \in 1 .. n /\ ts[i] = fs[i + 1]
  BY ONLY <1>1, <1>2, fs # <<>>, HeadTail
<1>4. ASSUME NEW i \in 1 .. Len(ts)  PROVE Sound(ts[i], q.source) /\ (ts[i].k = "done" => i = Len(ts))
  BY <1>1, <1>3 DEF Comes
<1>7. Comes(ts, q)
  BY <1>3, <1>4 DEF Comes
<1> QED  BY <1>1, <1>7

\* Where "done" came, nothing else does.
LEMMA DoneIsLast ==
    ASSUME NEW fs, NEW p, Comes(fs, p), fs # <<>>, Head(fs).k = "done"
    PROVE  Tail(fs) = <<>>
<1>1. IsSeq(fs)
  BY DEF Comes
<1>2. PICK ts : ts = Tail(fs)
  BY Zenon
<1>3. Head(fs) = fs[1] /\ 1 \in 1 .. Len(fs) /\ (ts = <<>> <=> Len(fs) = 1)
  BY ONLY <1>1, <1>2, fs # <<>>, HeadTail
<1>4. 1 = Len(fs)
  BY <1>3, Zenon DEF Comes
<1> QED  BY <1>2, <1>3, <1>4

-----------------------------------------------------------------------------
\* The frames of a piece of the given kind.
OfPiece(f, w, kind) == /\ Sound(f, w) /\ f.k \notin {"start", "done"} /\ f.kind = kind
                       /\ f.k = "text" => kind = "text"
PieceSet(w, target, m, n, pieces, i) ==
    {f \in {Framed(w, target, m, n, pieces, i, k) : k \in {"open", "args", "all", "shut", "text", "think"}} :
       OfPiece(f, target, pieces[i])}

LEMMA FramedIs ==
    ASSUME NEW w, NEW target, NEW m, NEW n, NEW pieces, NEW i \in Nat \ {0},
           NEW k \in {"open", "args", "all", "shut", "text", "think"},
           k \in {"args", "all"} \/ (target = Chat /\ k = "open") => pieces[i] = "call",
           k = "text" => pieces[i] = "text"
    PROVE  Framed(w, target, m, n, pieces, i, k) \in PieceSet(w, target, m, n, pieces, i)
<1>1. PICK f : f = Framed(w, target, m, n, pieces, i, k)
  OBVIOUS
<1>2. PICK T : T = {j \in 1 .. (i - 1) : pieces[j] = "call"}
  BY Zenon
<1>3. IsFiniteSet(1 .. (i - 1))
  BY FS_Interval
<1>4. IsFiniteSet(T)
  BY <1>2, <1>3, FS_Subset
<1>5. Rank(pieces, i) \in Nat
  BY <1>2, <1>4, FS_CardinalityType DEF Rank
<1>6. f.at \in Nat /\ f.k = k /\ f.kind = pieces[i]
  BY <1>1, <1>5 DEF Framed
<1>7. OfPiece(f, target, pieces[i])
  BY <1>6 DEF OfPiece, Sound
<1> QED  BY ONLY <1>1, <1>7, k \in {"open", "args", "all", "shut", "text", "think"} DEF PieceSet

LEMMA PieceIs ==
    ASSUME NEW w, NEW target \in Wire, NEW m, NEW n, NEW r, NEW i \in Nat \ {0},
           r.pieces[i] \in {"think", "text", "call"}
    PROVE  PieceFrames(w, target, m, n, r, i) \in Seq(PieceSet(w, target, m, n, r.pieces, i))
<1> DEFINE F(k) == Framed(w, target, m, n, r.pieces, i, k)
<1>1. PICK kind, X, half, len : /\ kind = r.pieces[i] /\ X = PieceSet(w, target, m, n, r.pieces, i)
                                /\ half = (r.max /\ i = Len(r.pieces) /\ kind = "call")
                                /\ len = IF half THEN Parts - 1 ELSE Parts
  OBVIOUS
<1>2. F("shut") \in X
  BY <1>1, FramedIs
<1>3. kind = "call" \/ target # Chat => F("open") \in X
  BY <1>1, FramedIs
<1>4. kind = "call" => F("args") \in X /\ F("all") \in X
  BY <1>1, FramedIs, Zenon
<1>5. kind # "call" => F(kind) \in X
  <2>1. ASSUME kind # "call"  PROVE kind \in {"text", "think"}
    BY <1>1, <2>1
  <2> QED  BY <1>1, <2>1, FramedIs
<1>6. PICK args : args = [j \in 1 .. len |-> F("args")]
  BY Zenon
<1>7. len \in Nat
  BY <1>1, TranslateAssumption
<1>8. kind = "call" => args \in Seq(X)
  BY ONLY <1>4, <1>6, <1>7
<1>9. PICK body : body = IF kind = "call" THEN args ELSE <<F(kind)>>
  BY Zenon
<1>10. body \in Seq(X)
  BY ONLY <1>5, <1>8, <1>9
<1>11. PICK z : z = PieceFrames(w, target, m, n, r, i)
  OBVIOUS
<1>12. CASE target = Anthropic
  <2>1. z = <<F("open")>> \o body \o <<F("shut")>>
    BY ONLY <1>1, <1>6, <1>9, <1>11, <1>12, Zenon DEF PieceFrames, Chat, Anthropic, Responses
  <2>2. PICK a, b : a = F("open") /\ b = F("shut")
    OBVIOUS
  <2>3. a \in X /\ b \in X
    BY <1>2, <1>3, <1>12, <2>2 DEF Chat, Anthropic
  <2>4. z \in Seq(X)
    BY ONLY <1>10, <2>1, <2>2, <2>3, ConcatProperties
  <2> QED  BY <1>1, <1>11, <2>4
<1>13. CASE target = Chat
  <2>1. z = (IF kind = "call" THEN <<F("open")>> ELSE <<>>) \o body
    BY ONLY <1>1, <1>6, <1>9, <1>11, <1>13, Zenon DEF PieceFrames, Chat, Anthropic, Responses
  <2>2. PICK a, c : a = F("open") /\ c = IF kind = "call" THEN <<a>> ELSE <<>>
    BY Zenon
  <2>3. c \in Seq(X)
    BY ONLY <1>3, <2>2
  <2>4. z \in Seq(X)
    BY ONLY <1>10, <2>1, <2>2, <2>3, ConcatProperties
  <2> QED  BY <1>1, <1>11, <2>4
<1>14. CASE target = Responses
  <2>1. PICK a, b, d, c : /\ a = F("open") /\ b = F("shut") /\ d = F("all")
                          /\ c = IF half THEN <<>> ELSE IF kind = "call" THEN <<d, b>> ELSE <<b>>
    BY Zenon
  <2>2. z = <<a>> \o body \o c
    BY ONLY <1>1, <1>6, <1>9, <1>11, <1>14, <2>1, Zenon DEF PieceFrames, Chat, Anthropic, Responses
  <2>3. a \in X /\ b \in X /\ (kind = "call" => d \in X)
    BY <1>2, <1>3, <1>4, <1>14, <2>1 DEF Chat, Responses
  <2>4. c \in Seq(X)
    BY ONLY <2>1, <2>3
  <2>5. z \in Seq(X)
    BY ONLY <1>10, <2>2, <2>3, <2>4, ConcatProperties
  <2> QED  BY <1>1, <1>11, <2>5
<1> QED  BY <1>12, <1>13, <1>14 DEF Wire


\* What closes an upstream's frames.
IsRest(ts) ==
    /\ IsSeq(ts)
    /\ \A i \in 1 .. Len(ts) : /\ ts[i].at \in Nat /\ ts[i].k \in {"word", "end", "usage", "done"}
                               /\ ts[i].k = "done" => i = Len(ts)

\* The frames of the pieces.
IsMiddle(F, w) ==
    /\ IsSeq(F)
    /\ \A x \in 1 .. Len(F) : Sound(F[x], w) /\ F[x].k \notin {"start", "done"}

LEMMA Middle ==
    ASSUME NEW w, NEW target \in Wire, NEW m, NEW n, NEW r, r.pieces \in Seq({"think", "text", "call"}),
           NEW ss, ss = [i \in 1 .. Len(r.pieces) |-> PieceFrames(w, target, m, n, r, i)]
    PROVE  IsMiddle(FlattenSeq(ss), target)
<1>1. PICK len, T, F : /\ len = Len(r.pieces) /\ F = FlattenSeq(ss)
                       /\ T = [i \in 1 .. len |-> PieceSet(w, target, m, n, r.pieces, i)]
  BY Zenon
<1>2. len \in Nat /\ \A i \in 1 .. len : r.pieces[i] \in {"think", "text", "call"}
  BY <1>1, LenProperties, ElementOfSeq
<1>3. ss = [i \in 1 .. len |-> ss[i]]
  BY <1>1
<1>4. \A i \in 1 .. len : ss[i] \in Seq(T[i])
  <2> SUFFICES ASSUME NEW i \in 1 .. len  PROVE ss[i] \in Seq(T[i])
    OBVIOUS
  <2>1. PieceFrames(w, target, m, n, r, i) \in Seq(PieceSet(w, target, m, n, r.pieces, i))
    BY <1>2, PieceIs
  <2> QED  BY <1>1, <2>1
<1>5. InOrder(F, T, len)
  BY ONLY <1>1, <1>2, <1>3, <1>4, Flattened, Zenon
<1>6. IsSeq(F) /\ Len(F) \in Nat
  BY <1>5, Appending DEF InOrder
<1>7. \A i \in 1 .. len : \A f \in T[i] : OfPiece(f, target, r.pieces[i])
  BY ONLY <1>1 DEF PieceSet
<1>8. ASSUME NEW x \in 1 .. Len(F)  PROVE Sound(F[x], target) /\ F[x].k \notin {"start", "done"}
  <2>1. x <= x
    BY <1>6
  <2>2. PICK i \in 1 .. len : F[x] \in T[i]
    BY <1>5, <2>1 DEF InOrder
  <2> QED  BY <1>7, <2>2 DEF OfPiece
<1> QED  BY <1>1, <1>6, <1>8 DEF IsMiddle

\* The sequence fs is a, then F, then ts.
InThree(fs, a, F, ts) ==
    /\ IsSeq(fs) /\ Len(F) \in Nat /\ Len(ts) \in Nat /\ Len(fs) = 1 + Len(F) + Len(ts)
    /\ fs[1] = a
    /\ \A x \in 1 .. Len(fs) : \/ x = 1 /\ fs[x] = a
                               \/ x > 1 /\ x - 1 \in 1 .. Len(F) /\ fs[x] = F[x - 1]
                               \/ x > 1 + Len(F) /\ x - (1 + Len(F)) \in 1 .. Len(ts) /\ fs[x] = ts[x - (1 + Len(F))]

LEMMA ThreeParts ==
    ASSUME NEW a, NEW F, IsSeq(F), NEW ts, IsSeq(ts), NEW fs, fs = Joined(Joined(<<a>>, F), ts)
    PROVE  InThree(fs, a, F, ts)
<1>1. PICK b, c : b = <<a>> /\ c = Joined(b, F)
  OBVIOUS
<1>2. IsSeq(b) /\ Len(b) = 1 /\ b[1] = a
  <2>1. b \in Seq({a}) /\ Len(b) = 1 /\ b[1] = a
    BY ONLY <1>1
  <2> QED  BY <2>1 DEF IsSeq
<1>3. IsSeq(F) /\ IsSeq(ts)
  OBVIOUS
<1>4. IsJoin(c, b, F)
  BY ONLY <1>1, <1>2, <1>3, ConcatParts
<1>5. IsSeq(c)
  BY <1>4 DEF IsJoin
<1>6. IsJoin(fs, c, ts)
  BY ONLY <1>1, <1>3, <1>5, fs = Joined(Joined(<<a>>, F), ts), ConcatParts
<1>7. PICK n, l, k : n = Len(F) /\ l = Len(ts) /\ k = Len(fs)
  BY Zenon
<1>8. /\ IsSeq(fs) /\ n \in Nat /\ l \in Nat /\ k = 1 + n + l /\ Len(c) = 1 + n
      /\ \A x \in 1 .. k : \/ x = 1 /\ fs[x] = a
                           \/ x > 1 /\ x - 1 \in 1 .. n /\ fs[x] = F[x - 1]
                           \/ x > 1 + n /\ x - (1 + n) \in 1 .. l /\ fs[x] = ts[x - (1 + n)]
  <2>1. IsSeq(fs) /\ n \in Nat /\ l \in Nat /\ k = 1 + n + l /\ Len(c) = 1 + n
    BY ONLY <1>2, <1>4, <1>6, <1>7 DEF IsJoin
  <2>2. ASSUME NEW x \in 1 .. k  PROVE \/ x = 1 /\ fs[x] = a
                                       \/ x > 1 /\ x - 1 \in 1 .. n /\ fs[x] = F[x - 1]
                                       \/ x > 1 + n /\ x - (1 + n) \in 1 .. l /\ fs[x] = ts[x - (1 + n)]
    <3>1. CASE x = 1
      <4>1. fs[1] = c[1] /\ c[1] = b[1]
        BY ONLY <1>2, <1>4, <1>6, <1>7, <2>1 DEF IsJoin
      <4> QED  BY <1>2, <3>1, <4>1
    <3>2. CASE x > 1 /\ x <= 1 + n
      <4>1. x \in 1 .. Len(c) /\ x > Len(b)
        BY <1>2, <2>1, <3>2
      <4>2. fs[x] = c[x]
        BY ONLY <1>6, <4>1 DEF IsJoin
      <4>3. x - Len(b) \in 1 .. Len(F) /\ c[x] = F[x - Len(b)]
        BY ONLY <1>4, <4>1 DEF IsJoin
      <4> QED  BY <1>2, <1>7, <3>2, <4>2, <4>3
    <3>3. CASE x > 1 + n
      <4>1. x \in 1 .. Len(fs) /\ x > Len(c)
        BY <1>7, <2>1, <3>3
      <4>2. x - Len(c) \in 1 .. Len(ts) /\ fs[x] = ts[x - Len(c)]
        BY ONLY <1>6, <4>1 DEF IsJoin
      <4> QED  BY <1>7, <2>1, <3>3, <4>2
    <3> QED  BY <2>1, <3>1, <3>2, <3>3
  <2> QED  BY <2>1, <2>2
<1>9. 1 \in 1 .. k
  BY ONLY <1>8
<1>10. fs[1] = a
  BY ONLY <1>8, <1>9
<1> QED  BY ONLY <1>7, <1>8, <1>10 DEF InThree

LEMMA InThreeParts ==
    ASSUME NEW a, a.k = "start", a.at = 0, NEW F, NEW w, IsMiddle(F, w), NEW ts, IsRest(ts),
           NEW p, p.source = w, NEW fs, InThree(fs, a, F, ts)
    PROVE  Comes(fs, p)
<1>7. PICK n, l, k : n = Len(F) /\ l = Len(ts) /\ k = Len(fs)
  BY Zenon
<1>8. /\ IsSeq(fs) /\ n \in Nat /\ l \in Nat /\ k = 1 + n + l
      /\ \A x \in 1 .. k : \/ x = 1 /\ fs[x] = a
                           \/ x > 1 /\ x - 1 \in 1 .. n /\ fs[x] = F[x - 1]
                           \/ x > 1 + n /\ x - (1 + n) \in 1 .. l /\ fs[x] = ts[x - (1 + n)]
  BY ONLY <1>7, InThree(fs, a, F, ts) DEF InThree
<1>9. \A y \in 1 .. l : /\ ts[y].at \in Nat /\ ts[y].k \in {"word", "end", "usage", "done"}
                        /\ ts[y].k = "done" => y = l
  BY ONLY <1>7, IsRest(ts) DEF IsRest
<1>10. \A y \in 1 .. n : Sound(F[y], w) /\ F[y].k \notin {"start", "done"}
  BY ONLY <1>7, IsMiddle(F, w) DEF IsMiddle
<1>11. ASSUME NEW x \in 1 .. k  PROVE Sound(fs[x], w) /\ (fs[x].k = "done" => x = k)
  <2>1. CASE x = 1 /\ fs[x] = a
    BY <2>1 DEF Sound
  <2>2. CASE x > 1 /\ x - 1 \in 1 .. n /\ fs[x] = F[x - 1]
    BY <1>10, <2>2
  <2>3. CASE x > 1 + n /\ x - (1 + n) \in 1 .. l /\ fs[x] = ts[x - (1 + n)]
    <3>1. PICK y \in 1 .. l : y = x - (1 + n) /\ fs[x] = ts[y]
      BY <2>3
    <3>2. Sound(ts[y], w)
      BY <1>9 DEF Sound
    <3>3. y = l => x = k
      BY <1>8, <3>1
    <3> QED  BY <1>9, <3>1, <3>2, <3>3
  <2> QED  BY <1>8, <2>1, <2>2, <2>3
<1>13. 1 \in 1 .. k /\ fs[1] = a
  <2>1. 1 \in 1 .. k
    BY <1>8
  <2> QED  BY <1>8, <2>1
<1> QED  BY ONLY <1>7, <1>8, <1>11, <1>13, a.k = "start", p.source = w DEF Comes

\* Of the word an upstream ends with, and what it sends around its pieces.
SaidWord(target, r) ==
    CASE target = Anthropic -> IF r.max THEN "max_tokens" ELSE IF Contains(r.pieces, "call") THEN "tool_use" ELSE "end_turn"
      [] target = Chat -> IF r.max THEN "length" ELSE IF Contains(r.pieces, "call") THEN "tool_calls" ELSE "stop"
      [] target = Responses -> IF r.max THEN "max_output_tokens" ELSE "completed"
BareOf(k, word) == [k |-> k, at |-> 0, kind |-> "", word |-> word]
RestOf(target, word) ==
    CASE target = Anthropic -> <<BareOf("word", word), BareOf("end", word)>>
      [] target = Chat -> <<BareOf("word", word), BareOf("usage", word), BareOf("done", word)>>
      [] target = Responses -> <<BareOf("word", word)>>

LEMMA FramesAre ==
    ASSUME NEW w, NEW target, NEW m, NEW n, NEW r
    PROVE  Frames(w, target, m, n, r)
             = Joined(Joined(<<BareOf("start", SaidWord(target, r))>>,
                             FlattenSeq([i \in 1 .. Len(r.pieces) |-> PieceFrames(w, target, m, n, r, i)])),
                      RestOf(target, SaidWord(target, r)))
<1>1. PICK word : word = SaidWord(target, r)
  OBVIOUS
<1>2. PICK F : F = FlattenSeq([i \in 1 .. Len(r.pieces) |-> PieceFrames(w, target, m, n, r, i)])
  BY Zenon
<1>3. Frames(w, target, m, n, r) = <<BareOf("start", word)>> \o F \o RestOf(target, word)
  BY ONLY <1>1, <1>2 DEF Frames, SaidWord, BareOf, RestOf
<1> QED  BY ONLY <1>1, <1>2, <1>3 DEF Joined

LEMMA RestIs ==
    ASSUME NEW target \in Wire, NEW word, NEW ts, ts = RestOf(target, word)
    PROVE  /\ IsRest(ts) /\ Len(ts) \in 1 .. 3
           /\ \A i \in 1 .. Len(ts) : /\ ~Stirs(ts[i]) /\ ts[i].word = word
                                      /\ ts[i].k = "word" <=> i = 1
<1>1. PICK b, c, d, e : b = BareOf("word", word) /\ c = BareOf("end", word) /\ d = BareOf("usage", word) /\ e = BareOf("done", word)
  OBVIOUS
<1>2. /\ b.k = "word" /\ c.k = "end" /\ d.k = "usage" /\ e.k = "done"
      /\ b.at = 0 /\ c.at = 0 /\ d.at = 0 /\ e.at = 0
      /\ b.word = word /\ c.word = word /\ d.word = word /\ e.word = word
  BY ONLY <1>1, Zenon DEF BareOf
<1>3. ts = <<b, c>> \/ ts = <<b, d, e>> \/ ts = <<b>>
  BY ONLY <1>1, target \in Wire, ts = RestOf(target, word) DEF RestOf, Wire, Anthropic, Chat, Responses
<1>4. CASE ts = <<b, c>>
  <2>1. ts \in Seq({b, c}) /\ Len(ts) = 2 /\ ts[1] = b /\ ts[2] = c
    BY ONLY <1>4
  <2> QED  BY ONLY <1>2, <2>1 DEF IsRest, IsSeq, Stirs
<1>5. CASE ts = <<b, d, e>>
  <2>1. ts \in Seq({b, d, e}) /\ Len(ts) = 3 /\ ts[1] = b /\ ts[2] = d /\ ts[3] = e
    BY ONLY <1>5
  <2> QED  BY ONLY <1>2, <2>1 DEF IsRest, IsSeq, Stirs
<1>6. CASE ts = <<b>>
  <2>1. ts \in Seq({b}) /\ Len(ts) = 1 /\ ts[1] = b
    BY ONLY <1>6
  <2> QED  BY ONLY <1>2, <2>1 DEF IsRest, IsSeq, Stirs
<1> QED  BY ONLY <1>3, <1>4, <1>5, <1>6

LEMMA FramesCome ==
    ASSUME NEW w, NEW target \in Wire, NEW m, NEW n, NEW r, r.pieces \in Seq({"think", "text", "call"}),
           NEW p, p.source = target
    PROVE  Comes(Frames(w, target, m, n, r), p)
<1>1. PICK word, ts, ss, F, a, fs :
        /\ word = SaidWord(target, r) /\ ts = RestOf(target, word) /\ a = BareOf("start", word)
        /\ ss = [i \in 1 .. Len(r.pieces) |-> PieceFrames(w, target, m, n, r, i)]
        /\ F = FlattenSeq(ss) /\ fs = Frames(w, target, m, n, r)
  BY Zenon
<1>2. IsRest(ts)
  BY <1>1, RestIs
<1>3. IsMiddle(F, target)
  BY <1>1, Middle, Zenon
<1>4. fs = Joined(Joined(<<a>>, F), ts)
  BY ONLY <1>1, FramesAre
<1>5. InThree(fs, a, F, ts)
  BY ONLY <1>2, <1>3, <1>4, ThreeParts DEF IsMiddle, IsRest
<1>6. a.k = "start" /\ a.at = 0
  BY ONLY <1>1, Zenon DEF BareOf
<1>7. Comes(fs, p)
  BY ONLY <1>2, <1>3, <1>5, <1>6, p.source = target, InThreeParts
<1> QED  BY ONLY <1>1, <1>7


-----------------------------------------------------------------------------
(* The inductive invariant of a translated answer, and the theorem.        *)

(* The client of a translated answer has what its wire allows, and the     *)
(* translator knows where in it the stream stands.                         *)
ReplyInv ==
    /\ wire \in Wire /\ phase \in {"ask", "reply", "read"}
    /\ phase = "ask" => got = <<>>
    /\ phase = "reply" => \/ Runs(t, wire, got) /\ Comes(frames, t.p)
                          \/ Finished(t, wire, got) /\ frames = <<>>
    /\ phase = "read" => Over(wire, got)

LEMMA ReplyInvInit == Init => ReplyInv
BY DEF Init, Nothing, ReplyInv

LEMMA NewParser ==
    ASSUME NEW s \in Wire
    PROVE  IsParser(Parser(s)) /\ Parser(s).source = s /\ Parser(s).slots = <<>> /\ Parser(s).started = FALSE
<1>1. PICK p : p = Parser(s)
  OBVIOUS
<1>2. p \in Parsers({None}, {}, {0}, {})
  BY <1>1 DEF Parser, Parsers
<1>3. IsParser(p)
  BY ONLY <1>2 DEF IsParser
<1> QED  BY <1>1, <1>3 DEF Parser

LEMMA NewTranslator ==
    ASSUME NEW s \in Wire, NEW w \in Wire, NEW m
    PROVE  /\ Runs(Translator(s, w, m), w, <<>>)
           /\ Translator(s, w, m).p = Parser(s)
<1>1. PICK u, e, p : u = Translator(s, w, m) /\ e = Emitter(w, m) /\ p = Parser(s)
  OBVIOUS
<1>2. u = [p |-> p, e |-> e, closed |-> FALSE]
  BY ONLY <1>1 DEF Translator
<1>3. u.p = p /\ u.e = e /\ u = [p |-> u.p, e |-> u.e, closed |-> FALSE]
  BY ONLY <1>2
<1>4. IsParser(p) /\ p.slots = <<>> /\ p.started = FALSE
  BY <1>1, NewParser, Zenon
<1>5. /\ e.target = w /\ e.started = FALSE /\ e.textOpen = FALSE /\ e.next = 0 /\ e.failed = FALSE
  BY ONLY <1>1 DEF Emitter
<1>6. e \in Emitters({m}, {0})
  BY ONLY <1>1, w \in Wire DEF Emitter, Emitters
<1>7. IsEmitter(e)
  BY ONLY <1>6 DEF IsEmitter
<1>8. IsSeq(<<>>) /\ Len(<<>>) = 0
  <2>1. <<>> \in Seq({})
    OBVIOUS
  <2> QED  BY <2>1 DEF IsSeq
<1>9. Going(w, <<>>, {}, 0)
  <2>1. PICK g, ev : g = <<>> /\ ev = [k |-> "begin"]
    BY Zenon
  <2>2. ev.k = "begin"
    BY <2>1
  <2>3. Going(w, g, {}, 0)
    BY <1>8, <2>1, <2>2, Begins
  <2> QED  BY ONLY <2>1, <2>3
<1>10. OpenNow(e) = {}
  BY ONLY <1>5 DEF OpenNow
<1>11. Flowing(e, <<>>, p.slots # <<>>)
  BY ONLY <1>5, <1>7, <1>9, <1>10 DEF Flowing
<1>12. Runs(u, w, <<>>)
  BY ONLY <1>3, <1>4, <1>5, <1>11, Zenon DEF Runs
<1> QED  BY ONLY <1>1, <1>3, <1>12

LEMMA Asking == ASSUME ReplyInv, NEW target \in Wire, Ask(target)  PROVE ReplyInv'
<1>1. PICK pieces \in Replies, max \in BOOLEAN :
        /\ said' = [pieces |-> pieces, max |-> max]
        /\ frames' = Frames(wire, target, Names(wire, target, hist), turn, [pieces |-> pieces, max |-> max])
        /\ t' = Translator(target, wire, Names(wire, target, hist))
  BY DEF Ask
<1>2. wire' = wire /\ got' = <<>> /\ phase' = "reply" /\ wire \in Wire
  BY DEF Ask, ReplyInv
<1>3. PICK r, m : r = [pieces |-> pieces, max |-> max] /\ m = Names(wire, target, hist)
  BY Zenon
<1>4. r.pieces \in Seq({"think", "text", "call"})
  <2>1. r.pieces = pieces
    BY <1>3
  <2> QED  BY <1>3, <2>1, ReplyAssumption, Zenon
<1>6. Runs(t', wire, <<>>) /\ t'.p = Parser(target)
  BY <1>1, <1>2, <1>4, NewTranslator
<1>7. t'.p.source = target
  BY <1>6, NewParser, Zenon
<1>8. Comes(frames', t'.p)
  BY <1>1, <1>3, <1>4, <1>7, FramesCome
<1> QED  BY <1>2, <1>6, <1>8 DEF ReplyInv

LEMMA Framing == ASSUME ReplyInv, Frame  PROVE ReplyInv'
<1>1. /\ phase = "reply" /\ frames # <<>> /\ t' = consume(t, Head(frames)).t
      /\ got' = got \o consume(t, Head(frames)).out /\ frames' = Tail(frames)
      /\ wire' = wire /\ phase' = "reply" /\ said' = said
  BY DEF Frame, Forward
<1>2. PICK f, u, g, w : f = Head(frames) /\ u = t /\ g = got /\ w = wire
  OBVIOUS
<1>3. Runs(u, w, g) /\ Comes(frames, u.p) /\ w \in Wire
  BY <1>1, <1>2 DEF ReplyInv
<1>5. PICK x : x = consume(u, f)
  OBVIOUS
<1>6. CASE f.k = "done"
  <2>1. Finished(x.t, w, g \o x.out)
    BY <1>3, <1>5, <1>6, ConsumesDone
  <2>2. frames' = <<>>
    BY <1>1, <1>2, <1>3, <1>6, DoneIsLast
  <2> QED  BY <1>1, <1>2, <1>3, <1>5, <2>1, <2>2 DEF ReplyInv
<1>7. CASE f.k # "done"
  <2>1. IsParser(u.p)
    BY <1>3 DEF Runs
  <2>2. Ready(u.p, f)
    BY <1>1, <1>2, <1>3, <2>1, HeadReady
  <2>3. /\ Runs(x.t, w, g \o x.out) /\ x.t.p.source = u.p.source /\ x.t.p.started
        /\ ~Stirs(f) => (u.p.slots = <<>> => x.t.p.slots = <<>>)
    BY <1>3, <1>5, <1>7, <2>2, Consumes
  <2>4. Comes(Tail(frames), x.t.p)
    BY <1>1, <1>2, <1>3, <2>3, TailComes
  <2> QED  BY <1>1, <1>2, <1>3, <1>5, <2>3, <2>4 DEF ReplyInv
<1> QED  BY <1>6, <1>7

LEMMA Losing == ASSUME ReplyInv, Lose  PROVE ReplyInv'
<1>1. /\ phase = "reply" /\ frames # <<>> /\ Head(frames).k \in {"think", "text", "args", "all"}
      /\ frames' = Tail(frames) /\ UNCHANGED <<wire, phase, said, t, got>>
  BY DEF Lose
<1>2. Runs(t, wire, got) /\ Comes(frames, t.p) /\ wire \in Wire
  BY <1>1 DEF ReplyInv
<1>3. IsParser(t.p)
  BY <1>2 DEF Runs
<1>4. Ready(t.p, Head(frames))
  BY <1>1, <1>2, <1>3, HeadReady
<1>5. t.p.started
  BY <1>1, <1>4 DEF Ready
<1>6. Comes(Tail(frames), t.p)
  BY <1>1, <1>2, <1>5, TailComes
<1> QED  BY <1>1, <1>2, <1>6 DEF ReplyInv

LEMMA ClosesAnyhow ==
    ASSUME NEW u, NEW w, NEW g, Runs(u, w, g) \/ Finished(u, w, g)
    PROVE  IsSeq(close(u).out) /\ Over(w, g \o close(u).out)
<1>1. CASE Runs(u, w, g)
  BY <1>1, Closes, Zenon DEF Finished
<1>2. CASE Finished(u, w, g)
  BY <1>2, ClosedAlready, Zenon DEF Finished
<1> QED  BY <1>1, <1>2

LEMMA Finishing == ASSUME ReplyInv, Finish  PROVE ReplyInv'
<1>1. /\ phase = "reply" /\ got' = got \o close(t).out /\ phase' = "read" /\ wire' = wire /\ said' = said
  BY DEF Finish, Forward
<1>2. (Runs(t, wire, got) \/ Finished(t, wire, got)) /\ wire \in Wire
  BY <1>1 DEF ReplyInv
<1>3. Over(wire, got \o close(t).out)
  BY <1>2, ClosesAnyhow
<1> QED  BY <1>1, <1>2, <1>3 DEF ReplyInv

LEMMA Cutting == ASSUME ReplyInv, Cut  PROVE ReplyInv'
<1>1. /\ phase = "reply" /\ frames # <<>> /\ phase' = "read" /\ wire' = wire /\ said' = said
  BY DEF Cut
<1>2. PICK f, u, g, w : f = Head(frames) /\ u = t /\ g = got /\ w = wire
  OBVIOUS
<1>3. PICK x, c : x = consume(u, f) /\ c = close(x.t)
  OBVIOUS
<1>4. got' = g \o close(u).out \/ got' = (g \o x.out) \o c.out
  BY <1>2, <1>3, Zenon DEF Cut, Forward
<1>5. Runs(u, w, g) /\ Comes(frames, u.p) /\ w \in Wire
  BY <1>1, <1>2 DEF ReplyInv
<1>6. Over(w, g \o close(u).out)
  BY <1>5, ClosesAnyhow
<1>7. Runs(x.t, w, g \o x.out) \/ Finished(x.t, w, g \o x.out)
  <2>1. CASE f.k = "done"
    BY <1>3, <1>5, <2>1, ConsumesDone
  <2>2. CASE f.k # "done"
    <3>1. IsParser(u.p)
      BY <1>5 DEF Runs
    <3>2. Ready(u.p, f)
      BY <1>1, <1>2, <1>5, <3>1, HeadReady
    <3> QED  BY <1>3, <1>5, <2>2, <3>2, Consumes
  <2> QED  BY <2>1, <2>2
<1>8. Over(w, (g \o x.out) \o c.out)
  BY <1>3, <1>5, <1>7, ClosesAnyhow
<1>9. Over(w, got')
  BY ONLY <1>4, <1>6, <1>8, Zenon
<1> QED  BY <1>1, <1>2, <1>5, <1>9 DEF ReplyInv

LEMMA ReplyInvStep == ReplyInv /\ [Next]_vars => ReplyInv'
<1> SUFFICES ASSUME ReplyInv, [Next]_vars  PROVE ReplyInv'
  OBVIOUS
<1>1. CASE Native
  BY <1>1 DEF Native, Next_, answer, ReplyInv
<1>2. CASE \E target \in Wire : Ask(target)
  BY <1>2, Asking
<1>3. CASE \E target \in Wire : AskWhole(target)
  <2>1. phase = "ask" /\ phase' = "ask" /\ UNCHANGED <<wire, got>>
    BY <1>3 DEF AskWhole, Next_
  <2> QED  BY <2>1 DEF ReplyInv
<1>4. CASE Frame
  BY <1>4, Framing
<1>5. CASE Lose
  BY <1>5, Losing
<1>6. CASE Finish
  BY <1>6, Finishing
<1>7. CASE Cut
  BY <1>7, Cutting
<1>8. CASE ReadReply
  BY <1>8 DEF ReadReply, ReplyInv
<1>9. CASE UNCHANGED vars
  BY <1>9 DEF vars, ReplyInv
<1> QED  BY <1>1, <1>2, <1>3, <1>4, <1>5, <1>6, <1>7, <1>8, <1>9 DEF Next

LEMMA ReplyInvHolds == AnswerSpec => []ReplyInv
<1>1. AnswerInit => ReplyInv
  BY ReplyInvInit DEF AnswerInit
<1>2. ReplyInv /\ [AnswerNext]_answered => ReplyInv'
  BY ReplyInvStep DEF AnswerNext, answered
<1> QED  BY <1>1, <1>2, PTL DEF AnswerSpec

\* The blocks of a stream the client may read, in the words of StreamIsWellFormed.
LEMMA BlocksAreKept ==
    ASSUME BlocksKept(wire, got)
    PROVE  /\ got # <<>> => got[1].k = "begin"
           /\ \A i \in 2 .. Len(got) : got[i].k # "begin"
           /\ wire # Chat =>
                \A i \in 1 .. Len(got) : /\ Cardinality(OpenAt(i)) <= 1
                                         /\ got[i].k \in {"text", "call"} => got[i].at \in OpenAt(i)
                                         /\ got[i].k \in {"word", "end"} => OpenAt(i) = {}
                                         /\ got[i].k = "open" => Numbered(i)
<1>1. \A i : OpenIn(got, i) = OpenAt(i)
  BY DEF OpenIn, OpenAt
<1>2. ASSUME NEW i, NumberedIn(wire, got, i)  PROVE Numbered(i)
  <2>1. PICK before : before = Opens(got, i - 1) /\ before = {j \in 1 .. (i - 1) : got[j].k = "open"}
    BY DEF Opens
  <2> QED  BY <1>2, <2>1, Zenon DEF NumberedIn, IsLast, Numbered, BlockZeroAgain
<1> QED  BY <1>1, <1>2, Zenon DEF BlocksKept

LEMMA ReplyIsWellFormed == ReplyInv => StreamIsWellFormed
<1> SUFFICES ASSUME ReplyInv  PROVE StreamIsWellFormed
  OBVIOUS
<1>1. phase = "ask" => got = <<>>
  BY DEF ReplyInv
<1>2. phase # "ask" => BlocksKept(wire, got) /\ IsSeq(got)
  <2>1. CASE Over(wire, got)
    BY <2>1 DEF Over
  <2>2. CASE Runs(t, wire, got)
    BY <2>2 DEF Runs, Flowing, Going, Over
  <2> QED  BY <2>1, <2>2 DEF ReplyInv, Finished
<1>3. \A i \in 1 .. Len(got) : got[i].k \in Terminal => i = Len(got)
  <2>1. CASE phase = "ask"
    BY <1>1, <2>1
  <2>2. CASE Over(wire, got)
    BY <2>2 DEF Over
  <2>3. CASE Runs(t, wire, got)
    BY <2>3 DEF Runs, Flowing, Going, Over
  <2> QED  BY <2>1, <2>2, <2>3 DEF ReplyInv, Finished
<1>4. phase = "read" => Len(got) > 0 /\ got[Len(got)].k \in Terminal
  <2>1. ASSUME phase = "read"  PROVE Over(wire, got)
    BY <2>1 DEF ReplyInv
  <2>2. ASSUME IsSeq(got), got # <<>>  PROVE Len(got) > 0
    BY <2>2, Appending
  <2> QED  BY <2>1, <2>2 DEF Over
<1>5. BlocksKept(wire, got)
  <2>1. CASE phase = "ask"
    <3>1. Len(got) = 0
      BY <1>1, <2>1
    <3> QED  BY <1>1, <2>1, <3>1 DEF BlocksKept
  <2> QED  BY <1>2, <2>1
<1> QED  BY <1>3, <1>4, <1>5, BlocksAreKept DEF StreamIsWellFormed

(***************************************************************************)
(* Whatever a backend of another wire answers, whichever of its frames are *)
(* lost and wherever it breaks off: the stream the client is handed begins *)
(* once, has one block open at a time and writes into that one, and ends   *)
(* once.  It numbers its blocks from 0 up, in order, but for one case the  *)
(* code has: on messages, text that follows a call is block 0 again, and   *)
(* the next is 1 (stream.rs Translator::push, finish,                      *)
(* close_anthropic_text, ensure_anthropic_text, finish_responses_text).    *)
(***************************************************************************)
THEOREM TranslatedStreamsAreWellFormed == AnswerSpec => []StreamIsWellFormed
BY ReplyIsWellFormed, ReplyInvHolds, PTL

-----------------------------------------------------------------------------
(* Which calls the client has been handed (Reply, over Translate).  They   *)
(* are counted as they come; where nothing was lost, the call with r calls *)
(* before it is as OK[r] has it.                                           *)

CallsIn(g) == {x \in 1 .. Len(g) : g[x].k = "call"}
Nth(g, x) == Cardinality({y \in CallsIn(g) : y < x})
As(ev) == <<ev.id, ev.name, ev.n>>

\* A stream with K calls that has neither been told why it ends nor failed.
Handed(g, K, OK, so) ==
    /\ IsSeq(g) /\ K \in Nat /\ Cardinality(CallsIn(g)) = K
    /\ \A x \in 1 .. Len(g) : g[x].k \notin {"word", "fail"}
    /\ so => \A x \in CallsIn(g) : As(g[x]) \in OK[Nth(g, x)]

Plain(s) == IsSeq(s) /\ \A x \in 1 .. Len(s) : s[x].k \notin {"call", "word", "fail"}

LEMMA CallsFinite ==
    ASSUME NEW g, IsSeq(g)
    PROVE  IsFiniteSet(CallsIn(g)) /\ CallsIn(g) \subseteq 1 .. Len(g) /\ Len(g) \in Nat
<1>1. Len(g) \in Nat
  BY Appending
<1>2. IsFiniteSet(1 .. Len(g)) /\ CallsIn(g) \subseteq 1 .. Len(g)
  BY <1>1, FS_Interval DEF CallsIn
<1> QED  BY <1>1, <1>2, FS_Subset

LEMMA HandedNothing ==
    ASSUME NEW OK, NEW so
    PROVE  Handed(<<>>, 0, OK, so) /\ Plain(<<>>)
<1>1. IsSeq(<<>>) /\ Len(<<>>) = 0
  <2>1. <<>> \in Seq({})
    OBVIOUS
  <2> QED  BY <2>1 DEF IsSeq
<1>2. CallsIn(<<>>) = {}
  BY <1>1 DEF CallsIn
<1> QED  BY <1>1, <1>2, FS_EmptySet DEF Handed, Plain

LEMMA HandedPlain ==
    ASSUME NEW g, NEW K, NEW OK, NEW so, Handed(g, K, OK, so), NEW s, Plain(s), NEW h, h = Joined(g, s)
    PROVE  Handed(h, K, OK, so)
<1>1. IsJoin(h, g, s)
  BY ConcatParts DEF Handed, Plain
<1>2. PICK l : l = Len(g)
  BY Zenon
<1>3. l \in Nat /\ IsSeq(h) /\ l <= Len(h) /\ Len(h) \in Nat
  BY <1>1, <1>2 DEF IsJoin
<1>4. \A x \in 1 .. l : x \in 1 .. Len(h) /\ h[x] = g[x]
  BY <1>1, <1>2, <1>3 DEF IsJoin
<1>5. \A x \in 1 .. Len(h) : x > l => h[x].k \notin {"call", "word", "fail"}
  BY <1>1, <1>2, <1>3 DEF IsJoin, Plain
<1>6. CallsIn(h) = CallsIn(g)
  BY <1>2, <1>3, <1>4, <1>5 DEF CallsIn
<1>7. \A x \in CallsIn(g) : Nth(h, x) = Nth(g, x) /\ h[x] = g[x]
  BY <1>2, <1>4, <1>6, Zenon DEF Nth, CallsIn
<1>8. \A x \in 1 .. Len(h) : h[x].k \notin {"word", "fail"}
  BY <1>2, <1>3, <1>4, <1>5 DEF Handed
<1> QED  BY <1>3, <1>6, <1>7, <1>8 DEF Handed

LEMMA HandedOne ==
    ASSUME NEW g, NEW K, NEW OK, NEW so, Handed(g, K, OK, so), NEW ev, ev.k = "call", so => As(ev) \in OK[K],
           NEW h, h = Append(g, ev)
    PROVE  Handed(h, K + 1, OK, so)
<1>1. IsSeq(g)
  BY DEF Handed
<1>2. PICK l : l = Len(g)
  OBVIOUS
<1>3. /\ IsSeq(h) /\ l \in Nat /\ Len(h) = l + 1 /\ h[l + 1] = ev
      /\ \A i \in 1 .. l : h[i] = g[i]
  BY <1>1, <1>2, Appending
<1>4. CallsIn(h) = CallsIn(g) \cup {l + 1}
  BY <1>2, <1>3 DEF CallsIn
<1>5. IsFiniteSet(CallsIn(g)) /\ l + 1 \notin CallsIn(g) /\ CallsIn(g) \subseteq 1 .. l
  BY <1>1, <1>2, <1>3, CallsFinite
<1>6. Cardinality(CallsIn(h)) = K + 1
  <2>1. Cardinality(CallsIn(g)) = K /\ K \in Nat
    BY DEF Handed
  <2> HIDE DEF CallsIn
  <2>2. Cardinality(CallsIn(g) \cup {l + 1}) = Cardinality(CallsIn(g)) + 1
    BY ONLY <1>5, FS_AddElement
  <2> QED  BY ONLY <1>4, <2>1, <2>2
<1>7. ASSUME so, NEW x \in CallsIn(h)  PROVE As(h[x]) \in OK[Nth(h, x)]
  <2>1. CASE x = l + 1
    <3>1. {y \in CallsIn(h) : y < x} = CallsIn(g)
      BY <1>3, <1>4, <1>5, <2>1
    <3>2. Nth(h, x) = K
      BY <3>1, Zenon DEF Nth, Handed
    <3> QED  BY <1>3, <1>7, <2>1, <3>2
  <2>2. CASE x \in CallsIn(g)
    <3>1. {y \in CallsIn(h) : y < x} = {y \in CallsIn(g) : y < x}
      BY <1>3, <1>4, <1>5, <2>2
    <3>2. Nth(h, x) = Nth(g, x) /\ h[x] = g[x]
      BY <1>3, <1>5, <2>2, <3>1, Zenon DEF Nth
    <3> QED  BY <1>7, <2>2, <3>2 DEF Handed
  <2> QED  BY <1>4, <2>1, <2>2, Zenon
<1>8. ASSUME NEW x \in 1 .. Len(h)  PROVE h[x].k \notin {"word", "fail"}
  <2>1. CASE x = l + 1
    BY <1>3, <2>1
  <2>2. CASE x \in 1 .. l
    <3>1. h[x] = g[x] /\ x \in 1 .. Len(g)
      BY <1>2, <1>3, <2>2
    <3> QED  BY <3>1 DEF Handed
  <2> QED  BY <1>3, <2>1, <2>2
<1>9. K + 1 \in Nat
  BY DEF Handed
<1> QED  BY <1>3, <1>6, <1>7, <1>8, <1>9, Zenon DEF Handed

Longer(h, g, ev) ==
    /\ IsSeq(h) /\ Len(g) \in Nat /\ Len(h) = Len(g) + 1 /\ h[Len(g) + 1] = ev
    /\ \A i \in 1 .. Len(g) : h[i] = g[i]

LEMMA OnEnd ==
    ASSUME NEW g, IsSeq(g), NEW ev, NEW h, h = Append(g, ev)
    PROVE  Longer(h, g, ev)
BY Appending DEF Longer

LEMMA PlainOne ==
    ASSUME NEW ev, ev.k \notin {"call", "word", "fail"}
    PROVE  Plain(<<ev>>)
<1>1. PICK s : s = <<ev>>
  BY Zenon
<1>2. s \in Seq({ev}) /\ Len(s) = 1 /\ s[1] = ev
  BY ONLY <1>1
<1>3. IsSeq(s)
  BY <1>2 DEF IsSeq
<1> QED  BY <1>1, <1>2, <1>3 DEF Plain

LEMMA HandedPlainOne ==
    ASSUME NEW g, NEW K, NEW OK, NEW so, Handed(g, K, OK, so), NEW ev, ev.k \notin {"call", "word", "fail"},
           NEW h, h = Append(g, ev)
    PROVE  Handed(h, K, OK, so)
<1>1. IsSeq(g)
  BY DEF Handed
<1>2. h = Joined(g, <<ev>>)
  BY <1>1, TupleOne DEF Joined
<1> QED  BY <1>2, PlainOne, HandedPlain

LEMMA HandedAfter ==
    ASSUME NEW g, NEW K, NEW OK, NEW so, Handed(g, K, OK, so), NEW c, Plain(c),
           NEW a, a.k = "open", NEW b, b.k = "call", so => As(b) \in OK[K], NEW d, d.k = "shut",
           NEW out, out = c \o <<a, b, d>>, NEW h, h = Joined(g, out)
    PROVE  IsSeq(out) /\ Handed(h, K + 1, OK, so)
<1>0. IsSeq(g) /\ IsSeq(c)
  BY DEF Handed, Plain
<1>1. PICK f : f = g \o c
  BY Zenon
<1>2. Handed(f, K, OK, so)
  <2>1. f = Joined(g, c)
    BY <1>1 DEF Joined
  <2> QED  BY <2>1, HandedPlain
<1>3. PICK k, l : k = Append(f, a) /\ l = Append(k, b)
  BY Zenon
<1>4. h = Append(l, d) /\ IsSeq(out)
  <2>1. PICK s : s = <<a, b, d>>
    OBVIOUS
  <2>2. IsSeq(s)
    BY ONLY <1>0, <2>1, TupleThree
  <2>3. IsSeq(c \o s)
    BY ONLY <1>0, <2>2, ConcatIsSeq
  <2>4. g \o (c \o s) = Append(Append(Append(f, a), b), d)
    BY ONLY <1>0, <1>1, <2>1, AfterThree
  <2>5. out = c \o s
    BY ONLY <2>1, out = c \o <<a, b, d>>
  <2>6. h = Append(Append(Append(f, a), b), d)
    BY ONLY <2>4, <2>5, h = Joined(g, out) DEF Joined
  <2> QED  BY ONLY <1>3, <2>3, <2>5, <2>6
<1>5. Handed(k, K, OK, so)
  BY <1>2, <1>3, HandedPlainOne, Zenon
<1>6. Handed(l, K + 1, OK, so)
  BY <1>3, <1>5, HandedOne, Zenon
<1>7. d.k \notin {"call", "word", "fail"}
  OBVIOUS
<1>8. Handed(h, K + 1, OK, so)
  BY ONLY <1>4, <1>6, <1>7, HandedPlainOne, Zenon
<1> QED  BY <1>4, <1>8

\* A stream that has failed, and one that was told why it ends.
Broke(g) == IsSeq(g) /\ \E x \in 1 .. Len(g) : g[x].k = "fail"
Concluded(g, K, OK, so, word) ==
    /\ IsSeq(g) /\ K \in Nat /\ Cardinality(CallsIn(g)) = K
    /\ so => \A x \in CallsIn(g) : As(g[x]) \in OK[Nth(g, x)]
    /\ \E x \in 1 .. Len(g) : g[x].k = "word"
    /\ \A x \in 1 .. Len(g) : g[x].k # "fail" /\ (g[x].k = "word" => g[x].word = word)

LEMMA BrokeOn ==
    ASSUME NEW g, Broke(g), NEW s, IsSeq(s), NEW h, h = Joined(g, s)
    PROVE  Broke(h)
<1>1. IsSeq(g)
  BY DEF Broke
<1>2. IsJoin(h, g, s)
  BY <1>1, ConcatParts
<1>3. IsSeq(h) /\ \A x \in 1 .. Len(g) : x \in 1 .. Len(h) /\ h[x] = g[x]
  BY <1>2 DEF IsJoin
<1> QED  BY <1>3 DEF Broke

LEMMA BrokeNow ==
    ASSUME NEW g, IsSeq(g), NEW ev, ev.k = "fail", NEW h, h = Joined(g, <<ev>>)
    PROVE  Broke(h)
<1>0. h = Append(g, ev)
  BY TupleOne DEF Joined
<1>1. IsSeq(h) /\ Len(h) = Len(g) + 1 /\ Len(g) \in Nat /\ h[Len(g) + 1] = ev
  <2>1. Longer(h, g, ev)
    BY ONLY <1>0, IsSeq(g), OnEnd, Zenon
  <2> QED  BY ONLY <2>1 DEF Longer
<1>2. Len(g) + 1 \in 1 .. Len(h)
  BY <1>1
<1> QED  BY <1>1, <1>2 DEF Broke

LEMMA ConcludedAfter ==
    ASSUME NEW g, NEW K, NEW OK, NEW so, Handed(g, K, OK, so), NEW c, Plain(c),
           NEW a, a.k = "word", NEW b, b.k = "end",
           NEW out, out = c \o <<a, b>>, NEW h, h = Joined(g, out)
    PROVE  IsSeq(out) /\ Concluded(h, K, OK, so, a.word)
<1>0. IsSeq(g) /\ IsSeq(c)
  BY DEF Handed, Plain
<1>1. PICK f : f = g \o c
  BY Zenon
<1>2. Handed(f, K, OK, so)
  <2>1. f = Joined(g, c)
    BY <1>1 DEF Joined
  <2> QED  BY <2>1, HandedPlain
<1>3. IsSeq(f)
  BY <1>2 DEF Handed
<1>4. h = Append(Append(f, a), b) /\ IsSeq(out)
  <2>1. PICK s : s = <<a, b>>
    OBVIOUS
  <2>2. IsSeq(s) /\ f \o s = Append(Append(f, a), b)
    BY ONLY <1>3, <2>1, TupleTwo
  <2>3. IsSeq(c \o s)
    BY ONLY <1>0, <2>2, ConcatIsSeq
  <2>4. (g \o c) \o s = g \o (c \o s)
    BY ONLY <1>0, <2>2, Joining, SMTT(40)
  <2>5. out = c \o s
    BY ONLY <2>1, out = c \o <<a, b>>
  <2> QED  BY ONLY <1>1, <2>2, <2>3, <2>4, <2>5, h = Joined(g, out), Zenon DEF Joined
<1>5. PICK k, l, m : k = Append(f, a) /\ l = Len(f) /\ m = Len(h)
  BY Zenon
<1>6. IsSeq(k) /\ l \in Nat /\ Len(k) = l + 1 /\ k[l + 1] = a /\ \A x \in 1 .. l : k[x] = f[x]
  BY <1>3, <1>5, Appending
<1>7. IsSeq(h) /\ m = l + 2 /\ h[l + 2] = b /\ \A x \in 1 .. l + 1 : h[x] = k[x]
  <2>1. h = Append(k, b)
    BY ONLY <1>4, <1>5
  <2>2. IsSeq(h) /\ Len(h) = Len(k) + 1 /\ h[Len(k) + 1] = b /\ \A x \in 1 .. Len(k) : h[x] = k[x]
    <3>1. IsSeq(k)
      BY ONLY <1>6
    <3>2. Longer(h, k, b)
      BY ONLY <2>1, <3>1, OnEnd, Zenon
    <3> QED  BY ONLY <3>2 DEF Longer
  <2>3. PICK z : z = Len(k)
    BY Zenon
  <2>4. z = l + 1 /\ z + 1 = l + 2 /\ m = z + 1
    BY ONLY <1>5, <1>6, <2>2, <2>3
  <2>5. h[z + 1] = b /\ \A x \in 1 .. z : h[x] = k[x]
    BY ONLY <2>2, <2>3
  <2> QED  BY ONLY <2>2, <2>4, <2>5
<1>8. m = l + 2 /\ h[l + 1] = a /\ h[l + 2] = b /\ \A x \in 1 .. l : h[x] = f[x]
  BY <1>6, <1>7
<1>9. CallsIn(h) = CallsIn(f)
  <2>1. \A x \in 1 .. m : x \in 1 .. l \/ x = l + 1 \/ x = l + 2
    BY ONLY <1>6, <1>8
  <2>2. a.k # "call" /\ b.k # "call"
    OBVIOUS
  <2>3. \A x \in 1 .. l : x \in 1 .. m
    BY ONLY <1>6, <1>8
  <2>4. \A x : x \in CallsIn(h) <=> x \in 1 .. m /\ h[x].k = "call"
    BY ONLY <1>5 DEF CallsIn
  <2>5. \A x : x \in CallsIn(f) <=> x \in 1 .. l /\ f[x].k = "call"
    BY ONLY <1>5 DEF CallsIn
  <2>6. \A x : x \in CallsIn(h) <=> x \in CallsIn(f)
    BY ONLY <1>8, <2>1, <2>2, <2>3, <2>4, <2>5
  <2> QED  BY ONLY <2>4, <2>5, <2>6 DEF CallsIn
<1>10. \A x \in CallsIn(f) : h[x] = f[x] /\ Nth(h, x) = Nth(f, x)
  BY <1>5, <1>8, <1>9, Zenon DEF Nth, CallsIn
<1>11. \E x \in 1 .. m : h[x].k = "word"
  <2>1. l + 1 \in 1 .. m
    BY <1>6, <1>8
  <2> QED  BY <1>8, <2>1
<1>12. ASSUME NEW x \in 1 .. m  PROVE h[x].k # "fail" /\ (h[x].k = "word" => h[x].word = a.word)
  <2>1. CASE x \in 1 .. l
    <3>1. h[x] = f[x] /\ f[x].k \notin {"word", "fail"}
      BY <1>2, <1>5, <1>8, <2>1, Zenon DEF Handed
    <3> QED  BY <3>1
  <2>2. CASE x = l + 1
    BY <1>8, <2>2
  <2>3. CASE x = l + 2
    BY <1>8, <2>3
  <2> QED  BY <1>6, <1>8, <2>1, <2>2, <2>3
<1>13. Concluded(h, K, OK, so, a.word)
  BY <1>2, <1>5, <1>7, <1>9, <1>10, <1>11, <1>12, Zenon DEF Handed, Concluded
<1> QED  BY <1>4, <1>13

\* What the client of the emitter e has: a stream that failed, or K calls.
Follows(e, g, K, OK, so) ==
    \/ e.failed = TRUE /\ e.target = Responses /\ Broke(g)
    \/ e.failed = FALSE /\ Handed(g, K, OK, so)

\* How e shows the client the call d.
Rendered(e, d) == <<encode(d.id, e.target),
                 IF e.target = Responses THEN restore_item(e.names, d.name) ELSE d.name,
                 IF e.target = Anthropic /\ d.n # Parts THEN 0 ELSE d.n>>

SameIn(f, e) == f.target = e.target /\ f.names = e.names
Still(f, e) == SameIn(f, e) /\ f.failed = e.failed

Gives(x, e, g, K, OK, so) ==
    IsSeq(x.out) /\ SameIn(x.e, e) /\ Follows(x.e, Joined(g, x.out), K, OK, so)

LEMMA StartedStill ==
    ASSUME NEW e, IsEmitter(e), NEW v, NEW f, f = [e EXCEPT !.started = v]
    PROVE  Still(f, e)
<1>1. PICK N, B : e \in Emitters(N, B)
  BY DEF IsEmitter
<1> QED  BY <1>1 DEF Emitters, Still, SameIn

LEMMA TextOpenStill ==
    ASSUME NEW e, IsEmitter(e), NEW v, NEW f, f = [e EXCEPT !.textOpen = v]
    PROVE  Still(f, e)
<1>1. PICK N, B : e \in Emitters(N, B)
  BY DEF IsEmitter
<1> QED  BY <1>1 DEF Emitters, Still, SameIn

LEMMA NextStill ==
    ASSUME NEW e, IsEmitter(e), NEW v, NEW f, f = [e EXCEPT !.next = v]
    PROVE  Still(f, e)
<1>1. PICK N, B : e \in Emitters(N, B)
  BY DEF IsEmitter
<1> QED  BY <1>1 DEF Emitters, Still, SameIn

LEMMA BytesStill ==
    ASSUME NEW e, IsEmitter(e), NEW v, NEW f, f = [e EXCEPT !.bytes = v]
    PROVE  Still(f, e)
<1>1. PICK N, B : e \in Emitters(N, B)
  BY DEF IsEmitter
<1> QED  BY <1>1 DEF Emitters, Still, SameIn

LEMMA FailedSame ==
    ASSUME NEW e, IsEmitter(e), NEW v, NEW f, f = [e EXCEPT !.failed = v]
    PROVE  SameIn(f, e) /\ f.failed = v
<1>1. PICK N, B : e \in Emitters(N, B)
  BY DEF IsEmitter
<1> QED  BY <1>1 DEF Emitters, SameIn

LEMMA SilentGives ==
    ASSUME NEW e, NEW g, NEW K, NEW OK, NEW so, Follows(e, g, K, OK, so), NEW x, x.e = e, x.out = <<>>
    PROVE  Gives(x, e, g, K, OK, so)
<1>1. IsSeq(g)
  BY DEF Follows, Broke, Handed
<1>2. Joined(g, x.out) = g /\ IsSeq(x.out)
  BY <1>1, TupleOne, Zenon DEF Joined
<1> QED  BY <1>2 DEF Gives, SameIn

LEMMA PlainGives ==
    ASSUME NEW e, NEW g, NEW K, NEW OK, NEW so, Follows(e, g, K, OK, so), e.failed = FALSE,
           NEW x, Still(x.e, e), Plain(x.out)
    PROVE  Gives(x, e, g, K, OK, so)
<1>1. Handed(g, K, OK, so)
  BY DEF Follows
<1>2. Handed(Joined(g, x.out), K, OK, so)
  BY <1>1, HandedPlain
<1> QED  BY <1>2 DEF Gives, Follows, Still, Plain

LEMMA TextShutGives ==
    ASSUME NEW e, IsEmitter(e)
    PROVE  Plain(TextShut(e).out) /\ Still(TextShut(e).e, e) /\ IsEmitter(TextShut(e).e)
<1>1. CASE ~e.textOpen
  <2>1. TextShut(e) = [e |-> e, out |-> <<>>]
    BY <1>1 DEF TextShut
  <2>2. Plain(<<>>)
    BY HandedNothing
  <2> QED  BY <2>1, <2>2 DEF Still, SameIn
<1>2. CASE e.textOpen
  <2>1. PICK f, ev : f = [e EXCEPT !.textOpen = FALSE] /\ ev = Ev("shut", IF e.target = Anthropic THEN 0 ELSE e.next - 1)
    BY Zenon
  <2>2. TextShut(e) = [e |-> f, out |-> <<ev>>]
    BY <1>2, <2>1 DEF TextShut
  <2>3. Plain(<<ev>>)
    <3>1. ev.k = "shut"
      BY <2>1 DEF Ev
    <3> QED  BY ONLY <3>1, PlainOne
  <2>4. Still(f, e)
    BY <2>1, TextOpenStill
  <2>5. IsEmitter(f)
    <3>1. PICK N, B : e \in Emitters(N, B)
      BY DEF IsEmitter
    <3>2. f \in Emitters(N, B)
      BY <2>1, <3>1, Zenon DEF Emitters
    <3> QED  BY <3>2 DEF IsEmitter
  <2> QED  BY <2>2, <2>3, <2>4, <2>5
<1> QED  BY <1>1, <1>2

LEMMA CallGives ==
    ASSUME NEW e, NEW g, NEW K, NEW OK, NEW so, Follows(e, g, K, OK, so), e.failed = FALSE,
           NEW c, Plain(c), NEW a, a.k = "open", NEW b, b.k = "call", so => As(b) \in OK[K], NEW d, d.k = "shut",
           NEW x, Still(x.e, e), x.out = c \o <<a, b, d>>
    PROVE  Gives(x, e, g, K + 1, OK, so)
<1>1. Handed(g, K, OK, so)
  BY DEF Follows
<1>2. PICK h, out : h = Joined(g, x.out) /\ out = x.out
  BY Zenon
<1>3. out = c \o <<a, b, d>> /\ h = Joined(g, out)
  BY <1>2
<1>4. IsSeq(out) /\ Handed(h, K + 1, OK, so)
  BY <1>1, <1>3, HandedAfter, Zenon
<1> QED  BY ONLY <1>2, <1>4, Still(x.e, e), e.failed = FALSE DEF Gives, Follows, Still

LEMMA CallRendered ==
    ASSUME NEW e, NEW d, IsCallDelta(d), NEW at, NEW ev,
           \/ /\ e.target = Anthropic
              /\ ev = ECall(at, [d EXCEPT !.n = IF @ = Parts THEN @ ELSE 0], Anthropic, d.name)
           \/ e.target = Chat /\ ev = ECall(at, d, Chat, d.name)
           \/ e.target = Responses /\ ev = ECall(at, d, Responses, restore_item(e.names, d.name))
    PROVE  As(ev) = Rendered(e, d) /\ ev.k = "call"
<1>1. CASE /\ e.target = Anthropic
           /\ ev = ECall(at, [d EXCEPT !.n = IF @ = Parts THEN @ ELSE 0], Anthropic, d.name)
  <2>1. PICK m : m = IF d.n = Parts THEN d.n ELSE 0
    OBVIOUS
  <2>2. PICK c : c = [d EXCEPT !.n = m]
    BY Zenon
  <2>3. c.id = d.id /\ c.n = m
    BY <2>2 DEF IsCallDelta
  <2>4. ev = ECall(at, c, Anthropic, d.name)
    BY <1>1, <2>1, <2>2
  <2>5. ev.k = "call" /\ ev.id = encode(c.id, Anthropic) /\ ev.name = d.name /\ ev.n = c.n
    BY ONLY <2>4 DEF ECall
  <2>6. Rendered(e, d) = <<encode(d.id, Anthropic), d.name, m>>
    BY <1>1, <2>1 DEF Rendered, Anthropic, Responses
  <2> QED  BY ONLY <2>3, <2>5, <2>6 DEF As
<1>2. CASE e.target = Chat /\ ev = ECall(at, d, Chat, d.name)
  <2>1. ev.k = "call" /\ ev.id = encode(d.id, Chat) /\ ev.name = d.name /\ ev.n = d.n
    BY ONLY <1>2 DEF ECall
  <2>2. Rendered(e, d) = <<encode(d.id, Chat), d.name, d.n>>
    BY <1>2 DEF Rendered, Anthropic, Responses, Chat
  <2> QED  BY ONLY <2>1, <2>2 DEF As
<1>3. CASE e.target = Responses /\ ev = ECall(at, d, Responses, restore_item(e.names, d.name))
  <2>1. ev.k = "call" /\ ev.id = encode(d.id, Responses) /\ ev.name = restore_item(e.names, d.name) /\ ev.n = d.n
    BY ONLY <1>3 DEF ECall
  <2>2. Rendered(e, d) = <<encode(d.id, Responses), restore_item(e.names, d.name), d.n>>
    BY <1>3 DEF Rendered, Anthropic, Responses, Chat
  <2> QED  BY ONLY <2>1, <2>2 DEF As
<1> QED  BY <1>1, <1>2, <1>3

LEMMA PlainTwo ==
    ASSUME NEW a, NEW b, a.k \notin {"call", "word", "fail"}, b.k \notin {"call", "word", "fail"}
    PROVE  Plain(<<a>> \o <<b>>)
<1>2. PICK s : s = <<a>> \o <<b>>
  BY Zenon
<1>3. PICK S : S = {a, b}
  BY Zenon
<1>4. s \in Seq(S) /\ Len(s) = 2 /\ s[1] = a /\ s[2] = b
  BY ONLY <1>2, <1>3
<1>5. IsSeq(s)
  BY <1>4 DEF IsSeq
<1>6. \A x \in 1 .. 2 : x = 1 \/ x = 2
  OBVIOUS
<1> QED  BY <1>2, <1>4, <1>5, <1>6, Zenon DEF Plain

\* A delta with K calls before it, and how many are behind it.
Fitted(d, e, K, OK, so) ==
    /\ d.k \in {"start", "text", "think", "call"}
    /\ d.k = "call" => IsCallDelta(d) /\ (so => Rendered(e, d) \in OK[K])
Behind(K, d) == IF d.k = "call" THEN K + 1 ELSE K

LEMMA AnthropicHands ==
    ASSUME NEW e, IsEmitter(e), e.target = Anthropic, NEW g, NEW K, NEW OK, NEW so, Follows(e, g, K, OK, so),
           NEW d, Fitted(d, e, K, OK, so), NEW x, x = write_anthropic(e, d)
    PROVE  Gives(x, e, g, Behind(K, d), OK, so)
<1>0. e.failed = FALSE
  BY DEF Follows, Anthropic, Responses
<1>1. CASE d.k = "start" /\ e.started
  <2>1. x.e = e /\ x.out = <<>>
    BY <1>1 DEF write_anthropic
  <2> QED  BY <1>1, <2>1, SilentGives DEF Behind
<1>2. CASE d.k = "start" /\ ~e.started
  <2>1. PICK ev : ev = Ev("begin", 0)
    OBVIOUS
  <2>2. x.e = [e EXCEPT !.started = TRUE] /\ x.out = <<ev>>
    BY <1>2, <2>1, Zenon DEF write_anthropic
  <2>3. Plain(x.out)
    <3>1. ev.k = "begin"
      BY <2>1 DEF Ev
    <3> QED  BY ONLY <2>2, <3>1, PlainOne
  <2>4. Still(x.e, e)
    BY <2>2, StartedStill
  <2> QED  BY <1>0, <1>2, <2>3, <2>4, PlainGives, Zenon DEF Behind
<1>3. CASE d.k = "think"
  <2>1. x.e = e /\ x.out = <<>>
    BY <1>3 DEF write_anthropic
  <2> QED  BY <1>3, <2>1, SilentGives DEF Behind
<1>4. CASE d.k = "text" /\ e.textOpen
  <2>1. PICK ev : ev = EText(0, d.t)
    OBVIOUS
  <2>2. x.e = e /\ x.out = <<>> \o <<ev>>
    BY <1>4, <2>1 DEF write_anthropic
  <2>3. Plain(x.out)
    <3>1. ev.k = "text"
      BY <2>1 DEF EText
    <3>2. x.out = <<ev>>
      BY ONLY <2>2, JoinOne
    <3> QED  BY ONLY <3>1, <3>2, PlainOne
  <2>4. Still(x.e, e)
    BY <2>2 DEF Still, SameIn
  <2> QED  BY <1>0, <1>4, <2>3, <2>4, PlainGives, Zenon DEF Behind
<1>5. CASE d.k = "text" /\ ~e.textOpen
  <2>1. PICK a, ev, f : a = Opened("text", 0) /\ ev = EText(0, d.t) /\ f = [e EXCEPT !.textOpen = TRUE, !.next = 1]
    OBVIOUS
  <2>2. x.e = f /\ x.out = <<a>> \o <<ev>>
    BY <1>5, <2>1 DEF write_anthropic
  <2>3. Plain(x.out)
    <3>1. a.k = "open" /\ ev.k = "text"
      BY <2>1 DEF EText, Opened
    <3> QED  BY ONLY <2>2, <3>1, PlainTwo
  <2>4. Still(f, e)
    <3>1. PICK N, B : e \in Emitters(N, B)
      BY DEF IsEmitter
    <3> QED  BY <2>1, <3>1 DEF Emitters, Still, SameIn
  <2> QED  BY <1>0, <1>5, <2>2, <2>3, <2>4, PlainGives, Zenon DEF Behind
<1>6. CASE d.k = "call"
  <2>1. PICK c : c = TextShut(e)
    OBVIOUS
  <2>2. PICK a, b, z : /\ a = Opened("call", e.next) /\ z = Ev("shut", e.next)
                       /\ b = ECall(e.next, [d EXCEPT !.n = IF @ = Parts THEN @ ELSE 0], Anthropic, d.name)
    OBVIOUS
  <2>3. x.e = [c.e EXCEPT !.next = @ + 1] /\ x.out = c.out \o <<a, b, z>>
    BY <1>6, <2>1, <2>2, Zenon DEF write_anthropic
  <2>4. Plain(c.out) /\ Still(c.e, e) /\ IsEmitter(c.e)
    BY <2>1, TextShutGives
  <2>5. Still(x.e, e)
    <3>1. x.e = [c.e EXCEPT !.next = c.e.next + 1]
      BY ONLY <2>3
    <3>2. Still(x.e, c.e)
      BY ONLY <2>4, <3>1, NextStill
    <3> QED  BY <2>4, <3>2 DEF Still, SameIn
  <2>6. a.k = "open" /\ z.k = "shut"
    BY <2>2 DEF Opened, Ev
  <2>7. IsCallDelta(d) /\ (so => Rendered(e, d) \in OK[K])
    BY <1>6 DEF Fitted
  <2>8. As(b) = Rendered(e, d) /\ b.k = "call"
    BY <2>2, <2>7, CallRendered
  <2>9. Gives(x, e, g, K + 1, OK, so)
    <3>1. Plain(c.out) /\ x.out = c.out \o <<a, b, z>>
      BY ONLY <2>3, <2>4
    <3>2. so => As(b) \in OK[K]
      BY ONLY <2>7, <2>8
    <3>3. b.k = "call"
      BY ONLY <2>8
    <3> QED  BY ONLY <1>0, <2>5, <2>6, <3>1, <3>2, <3>3, Follows(e, g, K, OK, so), CallGives, Zenon
  <2> QED  BY <1>6, <2>9 DEF Behind
<1> QED  BY <1>1, <1>2, <1>3, <1>4, <1>5, <1>6 DEF Fitted

LEMMA ChatHands ==
    ASSUME NEW e, IsEmitter(e), e.target = Chat, NEW g, NEW K, NEW OK, NEW so, Follows(e, g, K, OK, so),
           NEW d, Fitted(d, e, K, OK, so), NEW x, x = write_chat(e, d)
    PROVE  Gives(x, e, g, Behind(K, d), OK, so)
<1>0. e.failed = FALSE
  BY DEF Follows, Chat, Responses
<1>1. CASE d.k = "start"
  <2>1. PICK ev : ev = Ev("begin", 0)
    OBVIOUS
  <2>2. x.e = [e EXCEPT !.started = TRUE] /\ x.out = <<ev>>
    BY <1>1, <2>1, Zenon DEF write_chat
  <2>3. Plain(x.out)
    <3>1. ev.k = "begin"
      BY <2>1 DEF Ev
    <3> QED  BY ONLY <2>2, <3>1, PlainOne
  <2>4. Still(x.e, e)
    BY <2>2, StartedStill
  <2> QED  BY <1>0, <1>1, <2>3, <2>4, PlainGives, Zenon DEF Behind
<1>2. CASE d.k = "think"
  <2>1. x.e = e /\ x.out = <<>>
    BY <1>2 DEF write_chat
  <2> QED  BY <1>2, <2>1, SilentGives DEF Behind
<1>3. CASE d.k = "text"
  <2>1. PICK ev : ev = EText(0, d.t)
    OBVIOUS
  <2>2. x.e = e /\ x.out = <<ev>>
    BY <1>3, <2>1 DEF write_chat
  <2>3. Plain(x.out)
    <3>1. ev.k = "text"
      BY <2>1 DEF EText
    <3> QED  BY ONLY <2>2, <3>1, PlainOne
  <2>4. Still(x.e, e)
    BY <2>2 DEF Still, SameIn
  <2> QED  BY <1>0, <1>3, <2>3, <2>4, PlainGives, Zenon DEF Behind
<1>4. CASE d.k = "call"
  <2>1. PICK b : b = ECall(d.at, d, Chat, d.name)
    OBVIOUS
  <2>2. x.e = e /\ x.out = <<b>>
    BY <1>4, <2>1 DEF write_chat
  <2>3. IsCallDelta(d) /\ (so => Rendered(e, d) \in OK[K])
    BY <1>4 DEF Fitted
  <2>4. As(b) = Rendered(e, d) /\ b.k = "call"
    BY <2>1, <2>3, CallRendered, Zenon
  <2>5. Handed(g, K, OK, so) /\ IsSeq(g)
    BY <1>0 DEF Follows, Handed
  <2>6. Joined(g, x.out) = Append(g, b) /\ IsSeq(x.out)
    BY <2>2, <2>5, TupleOne DEF Joined
  <2>7. Handed(Joined(g, x.out), K + 1, OK, so)
    BY <2>3, <2>4, <2>5, <2>6, HandedOne, Zenon
  <2>8. Gives(x, e, g, K + 1, OK, so)
    BY ONLY <1>0, <2>2, <2>6, <2>7 DEF Gives, Follows, SameIn
  <2> QED  BY <1>4, <2>8 DEF Behind
<1> QED  BY <1>1, <1>2, <1>3, <1>4 DEF Fitted

LEMMA ResponsesHands ==
    ASSUME NEW e, IsEmitter(e), e.target = Responses, NEW g, NEW K, NEW OK, NEW so, Follows(e, g, K, OK, so),
           NEW d, Fitted(d, e, K, OK, so), NEW x, x = write_responses(e, d), ~e.failed
    PROVE  Gives(x, e, g, Behind(K, d), OK, so)
<1>0. e.failed = FALSE
  BY DEF Follows
<1>1. CASE d.k = "think" \/ (d.k = "start" /\ e.started)
  <2>1. x.e = e /\ x.out = <<>>
    BY <1>1 DEF write_responses
  <2> QED  BY <1>1, <2>1, SilentGives DEF Behind
<1>2. CASE d.k = "start" /\ ~e.started
  <2>1. PICK ev : ev = Ev("begin", 0)
    OBVIOUS
  <2>2. x.e = [e EXCEPT !.started = TRUE] /\ x.out = <<ev>>
    BY <1>2, <2>1 DEF write_responses
  <2>3. Plain(x.out)
    <3>1. ev.k = "begin"
      BY <2>1 DEF Ev
    <3> QED  BY ONLY <2>2, <3>1, PlainOne
  <2>4. Still(x.e, e)
    BY <2>2, StartedStill
  <2> QED  BY <1>0, <1>2, <2>3, <2>4, PlainGives, Zenon DEF Behind
<1>3. CASE d.k = "text" /\ e.bytes + 1 > MaxBytes
  <2>1. PICK ev : ev = Ev("fail", 0)
    OBVIOUS
  <2>2. x.e = [e EXCEPT !.failed = TRUE] /\ x.out = <<ev>>
    BY <1>3, <2>1 DEF write_responses
  <2>3. ev.k = "fail"
    BY <2>1 DEF Ev
  <2>4. IsSeq(g)
    BY DEF Follows, Broke, Handed
  <2>5. Broke(Joined(g, x.out)) /\ IsSeq(x.out)
    BY <2>2, <2>3, <2>4, BrokeNow, TupleOne
  <2>6. SameIn(x.e, e) /\ x.e.failed = TRUE
    BY <2>2, FailedSame
  <2> QED  BY <2>5, <2>6 DEF Gives, Follows, SameIn
<1>4. CASE d.k = "text" /\ ~(e.bytes + 1 > MaxBytes)
  <2>1. PICK f, a, ev : /\ f = IF e.textOpen THEN e ELSE [e EXCEPT !.textOpen = TRUE, !.next = @ + 1]
                        /\ a = Opened("text", e.next) /\ ev = EText(f.next - 1, d.t)
    OBVIOUS
  <2>2. /\ x.e = [f EXCEPT !.bytes = @ + 1]
        /\ x.out = (IF e.textOpen THEN <<>> ELSE <<a>>) \o <<ev>>
    BY <1>4, <2>1 DEF write_responses
  <2>3. a.k = "open" /\ ev.k = "text"
    BY <2>1 DEF Opened, EText
  <2>4. Plain(x.out)
    <3>1. x.out = <<ev>> \/ x.out = <<a>> \o <<ev>>
      BY ONLY <2>2, JoinOne, Zenon
    <3> QED  BY ONLY <2>3, <3>1, PlainOne, PlainTwo, Zenon
  <2>5. Still(f, e) /\ IsEmitter(f)
    <3>1. PICK N, B : e \in Emitters(N, B)
      BY DEF IsEmitter
    <3>2. CASE e.textOpen
      BY <2>1, <3>2 DEF Still, SameIn
    <3>3. CASE ~e.textOpen
      <4>1. PICK n : n = e.next + 1
        OBVIOUS
      <4>2. f = [e EXCEPT !.textOpen = TRUE, !.next = n] /\ n \in Nat
        BY ONLY <2>1, <3>1, <3>3, <4>1 DEF Emitters
      <4>3. f \in Emitters(N, B)
        BY ONLY <3>1, <4>2, Zenon DEF Emitters
      <4>4. Still(f, e)
        BY ONLY <3>1, <4>2 DEF Emitters, Still, SameIn
      <4> QED  BY <4>3, <4>4 DEF IsEmitter
    <3> QED  BY <3>2, <3>3
  <2>6. Still(x.e, e)
    <3>1. x.e = [f EXCEPT !.bytes = f.bytes + 1]
      BY ONLY <2>2
    <3>2. Still(x.e, f)
      BY ONLY <2>5, <3>1, BytesStill
    <3> QED  BY <2>5, <3>2 DEF Still, SameIn
  <2> QED  BY <1>0, <1>4, <2>4, <2>6, PlainGives, Zenon DEF Behind
<1>5. CASE d.k = "call"
  <2>1. PICK c : c = TextShut(e)
    OBVIOUS
  <2>2. PICK a, b, z : /\ a = Opened("call", e.next) /\ z = Ev("shut", e.next)
                       /\ b = ECall(e.next, d, Responses, restore_item(e.names, d.name))
    OBVIOUS
  <2>3. x.e = [c.e EXCEPT !.next = @ + 1] /\ x.out = c.out \o <<a, b, z>>
    BY <1>5, <2>1, <2>2, Zenon DEF write_responses
  <2>4. Plain(c.out) /\ Still(c.e, e) /\ IsEmitter(c.e)
    BY <2>1, TextShutGives
  <2>5. Still(x.e, e)
    <3>1. x.e = [c.e EXCEPT !.next = c.e.next + 1]
      BY ONLY <2>3
    <3>2. Still(x.e, c.e)
      BY ONLY <2>4, <3>1, NextStill
    <3> QED  BY <2>4, <3>2 DEF Still, SameIn
  <2>6. a.k = "open" /\ z.k = "shut"
    BY <2>2 DEF Opened, Ev
  <2>7. IsCallDelta(d) /\ (so => Rendered(e, d) \in OK[K])
    BY <1>5 DEF Fitted
  <2>8. As(b) = Rendered(e, d) /\ b.k = "call"
    BY <2>2, <2>7, CallRendered, Zenon
  <2>9. Gives(x, e, g, K + 1, OK, so)
    <3>1. Plain(c.out) /\ x.out = c.out \o <<a, b, z>>
      BY ONLY <2>3, <2>4
    <3>2. so => As(b) \in OK[K]
      BY ONLY <2>7, <2>8
    <3>3. b.k = "call"
      BY ONLY <2>8
    <3> QED  BY ONLY <1>0, <2>5, <2>6, <3>1, <3>2, <3>3, Follows(e, g, K, OK, so), CallGives, Zenon
  <2> QED  BY <1>5, <2>9 DEF Behind
<1> QED  BY <1>1, <1>2, <1>3, <1>4, <1>5 DEF Fitted

\* A delta's events, of whichever wire; the count is of no more account once the
\* stream has failed.
LEMMA Hands ==
    ASSUME NEW e, IsEmitter(e), NEW g, NEW K, NEW OK, NEW so, Follows(e, g, K, OK, so),
           NEW d, Fitted(d, e, K, OK, so), NEW x, x = write(e, d)
    PROVE  Gives(x, e, g, Behind(K, d), OK, so)
<1>1. e.target \in Wire
  BY EmitterHas
<1>2. CASE e.target = Anthropic
  <2>1. x = write_anthropic(e, d)
    BY <1>2 DEF write, Anthropic, Chat, Responses
  <2> QED  BY <1>2, <2>1, AnthropicHands
<1>3. CASE e.target = Chat
  <2>1. x = write_chat(e, d)
    BY <1>3 DEF write, Anthropic, Chat, Responses
  <2> QED  BY <1>3, <2>1, ChatHands
<1>4. CASE e.target = Responses /\ ~e.failed
  <2>1. x = write_responses(e, d)
    BY <1>4 DEF write, Anthropic, Chat, Responses
  <2> QED  BY <1>4, <2>1, ResponsesHands
<1>5. CASE e.target = Responses /\ e.failed
  <2>1. x = write_responses(e, d)
    BY <1>5 DEF write, Anthropic, Chat, Responses
  <2>2. x.e = e /\ x.out = <<>>
    BY <1>5, <2>1 DEF write_responses
  <2>3. Follows(e, g, Behind(K, d), OK, so)
    BY <1>5 DEF Follows
  <2> QED  BY <2>2, <2>3, SilentGives
<1> QED  BY <1>1, <1>2, <1>3, <1>4, <1>5 DEF Wire

\* What the end of an answer writes.
Closing(x, e, g, K, OK, so, reason) ==
    /\ IsSeq(x.out)
    /\ \/ Broke(Joined(g, x.out))
       \/ Concluded(Joined(g, x.out), K, OK, so, emit_stop_reason(e.target, reason))

LEMMA WordEnds ==
    ASSUME NEW e, NEW g, NEW K, NEW OK, NEW so, Follows(e, g, K, OK, so), e.failed = FALSE,
           NEW c, Plain(c), NEW reason, NEW x, x.out = c \o <<EWord(e.target, reason), Ev("end", 0)>>
    PROVE  Closing(x, e, g, K, OK, so, reason)
<1>1. PICK a, b, out, h : a = EWord(e.target, reason) /\ b = Ev("end", 0) /\ out = x.out /\ h = Joined(g, out)
  BY Zenon
<1>2. a.k = "word" /\ a.word = emit_stop_reason(e.target, reason) /\ b.k = "end"
  BY <1>1 DEF EWord, Ev
<1>3. out = c \o <<a, b>>
  BY <1>1
<1>4. Handed(g, K, OK, so)
  BY DEF Follows
<1>5. IsSeq(out) /\ Concluded(h, K, OK, so, a.word)
  BY ONLY <1>1, <1>2, <1>3, <1>4, Plain(c), ConcludedAfter, Zenon
<1> QED  BY ONLY <1>1, <1>2, <1>5 DEF Closing

LEMMA JoinNothing ==
    ASSUME NEW s, IsSeq(s)
    PROVE  <<>> \o s = s
<1>1. PICK S : s \in Seq(S)
  BY DEF IsSeq
<1> QED  BY <1>1, ConcatEmptySeq

LEMMA StopHands ==
    ASSUME NEW e, IsEmitter(e), NEW g, NEW K, NEW OK, NEW so, Follows(e, g, K, OK, so),
           NEW d, d.k = "stop", NEW x, x = write(e, d)
    PROVE  Closing(x, e, g, K, OK, so, d.reason)
<1>1. e.target \in Wire
  BY EmitterHas
<1>2. PICK c : c = TextShut(e)
  OBVIOUS
<1>3. Plain(c.out)
  BY <1>2, TextShutGives
<1>4. CASE e.target = Anthropic
  <2>1. x = write_anthropic(e, d)
    BY <1>4 DEF write, Anthropic, Chat, Responses
  <2>2. x.out = c.out \o <<EWord(e.target, d.reason), Ev("end", 0)>>
    <3>1. PICK a, b, v : a = EWord(e.target, d.reason) /\ b = Ev("end", 0) /\ v = c.e
      OBVIOUS
    <3>2. x = [e |-> v, out |-> c.out \o <<a, b>>]
      BY ONLY <1>2, <1>4, <2>1, <3>1, d.k = "stop" DEF write_anthropic
    <3> QED  BY ONLY <3>1, <3>2
  <2>3. e.failed = FALSE
    BY <1>4 DEF Follows, Anthropic, Responses
  <2> QED  BY ONLY <1>3, <2>2, <2>3, Follows(e, g, K, OK, so), WordEnds, Zenon
<1>5. CASE e.target = Chat
  <2>1. x = write_chat(e, d)
    BY <1>5 DEF write, Anthropic, Chat, Responses
  <2>2. x.out = <<EWord(e.target, d.reason), Ev("end", 0)>>
    BY <1>5, <2>1 DEF write_chat
  <2>3. e.failed = FALSE
    BY <1>5 DEF Follows, Chat, Responses
  <2>4. PICK s, n : s = <<EWord(e.target, d.reason), Ev("end", 0)>> /\ n = <<>>
    BY Zenon
  <2>5. IsSeq(n) /\ IsSeq(s) /\ Plain(n)
    BY <2>4, HandedNothing, TupleTwo DEF Plain
  <2>6. n \o s = s
    BY ONLY <2>4, <2>5, JoinNothing
  <2>7. x.out = n \o <<EWord(e.target, d.reason), Ev("end", 0)>>
    BY ONLY <2>2, <2>4, <2>6
  <2> QED  BY ONLY <2>3, <2>5, <2>7, Follows(e, g, K, OK, so), WordEnds, Zenon
<1>6. CASE e.target = Responses /\ ~e.failed
  <2>1. x = write_responses(e, d)
    BY <1>6 DEF write, Anthropic, Chat, Responses
  <2>2. x.out = c.out \o <<EWord(e.target, d.reason), Ev("end", 0)>>
    BY <1>2, <1>6, <2>1 DEF write_responses
  <2>3. e.failed = FALSE
    BY <1>6 DEF Follows
  <2> QED  BY ONLY <1>3, <2>2, <2>3, Follows(e, g, K, OK, so), WordEnds, Zenon
<1>7. CASE e.target = Responses /\ e.failed
  <2>1. x = write_responses(e, d)
    BY <1>7 DEF write, Anthropic, Chat, Responses
  <2>2. x.out = <<>>
    BY <1>7, <2>1 DEF write_responses
  <2>3. Broke(g)
    BY <1>7 DEF Follows
  <2>4. Joined(g, x.out) = g /\ IsSeq(x.out)
    BY <2>2, <2>3, TupleOne, Zenon DEF Joined, Broke
  <2> QED  BY <2>3, <2>4 DEF Closing
<1> QED  BY <1>1, <1>4, <1>5, <1>6, <1>7 DEF Wire

\* How many calls there are among the first i deltas.
CallsTo(ds, i) == Cardinality({y \in 1 .. i : ds[y].k = "call"})

LEMMA CallsToNext ==
    ASSUME NEW ds, NEW i \in Nat
    PROVE  CallsTo(ds, 0) = 0 /\ CallsTo(ds, i) \in Nat /\ CallsTo(ds, i + 1) = Behind(CallsTo(ds, i), ds[i + 1])
<1> DEFINE S(j) == {y \in 1 .. j : ds[y].k = "call"}
<1>1. S(0) = {}
  OBVIOUS
<1>2. IsFiniteSet(S(i)) /\ i + 1 \notin S(i)
  <2>1. IsFiniteSet(1 .. i) /\ S(i) \subseteq 1 .. i
    BY FS_Interval
  <2> QED  BY <2>1, FS_Subset
<1>3. S(i + 1) = IF ds[i + 1].k = "call" THEN S(i) \cup {i + 1} ELSE S(i)
  OBVIOUS
<1>4. CallsTo(ds, 0) = Cardinality(S(0)) /\ CallsTo(ds, i) = Cardinality(S(i)) /\ CallsTo(ds, i + 1) = Cardinality(S(i + 1))
  BY DEF CallsTo
<1> HIDE DEF S
<1>5. Cardinality(S(i)) \in Nat /\ Cardinality(S(i) \cup {i + 1}) = Cardinality(S(i)) + 1
  BY <1>2, FS_CardinalityType, FS_AddElement
<1> QED  BY <1>1, <1>3, <1>4, <1>5, FS_EmptySet, Zenon DEF Behind

\* The deltas, each with those before it.
FittedAll(ds, m, e, K, OK, so) == \A i \in 1 .. m : Fitted(ds[i], e, K + CallsTo(ds, i - 1), OK, so)

LEMMA RenderedSame ==
    ASSUME NEW e, NEW f, SameIn(f, e), NEW d, NEW K, NEW OK, NEW so, Fitted(d, e, K, OK, so)
    PROVE  Fitted(d, f, K, OK, so)
BY DEF SameIn, Fitted, Rendered

LEMMA TraceHanded ==
    ASSUME NEW e, NEW g, NEW called, Flowing(e, g, called), IsSeq(g),
           NEW ds, NEW m \in Nat, Tells(ds, m, e.started, called),
           NEW f, f[0] = Starts(e), \A i \in 1 .. m : f[i] = After1(f[i - 1], ds[i]),
           NEW K \in Nat, NEW OK, NEW so, Follows(e, g, K, OK, so), FittedAll(ds, m, e, K, OK, so)
    PROVE  Gives(f[m], e, g, K + CallsTo(ds, m), OK, so)
<1> DEFINE G == {i \in 0 .. m : Gives(f[i], e, g, K + CallsTo(ds, i), OK, so)}
<1>1. 0 \in G
  <2>1. f[0].e = e /\ f[0].out = <<>>
    BY DEF Starts
  <2>2. K + CallsTo(ds, 0) = K
    BY CallsToNext
  <2>3. Gives(f[0], e, g, K, OK, so)
    BY <2>1, SilentGives
  <2> QED  BY <2>2, <2>3
<1>2. ASSUME NEW i \in 0 .. m, i < m, i \in G  PROVE i + 1 \in G
  <2>1. PICK j, d, a, c : j = i + 1 /\ d = ds[j] /\ a = f[i] /\ c = K + CallsTo(ds, i)
    OBVIOUS
  <2>2. j \in 1 .. m /\ j \in 0 .. m /\ j - 1 = i
    BY <1>2, <2>1
  <2>3. f[j] = After1(a, d)
    BY <2>1, <2>2
  <2>4. Gives(a, e, g, c, OK, so)
    BY <1>2, <2>1
  <2>5. IsEmitter(a.e)
    <3>1. Tells(ds, i, e.started, called)
      BY <1>2 DEF Tells
    <3>2. \A k \in 1 .. i : f[k] = After1(f[k - 1], ds[k])
      BY <1>2
    <3>3. i \in Nat
      OBVIOUS
    <3>4. Stands(f[i], e.target, e.started \/ i > 0, g, called)
      BY ONLY <3>1, <3>2, <3>3, f[0] = Starts(e), Flowing(e, g, called), IsSeq(g), TraceStands, Zenon
    <3> QED  BY <2>1, <3>4 DEF Stands, Flowing
  <2>6. SameIn(a.e, e) /\ IsSeq(a.out) /\ Follows(a.e, Joined(g, a.out), c, OK, so)
    BY <2>4 DEF Gives
  <2>7. Fitted(d, a.e, c, OK, so)
    <3>1. Fitted(ds[j], e, K + CallsTo(ds, j - 1), OK, so)
      BY <2>2 DEF FittedAll
    <3>2. Fitted(d, e, c, OK, so)
      BY <2>1, <2>2, <3>1
    <3> QED  BY <2>6, <3>2, RenderedSame
  <2>8. PICK x, b, h : x = write(a.e, d) /\ b = a.e /\ h = Joined(g, a.out)
    OBVIOUS
  <2>9. Gives(x, b, h, Behind(c, d), OK, so)
    BY ONLY <2>5, <2>6, <2>7, <2>8, Hands
  <2>10. Behind(c, d) = K + CallsTo(ds, j)
    <3>1. CallsTo(ds, j) = Behind(CallsTo(ds, i), d) /\ CallsTo(ds, i) \in Nat
      BY <2>1, CallsToNext
    <3> QED  BY <2>1, <3>1 DEF Behind
  <2>11. PICK u, v : u = a.out /\ v = x.out
    OBVIOUS
  <2>12. IsSeq(g) /\ IsSeq(u) /\ IsSeq(v)
    BY <2>6, <2>9, <2>11 DEF Gives
  <2>13. (g \o u) \o v = g \o (u \o v)
    BY ONLY <2>12, Joining
  <2>14. IsSeq(u \o v)
    BY ONLY <2>12, ConcatIsSeq
  <2>15. After1(a, d).e = x.e /\ After1(a, d).out = u \o v
    BY <2>8, <2>11, Zenon DEF After1
  <2>16. Joined(h, v) = Joined(g, u \o v)
    BY ONLY <2>8, <2>11, <2>13 DEF Joined
  <2>17. Gives(f[j], e, g, K + CallsTo(ds, j), OK, so)
    BY ONLY <2>3, <2>6, <2>8, <2>9, <2>10, <2>11, <2>14, <2>15, <2>16 DEF Gives, SameIn
  <2> QED  BY <2>1, <2>2, <2>17
<1> HIDE DEF G
<1>3. m \in G
  BY <1>1, <1>2, Ladder
<1> QED  BY <1>3 DEF G

LEMMA WrittenHanded ==
    ASSUME NEW e, NEW g, NEW called, Flowing(e, g, called), IsSeq(g),
           NEW ds, IsSeq(ds), Tells(ds, Len(ds), e.started, called),
           NEW K \in Nat, NEW OK, NEW so, Follows(e, g, K, OK, so), FittedAll(ds, Len(ds), e, K, OK, so)
    PROVE  Gives(Writing(e, ds), e, g, K + CallsTo(ds, Len(ds)), OK, so)
<1>1. Len(ds) \in Nat
  BY Appending
<1>2. PICK f : /\ f[0] = Starts(e)
               /\ \A i \in 1 .. Len(ds) : f[i] = After1(f[i - 1], ds[i])
               /\ Writing(e, ds) = f[Len(ds)]
  BY <1>1, WritingIs, Zenon
<1>3. Gives(f[Len(ds)], e, g, K + CallsTo(ds, Len(ds)), OK, so)
  BY <1>1, <1>2, TraceHanded
<1> QED  BY <1>2, <1>3

LEMMA WrittenEnds ==
    ASSUME NEW e, NEW g, NEW called, Flowing(e, g, called), IsSeq(g),
           NEW ds, IsSeq(ds), NEW m \in Nat, Len(ds) = m + 1, Tells(ds, m, e.started, called),
           ds[m + 1].k = "stop",
           NEW K \in Nat, NEW OK, NEW so, Follows(e, g, K, OK, so), FittedAll(ds, m, e, K, OK, so)
    PROVE  Closing(Writing(e, ds), e, g, K + CallsTo(ds, m), OK, so, ds[m + 1].reason)
<1>1. Len(ds) \in Nat
  OBVIOUS
<1>2. PICK f : /\ f[0] = Starts(e)
               /\ \A i \in 1 .. Len(ds) : f[i] = After1(f[i - 1], ds[i])
               /\ Writing(e, ds) = f[Len(ds)]
  BY ONLY <1>1, WritingIs
<1>3. \A i \in 1 .. m : f[i] = After1(f[i - 1], ds[i])
  BY <1>2
<1>4. PICK a, d, c, y : a = f[m] /\ d = ds[m + 1] /\ c = K + CallsTo(ds, m) /\ y = Writing(e, ds)
  OBVIOUS
<1>5. Gives(a, e, g, c, OK, so)
  BY <1>2, <1>3, <1>4, TraceHanded
<1>6. IsEmitter(a.e)
  <2>1. Stands(f[m], e.target, e.started \/ m > 0, g, called)
    BY <1>2, <1>3, TraceStands
  <2> QED  BY <1>4, <2>1 DEF Stands, Flowing
<1>7. y = After1(a, d) /\ d.k = "stop"
  BY <1>2, <1>4
<1>8. SameIn(a.e, e) /\ IsSeq(a.out) /\ Follows(a.e, Joined(g, a.out), c, OK, so)
  BY <1>5 DEF Gives
<1>9. PICK x, b, h : x = write(a.e, d) /\ b = a.e /\ h = Joined(g, a.out)
  OBVIOUS
<1>10. Closing(x, b, h, c, OK, so, d.reason)
  BY ONLY <1>6, <1>7, <1>8, <1>9, StopHands
<1>11. PICK u, v : u = a.out /\ v = x.out
  OBVIOUS
<1>12. IsSeq(g) /\ IsSeq(u) /\ IsSeq(v)
  BY <1>8, <1>10, <1>11 DEF Closing
<1>13. (g \o u) \o v = g \o (u \o v)
  BY ONLY <1>12, Joining
<1>14. IsSeq(u \o v)
  BY ONLY <1>12, ConcatIsSeq
<1>15. y.out = u \o v
  BY <1>7, <1>9, <1>11, Zenon DEF After1
<1>16. Joined(h, v) = Joined(g, y.out)
  BY ONLY <1>9, <1>11, <1>13, <1>15 DEF Joined
<1>17. Closing(y, e, g, c, OK, so, d.reason)
  BY ONLY <1>8, <1>9, <1>10, <1>11, <1>14, <1>15, <1>16 DEF Closing, SameIn
<1> QED  BY <1>4, <1>17

-----------------------------------------------------------------------------
(* A frame, and the end of the stream, for the client that counts calls.   *)

LEMMA ShapedFits ==
    ASSUME NEW ds, NEW m, NEW started, NEW called, Tells(ds, m, started, called),
           NEW e, NEW K, NEW OK
    PROVE  FittedAll(ds, m, e, K, OK, FALSE)
BY DEF Tells, Tell, FittedAll, Fitted

LEMMA UncalledNone ==
    ASSUME NEW ds, NEW m, NEW started, NEW called, Tells(ds, m, started, called), ~called
    PROVE  CallsTo(ds, m) = 0
<1>1. {y \in 1 .. m : ds[y].k = "call"} = {}
  BY DEF Tells, Tell
<1> QED  BY <1>1, FS_EmptySet DEF CallsTo

\* The frame f reaches the translator u of a client with K calls, and what comes
\* of it; then the same for the end of the stream.
Meets(u, w, g, f, K, OK, so) ==
    /\ Runs(u, w, g) /\ f.k # "done" /\ Ready(u.p, f) /\ K \in Nat /\ Follows(u.e, g, K, OK, so)
    /\ so => FittedAll(feed(u.p, f).out, Len(feed(u.p, f).out), u.e, K, OK, so)

Yields(x, u, g, c, K, OK, so) ==
    /\ SameIn(x.t.e, u.e) /\ Follows(x.t.e, g \o x.out, K + c, OK, so)
    /\ (c > 0 => x.t.p.slots # <<>>) /\ c \in Nat

LEMMA ConsumesHands ==
    ASSUME NEW u, NEW w, NEW g, NEW f, NEW K, NEW OK, NEW so \in BOOLEAN,
           Meets(u, w, g, f, K, OK, so),
           NEW ds, ds = feed(u.p, f).out, NEW x, x = consume(u, f)
    PROVE  Yields(x, u, g, CallsTo(ds, Len(ds)), K, OK, so)
<1>0. /\ Runs(u, w, g) /\ f.k # "done" /\ Ready(u.p, f) /\ K \in Nat /\ Follows(u.e, g, K, OK, so)
      /\ so => FittedAll(ds, Len(ds), u.e, K, OK, so)
  BY ONLY Meets(u, w, g, f, K, OK, so), ds = feed(u.p, f).out DEF Meets
<1>1. PICK p, e, r, c, y : /\ p = u.p /\ e = u.e /\ r = feed(p, f) /\ c = (r.p.slots # <<>>)
                           /\ y = Writing(e, ds)
  OBVIOUS
<1>2. /\ u = [p |-> p, e |-> e, closed |-> FALSE] /\ IsParser(p) /\ e.target = w
      /\ e.started = p.started /\ Flowing(e, g, p.slots # <<>>)
  BY <1>0, <1>1 DEF Runs
<1>3. Fed(r, p, f)
  BY <1>0, <1>1, Feeds
<1>4. Grown(r.p, p) /\ IsSeq(ds) /\ Tells(ds, Len(ds), p.started, c)
  BY ONLY <1>1, <1>3, ds = feed(u.p, f).out DEF Fed, Told
<1>5. Flowing(e, g, c)
  <2>1. p.slots # <<>> => c
    BY <1>1, <1>4, Zenon DEF Grown
  <2> QED  BY ONLY <1>2, <2>1 DEF Flowing
<1>6. IsSeq(g)
  BY <1>5, FlowingIsSeq
<1>7. FittedAll(ds, Len(ds), e, K, OK, so)
  <2>1. ~so => FittedAll(ds, Len(ds), e, K, OK, FALSE)
    BY <1>4, ShapedFits, Zenon
  <2> QED  BY <1>0, <1>1, <2>1, Zenon
<1>8. Tells(ds, Len(ds), e.started, c)
  BY <1>2, <1>4
<1>9. Follows(e, g, K, OK, so) /\ K \in Nat
  BY <1>0, <1>1
<1>10. Gives(y, e, g, K + CallsTo(ds, Len(ds)), OK, so)
  BY ONLY <1>1, <1>4, <1>5, <1>6, <1>7, <1>8, <1>9, WrittenHanded
<1>11. x = Written(u, r)
  BY ONLY <1>1, <1>0, x = consume(u, f) DEF consume
<1>12. x.out = y.out /\ x.t = [u EXCEPT !.p = r.p, !.e = y.e]
  BY ONLY <1>1, <1>2, <1>11, ds = feed(u.p, f).out DEF Written
<1>13. x.t.p = r.p /\ x.t.e = y.e
  BY ONLY <1>2, <1>12
<1>14. CallsTo(ds, Len(ds)) \in Nat
  <2>1. Len(ds) \in Nat
    BY <1>4, Appending
  <2> QED  BY <2>1, CallsToNext
<1>15. r.p.slots = <<>> => CallsTo(ds, Len(ds)) = 0
  <2>1. ~(r.p.slots # <<>>) => ~c
    BY <1>1, Zenon
  <2>2. ~c => CallsTo(ds, Len(ds)) = 0
    BY <1>4, UncalledNone
  <2> QED  BY <2>1, <2>2
<1>16. SameIn(y.e, e) /\ Follows(y.e, Joined(g, y.out), K + CallsTo(ds, Len(ds)), OK, so)
  BY ONLY <1>10 DEF Gives
<1>17. Joined(g, y.out) = g \o x.out
  BY ONLY <1>12 DEF Joined
<1>18. CallsTo(ds, Len(ds)) > 0 => x.t.p.slots # <<>>
  <2> SUFFICES ASSUME x.t.p.slots = <<>>  PROVE ~(CallsTo(ds, Len(ds)) > 0)
    OBVIOUS
  <2>1. CallsTo(ds, Len(ds)) = 0
    BY <1>13, <1>15
  <2> QED  BY <2>1
<1> QED  BY ONLY <1>1, <1>13, <1>14, <1>16, <1>17, <1>18 DEF Yields

\* An answer of which the client has been told the end.
Parting(g, w, K, OK, so, reason) ==
    Broke(g) \/ Concluded(g, K, OK, so, emit_stop_reason(w, reason))

LEMMA ClosesHands ==
    ASSUME NEW u, NEW w, NEW g, Runs(u, w, g),
           NEW K \in Nat, NEW OK, NEW so \in BOOLEAN, Follows(u.e, g, K, OK, so),
           NEW m, Owes(Owed(u.p).out, m, u.p),
           so => FittedAll(Owed(u.p).out, m, u.e, K, OK, so),
           NEW x, x = close(u)
    PROVE  /\ Parting(g \o x.out, w, K + CallsTo(Owed(u.p).out, m), OK, so, GivenReason(u.p))
           /\ CallsTo(Owed(u.p).out, m) \in Nat
           /\ CallsTo(Owed(u.p).out, m) > 0 => u.p.slots # <<>>
<1>1. PICK p, e, c, ds : p = u.p /\ e = u.e /\ c = (p.slots # <<>>) /\ ds = Owed(p).out
  OBVIOUS
<1>2. /\ u = [p |-> p, e |-> e, closed |-> FALSE] /\ IsParser(p) /\ e.target = w
      /\ e.started = p.started /\ Flowing(e, g, c)
  BY <1>1 DEF Runs
<1>3. IsSeq(g)
  BY <1>2, FlowingIsSeq
<1>4. /\ IsSeq(ds) /\ m \in Nat /\ Len(ds) = m + 1 /\ ds[m + 1].k = "stop"
      /\ Tells(ds, m, p.started, c) /\ ds[m + 1].reason = GivenReason(p)
  BY <1>1 DEF Owes
<1>5. PICK y : y = Writing(e, ds)
  OBVIOUS
<1>6. FittedAll(ds, m, e, K, OK, so)
  <2>1. ~so => FittedAll(ds, m, e, K, OK, FALSE)
    BY <1>4, ShapedFits, Zenon
  <2> QED  BY <1>1, <2>1, Zenon
<1>7. Tells(ds, m, e.started, c)
  BY <1>2, <1>4
<1>8. Follows(e, g, K, OK, so)
  BY <1>1
<1>9. Closing(y, e, g, K + CallsTo(ds, m), OK, so, ds[m + 1].reason)
  BY ONLY <1>2, <1>3, <1>4, <1>5, <1>6, <1>7, <1>8, K \in Nat, WrittenEnds
<1>10. x = Written([u EXCEPT !.closed = TRUE], Owed(p))
  BY <1>1, <1>2 DEF close
<1>11. PICK z : z = [u EXCEPT !.closed = TRUE]
  BY Zenon
<1>12. z = [p |-> p, e |-> e, closed |-> TRUE]
  BY ONLY <1>2, <1>11, Zenon
<1>13. x.out = y.out
  BY ONLY <1>1, <1>5, <1>10, <1>11, <1>12 DEF Written
<1>14. Joined(g, y.out) = g \o x.out
  BY ONLY <1>13 DEF Joined
<1>15. Parting(g \o x.out, w, K + CallsTo(ds, m), OK, so, GivenReason(p))
  BY ONLY <1>2, <1>4, <1>9, <1>14 DEF Closing, Parting
<1>16. CallsTo(ds, m) \in Nat
  BY <1>4, CallsToNext
<1>17. p.slots = <<>> => CallsTo(ds, m) = 0
  <2>1. ~(p.slots # <<>>) => ~c
    BY <1>1, Zenon
  <2>2. ~c => CallsTo(ds, m) = 0
    BY <1>4, UncalledNone
  <2> QED  BY <2>1, <2>2
<1>18. CallsTo(ds, m) > 0 => p.slots # <<>>
  <2> SUFFICES ASSUME p.slots = <<>>  PROVE ~(CallsTo(ds, m) > 0)
    OBVIOUS
  <2>1. CallsTo(ds, m) = 0
    BY <1>17
  <2> QED  BY <2>1
<1> QED  BY ONLY <1>1, <1>15, <1>16, <1>18

-----------------------------------------------------------------------------
(* A client with a call in hand is told to run it (Reply), whatever frames *)
(* were lost: by the upstream's own word, or by none.                      *)

\* The frame f says why the answer r of an upstream of the wire w is over.
SaysTools(f, w) ==
    /\ w = Anthropic => parse_stop_anthropic(f.word) = "ToolUse"
    /\ w = Chat => parse_stop_chat(f.word) = "ToolUse"

\* What the frames fs, yet to come, and the parser p know of the answer r: after
\* the word for its end there are no calls, and the word fits.
Hears(fs, p, r) ==
    /\ \A i, j \in 1 .. Len(fs) : fs[i].k = "word" /\ i < j => ~Stirs(fs[j])
    /\ p.stop # None => \A j \in 1 .. Len(fs) : ~Stirs(fs[j])
    /\ \A i \in 1 .. Len(fs) : Stirs(fs[i]) => Contains(r.pieces, "call")
    /\ p.slots # <<>> => Contains(r.pieces, "call")
    /\ ~r.max /\ Contains(r.pieces, "call") =>
         \A i \in 1 .. Len(fs) : fs[i].k = "word" => SaysTools(fs[i], p.source)
    /\ ~r.max /\ p.slots # <<>> => p.stop \in {None, "ToolUse"}

LEMMA TailHears ==
    ASSUME NEW fs, IsSeq(fs), fs # <<>>, NEW p, p.source \in Wire, NEW r, Hears(fs, p, r),
           NEW q, q.source = p.source,
           NEW f, f = Head(fs), ~Stirs(f) => (p.slots = <<>> => q.slots = <<>>),
           q.stop = IF f.k = "word" THEN Parsed(p, f) ELSE p.stop, p.slots # <<>> => q.slots # <<>>
    PROVE  Hears(Tail(fs), q, r)
<1>1. PICK ts, n, tooled : ts = Tail(fs) /\ n = Len(fs) /\ tooled = Contains(r.pieces, "call")
  BY Zenon
<1>2. /\ f = fs[1] /\ n \in Nat /\ 1 \in 1 .. n
      /\ Len(ts) = n - 1 /\ \A i \in 1 .. Len(ts) : i + 1 \in 1 .. n /\ ts[i] = fs[i + 1]
  BY <1>1, HeadTail
<1>3. /\ \A i, j \in 1 .. n : fs[i].k = "word" /\ i < j => ~Stirs(fs[j])
      /\ p.stop # None => \A j \in 1 .. n : ~Stirs(fs[j])
      /\ \A i \in 1 .. n : Stirs(fs[i]) => tooled
      /\ p.slots # <<>> => tooled
      /\ ~r.max /\ tooled => \A i \in 1 .. n : fs[i].k = "word" => SaysTools(fs[i], p.source)
      /\ ~r.max /\ p.slots # <<>> => p.stop \in {None, "ToolUse"}
  BY <1>1 DEF Hears
<1>4. ASSUME NEW i \in 1 .. Len(ts), NEW j \in 1 .. Len(ts), ts[i].k = "word", i < j  PROVE ~Stirs(ts[j])
  <2>1. i + 1 \in 1 .. n /\ j + 1 \in 1 .. n /\ i + 1 < j + 1 /\ ts[i] = fs[i + 1] /\ ts[j] = fs[j + 1]
    BY <1>2, <1>4
  <2> QED  BY <1>3, <1>4, <2>1
<1>5. ASSUME q.stop # None, NEW j \in 1 .. Len(ts)  PROVE ~Stirs(ts[j])
  <2>1. j + 1 \in 1 .. n /\ 1 < j + 1 /\ ts[j] = fs[j + 1]
    BY <1>2
  <2>2. CASE f.k = "word"
    BY <1>2, <1>3, <2>1, <2>2
  <2>3. CASE f.k # "word"
    BY <1>3, <1>5, <2>1, <2>3
  <2> QED  BY <2>2, <2>3
<1>6. \A i \in 1 .. Len(ts) : Stirs(ts[i]) => tooled
  BY <1>2, <1>3
<1>7. q.slots # <<>> => tooled
  BY <1>2, <1>3
<1>8. ASSUME ~r.max, tooled, NEW i \in 1 .. Len(ts), ts[i].k = "word"  PROVE SaysTools(ts[i], q.source)
  BY <1>2, <1>3, <1>8
<1>9. ASSUME ~r.max, q.slots # <<>>  PROVE q.stop \in {None, "ToolUse"}
  <2>1. tooled
    BY <1>7, <1>9
  <2>2. CASE f.k = "word"
    <3>1. SaysTools(f, p.source)
      BY <1>2, <1>3, <1>9, <2>1, <2>2
    <3>2. p.slots # <<>>
      BY <1>9, <2>2 DEF Stirs
    <3>3. Parsed(p, f) = "ToolUse"
      BY <3>1, <3>2 DEF Parsed, SaysTools, parse_stop_responses, Wire, Anthropic, Chat, Responses
    <3> QED  BY <2>2, <3>3
  <2>3. CASE f.k # "word"
    <3>1. q.stop = p.stop
      BY <2>3
    <3>2. CASE p.slots # <<>>
      BY <1>3, <1>9, <3>1, <3>2
    <3>3. CASE p.slots = <<>>
      <4>1. Stirs(fs[1])
        BY <1>2, <1>9, <3>3
      <4>2. p.stop = None
        BY <1>2, <1>3, <4>1
      <4> QED  BY <3>1, <4>2
    <3> QED  BY <3>2, <3>3
  <2> QED  BY <2>2, <2>3
<1>10. Hears(ts, q, r)
  BY ONLY <1>1, <1>4, <1>5, <1>6, <1>7, <1>8, <1>9 DEF Hears
<1> QED  BY <1>1, <1>10

LEMMA FramesHeard ==
    ASSUME NEW w, NEW target \in Wire, NEW m, NEW n, NEW r, r.pieces \in Seq({"think", "text", "call"}),
           NEW p, p.source = target, p.slots = <<>>, p.stop = None
    PROVE  Hears(Frames(w, target, m, n, r), p, r)
<1>1. PICK word, ts, ss, F, a, fs :
        /\ word = SaidWord(target, r) /\ ts = RestOf(target, word) /\ a = BareOf("start", word)
        /\ ss = [i \in 1 .. Len(r.pieces) |-> PieceFrames(w, target, m, n, r, i)]
        /\ F = FlattenSeq(ss) /\ fs = Frames(w, target, m, n, r)
  BY Zenon
<1>2. PICK len, T : /\ len = Len(r.pieces) /\ T = [i \in 1 .. len |-> PieceSet(w, target, m, n, r.pieces, i)]
  BY Zenon
<1>3. len \in Nat /\ \A i \in 1 .. len : r.pieces[i] \in {"think", "text", "call"}
  BY <1>2, LenProperties, ElementOfSeq
<1>4. ss = [i \in 1 .. len |-> ss[i]]
  BY <1>1, <1>2
<1>5. \A i \in 1 .. len : ss[i] \in Seq(T[i])
  <2> SUFFICES ASSUME NEW i \in 1 .. len  PROVE ss[i] \in Seq(T[i])
    OBVIOUS
  <2>1. PieceFrames(w, target, m, n, r, i) \in Seq(PieceSet(w, target, m, n, r.pieces, i))
    BY <1>3, PieceIs
  <2> QED  BY <1>1, <1>2, <2>1
<1>6. InOrder(F, T, len)
  BY ONLY <1>1, <1>3, <1>4, <1>5, Flattened, Zenon
<1>7. IsSeq(F) /\ Len(F) \in Nat
  BY <1>6, Appending DEF InOrder
<1>8. ASSUME NEW x \in 1 .. Len(F)  PROVE F[x].k # "word" /\ (Stirs(F[x]) => Contains(r.pieces, "call"))
  <2>1. x <= x
    BY <1>7
  <2>2. PICK i \in 1 .. len : F[x] \in T[i]
    BY <1>6, <2>1 DEF InOrder
  <2>3. PICK k \in {"open", "args", "all", "shut", "text", "think"} : F[x] = Framed(w, target, m, n, r.pieces, i, k)
    BY ONLY <1>2, <2>2 DEF PieceSet
  <2>4. F[x].k = k /\ F[x].kind = r.pieces[i]
    BY ONLY <2>3 DEF Framed
  <2>5. Stirs(F[x]) => \E j \in 1 .. Len(r.pieces) : r.pieces[j] = "call"
    BY <1>2, <2>4, Zenon DEF Stirs
  <2>6. F[x].k # "word"
    BY ONLY <2>4
  <2> QED  BY <2>5, <2>6 DEF Contains
<1>9. IsRest(ts) /\ \A i \in 1 .. Len(ts) : ~Stirs(ts[i]) /\ ts[i].word = word
  BY <1>1, RestIs
<1>10. InThree(fs, a, F, ts)
  <2>1. fs = Joined(Joined(<<a>>, F), ts)
    BY ONLY <1>1, FramesAre
  <2> QED  BY <1>7, <1>9, <2>1, ThreeParts DEF IsRest
<1>11. a.k = "start" /\ ~Stirs(a)
  BY ONLY <1>1, Zenon DEF BareOf, Stirs
<1>12. PICK f, l, h : f = Len(F) /\ l = Len(ts) /\ h = Len(fs)
  BY Zenon
<1>13. /\ f \in Nat /\ l \in Nat /\ h = 1 + f + l
       /\ \A x \in 1 .. h : \/ x = 1 /\ fs[x] = a
                            \/ x > 1 /\ x - 1 \in 1 .. f /\ fs[x] = F[x - 1]
                            \/ x > 1 + f /\ x - (1 + f) \in 1 .. l /\ fs[x] = ts[x - (1 + f)]
  BY ONLY <1>10, <1>12 DEF InThree
<1>14. ASSUME NEW x \in 1 .. h, fs[x].k = "word"  PROVE x > 1 + f /\ x - (1 + f) \in 1 .. l /\ fs[x] = ts[x - (1 + f)]
  BY <1>8, <1>11, <1>12, <1>13, <1>14
<1>15. ASSUME NEW x \in 1 .. h, Stirs(fs[x])  PROVE x <= 1 + f /\ Contains(r.pieces, "call")
  <2>1. CASE x = 1 /\ fs[x] = a
    BY <1>11, <1>15, <2>1
  <2>2. CASE x > 1 /\ x - 1 \in 1 .. f /\ fs[x] = F[x - 1]
    <3>1. Contains(r.pieces, "call")
      BY <1>8, <1>12, <1>15, <2>2
    <3>2. x <= 1 + f
      BY <1>13, <2>2
    <3> QED  BY <3>1, <3>2
  <2>3. CASE x > 1 + f /\ x - (1 + f) \in 1 .. l /\ fs[x] = ts[x - (1 + f)]
    BY <1>9, <1>12, <1>15, <2>3
  <2> QED  BY <1>13, <2>1, <2>2, <2>3
<1>16. ASSUME NEW i \in 1 .. h, NEW j \in 1 .. h, fs[i].k = "word", i < j  PROVE ~Stirs(fs[j])
  BY <1>13, <1>14, <1>15, <1>16
<1>17. ASSUME ~r.max, Contains(r.pieces, "call"), NEW i \in 1 .. h, fs[i].k = "word"  PROVE SaysTools(fs[i], target)
  <2>1. fs[i].word = word
    BY <1>9, <1>12, <1>14, <1>17
  <2>2. target = Anthropic => word = "tool_use"
    BY ONLY <1>1, <1>17 DEF SaidWord, Anthropic, Chat, Responses
  <2>3. target = Chat => word = "tool_calls"
    BY ONLY <1>1, <1>17 DEF SaidWord, Anthropic, Chat, Responses
  <2> QED  BY <2>1, <2>2, <2>3 DEF SaysTools, parse_stop_anthropic, parse_stop_chat
<1>18. \A i \in 1 .. h : Stirs(fs[i]) => Contains(r.pieces, "call")
  BY <1>15
<1>19. Hears(fs, p, r)
  BY ONLY <1>12, <1>16, <1>17, <1>18, p.source = target, p.slots = <<>>, p.stop = None DEF Hears
<1> QED  BY <1>1, <1>19

\* The client g of the answer r, told the end.
ToldToRun(g, w, r) ==
    \/ Broke(g)
    \/ \E K \in Nat :
         \E word : /\ Concluded(g, K, {}, FALSE, word)
                   /\ K > 0 /\ ~r.max => word = emit_stop_reason(w, "ToolUse")

\* And before that, with the translator u and the frames fs to come.
OnItsWay(g, u, fs, r) ==
    \E K \in Nat : /\ Follows(u.e, g, K, {}, FALSE) /\ (K > 0 => u.p.slots # <<>>)
                   /\ Hears(fs, u.p, r)

ToolsInv ==
    /\ phase = "reply" => IF t.closed THEN ToldToRun(got, wire, said) ELSE OnItsWay(got, t, frames, said)
    /\ phase = "read" => ToldToRun(got, wire, said)

LEMMA ToolUseWord ==
    ASSUME NEW w \in Wire
    PROVE  /\ emit_stop_reason(w, "ToolUse") \in {"tool_use", "tool_calls", "completed"}
           /\ emit_stop_reason(w, "ToolUse") = "completed" => w = Responses
BY DEF Wire, emit_stop_reason, emit_stop_anthropic, emit_stop_chat, emit_stop_responses, Anthropic, Chat, Responses

LEMMA ClosesToRun ==
    ASSUME NEW u, NEW w \in Wire, NEW g, Runs(u, w, g),
           NEW fs, NEW r, OnItsWay(g, u, fs, r)
    PROVE  ToldToRun(g \o close(u).out, w, r)
<1>1. PICK K \in Nat : /\ Follows(u.e, g, K, {}, FALSE) /\ (K > 0 => u.p.slots # <<>>)
                       /\ Hears(fs, u.p, r)
  BY Zenon DEF OnItsWay
<1>2. IsParser(u.p)
  BY DEF Runs
<1>3. PICK m : Owes(Owed(u.p).out, m, u.p)
  BY <1>2, OwedTold
<1>4. PICK c, h, v : /\ c = CallsTo(Owed(u.p).out, m) /\ h = g \o close(u).out
                     /\ v = emit_stop_reason(w, GivenReason(u.p))
  BY Zenon
<1>5. /\ Parting(h, w, K + c, {}, FALSE, GivenReason(u.p)) /\ c \in Nat
      /\ c > 0 => u.p.slots # <<>>
  BY ONLY <1>1, <1>3, <1>4, Runs(u, w, g), ClosesHands, Zenon
<1>6. CASE Broke(h)
  BY <1>4, <1>6 DEF ToldToRun
<1>7. CASE Concluded(h, K + c, {}, FALSE, v)
  <2>1. ASSUME K + c > 0, ~r.max  PROVE v = emit_stop_reason(w, "ToolUse")
    <3>1. u.p.slots # <<>>
      BY <1>1, <1>5, <2>1
    <3>2. u.p.stop \in {None, "ToolUse"}
      BY <1>1, <2>1, <3>1 DEF Hears
    <3>3. GivenReason(u.p) = "ToolUse"
      BY <3>1, <3>2 DEF GivenReason
    <3> QED  BY <1>4, <3>3
  <2>2. K + c \in Nat
    BY <1>5
  <2>3. ToldToRun(h, w, r)
    BY ONLY <1>7, <2>1, <2>2, Zenon DEF ToldToRun
  <2> QED  BY <1>4, <2>3
<1> QED  BY <1>4, <1>5, <1>6, <1>7, Zenon DEF Parting

LEMMA ConsumesOnItsWay ==
    ASSUME NEW u, NEW w \in Wire, NEW g, Runs(u, w, g),
           NEW fs, NEW r, OnItsWay(g, u, fs, r), Comes(fs, u.p), fs # <<>>, Head(fs).k # "done"
    PROVE  OnItsWay(g \o consume(u, Head(fs)).out, consume(u, Head(fs)).t, Tail(fs), r)
<1>1. PICK K \in Nat : /\ Follows(u.e, g, K, {}, FALSE) /\ (K > 0 => u.p.slots # <<>>)
                       /\ Hears(fs, u.p, r)
  BY Zenon DEF OnItsWay
<1>2. PICK p, f, x, ds, c, h : /\ p = u.p /\ f = Head(fs) /\ x = consume(u, f) /\ ds = feed(p, f).out
                               /\ c = CallsTo(ds, Len(ds)) /\ h = g \o x.out
  BY Zenon
<1>3. IsParser(p) /\ IsSeq(fs) /\ p.source \in Wire
  BY <1>2, ParserHas DEF Runs, Comes
<1>4. Ready(p, f)
  BY <1>2, <1>3, HeadReady
<1>5. /\ x.t.p.source = p.source /\ (~Stirs(f) => (p.slots = <<>> => x.t.p.slots = <<>>))
      /\ x.t.p.stop = IF f.k = "word" THEN Parsed(p, f) ELSE p.stop
  BY <1>2, <1>4, Consumes
<1>6. p.slots # <<>> => x.t.p.slots # <<>>
  <2>1. Fed(feed(p, f), p, f)
    BY <1>4, Feeds
  <2>2. Grown(feed(p, f).p, p)
    BY ONLY <2>1 DEF Fed, Told
  <2>3. u = [p |-> p, e |-> u.e, closed |-> FALSE]
    BY <1>2 DEF Runs
  <2>4. x = Written(u, feed(p, f))
    BY <1>2 DEF consume
  <2>5. x.t.p = feed(p, f).p
    BY ONLY <2>3, <2>4, Zenon DEF Written
  <2> QED  BY <2>2, <2>5 DEF Grown
<1>7. Yields(x, u, g, c, K, {}, FALSE)
  <2>1. PICK so, OK : so = FALSE /\ OK = {}
    BY Zenon
  <2>2. Meets(u, w, g, f, K, OK, so)
    BY <1>1, <1>2, <1>4, <2>1, Zenon DEF Meets
  <2>3. so \in BOOLEAN
    BY <2>1, Zenon
  <2>4. ds = feed(u.p, f).out /\ x = consume(u, f)
    BY <1>2
  <2>5. Yields(x, u, g, CallsTo(ds, Len(ds)), K, OK, so)
    BY ONLY <2>2, <2>3, <2>4, ConsumesHands
  <2> QED  BY ONLY <1>2, <2>1, <2>5, Zenon
<1>8. Hears(Tail(fs), x.t.p, r)
  <2>1. Hears(fs, p, r)
    BY <1>1, <1>2
  <2> QED  BY ONLY <1>2, <1>3, <1>5, <1>6, <2>1, fs # <<>>, TailHears
<1>9. K + c > 0 => x.t.p.slots # <<>>
  BY <1>1, <1>2, <1>6, <1>7 DEF Yields
<1>10. K + c \in Nat /\ Follows(x.t.e, h, K + c, {}, FALSE)
  <2>1. c \in Nat
    BY ONLY <1>7 DEF Yields
  <2>2. K + c \in Nat
    BY ONLY <2>1, K \in Nat
  <2>3. Follows(x.t.e, h, K + c, {}, FALSE)
    BY ONLY <1>2, <1>7, Zenon DEF Yields
  <2> QED  BY <2>2, <2>3, Zenon
<1>11. OnItsWay(h, x.t, Tail(fs), r)
  BY ONLY <1>8, <1>9, <1>10, Zenon DEF OnItsWay
<1> QED  BY <1>2, <1>11

LEMMA ToolsAsked == ASSUME ReplyInv, NEW target \in Wire, Ask(target)  PROVE ToolsInv'
<1>1. PICK pieces \in Replies, max \in BOOLEAN :
        /\ said' = [pieces |-> pieces, max |-> max]
        /\ frames' = Frames(wire, target, Names(wire, target, hist), turn, [pieces |-> pieces, max |-> max])
        /\ t' = Translator(target, wire, Names(wire, target, hist))
  BY DEF Ask
<1>2. wire' = wire /\ got' = <<>> /\ phase' = "reply" /\ wire \in Wire
  BY DEF Ask, ReplyInv
<1>3. PICK r, m, u, fs : /\ r = [pieces |-> pieces, max |-> max] /\ m = Names(wire, target, hist)
                         /\ u = Translator(target, wire, m) /\ fs = Frames(wire, target, m, turn, r)
  BY Zenon
<1>4. said' = r /\ t' = u /\ frames' = fs
  BY <1>1, <1>3
<1>5. r.pieces \in Seq({"think", "text", "call"})
  BY <1>3, ReplyAssumption
<1>6. u.p = Parser(target) /\ u.e = Emitter(wire, m) /\ u.closed = FALSE
  BY ONLY <1>3 DEF Translator
<1>7. u.p.source = target /\ u.p.slots = <<>> /\ u.p.stop = None
  BY ONLY <1>6 DEF Parser
<1>8. Hears(fs, u.p, r)
  BY <1>3, <1>5, <1>7, FramesHeard
<1>9. Follows(u.e, <<>>, 0, {}, FALSE)
  <2>1. u.e.failed = FALSE
    BY ONLY <1>6 DEF Emitter
  <2> QED  BY <2>1, HandedNothing, Zenon DEF Follows
<1>10. OnItsWay(<<>>, u, fs, r)
  <2>1. PICK z, g : z = 0 /\ g = <<>>
    OBVIOUS
  <2>4. Follows(u.e, g, z, {}, FALSE)
    BY ONLY <1>9, <2>1, Zenon
  <2>2. z \in Nat /\ ~(z > 0)
    BY ONLY <2>1
  <2>3. OnItsWay(g, u, fs, r)
    BY ONLY <1>8, <2>2, <2>4, Zenon DEF OnItsWay
  <2> QED  BY <2>1, <2>3
<1> QED  BY <1>2, <1>4, <1>6, <1>10 DEF ToolsInv

LEMMA StillRuns ==
    ASSUME ReplyInv, phase = "reply"
    PROVE  /\ ~t.closed => Runs(t, wire, got) /\ Comes(frames, t.p) /\ t.closed = FALSE
           /\ t.closed => frames = <<>> /\ t.closed = TRUE /\ close(t).out = <<>> /\ IsSeq(got)
           /\ wire \in Wire
<1>1. CASE Runs(t, wire, got) /\ Comes(frames, t.p)
  <2>1. t.closed = FALSE
    BY <1>1 DEF Runs
  <2> QED  BY <1>1, <2>1 DEF ReplyInv
<1>2. CASE Finished(t, wire, got) /\ frames = <<>>
  <2>1. t.closed = TRUE /\ IsSeq(got)
    BY <1>2 DEF Finished, Over
  <2>2. close(t).out = <<>>
    BY <2>1 DEF close
  <2> QED  BY <1>2, <2>1, <2>2 DEF ReplyInv
<1> QED  BY <1>1, <1>2, Zenon DEF ReplyInv

\* Whatever frame comes.
LEMMA ToolsFramed ==
    ASSUME ReplyInv, ToolsInv, phase = "reply", frames # <<>>,
           NEW x, x = consume(t, Head(frames)), NEW h, h = got \o x.out
    PROVE  IF x.t.closed THEN ToldToRun(h, wire, said)
           ELSE OnItsWay(h, x.t, Tail(frames), said) /\ Runs(x.t, wire, h)
<1>1. /\ Runs(t, wire, got) /\ Comes(frames, t.p) /\ t.closed = FALSE
      /\ wire \in Wire
  BY StillRuns, Zenon
<1>2. OnItsWay(got, t, frames, said)
  BY <1>1 DEF ToolsInv
<1>3. CASE Head(frames).k = "done"
  <2>1. x = close(t)
    BY <1>3 DEF consume
  <2>2. x.t.closed = TRUE
    BY <1>1, <2>1, Closes, Zenon DEF Finished
  <2> QED  BY <1>1, <1>2, <2>1, <2>2, ClosesToRun
<1>4. CASE Head(frames).k # "done"
  <2>1. OnItsWay(h, x.t, Tail(frames), said)
    BY <1>1, <1>2, <1>4, ConsumesOnItsWay
  <2>2. Ready(t.p, Head(frames))
    BY <1>1, HeadReady DEF Runs
  <2>3. Runs(x.t, wire, h)
    BY <1>1, <1>4, <2>2, Consumes
  <2>4. x.t.closed = FALSE
    BY <2>3 DEF Runs
  <2> QED  BY <2>1, <2>3, <2>4
<1> QED  BY <1>3, <1>4

LEMMA ToolsFrame == ASSUME ReplyInv, ToolsInv, Frame  PROVE ToolsInv'
<1>1. /\ phase = "reply" /\ frames # <<>> /\ t' = consume(t, Head(frames)).t
      /\ got' = got \o consume(t, Head(frames)).out /\ frames' = Tail(frames)
      /\ wire' = wire /\ phase' = "reply" /\ said' = said
  BY DEF Frame, Forward
<1>2. PICK x, h : x = consume(t, Head(frames)) /\ h = got \o x.out
  BY Zenon
<1>3. IF x.t.closed THEN ToldToRun(h, wire, said) ELSE OnItsWay(h, x.t, Tail(frames), said)
  BY <1>1, <1>2, ToolsFramed, Zenon
<1>4. t' = x.t /\ got' = h
  BY <1>1, <1>2
<1> QED  BY ONLY <1>1, <1>3, <1>4, Zenon DEF ToolsInv

LEMMA ToolsLost == ASSUME ReplyInv, ToolsInv, Lose  PROVE ToolsInv'
<1>1. /\ phase = "reply" /\ frames # <<>> /\ Head(frames).k \in {"think", "text", "args", "all"}
      /\ frames' = Tail(frames) /\ UNCHANGED <<wire, phase, said, t, got>>
  BY DEF Lose
<1>2. /\ Runs(t, wire, got) /\ Comes(frames, t.p) /\ t.closed = FALSE
  BY <1>1, StillRuns, Zenon
<1>3. OnItsWay(got, t, frames, said)
  BY <1>1, <1>2 DEF ToolsInv
<1>4. PICK K \in Nat : /\ Follows(t.e, got, K, {}, FALSE) /\ (K > 0 => t.p.slots # <<>>)
                       /\ Hears(frames, t.p, said)
  BY <1>3, Zenon DEF OnItsWay
<1>5. PICK p, f, fs, r : p = t.p /\ f = Head(frames) /\ fs = frames /\ r = said
  OBVIOUS
<1>6. IsParser(p) /\ p.source \in Wire /\ IsSeq(fs)
  BY <1>2, <1>5, ParserHas DEF Runs, Comes
<1>7. Hears(Tail(fs), p, r)
  <2>1. fs # <<>> /\ f = Head(fs) /\ f.k # "word" /\ Hears(fs, p, r)
    BY <1>1, <1>4, <1>5
  <2> QED  BY ONLY <1>6, <2>1, TailHears
<1>8. OnItsWay(got, t, Tail(frames), said)
  BY ONLY <1>4, <1>5, <1>7, Zenon DEF OnItsWay
<1> QED  BY ONLY <1>1, <1>2, <1>8 DEF ToolsInv

LEMMA ToldOn == ASSUME NEW g, NEW w, NEW r, ToldToRun(g, w, r)  PROVE g \o <<>> = g
<1>1. IsSeq(g)
  BY DEF ToldToRun, Broke, Concluded
<1> QED  BY <1>1, TupleOne

LEMMA ToolsFinished == ASSUME ReplyInv, ToolsInv, Finish  PROVE ToolsInv'
<1>1. /\ phase = "reply" /\ got' = got \o close(t).out /\ phase' = "read" /\ wire' = wire /\ said' = said
  BY DEF Finish, Forward
<1>2. ToldToRun(got \o close(t).out, wire, said)
  <2>1. CASE t.closed
    <3>1. close(t).out = <<>>
      BY <1>1, <2>1, StillRuns
    <3>2. ToldToRun(got, wire, said)
      BY <1>1, <2>1 DEF ToolsInv
    <3> QED  BY <3>1, <3>2, ToldOn
  <2>2. CASE ~t.closed
    <3>1. Runs(t, wire, got) /\ wire \in Wire
      BY <1>1, <2>2, StillRuns, Zenon
    <3>2. OnItsWay(got, t, frames, said)
      BY <1>1, <2>2 DEF ToolsInv
    <3> QED  BY <3>1, <3>2, ClosesToRun
  <2> QED  BY <2>1, <2>2
<1>3. ToldToRun(got', wire', said')
  BY <1>1, <1>2
<1> QED  BY ONLY <1>1, <1>3 DEF ToolsInv

LEMMA ToolsCut == ASSUME ReplyInv, ToolsInv, Cut  PROVE ToolsInv'
<1>1. /\ phase = "reply" /\ frames # <<>> /\ phase' = "read" /\ wire' = wire /\ said' = said
  BY DEF Cut
<1>2. PICK x, c, h : x = consume(t, Head(frames)) /\ c = close(x.t) /\ h = got \o x.out
  BY Zenon
<1>3. got' = got \o close(t).out \/ got' = h \o c.out
  BY <1>2, Zenon DEF Cut, Forward
<1>4. Runs(t, wire, got) /\ wire \in Wire /\ t.closed = FALSE
  BY <1>1, StillRuns, Zenon
<1>5. OnItsWay(got, t, frames, said)
  BY <1>1, <1>4 DEF ToolsInv
<1>6. ToldToRun(got \o close(t).out, wire, said)
  BY <1>4, <1>5, ClosesToRun
<1>7. IF x.t.closed THEN ToldToRun(h, wire, said)
      ELSE OnItsWay(h, x.t, Tail(frames), said) /\ Runs(x.t, wire, h)
  BY <1>1, <1>2, ToolsFramed, Zenon
<1>8. ToldToRun(h \o c.out, wire, said)
  <2>1. CASE x.t.closed
    <3>1. c.out = <<>>
      BY <1>2, <2>1 DEF close
    <3> QED  BY <1>7, <2>1, <3>1, ToldOn
  <2>2. CASE ~x.t.closed
    BY <1>2, <1>4, <1>7, <2>2, ClosesToRun
  <2> QED  BY <2>1, <2>2
<1>9. ToldToRun(got', wire', said')
  BY <1>1, <1>3, <1>6, <1>8, Zenon
<1> QED  BY ONLY <1>1, <1>9 DEF ToolsInv

LEMMA ToolsInvStep == ReplyInv /\ ToolsInv /\ [Next]_vars => ToolsInv'
<1> SUFFICES ASSUME ReplyInv, ToolsInv, [Next]_vars  PROVE ToolsInv'
  OBVIOUS
<1>1. CASE Native
  BY <1>1 DEF Native, Next_, answer, ToolsInv
<1>2. CASE \E target \in Wire : Ask(target)
  BY <1>2, ToolsAsked
<1>3. CASE \E target \in Wire : AskWhole(target)
  <2>1. phase' = "ask"
    BY <1>3 DEF AskWhole
  <2> QED  BY <2>1 DEF ToolsInv
<1>4. CASE Frame
  BY <1>4, ToolsFrame
<1>5. CASE Lose
  BY <1>5, ToolsLost
<1>6. CASE Finish
  BY <1>6, ToolsFinished
<1>7. CASE Cut
  BY <1>7, ToolsCut
<1>8. CASE ReadReply
  BY <1>8 DEF ReadReply, ToolsInv
<1>9. CASE UNCHANGED vars
  BY <1>9 DEF vars, ToolsInv
<1> QED  BY <1>1, <1>2, <1>3, <1>4, <1>5, <1>6, <1>7, <1>8, <1>9 DEF Next

LEMMA ToolsInvHolds == AnswerSpec => []ToolsInv
<1>1. AnswerInit => ToolsInv
  BY DEF AnswerInit, Init, ToolsInv
<1>2. ReplyInv /\ ToolsInv /\ [AnswerNext]_answered => ToolsInv'
  <2> SUFFICES ASSUME ReplyInv, ToolsInv, [AnswerNext]_answered  PROVE ToolsInv'
    OBVIOUS
  <2>1. [Next]_vars
    BY DEF AnswerNext, answered
  <2> QED  BY <2>1, ToolsInvStep
<1> QED  BY <1>1, <1>2, ReplyInvHolds, PTL DEF AnswerSpec

\* A number of the places of a sequence has a last.
LEMMA LastOf ==
    ASSUME NEW n \in Nat, NEW S, S \subseteq 1 .. n, S # {}
    PROVE  Max(S) \in S
<1>1. \E m \in S : \A i \in S : i <= m
  <2>1. PICK G : G = {k \in 0 .. n : (\E i \in S : i <= k) => \E m \in S : m <= k /\ \A i \in S : i <= k => i <= m}
    BY Zenon
  <2>2. 0 \in G
    BY <2>1
  <2>3. ASSUME NEW k \in 0 .. n, k < n, k \in G  PROVE k + 1 \in G
    <3>0. k + 1 \in 0 .. n
      BY <2>3
    <3>1. CASE k + 1 \in S
      <4>1. \A i \in S : i <= k + 1 => i <= k + 1
        OBVIOUS
      <4> QED  BY <2>1, <3>0, <3>1, <4>1
    <3>2. CASE k + 1 \notin S
      <4>1. \A i \in S : i <= k + 1 <=> i <= k
        BY <3>2
      <4> QED  BY <2>1, <2>3, <3>0, <4>1
    <3> QED  BY <3>1, <3>2
  <2>4. n \in G
    BY <2>2, <2>3, Ladder
  <2>5. \A i \in S : i <= n
    OBVIOUS
  <2> QED  BY <2>1, <2>4, <2>5, Zenon
<1> QED  BY <1>1, Zenon DEF Max

LEMMA ToolsAreTold == ReplyInv /\ ToolsInv => WaitsForItsTools
<1> SUFFICES ASSUME ReplyInv, ToolsInv, phase = "read", Came("call") # {}, ~said.max, Came("fail") = {}
             PROVE  RunsTools /\ Word # "null"
  BY DEF WaitsForItsTools
<1>1. ToldToRun(got, wire, said) /\ wire \in Wire
  BY DEF ToolsInv, ReplyInv
<1>2. ~Broke(got)
  BY DEF Came, Broke
<1>3. PICK K \in Nat : \E word : /\ Concluded(got, K, {}, FALSE, word)
                                 /\ K > 0 /\ ~said.max => word = emit_stop_reason(wire, "ToolUse")
  BY <1>1, <1>2, Zenon DEF ToldToRun
<1>4. PICK word : /\ Concluded(got, K, {}, FALSE, word)
                  /\ K > 0 /\ ~said.max => word = emit_stop_reason(wire, "ToolUse")
  BY <1>3, Zenon
<1>5. /\ IsSeq(got) /\ Cardinality(CallsIn(got)) = K /\ \E x \in 1 .. Len(got) : got[x].k = "word"
      /\ \A x \in 1 .. Len(got) : got[x].k = "word" => got[x].word = word
  BY ONLY <1>4 DEF Concluded
<1>6. K > 0
  <2>1. CallsIn(got) = Came("call")
    BY DEF CallsIn, Came
  <2>2. IsFiniteSet(CallsIn(got)) /\ CallsIn(got) # {}
    BY <1>5, <2>1, CallsFinite
  <2>3. K # 0
    <3> HIDE DEF CallsIn
    <3> QED  BY ONLY <1>5, <2>2, FS_EmptySet
  <2> QED  BY <2>3
<1>7. word = emit_stop_reason(wire, "ToolUse")
  BY <1>4, <1>6
<1>8. Came("word") # {} /\ Came("word") \subseteq 1 .. Len(got) /\ Len(got) \in Nat
  BY <1>5, Appending DEF Came
<1>9. Max(Came("word")) \in Came("word")
  BY <1>8, LastOf
<1>10. got[Max(Came("word"))].word = word
  <2>1. PICK i : i = Max(Came("word"))
    OBVIOUS
  <2>2. i \in 1 .. Len(got) /\ got[i].k = "word"
    BY <1>9, <2>1 DEF Came
  <2> QED  BY <1>5, <2>1, <2>2
<1>11. Word = word
  BY <1>8, <1>10 DEF Word
<1> QED  BY <1>1, <1>7, <1>8, <1>11, ToolUseWord DEF RunsTools

(***************************************************************************)
(* A client that was handed a call is told to run it, whichever frames     *)
(* were lost and wherever the upstream broke off, unless the answer ran    *)
(* out of tokens or failed: its word for the end is its wire's word for a  *)
(* tool call, whether the upstream ever said so or not (stream.rs          *)
(* Parser::finish, emit_stop_reason).                                      *)
(***************************************************************************)
THEOREM ToolsAreAwaited == AnswerSpec => []WaitsForItsTools
BY ToolsAreTold, ReplyInvHolds, ToolsInvHolds, PTL
=============================================================================
