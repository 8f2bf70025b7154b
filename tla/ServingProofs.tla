--------------------------- MODULE ServingProofs ----------------------------
(***************************************************************************)
(* What Dispatch guarantees for every set of backends, slots and keys, and *)
(* Updates for every set of documents and builds.                          *)
(*                                                                         *)
(* A request is given up on in four ways, and only one is obvious.  That   *)
(* the cap on attempts never ends a request early is an argument about     *)
(* three counters: every attempt beyond the retries under way was paid for *)
(* by a backend that is excluded by now.  That the loop never breaks off   *)
(* on its own account rests on what the policy may answer: a route it was  *)
(* not told to take is over a backend it was told is healthy.              *)
(***************************************************************************)
EXTENDS Serving, FiniteSetTheorems, WellFoundedInduction, TLAPS

USE PolicyAssumption, BreakerAssumption, DispatchAssumption

Dialing(s) == phase[s] = "dialing"

\* Every attempt so far, and what it was spent on.
Paid(s) ==
    attempts[s] <= Cardinality(excluded[s]) * (1 + MaxRetries) + retries[s]
                   + (IF Dialing(s) THEN 1 ELSE 0)

Busy(s) ==
    /\ seen[s] \in World /\ turn[s] \in Turn
    /\ Dialing(s) => route[s] \in Route /\ Target(s) \notin excluded[s]
    /\ Paid(s)

SlotsAreSound ==
    \A s \in Slot : IF phase[s] = "idle" THEN excluded[s] = {} /\ attempts[s] = 0
                    ELSE Busy(s)

IInv == TypeOK /\ SlotsAreSound /\ GivesUpOnlyWhenNothingIsLeft /\ GivenUpIsForgotten

-----------------------------------------------------------------------------
(* The policy's answers *)

LEMMA LeastNatural ==
    ASSUME NEW T, T \subseteq Nat, T # {}
    PROVE  \E x \in T : \A y \in T : x <= y
<1>1. PICK x \in T : \A y \in T : <<y, x>> \notin OpToRel(<, Nat)
  BY NatLessThanWellFounded, WFMin
<1>2. \A y \in T : ~(y < x)
  BY <1>1 DEF OpToRel
<1> QED  BY <1>2

\* Of several candidates one is best.
LEMMA SomeBest ==
    ASSUME NEW w, NEW r, NEW S \in SUBSET Backend, S # {}
    PROVE  Bests(w, r, S) # {}
<1>1. ASSUME NEW P \in SUBSET Backend, P # {}
      PROVE  \E b \in P : \A a \in P : SortRank(r, b) <= SortRank(r, a)
  <2> DEFINE ranks == {SortRank(r, b) : b \in P}
  <2>1. \A b \in Backend : SortRank(r, b) \in Nat
    BY DEF SortRank
  <2>2. ranks \subseteq Nat
    BY <2>1
  <2>3. ranks # {}
    <3>1. PICK b \in P : TRUE
      BY <1>1
    <3>2. SortRank(r, b) \in ranks
      OBVIOUS
    <3> QED  BY <3>2
  <2>4. PICK least \in ranks : \A n \in ranks : least <= n
    BY <2>2, <2>3, LeastNatural
  <2> QED  BY <2>4
<1>2. \A b \in Backend : SortRank(r, b) \in Nat
  BY DEF SortRank
<1> DEFINE free == {b \in S : ~Pressured(w, b)}
<1>3. CASE free # {}
  <2>1. PICK b \in free : \A a \in free : SortRank(r, b) <= SortRank(r, a)
    BY <1>1, <1>3
  <2>2. b \in Bests(w, r, S)
    BY <1>2, <2>1 DEF Bests, Before
  <2> QED  BY <2>2
<1>4. CASE free = {}
  <2>1. PICK b \in S : \A a \in S : SortRank(r, b) <= SortRank(r, a)
    BY <1>1
  <2>2. b \in Bests(w, r, S)
    BY <1>2, <1>4, <2>1 DEF Bests, Before
  <2> QED  BY <2>2
<1> QED  BY <1>3, <1>4

\* A refusal of `select` means that nobody is usable, however cold the cache.
LEMMA NobodyUsable ==
    ASSUME NEW w, NEW r, NEW warm \in BOOLEAN, Selections(w, r, warm) = {}
    PROVE  \A b \in Backend : ~Usable(w, r, b, TRUE)
<1> DEFINE usable == {b \in Backend : Usable(w, r, b, warm)}
<1>1. usable = {}
  <2> usable \in SUBSET Backend /\ usable \cap Native \in SUBSET Backend
    OBVIOUS
  <2>1. CASE usable \cap Native # {}
    <3>1. PICK b \in Bests(w, r, usable \cap Native) : TRUE
      <4> HIDE DEF usable
      <4> QED  BY <2>1, SomeBest
    <3>2. [backend |-> b, rung |-> NativeRung(w, r, b, warm)] \in Selections(w, r, warm)
      BY <2>1, <3>1 DEF Selections
    <3> QED  BY <3>2
  <2>2. CASE usable \cap Native = {} /\ usable # {}
    <3>1. PICK b \in Bests(w, r, usable) : TRUE
      <4> HIDE DEF usable
      <4> QED  BY <2>2, SomeBest
    <3>2. [backend |-> b, rung |-> CrossFamily] \in Selections(w, r, warm)
      BY <2>2, <3>1 DEF Selections
    <3> QED  BY <3>2
  <2> QED  BY <2>1, <2>2
<1>2. \A b \in Backend : Usable(w, r, b, TRUE) => Usable(w, r, b, warm)
  BY DEF Usable, Why, Ineligible
<1> QED  BY <1>1, <1>2

\* What a decision settles on, unless a backend was named, is a route over a
\* healthy backend; and so is the answer, whose rung alone may be put back.
LEMMA FoundAreHealthy ==
    ASSUME NEW w, NEW r, NEW h \in Route \cup {None},
           NEW d, d \in Chosen(w, r, h) \/ (d = h /\ Serves(w, r, h))
    PROVE  d \in Route /\ Healthy(w, d.backend)
<1>1. CASE d \in Selections(w, r, WarmAt(h))
  <2> DEFINE warm == WarmAt(h)
             usable == {b \in Backend : Usable(w, r, b, warm)}
  <2>1. \A b \in usable : Healthy(w, b)
    BY DEF Usable, Why
  <2>2. \A b \in usable : NativeRung(w, r, b, warm) \in Rung /\ CrossFamily \in Rung
    BY DEF NativeRung, Rung, Preferred, SmallerModel, AlternateCredential, CrossFamily
  <2>3. \A S \in SUBSET usable : Bests(w, r, S) \subseteq usable
    BY DEF Bests
  <2>4. \E b \in usable : d.backend = b /\ d \in Route
    <3>1. CASE usable \cap Native # {}
      <4>1. PICK b \in Bests(w, r, usable \cap Native) :
                  d = [backend |-> b, rung |-> NativeRung(w, r, b, warm)]
        BY <1>1, <3>1 DEF Selections
      <4> QED  BY <2>2, <2>3, <4>1 DEF Route
    <3>2. CASE usable \cap Native = {}
      <4>1. PICK b \in Bests(w, r, usable) : d = [backend |-> b, rung |-> CrossFamily]
        BY <1>1, <3>2 DEF Selections
      <4> QED  BY <2>2, <2>3, <4>1 DEF Route
    <3> QED  BY <3>1, <3>2
  <2> QED  BY <2>1, <2>4
<1>2. CASE d = h /\ Serves(w, r, h)
  BY <1>2 DEF Serves, IncumbentUsable, Why
<1> QED  BY <1>1, <1>2 DEF Chosen

LEMMA AnswersAreHealthy ==
    ASSUME NEW w, NEW r, NEW h \in Route \cup {None}, NEW d \in Routes(w, r, h, None)
    PROVE  d \in Route /\ Healthy(w, d.backend)
<1>1. PICK e \in Chosen(w, r, h) \cup {i \in {h} : Serves(w, r, h)} : d = Kept(r, e)
  BY DEF Routes
<1>2. e \in Route /\ Healthy(w, e.backend)
  <2>1. e \in Chosen(w, r, h) \/ (e = h /\ Serves(w, r, h))
    BY <1>1
  <2> QED  BY <2>1, FoundAreHealthy
<1>3. d \in Route /\ d.backend = e.backend
  <2>1. KeptRung(r, e.backend, e.rung) \in Rung
    BY <1>2 DEF KeptRung, Route, Rung, Preferred, CrossFamily
  <2> QED  BY <1>1, <1>2, <2>1 DEF Kept, Route
<1> QED  BY <1>2, <1>3

\* A named one may be anything that is a backend.
LEMMA AnswersAreRoutes ==
    ASSUME NEW w, NEW r, NEW h \in Route \cup {None}, NEW force \in Named \cup {None},
           NEW d \in Routes(w, r, h, force)
    PROVE  d \in Route
<1>1. CASE force = None
  BY <1>1, AnswersAreHealthy
<1>2. CASE force # None
  BY <1>2 DEF Routes, Taken, Route, ForcedRung, Rung, Preferred, CrossFamily
<1> QED  BY <1>1, <1>2

\* What a request has given up on is not healthy to it.
LEMMA GivenUpIsDown ==
    ASSUME NEW s \in Slot, NEW b \in Backend, Healthy(Available(s), b)
    PROVE  b \notin excluded[s]
BY DEF Healthy, Available, Down

-----------------------------------------------------------------------------
(* Types *)

LEMMA CircuitsStayCircuits ==
    ASSUME NEW c \in Circuit
    PROVE  /\ Scanned(c) \in Circuit /\ Succeeded(c) \in Circuit
           /\ Failed(c) \in Circuit /\ Waited(c) \in Circuit
<1>0. /\ c.state \in {"closed", "open", "half"} /\ c.failures \in 0 .. FailureThreshold
      /\ c.opened \in (0 .. RecoveryTimeout) \cup {NeverOpened}
      /\ c.probes \in 0 .. ProbesNeeded - 1
      /\ 0 \in 0 .. ProbesNeeded - 1 /\ 0 \in 0 .. FailureThreshold
      /\ c = [state |-> c.state, failures |-> c.failures, opened |-> c.opened, probes |-> c.probes]
  BY DEF Circuit
<1>1. Scanned(c) \in Circuit
  <2>1. Scanned(c) \in {c, [state |-> "half", failures |-> c.failures, opened |-> c.opened,
                           probes |-> 0]}
    BY <1>0 DEF Scanned
  <2> QED  BY <1>0, <2>1 DEF Circuit
<1>2. Succeeded(c) \in Circuit
  <2>1. CASE c.state = "half" /\ c.probes + 1 < ProbesNeeded
    <3>1. Succeeded(c) = [state |-> c.state, failures |-> 0, opened |-> c.opened,
                          probes |-> c.probes + 1]
      BY <1>0, <2>1 DEF Succeeded
    <3> QED  BY <1>0, <2>1, <3>1 DEF Circuit
  <2>2. CASE ~(c.state = "half" /\ c.probes + 1 < ProbesNeeded)
    BY <1>0, <2>2 DEF Succeeded, Closed, Circuit
  <2> QED  BY <2>1, <2>2
<1>3. Counted(c.failures) \in 0 .. FailureThreshold
  BY DEF Counted, Circuit
<1>4. Failed(c) \in Circuit
  BY <1>3 DEF Failed, Circuit
<1>5. Waited(c) \in Circuit
  BY DEF Waited, Circuit
<1> QED  BY <1>1, <1>2, <1>4, <1>5

LEMMA CapIsNatural == MaxAttempts \in Nat /\ Cardinality(Backend) \in Nat
BY FS_CardinalityType DEF MaxAttempts

LEMMA LeaveIsTyped ==
    ASSUME TypeOK, NEW s \in Slot, Leave(s), world' \in World,
           circuit' \in [Backend -> Circuit], UNCHANGED home
    PROVE  TypeOK'
BY CapIsNatural DEF TypeOK, Leave, Phase, Active

LEMMA OutIsTyped ==
    ASSUME TypeOK, NEW b \in Backend, UNCHANGED world \/ OutOfQuota(b)
    PROVE  world' \in World
<1>1. world \in World
  BY DEF TypeOK
<1>2. CASE OutOfQuota(b)
  <2>1. world' = [level |-> [world.level EXCEPT ![b] = "out"], consented |-> world.consented,
                  private |-> world.private]
    BY <1>1, <1>2 DEF OutOfQuota, World
  <2> QED  BY <1>1, <2>1 DEF World, Level
<1> QED  BY <1>1, <1>2

LEMMA InitTyped == Init => TypeOK
<1> SUFFICES ASSUME Init PROVE TypeOK
  OBVIOUS
<1> USE CapIsNatural DEF Init
<1>1. world \in World
  BY DEF World, Level
<1>2. Closed \in Circuit
  BY DEF Closed, Circuit
<1> QED  BY <1>1, <1>2 DEF TypeOK, Phase

-----------------------------------------------------------------------------
(* One slot at a time *)

\* The other slots stay as they are.
Others(s) ==
    \A u \in Slot \ {s} :
        /\ phase'[u] = phase[u] /\ turn'[u] = turn[u] /\ seen'[u] = seen[u]
        /\ skipped'[u] = skipped[u] /\ excluded'[u] = excluded[u]
        /\ attempts'[u] = attempts[u] /\ retries'[u] = retries[u] /\ route'[u] = route[u]

\* Nothing of the others is moved but by the conversation they may share.
OnlyMine(s) == \A k \in Key \ {KeyOf[s]} : home'[k] \in {home[k], None}

IdleOrBusy(s) ==
    IF phase[s] = "idle" THEN excluded[s] = {} /\ attempts[s] = 0 ELSE Busy(s)

NothingLeft(s) == \A b \in Backend \ excluded[s] : ~Usable(Available(s), turn[s].r, b, TRUE)

GaveUpForGood(s) == phase[s] = "exhausted" /\ Unnamed(s) => NothingLeft(s)

Forgotten(s) ==
    phase[s] # "idle" /\ Unnamed(s) /\ AloneOnKey(s) =>
        MyHome(s) = None \/ MyHome(s).backend \notin excluded[s]

SlotInv(s) == IdleOrBusy(s) /\ GaveUpForGood(s) /\ Forgotten(s)

LEMMA InvIsSlotwise ==
    /\ IInv <=> TypeOK /\ \A s \in Slot : SlotInv(s)
    /\ IInv' <=> TypeOK' /\ \A s \in Slot : SlotInv(s)'
BY DEF IInv, SlotsAreSound, GivesUpOnlyWhenNothingIsLeft, GivenUpIsForgotten, SlotInv,
       IdleOrBusy, GaveUpForGood, NothingLeft, Forgotten

LEMMA OthersKeep ==
    ASSUME IInv, NEW s \in Slot, Others(s), OnlyMine(s)
    PROVE  \A u \in Slot \ {s} : SlotInv(u)'
<1> SUFFICES ASSUME NEW u \in Slot \ {s} PROVE SlotInv(u)'
  OBVIOUS
<1>1. SlotInv(u) /\ KeyOf[u] \in Key
  BY InvIsSlotwise
<1>2. IdleOrBusy(u)'
  BY <1>1 DEF SlotInv, IdleOrBusy, Busy, Paid, Dialing, Target, Others
<1>3. GaveUpForGood(u)'
  <2>1. Available(u)' = Available(u)
    BY DEF Others, Available, Down
  <2>2. /\ phase'[u] = phase[u] /\ turn'[u] = turn[u] /\ excluded'[u] = excluded[u]
    BY DEF Others
  <2>3. \A b \in Backend : Usable(Available(u)', turn'[u].r, b, TRUE)
                           <=> Usable(Available(u), turn[u].r, b, TRUE)
    BY <2>1, <2>2
  <2> QED  BY <1>1, <2>2, <2>3 DEF SlotInv, GaveUpForGood, NothingLeft, Unnamed
<1>4. Forgotten(u)'
  BY <1>1 DEF SlotInv, Forgotten, Unnamed, AloneOnKey, MyHome, Others, OnlyMine
<1> QED  BY <1>2, <1>3, <1>4 DEF SlotInv

LEMMA LeaveKeeps ==
    ASSUME IInv, NEW s \in Slot, Leave(s), world' \in World,
           circuit' \in [Backend -> Circuit], UNCHANGED home
    PROVE  IInv'
<1>1. TypeOK'
  BY LeaveIsTyped DEF IInv
<1>2. Others(s) /\ OnlyMine(s)
  BY DEF IInv, TypeOK, Leave, Others, OnlyMine
<1>3. phase'[s] = "idle" /\ excluded'[s] = {} /\ attempts'[s] = 0
  BY DEF IInv, TypeOK, Leave
<1>4. SlotInv(s)'
  BY <1>3 DEF SlotInv, IdleOrBusy, GaveUpForGood, Forgotten
<1> QED  BY <1>1, <1>2, <1>4, OthersKeep, InvIsSlotwise

LEMMA ArriveKeeps ==
    ASSUME IInv, NEW s \in Slot, Arrive(s)
    PROVE  IInv'
<1> USE DEF Arrive, Moves
<1>1. PICK t \in Turn : turn' = [turn EXCEPT ![s] = t]
  OBVIOUS
<1>2. circuit' \in [Backend -> Circuit]
  BY CircuitsStayCircuits DEF IInv, TypeOK
<1>3. TypeOK'
  BY <1>1, <1>2 DEF IInv, TypeOK, Phase, Active, OpenCircuits, Count
<1>4. Others(s) /\ OnlyMine(s)
  BY <1>1 DEF IInv, TypeOK, Others, OnlyMine, Count
<1>5. excluded[s] = {} /\ attempts[s] = 0
  BY DEF IInv, SlotsAreSound
<1>6. /\ phase'[s] = "deciding" /\ seen'[s] = world /\ turn'[s] = t
      /\ excluded'[s] = {} /\ attempts'[s] = 0 /\ retries'[s] \in Nat
  BY <1>1, <1>3, <1>5 DEF IInv, TypeOK, Count
<1>7. SlotInv(s)'
  <2>1. Cardinality(excluded'[s]) * (1 + MaxRetries) = 0
    BY <1>6, FS_EmptySet
  <2>2. IdleOrBusy(s)'
    BY <1>6, <2>1 DEF IdleOrBusy, Busy, Paid, Dialing, IInv, TypeOK
  <2>3. GaveUpForGood(s)' /\ Forgotten(s)'
    BY <1>6 DEF GaveUpForGood, Forgotten
  <2> QED  BY <2>2, <2>3 DEF SlotInv
<1> QED  BY <1>3, <1>4, <1>7, OthersKeep, InvIsSlotwise

\* What a decision and a break-off have in common: a route among the answers.
LEMMA AnswerFacts ==
    ASSUME IInv, NEW s \in Slot, Looping(s), NEW d \in Answers(s)
    PROVE  /\ KeyOf[s] \in Key /\ seen[s] \in World /\ turn[s] \in Turn
           /\ d \in Route /\ (Unnamed(s) => d.backend \notin excluded[s])
<1>1. KeyOf[s] \in Key /\ seen[s] \in World /\ turn[s] \in Turn
  BY DEF IInv, SlotsAreSound, Looping, Busy
<1>2. MyHome(s) \in Route \cup {None} /\ turn[s].force \in Named \cup {None}
  BY <1>1 DEF IInv, TypeOK, MyHome
<1>3. d \in Route
  BY <1>2, AnswersAreRoutes DEF Answers
<1>4. ASSUME Unnamed(s) PROVE d.backend \notin excluded[s]
  <2>1. Healthy(Available(s), d.backend)
    BY <1>2, <1>4, AnswersAreHealthy DEF Answers, Unnamed
  <2> QED  BY <1>3, <2>1, GivenUpIsDown DEF Route
<1> QED  BY <1>1, <1>3, <1>4

LEMMA DecideKeeps ==
    ASSUME IInv, NEW s \in Slot, Decide(s)
    PROVE  IInv'
<1>1. PICK d \in Answers(s) : /\ d.backend \notin excluded[s] /\ Moves(s, "deciding", "dialing")
                              /\ home' = [home EXCEPT ![KeyOf[s]] = d]
                              /\ route' = [route EXCEPT ![s] = d]
                              /\ attempts' = [attempts EXCEPT ![s] = @ + 1]
  BY DEF Decide
<1>2. Looping(s) /\ UNCHANGED <<world, circuit, turn, seen, skipped, excluded, retries>>
  BY DEF Decide, Sent
<1>3. KeyOf[s] \in Key /\ seen[s] \in World /\ turn[s] \in Turn /\ d \in Route
  BY <1>2, AnswerFacts
<1>4. TypeOK'
  <2>1. attempts' \in [Slot -> 0 .. MaxAttempts]
    BY <1>1, <1>2, CapIsNatural DEF IInv, TypeOK, Looping
  <2> QED  BY <1>1, <1>2, <1>3, <2>1 DEF IInv, TypeOK, Moves, Phase, Active
<1>5. Others(s) /\ OnlyMine(s)
  BY <1>1, <1>2 DEF IInv, TypeOK, Others, OnlyMine, Moves
<1>6. /\ phase[s] = "deciding" /\ phase'[s] = "dialing" /\ route'[s] = d
      /\ attempts[s] \in Nat /\ attempts'[s] = attempts[s] + 1 /\ retries[s] \in Nat
      /\ excluded[s] \in SUBSET Backend /\ home'[KeyOf[s]] = d
  BY <1>1, <1>3 DEF IInv, TypeOK, Moves
<1>7. Cardinality(excluded[s]) \in Nat
  BY <1>6, FS_Subset, FS_CardinalityType
<1>8. IdleOrBusy(s)'
  <2>1. Cardinality(excluded[s]) * (1 + MaxRetries) \in Nat
    BY <1>7
  <2>2. Paid(s)
    BY <1>6 DEF IInv, SlotsAreSound, Busy
  <2>3. Paid(s)'
    BY <1>2, <1>6, <2>1, <2>2 DEF Paid, Dialing
  <2> QED  BY <1>1, <1>2, <1>3, <1>6, <2>3 DEF IdleOrBusy, Busy, Target
<1>9. GaveUpForGood(s)' /\ Forgotten(s)'
  BY <1>1, <1>2, <1>6 DEF GaveUpForGood, Forgotten, MyHome
<1> QED  BY <1>4, <1>5, <1>8, <1>9, OthersKeep, InvIsSlotwise DEF SlotInv

\* Going on without a new attempt: the request's own counters and its choice of
\* a backend stay as they are.
LEMMA GivingUpKeeps ==
    ASSUME IInv, NEW s \in Slot, phase[s] = "deciding",
           phase' = [phase EXCEPT ![s] = "exhausted"],
           UNCHANGED <<world, circuit, turn, seen, skipped, excluded, attempts, retries, route>>,
           Unnamed(s) => UNCHANGED home,
           home' = home \/ \E d \in Route : home' = [home EXCEPT ![KeyOf[s]] = d],
           Unnamed(s) => NothingLeft(s)
    PROVE  IInv'
<1>1. TypeOK'
  BY DEF IInv, TypeOK, Phase, Active
<1>2. Others(s) /\ OnlyMine(s)
  BY DEF IInv, TypeOK, Others, OnlyMine
<1>3. phase'[s] = "exhausted" /\ SlotInv(s)
  BY InvIsSlotwise DEF IInv, TypeOK
<1>4. IdleOrBusy(s)'
  BY <1>3 DEF SlotInv, IdleOrBusy, Busy, Paid, Dialing
<1>5. Unnamed(s)' <=> Unnamed(s)
  BY DEF Unnamed
<1>6. GaveUpForGood(s)'
  <2>1. Available(s)' = Available(s)
    BY DEF Available, Down
  <2>2. \A b \in Backend : Usable(Available(s)', turn'[s].r, b, TRUE)
                           <=> Usable(Available(s), turn[s].r, b, TRUE)
    BY <2>1
  <2> QED  BY <1>5, <2>2 DEF GaveUpForGood, NothingLeft
<1>7. Forgotten(s)'
  BY <1>3, <1>5 DEF SlotInv, Forgotten, MyHome, AloneOnKey
<1> QED  BY <1>1, <1>2, <1>4, <1>6, <1>7, OthersKeep, InvIsSlotwise DEF SlotInv

LEMMA BreakOffKeeps ==
    ASSUME IInv, NEW s \in Slot, BreakOff(s)
    PROVE  IInv'
<1>1. PICK d \in Answers(s) : /\ d.backend \in excluded[s] /\ Moves(s, "deciding", "exhausted")
                              /\ home' = [home EXCEPT ![KeyOf[s]] = d]
  BY DEF BreakOff
<1>2. Looping(s) /\ UNCHANGED <<world, circuit, turn, seen, skipped, excluded, attempts, retries, route>>
  BY DEF BreakOff, Sent, Count
<1>3. d \in Route /\ ~Unnamed(s)
  BY <1>1, <1>2, AnswerFacts
<1> QED  BY <1>1, <1>2, <1>3, GivingUpKeeps DEF Moves

LEMMA RefusedKeeps ==
    ASSUME IInv, NEW s \in Slot, Refused(s)
    PROVE  IInv'
<1>1. ASSUME Unnamed(s)
      PROVE  \A b \in Backend : ~Usable(Available(s), turn[s].r, b, TRUE)
  <2>1. Selections(Available(s), turn[s].r, WarmAt(MyHome(s))) = {}
    BY <1>1 DEF Refused, Refusable, Unnamed
  <2>2. WarmAt(MyHome(s)) \in BOOLEAN
    BY DEF WarmAt
  <2> QED  BY <2>1, <2>2, NobodyUsable
<1>2. /\ phase[s] = "deciding" /\ phase' = [phase EXCEPT ![s] = "exhausted"]
      /\ UNCHANGED <<world, circuit, turn, seen, skipped, excluded, attempts, retries, route>>
      /\ UNCHANGED home
  BY DEF Refused, Moves, Shared, Sent, Count
<1>3. Unnamed(s) => NothingLeft(s)
  BY <1>1 DEF NothingLeft
<1> QED  BY <1>2, <1>3, GivingUpKeeps

\* The cap: when it bites, every backend has been given up on.
LEMMA RanOutKeeps ==
    ASSUME IInv, NEW s \in Slot, RanOut(s)
    PROVE  IInv'
<1> DEFINE E == Cardinality(excluded[s])
           B == Cardinality(Backend)
           M == MaxRetries
<1>1. excluded[s] \in SUBSET Backend /\ retries[s] \in 0 .. M /\ attempts[s] \in Nat
  BY CapIsNatural DEF IInv, TypeOK
<1>2. E \in Nat /\ B \in Nat /\ E <= B /\ M \in Nat
  BY <1>1, FS_Subset, FS_CardinalityType
<1>3. attempts[s] <= E * (1 + M) + retries[s]
  <2>1. phase[s] = "deciding"
    BY DEF RanOut, Moves
  <2>2. Paid(s)
    BY <2>1 DEF IInv, SlotsAreSound, Busy
  <2>3. E * (1 + M) \in Nat
    BY <1>2
  <2> QED  BY <1>1, <2>1, <2>2, <2>3 DEF Paid, Dialing
<1>4. B * (1 + M) <= attempts[s]
  BY DEF RanOut, MaxAttempts
<1>5. E = B
  <2>1. SUFFICES ASSUME E + 1 <= B PROVE FALSE
    BY <1>2
  <2> HIDE DEF E, B, M
  <2>2. (E + 1) * (1 + M) <= B * (1 + M)
    BY <1>2, <2>1
  <2>3. (E + 1) * (1 + M) = E * (1 + M) + (1 + M)
    BY <1>2
  <2>4. E * (1 + M) \in Nat /\ B * (1 + M) \in Nat
    BY <1>2
  <2> QED  BY <1>1, <1>2, <1>3, <1>4, <2>2, <2>3, <2>4
<1>6. excluded[s] = Backend
  BY <1>1, <1>5, FS_Subset
<1>7. /\ phase[s] = "deciding" /\ phase' = [phase EXCEPT ![s] = "exhausted"]
      /\ UNCHANGED <<world, circuit, turn, seen, skipped, excluded, attempts, retries, route>>
      /\ UNCHANGED home
  BY DEF RanOut, Moves, Shared, Sent, Count
<1>8. NothingLeft(s)
  BY <1>6 DEF NothingLeft
<1> QED  BY <1>7, <1>8, GivingUpKeeps

\* One backend more is given up on: the attempt is paid for, and the
\* conversation is forgotten with it.
LEMMA ExcludeKeeps ==
    ASSUME IInv, NEW s \in Slot, Dialing(s), Forget(s),
           phase' = [phase EXCEPT ![s] = "deciding"],
           excluded' = [excluded EXCEPT ![s] = @ \cup {Target(s)}],
           route' = [route EXCEPT ![s] = None],
           retries' = [retries EXCEPT ![s] = 0] \/ retries' = retries,
           UNCHANGED <<turn, seen, skipped, attempts>>,
           world' \in World, circuit' \in [Backend -> Circuit]
    PROVE  IInv'
<1>1. /\ Busy(s) /\ KeyOf[s] \in Key /\ phase[s] = "dialing"
      /\ Target(s) \in Backend /\ Target(s) \notin excluded[s]
      /\ excluded[s] \in SUBSET Backend /\ retries[s] \in 0 .. MaxRetries /\ attempts[s] \in Nat
  BY CapIsNatural DEF IInv, TypeOK, SlotsAreSound, Dialing, Busy, Target, Route
<1>2. TypeOK'
  BY <1>1 DEF IInv, TypeOK, Phase, Active, Forget
<1>3. Others(s) /\ OnlyMine(s)
  BY <1>1 DEF IInv, TypeOK, Others, OnlyMine, Forget
<1>4. /\ phase'[s] = "deciding" /\ excluded'[s] = excluded[s] \cup {Target(s)}
      /\ attempts'[s] = attempts[s] /\ retries'[s] \in {0, retries[s]} /\ home'[KeyOf[s]] = None
      /\ seen'[s] = seen[s] /\ turn'[s] = turn[s]
  BY <1>1 DEF IInv, TypeOK, Forget
<1> DEFINE E == Cardinality(excluded[s])
<1>5. E \in Nat /\ Cardinality(excluded'[s]) = E + 1
  <2>1. IsFiniteSet(excluded[s])
    BY <1>1, FS_Subset
  <2>2. E \in Nat
    BY <2>1, FS_CardinalityType
  <2>3. Cardinality(excluded[s] \cup {Target(s)}) = E + 1
    BY <1>1, <2>1, FS_AddElement
  <2> QED  BY <1>4, <2>2, <2>3
<1>6. Paid(s)'
  <2>1. attempts[s] <= E * (1 + MaxRetries) + retries[s] + 1
    BY <1>1 DEF Busy, Paid, Dialing
  <2> HIDE DEF E
  <2>2. (E + 1) * (1 + MaxRetries) = E * (1 + MaxRetries) + (1 + MaxRetries)
    BY <1>5
  <2>3. E * (1 + MaxRetries) \in Nat
    BY <1>5
  <2>4. attempts[s] <= (E + 1) * (1 + MaxRetries) + retries'[s]
    BY <1>1, <1>4, <2>1, <2>2, <2>3
  <2> DEFINE spent == (E + 1) * (1 + MaxRetries)
             kept == Cardinality(excluded'[s])
  <2>5. kept * (1 + MaxRetries) = spent /\ spent \in Nat /\ attempts'[s] <= spent + retries'[s]
    BY <1>4, <1>5, <2>2, <2>3, <2>4
  <2>6. retries'[s] \in Nat
    BY <1>1, <1>4
  <2> DEFINE paid == kept * (1 + MaxRetries)
  <2> HIDE DEF spent, kept
  <2>7. attempts'[s] <= paid + retries'[s] + 0
    BY <2>5, <2>6
  <2> USE DEF kept
  <2>8. ~Dialing(s)'
    BY <1>4 DEF Dialing
  <2> QED  BY <2>7, <2>8 DEF Paid
<1>7. IdleOrBusy(s)'
  BY <1>1, <1>4, <1>6 DEF IdleOrBusy, Busy, Dialing
<1>8. GaveUpForGood(s)' /\ Forgotten(s)'
  BY <1>4 DEF GaveUpForGood, Forgotten, MyHome
<1> QED  BY <1>2, <1>3, <1>7, <1>8, OthersKeep, InvIsSlotwise DEF SlotInv

\* A retry of the same backend pays for the attempt that failed.
LEMMA RetryKeeps ==
    ASSUME IInv, NEW s \in Slot, Dialing(s), Retry(s),
           world' \in World, circuit' \in [Backend -> Circuit]
    PROVE  IInv'
<1>1. /\ Busy(s) /\ phase[s] = "dialing" /\ retries[s] \in 0 .. MaxRetries
      /\ SlotInv(s)
  BY InvIsSlotwise DEF IInv, TypeOK, SlotsAreSound, Dialing
<1>2. TypeOK'
  BY DEF IInv, TypeOK, Phase, Active, Retry, Moves, Sent
<1>3. Others(s) /\ OnlyMine(s)
  BY DEF IInv, TypeOK, Others, OnlyMine, Retry, Moves, Sent
<1>4. /\ phase'[s] = "backoff" /\ excluded'[s] = excluded[s] /\ home' = home
      /\ attempts'[s] = attempts[s] /\ retries'[s] = retries[s] + 1
      /\ seen'[s] = seen[s] /\ turn'[s] = turn[s]
  BY <1>1 DEF IInv, TypeOK, Retry, Moves, Sent
<1> DEFINE cost == Cardinality(excluded[s]) * (1 + MaxRetries)
<1>5. Paid(s)'
  <2>1. attempts[s] <= cost + retries[s] + 1
    BY <1>1 DEF Busy, Paid, Dialing
  <2>2. excluded[s] \in SUBSET Backend /\ attempts[s] \in Nat
    BY CapIsNatural DEF IInv, TypeOK
  <2>3. IsFiniteSet(excluded[s])
    BY <2>2, FS_Subset
  <2>4. cost \in Nat
    BY <2>3, FS_CardinalityType
  <2>5. cost' = cost
    BY <1>4
  <2> HIDE DEF cost
  <2>6. attempts'[s] <= cost' + retries'[s] + 0
    BY <1>1, <1>4, <2>1, <2>2, <2>4, <2>5
  <2> USE DEF cost
  <2>7. ~Dialing(s)'
    BY <1>4 DEF Dialing
  <2> QED  BY <2>6, <2>7 DEF Paid
<1>6. IdleOrBusy(s)'
  BY <1>1, <1>4, <1>5 DEF IdleOrBusy, Busy, Dialing
<1>7. GaveUpForGood(s)' /\ Forgotten(s)'
  BY <1>1, <1>4 DEF GaveUpForGood, SlotInv, Forgotten, MyHome, Unnamed, AloneOnKey
<1> QED  BY <1>2, <1>3, <1>6, <1>7, OthersKeep, InvIsSlotwise DEF SlotInv

LEMMA RetryOrDescendKeeps ==
    ASSUME IInv, NEW s \in Slot, Dialing(s), RetryOrDescend(s) \/ Descend(s),
           world' \in World, circuit' \in [Backend -> Circuit]
    PROVE  IInv'
<1>1. CASE Descend(s)
  BY <1>1, ExcludeKeeps DEF Descend, Moves, Sent
<1> QED  BY <1>1, RetryKeeps DEF RetryOrDescend

LEMMA ResumeKeeps ==
    ASSUME IInv, NEW s \in Slot, Resume(s)
    PROVE  IInv'
<1>1. phase[s] = "backoff" /\ phase' = [phase EXCEPT ![s] = "deciding"]
  BY DEF Resume, Moves
<1>2. UNCHANGED <<world, circuit, home, turn, seen, skipped, excluded, attempts, retries, route>>
  BY DEF Resume, Shared, Sent, Count
<1>3. TypeOK'
  BY <1>1, <1>2 DEF IInv, TypeOK, Phase, Active
<1>4. Others(s) /\ OnlyMine(s)
  BY <1>1, <1>2 DEF IInv, TypeOK, Others, OnlyMine
<1>5. phase'[s] = "deciding" /\ SlotInv(s)
  BY <1>1, InvIsSlotwise DEF IInv, TypeOK
<1>6. SlotInv(s)'
  BY <1>1, <1>2, <1>5 DEF SlotInv, IdleOrBusy, Busy, Paid, Dialing, GaveUpForGood, Forgotten,
     MyHome, Unnamed, AloneOnKey
<1> QED  BY <1>3, <1>4, <1>6, OthersKeep, InvIsSlotwise

\* A step of the world: it only takes conversations away.
LEMMA WorldKeeps ==
    ASSUME IInv, world' \in World, circuit' \in [Backend -> Circuit],
           home' \in [Key -> Route \cup {None}], \A k \in Key : home'[k] \in {home[k], None},
           UNCHANGED <<phase, turn, seen, skipped, excluded, attempts, retries, route>>
    PROVE  IInv'
<1>1. TypeOK'
  BY DEF IInv, TypeOK
<1>2. ASSUME NEW s \in Slot PROVE Others(s) /\ OnlyMine(s)
  BY DEF Others, OnlyMine
<1>3. ASSUME NEW s \in Slot PROVE SlotInv(s)'
  <2>1. SlotInv(s) /\ KeyOf[s] \in Key
    BY InvIsSlotwise
  <2>2. Available(s)' = Available(s) /\ (Unnamed(s)' <=> Unnamed(s)) /\ turn'[s] = turn[s]
    BY DEF Available, Down, Unnamed
  <2>3. NothingLeft(s) => NothingLeft(s)'
    <3>1. \A b \in Backend : Usable(Available(s)', turn'[s].r, b, TRUE)
                             <=> Usable(Available(s), turn[s].r, b, TRUE)
      BY <2>2
    <3> QED  BY <3>1 DEF NothingLeft
  <2>4. IdleOrBusy(s)' /\ GaveUpForGood(s)' /\ Forgotten(s)'
    BY <2>1, <2>2, <2>3 DEF SlotInv, IdleOrBusy, Busy, Paid, Dialing, Target, GaveUpForGood,
       Forgotten, MyHome, AloneOnKey
  <2> QED  BY <2>4 DEF SlotInv
<1> QED  BY <1>1, <1>3, InvIsSlotwise

LEMMA SlotStepHolds ==
    ASSUME IInv, NEW s \in Slot, Step(s)
    PROVE  IInv'
<1>1. TypeOK
  BY DEF IInv
<1>2. \A b \in Backend : circuit[b] \in Circuit
  BY <1>1 DEF TypeOK
<1>3. phase[s] = "dialing" => Target(s) \in Backend
  BY DEF IInv, SlotsAreSound, Busy, Dialing, Target, Route
<1>4. CASE Mistranslate(s)
  BY <1>1, <1>4, ExcludeKeeps DEF Mistranslate, Moves, Dialing, Sent, TypeOK
<1>5. CASE Serve(s)
  <2>1. circuit' \in [Backend -> Circuit]
    BY <1>1, <1>2, <1>3, <1>5, CircuitsStayCircuits DEF Serve, Sending, TypeOK
  <2> QED  BY <1>1, <1>5, <2>1, LeaveKeeps DEF Serve, TypeOK
<1>6. CASE FailDown(s)
  <2>1. circuit' \in [Backend -> Circuit]
    BY <1>1, <1>2, <1>3, <1>6, CircuitsStayCircuits DEF FailDown, Sending, TypeOK
  <2> QED  BY <1>1, <1>6, <2>1, RetryOrDescendKeeps DEF FailDown, Sending, Dialing, TypeOK
<1>7. CASE FailBusy(s) \/ FailLimited(s)
  <2>1. world' \in World
    BY <1>1, <1>3, <1>7, OutIsTyped DEF FailBusy, FailLimited, Sending
  <2>2. circuit' \in [Backend -> Circuit]
    BY <1>1, <1>7 DEF FailBusy, FailLimited, TypeOK
  <2> QED
    BY <1>7, <2>1, <2>2, RetryOrDescendKeeps DEF FailBusy, FailLimited, Sending, Dialing
<1>8. CASE FailReturned(s) \/ Report(s) \/ HangUp(s)
  BY <1>1, <1>8, LeaveKeeps DEF FailReturned, Report, HangUp, Shared, TypeOK
<1> QED
  BY <1>4, <1>5, <1>6, <1>7, <1>8, ArriveKeeps, DecideKeeps, BreakOffKeeps, RefusedKeeps,
     RanOutKeeps, ResumeKeeps DEF Step

LEMMA StepHolds == IInv /\ [Next]_vars => IInv'
<1> SUFFICES ASSUME IInv, [Next]_vars PROVE IInv'
  OBVIOUS
<1>1. TypeOK
  BY DEF IInv
<1>2. CASE \E k \in Key : Lapse(k)
  BY <1>1, <1>2, WorldKeeps DEF Lapse, Sent, Count, TypeOK
<1>3. CASE Shift
  <2>1. world' \in World
    <3>1. world \in World /\ world.level \in [Backend -> Level]
      BY <1>1 DEF TypeOK, World
    <3>2. CASE \E b \in Backend, l \in Level : world' = [world EXCEPT !.level[b] = l]
      <4>1. PICK b \in Backend, l \in Level : world' = [world EXCEPT !.level[b] = l]
        BY <3>2
      <4>2. world' = [level |-> [world.level EXCEPT ![b] = l], consented |-> world.consented,
                      private |-> world.private]
        BY <3>1, <4>1 DEF World
      <4> QED  BY <3>1, <4>2 DEF World
    <3>3. CASE \E c \in SUBSET NeedsConsent : world' = [world EXCEPT !.consented = c]
      BY <3>1, <3>3 DEF World
    <3>4. CASE world' = [world EXCEPT !.private = ~@]
      BY <3>1, <3>4 DEF World
    <3> QED  BY <1>3, <3>2, <3>3, <3>4 DEF Shift
  <2> QED  BY <1>1, <1>3, <2>1, WorldKeeps DEF Shift, Sent, Count, TypeOK
<1>4. CASE Tick
  BY <1>1, <1>4, CircuitsStayCircuits, WorldKeeps DEF Tick, Sent, Count, TypeOK
<1>5. CASE UNCHANGED vars
  BY <1>1, <1>5, WorldKeeps DEF vars, TypeOK
<1> QED  BY <1>2, <1>3, <1>4, <1>5, SlotStepHolds DEF Next

LEMMA InitHolds == Init => IInv
<1>1. Init => SlotsAreSound /\ GivesUpOnlyWhenNothingIsLeft /\ GivenUpIsForgotten
  BY DEF Init, SlotsAreSound, GivesUpOnlyWhenNothingIsLeft, GivenUpIsForgotten
<1> QED  BY <1>1, InitTyped DEF IInv

LEMMA Invariance == Spec => []IInv
BY InitHolds, StepHolds, PTL DEF Spec

\* The state of the loop and of what requests share keeps its type; a request
\* never makes more attempts than `max_attempts`.  Code: pipeline.rs.
THEOREM DispatchTypeCorrect == Spec => []TypeOK
BY Invariance, PTL DEF IInv

\* A request that named no backend is refused only once every backend it has not
\* failed on was unusable to it: the cap on attempts is never what ends it.
\* Code: the loop of pipeline.rs, policy.rs `decide`.
THEOREM NothingIsLeft == Spec => []GivesUpOnlyWhenNothingIsLeft
BY Invariance, PTL DEF IInv

\* A conversation of one agent is never left on a backend its request gave up on.
\* Code: pipeline.rs, `forget` after an exclusion.
THEOREM GivenUpForgotten == Spec => []GivenUpIsForgotten
BY Invariance, PTL DEF IInv

-----------------------------------------------------------------------------
(***************************************************************************)
(* The documents.  A serial is signed once, and what is in force or in the *)
(* cache was signed; a daemon that could use its cache has nothing older   *)
(* in force than what the cache holds, and a check is due only when the    *)
(* last answer that was kept is a day old.                                 *)
(***************************************************************************)

DocumentsTyped ==
    /\ signed \subseteq Documents
    /\ build \in Builds /\ runs \in Builds \cup {Nil}
    /\ date \in Nat /\ slips \in Nat
    /\ tool \in [Keys -> Ours \cup {"empty", "theirs"}]
    /\ checked # Nil => checked.at \in Nat

SignedOnce ==
    /\ \A d, e \in signed : d.serial = e.serial => d = e
    /\ cache \in Documents => cache \in signed
    /\ cache \in signed \cup {Nil, Broken}

InForceIsSigned ==
    /\ ~Up => inForce = BuiltIn
    /\ Up => inForce = BuiltIn \/ Verifies(runs, inForce)

CacheIsFollowed ==
    Up /\ ~blind =>
        /\ ~unsaved /\ cache # Broken => inForce = Load(runs)
        /\ cache \in Documents => inForce \in signed /\ cache.serial <= inForce.serial

DueIsAged ==
    /\ due /\ checked # Nil => date >= checked.at + Interval
    /\ asked # Nil /\ asked.kept => checked # Nil /\ checked.at = asked.at

UpdatesInv ==
    DocumentsTyped /\ SignedOnce /\ InForceIsSigned /\ CacheIsFollowed /\ DueIsAged

LEMMA UpdatesInvInit == UpdatesInit => UpdatesInv
<1> SUFFICES ASSUME UpdatesInit  PROVE UpdatesInv
  OBVIOUS
<1>1. DocumentsTyped
  BY UpdatesAssumption DEF UpdatesInit, DocumentsTyped, Keys
<1>2. SignedOnce
  BY UpdatesAssumption DEF UpdatesInit, SignedOnce
<1>3. InForceIsSigned /\ CacheIsFollowed /\ DueIsAged
  BY DEF UpdatesInit, InForceIsSigned, CacheIsFollowed, DueIsAged, Up
<1> QED  BY <1>1, <1>2, <1>3 DEF UpdatesInv

\* What a start or a command reads was signed, and its build can read it.
LEMMA LoadIsSound ==
    ASSUME UpdatesInv, NEW b \in Builds
    PROVE  Load(b) = BuiltIn \/ (Load(b) \in Documents /\ Verifies(b, Load(b)))
  BY DEF Load

\* What leaves the documents, the daemon and the cache alone.
LEMMA Elsewhere ==
    ASSUME UpdatesInv, UNCHANGED <<signed, build, runs, inForce, blind, unsaved, cache, checked, due>>,
           date' \in Nat, date' >= date, slips' \in Nat,
           tool' \in [Keys -> Ours \cup {"empty", "theirs"}],
           asked' = asked
    PROVE  UpdatesInv'
<1>1. DocumentsTyped'
  BY DEF UpdatesInv, DocumentsTyped
<1>2. SignedOnce'
  BY DEF UpdatesInv, SignedOnce
<1>3. InForceIsSigned' /\ CacheIsFollowed'
  BY DEF UpdatesInv, InForceIsSigned, CacheIsFollowed, Up, Load, Verifies
<1>4. DueIsAged'
  <2>1. due /\ checked # Nil => date' >= checked.at + Interval
    BY DEF UpdatesInv, DocumentsTyped, DueIsAged, Interval
  <2> QED  BY <2>1 DEF UpdatesInv, DueIsAged
<1> QED  BY <1>1, <1>2, <1>3, <1>4 DEF UpdatesInv

LEMMA SignKeeps == ASSUME UpdatesInv, NEW d \in Documents, Sign(d)  PROVE UpdatesInv'
<1>1. /\ \A e \in signed : e.serial < d.serial
      /\ signed' = signed \cup {d}
      /\ UNCHANGED <<build, runs, inForce, blind, unsaved, cache, checked, due, date, slips, tool, asked>>
  BY DEF Sign, daemon, disk, file
<1>2. DocumentsTyped'
  BY <1>1 DEF UpdatesInv, DocumentsTyped
<1>3. SignedOnce'
  <2>1. \A e \in signed : e.serial # d.serial
    BY <1>1, UpdatesAssumption DEF UpdatesInv, DocumentsTyped
  <2> QED  BY <1>1, <2>1 DEF UpdatesInv, SignedOnce
<1>4. InForceIsSigned'
  BY <1>1 DEF UpdatesInv, InForceIsSigned, Up, Verifies
<1>5. CacheIsFollowed'
  <2>1. ASSUME Up  PROVE Load(runs)' = Load(runs)
    BY <1>1 DEF UpdatesInv, SignedOnce, Load, Verifies
  <2> QED  BY <1>1, <2>1 DEF UpdatesInv, CacheIsFollowed, Up
<1>6. DueIsAged'
  BY <1>1 DEF UpdatesInv, DueIsAged
<1> QED  BY <1>2, <1>3, <1>4, <1>5, <1>6 DEF UpdatesInv

LEMMA RefreshKeeps ==
    ASSUME UpdatesInv, NEW d \in Documents, Refresh(d)
    PROVE  /\ UpdatesInv'
           /\ inForce'.serial >= inForce.serial
           /\ ~blind /\ cache' # cache /\ cache \in Documents => cache'.serial > cache.serial
<1>1. /\ Up /\ d \in signed /\ d.schema <= SchemaOf[runs] /\ Newer(d, inForce)
      /\ inForce' = d
      /\ (cache' = d /\ unsaved' = FALSE /\ slips' = slips)
         \/ (slips' = slips + 1 /\ unsaved' = TRUE /\ cache' = cache)
      /\ UNCHANGED <<signed, build, runs, blind, checked, due, date, tool, asked>>
  BY DEF Refresh, Verifies, file, outside
<1>2. d.serial \in Nat /\ inForce.serial \in Nat
  BY <1>1, UpdatesAssumption DEF UpdatesInv, InForceIsSigned, DocumentsTyped, Verifies
<1>3. d.serial >= inForce.serial
  BY <1>1, <1>2 DEF Newer
<1>4. ~blind /\ cache \in Documents => cache \in signed /\ cache.serial \in Nat /\ cache.serial <= inForce.serial
  BY <1>1, UpdatesAssumption DEF UpdatesInv, CacheIsFollowed, SignedOnce
<1>5. ~blind /\ cache' # cache /\ cache \in Documents => cache'.serial > cache.serial
  <2> SUFFICES ASSUME ~blind, cache' # cache, cache \in Documents  PROVE cache'.serial > cache.serial
    OBVIOUS
  <2>1. cache' = d /\ d.serial # cache.serial
    BY <1>1, <1>4 DEF UpdatesInv, SignedOnce
  <2> QED  BY <1>2, <1>3, <1>4, <2>1
<1>6. DocumentsTyped'
  BY <1>1 DEF UpdatesInv, DocumentsTyped
<1>7. SignedOnce'
  BY <1>1 DEF UpdatesInv, SignedOnce
<1>8. InForceIsSigned'
  BY <1>1 DEF InForceIsSigned, Up, Verifies
<1>9. CacheIsFollowed'
  <2>1. CASE cache' = d /\ unsaved' = FALSE
    BY <1>1, <1>2, <2>1 DEF CacheIsFollowed, Load, Verifies
  <2>2. CASE unsaved' = TRUE /\ cache' = cache
    BY <1>1, <1>2, <1>3, <1>4, <2>2 DEF CacheIsFollowed
  <2> QED  BY <1>1, <2>1, <2>2
<1>10. DueIsAged'
  BY <1>1 DEF UpdatesInv, DueIsAged
<1> QED  BY <1>1, <1>3, <1>5, <1>6, <1>7, <1>8, <1>9, <1>10 DEF UpdatesInv

LEMMA BootKeeps ==
    ASSUME UpdatesInv, NEW loaded \in {Load(build), BuiltIn}, Boot(loaded), slips' \in Nat
    PROVE  UpdatesInv'
<1>1. /\ ~Up /\ runs' = build /\ inForce' = loaded
      /\ blind' = (cache # Nil /\ loaded # cache) /\ unsaved' = FALSE
      /\ due' = IsDue
      /\ UNCHANGED <<signed, build, cache, checked, date, tool, asked>>
  BY DEF Boot, disk, file, outside
<1>2. build \in Builds /\ Up'
  BY <1>1, UpdatesAssumption DEF UpdatesInv, DocumentsTyped, Up
<1>3. loaded = BuiltIn \/ (loaded \in Documents /\ Verifies(build, loaded) /\ loaded = cache)
  BY DEF Load
<1>4. DocumentsTyped'
  BY <1>1 DEF UpdatesInv, DocumentsTyped
<1>5. SignedOnce'
  BY <1>1 DEF UpdatesInv, SignedOnce
<1>6. InForceIsSigned'
  BY <1>1, <1>2, <1>3 DEF InForceIsSigned, Verifies
<1>7. CacheIsFollowed'
  <2> SUFFICES ASSUME ~blind'
               PROVE  /\ cache # Broken => loaded = Load(build)
                      /\ cache \in Documents => loaded \in signed /\ cache.serial <= loaded.serial
    BY <1>1 DEF CacheIsFollowed, Load, Verifies
  <2>1. cache = Nil \/ loaded = cache
    BY <1>1
  <2>2. CASE cache = Nil
    BY <1>3, <2>2, UpdatesAssumption DEF Load
  <2>3. CASE loaded = cache
    <3>1. loaded = BuiltIn => cache = Broken \/ cache = Nil
      BY <2>3, UpdatesAssumption DEF UpdatesInv, SignedOnce, DocumentsTyped
    <3>2. loaded \in Documents => loaded = Load(build) /\ loaded \in signed /\ loaded.serial \in Nat
      BY <1>3, <2>3, UpdatesAssumption DEF Load, Verifies
    <3> QED  BY <1>3, <2>2, <2>3, <3>1, <3>2, UpdatesAssumption
  <2> QED  BY <2>1, <2>2, <2>3
<1>8. DueIsAged'
  <2>1. IsDue /\ checked # Nil => date >= checked.at + Interval
    BY DEF UpdatesInv, DocumentsTyped, IsDue, Interval
  <2> QED  BY <1>1, <2>1 DEF UpdatesInv, DueIsAged
<1> QED  BY <1>4, <1>5, <1>6, <1>7, <1>8 DEF UpdatesInv

\* An entry of a document its build can read asks of it what was signed.
LEMMA UnderstoodWhole ==
    ASSUME NEW d \in Documents, NEW b \in Builds, d.schema <= SchemaOf[b],
           NEW s \in Entry(b, d)
    PROVE  d.agent # Nil /\ s \in d.agent
<1>1. d.agent # Nil /\ d.agent \subseteq Setting
  BY UpdatesAssumption DEF Entry
<1>2. PICK o \in d.agent : s = Understood(b, o)
  BY <1>1 DEF Entry
<1>3. /\ o \in Setting /\ d.schema \in Nat /\ SchemaOf[b] \in Nat
      /\ d.schema >= IF o.needs THEN 3 ELSE IF o.style = "versioned" THEN 2 ELSE 1
  BY <1>1, <1>2, UpdatesAssumption
<1>4. o.needs => SchemaOf[b] >= 3
  BY <1>3
<1>5. o.style = "versioned" => SchemaOf[b] >= 2
  BY <1>3
<1>6. s = [o EXCEPT !.needs = o.needs /\ SchemaOf[b] >= 3,
                    !.style = IF SchemaOf[b] >= 2 THEN o.style ELSE "origin"]
  BY <1>2 DEF Understood
<1>7. s = o
  <2>1. (o.needs /\ SchemaOf[b] >= 3) = o.needs
    BY <1>3, <1>4 DEF Setting
  <2>2. (IF SchemaOf[b] >= 2 THEN o.style ELSE "origin") = o.style
    BY <1>3, <1>5 DEF Setting
  <2> QED  BY <1>3, <1>6, <2>1, <2>2 DEF Setting
<1> QED  BY <1>1, <1>2, <1>7

LEMMA WiringKeeps ==
    ASSUME UpdatesInv, ConnectTool
    PROVE  UpdatesInv' /\ WritesWhatWasAsked
<1>1. PICK r \in Readers : Wire(Entry(r[1], r[2]))
  BY DEF ConnectTool
<1>2. UNCHANGED <<signed, build, runs, inForce, blind, unsaved, cache, checked, due, date, slips, asked>>
  BY DEF ConnectTool, daemon, disk, outside
<1>3. /\ r[1] \in Builds
      /\ r[2] = BuiltIn \/ (r[2] \in Documents /\ Verifies(r[1], r[2]))
  <2>1. CASE r = <<build, Load(build)>>
    BY <2>1, LoadIsSound DEF UpdatesInv, DocumentsTyped
  <2>2. CASE Up /\ r = <<runs, inForce>>
    BY <2>2 DEF UpdatesInv, DocumentsTyped, InForceIsSigned, Verifies, Up
  <2> QED  BY <2>1, <2>2 DEF Readers
<1> DEFINE e == Entry(r[1], r[2])
<1>4. \A s \in e : \E d \in signed : d.agent # Nil /\ s \in d.agent
  <2>1. CASE r[2] = BuiltIn
    BY <2>1, UpdatesAssumption DEF Entry
  <2>2. CASE r[2] \in Documents /\ Verifies(r[1], r[2])
    BY <1>3, <2>2, UnderstoodWhole DEF Verifies
  <2> QED  BY <1>3, <2>1, <2>2
<1>5. \A s \in e : s.style \in Ours
  BY <1>4, UpdatesAssumption DEF UpdatesInv, DocumentsTyped, Setting, Ours
<1> HIDE DEF e
<1>6. tool' = [k \in Keys |-> IF Asks(e, k) = {} THEN tool[k]
                             ELSE (CHOOSE s \in Asks(e, k) : TRUE).style]
  BY <1>1 DEF Wire, e
<1>7. \A k \in Keys : Asks(e, k) # {} =>
        \E s \in e : s.key = k /\ (s.needs => Present) /\ tool'[k] = s.style
  <2> SUFFICES ASSUME NEW k \in Keys, Asks(e, k) # {}
               PROVE  \E s \in e : s.key = k /\ (s.needs => Present) /\ tool'[k] = s.style
    OBVIOUS
  <2>1. (CHOOSE s \in Asks(e, k) : TRUE) \in Asks(e, k)
    OBVIOUS
  <2> QED  BY <1>6, <2>1 DEF Asks
<1>8. tool' \in [Keys -> Ours \cup {"empty", "theirs"}]
  <2>1. \A k \in Keys : tool'[k] = tool[k] \/ tool'[k] \in Ours
    BY <1>5, <1>6, <1>7
  <2> QED  BY <1>6, <2>1 DEF UpdatesInv, DocumentsTyped
<1>9. WritesWhatWasAsked
  <2> SUFFICES ASSUME NEW k \in Keys, tool'[k] # tool[k]
               PROVE  \E d \in signed : d.agent # Nil /\ \E s \in d.agent :
                          s.key = k /\ s.style = tool'[k] /\ (s.needs => Present)
    BY DEF WritesWhatWasAsked
  <2>1. PICK s \in e : s.key = k /\ (s.needs => Present) /\ tool'[k] = s.style
    BY <1>6, <1>7
  <2> QED  BY <1>4, <2>1
<1> QED  BY <1>2, <1>8, <1>9, Elsewhere DEF UpdatesInv, DocumentsTyped

LEMMA UnwiringKeeps ==
    ASSUME UpdatesInv, DisconnectTool \/ UserEdit
    PROVE  UpdatesInv' /\ WritesWhatWasAsked
<1>1. UNCHANGED <<signed, build, runs, inForce, blind, unsaved, cache, checked, due, date, slips, asked>>
  BY DEF DisconnectTool, UserEdit, daemon, disk, outside
<1>2. /\ tool' \in [Keys -> Ours \cup {"empty", "theirs"}]
      /\ \A k \in Keys : tool'[k] \in {tool[k], "empty"}
  <2>1. CASE DisconnectTool
    BY <2>1 DEF DisconnectTool, Unwire, UpdatesInv, DocumentsTyped
  <2>2. CASE UserEdit
    BY <2>2 DEF UserEdit, UpdatesInv, DocumentsTyped
  <2> QED  BY <2>1, <2>2
<1>3. WritesWhatWasAsked
  BY <1>2 DEF WritesWhatWasAsked, Ours
<1> QED  BY <1>1, <1>2, <1>3, Elsewhere DEF UpdatesInv, DocumentsTyped

LEMMA CheckKeeps ==
    ASSUME UpdatesInv, Checked \/ CheckFails
    PROVE  UpdatesInv' /\ ChecksAreRare
<1>1. /\ Up /\ due /\ due' = FALSE
      /\ \/ asked' = [at |-> date, kept |-> TRUE] /\ \E w \in {"upToDate", "available"} : checked' = [at |-> date, status |-> w]
         \/ asked' = [at |-> date, kept |-> FALSE] /\ checked' = checked
      /\ UNCHANGED <<signed, build, runs, inForce, blind, unsaved, cache, date, tool>>
  <2>1. CASE Checked
    BY <2>1 DEF Checked, Evaluate, file, outside
  <2>2. CASE CheckFails
    BY <2>2 DEF CheckFails, disk, file, outside
  <2> QED  BY <2>1, <2>2
<1>2. asked'.at = date
  BY <1>1
<1>3. \/ asked'.kept /\ checked'.at = date
      \/ ~asked'.kept /\ checked' = checked
  BY <1>1
<1>4. slips' \in Nat
  BY DEF Checked, CheckFails, UpdatesInv, DocumentsTyped, disk
<1>5. DocumentsTyped'
  BY <1>1, <1>3, <1>4 DEF UpdatesInv, DocumentsTyped
<1>6. SignedOnce' /\ InForceIsSigned' /\ CacheIsFollowed'
  BY <1>1 DEF UpdatesInv, SignedOnce, InForceIsSigned, CacheIsFollowed, Up, Load, Verifies
<1>7. DueIsAged'
  <2>1. asked'.kept => checked' # Nil
    BY <1>1, UpdatesAssumption DEF UpdatesInv, DocumentsTyped
  <2> QED  BY <1>1, <1>2, <1>3, <2>1 DEF UpdatesInv, DueIsAged
<1>8. ChecksAreRare
  BY <1>1, <1>2 DEF UpdatesInv, DueIsAged, ChecksAreRare, Interval
<1> QED  BY <1>5, <1>6, <1>7, <1>8 DEF UpdatesInv

\* A hand on the cache, another binary, and the end of a daemon.
LEMMA SpoilKeeps == ASSUME UpdatesInv, Spoil  PROVE UpdatesInv'
<1>1. /\ cache' = Broken /\ slips' = slips + 1
      /\ UNCHANGED <<signed, build, runs, inForce, blind, unsaved, checked, due, date, tool, asked>>
  BY DEF Spoil, daemon, file, outside
<1>2. Broken \notin Documents
  BY UpdatesAssumption
<1>3. DocumentsTyped' /\ SignedOnce'
  BY <1>1, <1>2 DEF UpdatesInv, DocumentsTyped, SignedOnce
<1>4. InForceIsSigned' /\ CacheIsFollowed' /\ DueIsAged'
  BY <1>1, <1>2 DEF UpdatesInv, InForceIsSigned, CacheIsFollowed, DueIsAged, Up, Verifies
<1> QED  BY <1>3, <1>4 DEF UpdatesInv

LEMMA UpgradeKeeps == ASSUME UpdatesInv, NEW b \in Builds, Upgrade(b)  PROVE UpdatesInv'
<1>1. /\ build' = b
      /\ UNCHANGED <<signed, runs, inForce, blind, unsaved, cache, checked, due, date, slips, tool, asked>>
  BY DEF Upgrade, daemon, disk, file
<1>2. DocumentsTyped' /\ SignedOnce'
  BY <1>1 DEF UpdatesInv, DocumentsTyped, SignedOnce
<1>3. InForceIsSigned' /\ CacheIsFollowed' /\ DueIsAged'
  BY <1>1 DEF UpdatesInv, InForceIsSigned, CacheIsFollowed, DueIsAged, Up, Load, Verifies
<1> QED  BY <1>2, <1>3 DEF UpdatesInv

LEMMA QuitKeeps == ASSUME UpdatesInv, Quit  PROVE UpdatesInv'
<1>1. /\ runs' = Nil /\ inForce' = BuiltIn /\ due' = FALSE
      /\ UNCHANGED <<signed, build, cache, checked, date, slips, tool, asked>>
  BY DEF Quit, disk, file, outside
<1>2. DocumentsTyped' /\ SignedOnce'
  BY <1>1 DEF UpdatesInv, DocumentsTyped, SignedOnce
<1>3. InForceIsSigned' /\ CacheIsFollowed' /\ DueIsAged'
  BY <1>1 DEF UpdatesInv, InForceIsSigned, CacheIsFollowed, DueIsAged, Up
<1> QED  BY <1>2, <1>3 DEF UpdatesInv

KeepsFaith == NeverBackwards /\ WritesWhatWasAsked /\ ChecksAreRare

\* A step that leaves the documents, the tool and the checks as they were.
LEMMA NothingMoves ==
    ASSUME UpdatesInv, UNCHANGED <<tool, asked>>,
           inForce' = inForce \/ ~Up \/ runs' # runs,
           cache' = cache \/ cache' \notin Documents
    PROVE  KeepsFaith
<1>1. Up => inForce.serial \in Nat
  BY UpdatesAssumption DEF UpdatesInv, InForceIsSigned, DocumentsTyped, Verifies
<1>2. NeverBackwards
  BY <1>1 DEF NeverBackwards
<1>3. WritesWhatWasAsked /\ ChecksAreRare
  BY DEF WritesWhatWasAsked, ChecksAreRare
<1> QED  BY <1>2, <1>3 DEF KeepsFaith

LEMMA UpdatesStep ==
    ASSUME UpdatesInv, [UpdatesNext]_updates
    PROVE  UpdatesInv' /\ KeepsFaith
<1>1. build \in Builds /\ date \in Nat /\ slips \in Nat /\ (Up => inForce.serial \in Nat)
  BY UpdatesAssumption DEF UpdatesInv, InForceIsSigned, DocumentsTyped, Verifies
<1>2. Broken \notin Documents
  BY UpdatesAssumption
<1>3. CASE \E d \in Documents : Sign(d)
  BY <1>3, SignKeeps, NothingMoves DEF Sign, daemon, disk, file
<1>4. CASE \E d \in Documents : Refresh(d)
  <2>1. PICK d \in Documents : Refresh(d)
    BY <1>4
  <2>2. UNCHANGED <<tool, asked>>
    BY <2>1 DEF Refresh, file
  <2>3. WritesWhatWasAsked /\ ChecksAreRare
    BY <2>2 DEF WritesWhatWasAsked, ChecksAreRare
  <2> QED  BY <2>1, <2>3, RefreshKeeps DEF KeepsFaith, NeverBackwards
<1>5. CASE Spoil
  BY <1>2, <1>5, SpoilKeeps, NothingMoves DEF Spoil, daemon, file
<1>6. CASE SendRequest \/ NewRelease \/ NewDay
  <2>1. /\ UNCHANGED <<signed, build, runs, inForce, blind, unsaved, cache, checked, due, tool, asked, slips>>
        /\ date' \in Nat /\ date' >= date
    BY <1>1, <1>6 DEF SendRequest, NewRelease, NewDay, daemon, disk, file, outside
  <2> QED  BY <1>1, <2>1, Elsewhere, NothingMoves DEF UpdatesInv, DocumentsTyped
<1>7. CASE ConnectTool \/ DisconnectTool \/ UserEdit
  <2>1. UNCHANGED <<runs, inForce, cache, asked>>
    BY <1>7 DEF ConnectTool, DisconnectTool, UserEdit, daemon, disk
  <2>2. NeverBackwards /\ ChecksAreRare
    BY <1>1, <2>1 DEF NeverBackwards, ChecksAreRare
  <2> QED  BY <1>7, <2>2, WiringKeeps, UnwiringKeeps DEF KeepsFaith
<1>8. CASE \E b \in Builds : Upgrade(b)
  BY <1>8, UpgradeKeeps, NothingMoves DEF Upgrade, daemon, disk, file
<1>9. CASE StartUp \/ StartUnread
  <2>1. PICK loaded \in {Load(build), BuiltIn} : Boot(loaded) /\ slips' \in Nat
    BY <1>1, <1>9 DEF StartUp, StartUnread
  <2>2. ~Up /\ UNCHANGED <<tool, asked, cache>>
    BY <2>1 DEF Boot, disk, file
  <2> QED  BY <2>1, <2>2, BootKeeps, NothingMoves
<1>10. CASE Checked \/ CheckFails
  <2>1. UNCHANGED <<runs, inForce, cache, tool>>
    BY <1>10 DEF Checked, CheckFails, disk, file
  <2>2. NeverBackwards /\ WritesWhatWasAsked
    BY <1>1, <2>1 DEF NeverBackwards, WritesWhatWasAsked
  <2> QED  BY <1>10, <2>2, CheckKeeps DEF KeepsFaith
<1>11. CASE Quit
  BY <1>11, QuitKeeps, NothingMoves DEF Quit, Up, disk, file
<1>12. CASE UNCHANGED updates
  <2>1. UNCHANGED <<signed, build, runs, inForce, blind, unsaved, cache, checked, due, date, slips, tool, asked>>
    BY <1>12 DEF updates, daemon, disk, file, outside
  <2> QED  BY <1>1, <2>1, Elsewhere, NothingMoves DEF UpdatesInv, DocumentsTyped
<1> QED
  BY <1>3, <1>4, <1>5, <1>6, <1>7, <1>8, <1>9, <1>10, <1>11, <1>12 DEF UpdatesNext

LEMMA UpdatesHold == ServingSpec => []UpdatesInv
<1>1. ServingInit => UpdatesInv
  BY UpdatesInvInit DEF ServingInit
<1>2. UpdatesInv /\ [ServingNext]_serving => UpdatesInv'
  <2> SUFFICES ASSUME UpdatesInv, [ServingNext]_serving  PROVE UpdatesInv'
    OBVIOUS
  <2>1. [UpdatesNext]_updates
    BY DEF ServingNext, serving
  <2> QED  BY <2>1, UpdatesStep
<1> QED  BY <1>1, <1>2, PTL DEF ServingSpec

\* The promises of docs/UPDATES.md: documents never go backwards, a daemon that
\* could use its cache has in force what the cache says, no build writes half of
\* what an entry asks, and a check waits a day after the last kept answer.  Code:
\* store.rs, embed/catalog.rs, catalog.rs, commands/connect.rs, embed/updates.rs.
THEOREM FaithIsKept == ServingSpec => DocumentsKeepFaith
<1>1. UpdatesInv => MindIsOnDisk
  BY DEF UpdatesInv, CacheIsFollowed, MindIsOnDisk
<1>2. UpdatesInv /\ [ServingNext]_serving
         => [NeverBackwards /\ WritesWhatWasAsked /\ ChecksAreRare]_updates
  <2> SUFFICES ASSUME UpdatesInv, [ServingNext]_serving
               PROVE  NeverBackwards /\ WritesWhatWasAsked /\ ChecksAreRare
    OBVIOUS
  <2>1. [UpdatesNext]_updates
    BY DEF ServingNext, serving
  <2> QED  BY <2>1, UpdatesStep DEF KeepsFaith
<1> QED  BY <1>1, <1>2, UpdatesHold, PTL DEF ServingSpec, DocumentsKeepFaith
=============================================================================
