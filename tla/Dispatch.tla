------------------------------ MODULE Dispatch ------------------------------
(***************************************************************************)
(* ironwire_proxy::pipeline::dispatch_inner: what becomes of one request   *)
(* between the client and the first byte of a reply, and what concurrent   *)
(* requests do to each other through the state they share: the circuit     *)
(* breakers, the policy's table, and the quota that a 429 teaches.         *)
(*                                                                         *)
(* A slot runs one request at a time.  Each action is a stretch of the     *)
(* handler between two awaits or two locks; a client may hang up at any    *)
(* await.  The policy's answer is any that Policy promises (Sticky), so    *)
(* every timer it keeps is covered.                                        *)
(*                                                                         *)
(* The requests carry no admission binding and the config sets no spend    *)
(* cap: both only add refusals before the loop.                            *)
(***************************************************************************)
EXTENDS Policy, Breaker

CONSTANTS
    Slot,        \* concurrent requests
    Key,         \* conversation keys
    KeyOf,       \* the key each slot's requests derive
    Named,       \* backends that pins and X-IronWire-Route name
    Turn,        \* what clients send: the request r, the backend it
                 \* names, and whether its body defies translation
    Levels,      \* per backend, the conditions it passes through
    MaxRetries   \* MAX_SAME_BACKEND_RETRIES, 2

ASSUME DispatchAssumption ==
    /\ IsFiniteSet(Backend) /\ Backend # {}
    /\ KeyOf \in [Slot -> Key]
    /\ Named \subseteq Backend
    /\ Turn \subseteq [r : Request, force : Named \cup {None}, opaque : BOOLEAN]
    /\ Levels \in [Backend -> SUBSET Level]
    /\ MaxRetries \in Nat

VARIABLES
    world,     \* what the registry reports: level, consented, private
    circuit,   \* backend -> its circuit
    home,      \* key -> the route its conversation is on, or None
    phase,     \* slot -> where its request is
    turn,      \* slot -> [r, force, opaque]: what the client sent
    seen,      \* slot -> the world when the candidates were listed
    skipped,   \* slot -> candidates marked unhealthy for an open circuit
    excluded,  \* slot -> candidates this request has given up on
    attempts,  \* slot -> upstream attempts so far
    retries,   \* slot -> same_backend_attempts
    route      \* slot -> the decision being tried, or None

vars == <<world, circuit, home, phase, turn, seen, skipped, excluded,
          attempts, retries, route>>

Shared == <<world, circuit, home>>
Sent   == <<turn, seen, skipped>>       \* fixed once the loop is entered
Count  == <<attempts, retries, route>>

Active == {"deciding", "dialing", "backoff"}
Phase  == Active \cup {"idle", "exhausted"}

Route == [backend : Backend, rung : Rung]

MaxAttempts == Cardinality(Backend) * (1 + MaxRetries)

Init ==
    /\ world = [level |-> [b \in Backend |-> "free"], consented |-> NeedsConsent,
                private |-> FALSE]
    /\ circuit = [b \in Backend |-> Closed]
    /\ home = [k \in Key |-> None]
    /\ phase = [s \in Slot |-> "idle"]
    /\ turn = [s \in Slot |-> None]
    /\ seen = [s \in Slot |-> None]
    /\ skipped = [s \in Slot |-> {}]
    /\ excluded = [s \in Slot |-> {}]
    /\ attempts = [s \in Slot |-> 0]
    /\ retries = [s \in Slot |-> 0]
    /\ route = [s \in Slot |-> None]

\* Nothing of a request outlives it but what it did to the shared state.
Leave(s) ==
    /\ phase' = [phase EXCEPT ![s] = "idle"]
    /\ turn' = [turn EXCEPT ![s] = None]
    /\ seen' = [seen EXCEPT ![s] = None]
    /\ skipped' = [skipped EXCEPT ![s] = {}]
    /\ excluded' = [excluded EXCEPT ![s] = {}]
    /\ attempts' = [attempts EXCEPT ![s] = 0]
    /\ retries' = [retries EXCEPT ![s] = 0]
    /\ route' = [route EXCEPT ![s] = None]

Moves(s, from, to) == phase[s] = from /\ phase' = [phase EXCEPT ![s] = to]

-----------------------------------------------------------------------------
(* Before the loop *)

OpenCircuits == {b \in Backend : ~Allowed(circuit[b])}

\* The candidates are listed from the statuses and consent.  Every candidate's
\* circuit is then asked, and may turn half-open, whether or not this request
\* goes there; with every circuit open none is skipped.
Arrive(s) ==
    /\ Moves(s, "idle", "deciding")
    /\ turn' \in {[turn EXCEPT ![s] = t] : t \in Turn}
    /\ seen' = [seen EXCEPT ![s] = world]
    /\ circuit' = [b \in Backend |-> Scanned(circuit[b])]
    /\ skipped' = [skipped EXCEPT ![s] = IF OpenCircuits = Backend THEN {} ELSE OpenCircuits]
    /\ UNCHANGED <<world, home, excluded, Count>>

-----------------------------------------------------------------------------
(* The loop *)

Down(w, B) == [w EXCEPT !.level = [b \in Backend |-> IF b \in B THEN "out" ELSE w.level[b]]]

Available(s) == Down(seen[s], skipped[s] \cup excluded[s])

Looping(s) == phase[s] = "deciding" /\ attempts[s] < MaxAttempts

MyHome(s) == home[KeyOf[s]]

Answers(s) == Routes(Available(s), turn[s].r, MyHome(s), turn[s].force)

Forget(s) == home' = [home EXCEPT ![KeyOf[s]] = None]

Decide(s) ==
    /\ Looping(s)
    /\ \E d \in Answers(s) :
          /\ d.backend \notin excluded[s]
          /\ Moves(s, "deciding", "dialing")
          /\ home' = [home EXCEPT ![KeyOf[s]] = d]
          /\ route' = [route EXCEPT ![s] = d]
          /\ attempts' = [attempts EXCEPT ![s] = @ + 1]
    /\ UNCHANGED <<world, circuit, Sent, excluded, retries>>

\* Mutant: the loop goes round again instead of breaking.
GoRound(s) ==
    /\ Looping(s)
    /\ \E d \in Answers(s) :
          /\ d.backend \in excluded[s]
          /\ Moves(s, "deciding", "deciding")
          /\ home' = [home EXCEPT ![KeyOf[s]] = d]
    /\ UNCHANGED <<world, circuit, Sent, excluded, Count>>

\* Only a named backend is returned after it has failed; the table has it by now.
BreakOff(s) ==
    /\ Looping(s)
    /\ \E d \in Answers(s) :
          /\ d.backend \in excluded[s]
          /\ Moves(s, "deciding", "exhausted")
          /\ home' = [home EXCEPT ![KeyOf[s]] = d]
    /\ UNCHANGED <<world, circuit, Sent, excluded, Count>>

\* `NoRoute`, or AllFailed with the last error.
Refused(s) ==
    /\ Looping(s)
    /\ Refusable(Available(s), turn[s].r, MyHome(s), turn[s].force)
    /\ Moves(s, "deciding", "exhausted")
    /\ UNCHANGED <<Shared, Sent, excluded, Count>>

RanOut(s) ==
    /\ Moves(s, "deciding", "exhausted")
    /\ attempts[s] >= MaxAttempts
    /\ UNCHANGED <<Shared, Sent, excluded, Count>>

Target(s) == route[s].backend

\* A translated route, and a body that cannot be expressed on its wire.
Untranslatable(s) == turn[s].opaque /\ Target(s) \notin Native

\* Nothing was sent: the retries spent elsewhere stay spent.
Mistranslate(s) ==
    /\ Moves(s, "dialing", "deciding")
    /\ Untranslatable(s)
    /\ excluded' = [excluded EXCEPT ![s] = @ \cup {Target(s)}]
    /\ Forget(s)
    /\ route' = [route EXCEPT ![s] = None]
    /\ UNCHANGED <<world, circuit, Sent, attempts, retries>>

Sending(s) == phase[s] = "dialing" /\ ~Untranslatable(s)

\* Headers are in hand: the reply is on its way and the request is over here.
Serve(s) ==
    /\ Sending(s)
    /\ circuit' = [circuit EXCEPT ![Target(s)] = Succeeded(@)]
    /\ Leave(s)
    /\ UNCHANGED <<world, home>>

\* Mutant: the conversation stays on the backend that failed it.
DescendKeepingHome(s) ==
    /\ Moves(s, "dialing", "deciding")
    /\ retries' = [retries EXCEPT ![s] = 0]
    /\ excluded' = [excluded EXCEPT ![s] = @ \cup {Target(s)}]
    /\ route' = [route EXCEPT ![s] = None]
    /\ UNCHANGED <<home, Sent, attempts>>

\* This backend is given up on, and the conversation no longer lives there.
Descend(s) ==
    /\ Moves(s, "dialing", "deciding")
    /\ retries' = [retries EXCEPT ![s] = 0]
    /\ excluded' = [excluded EXCEPT ![s] = @ \cup {Target(s)}]
    /\ Forget(s)
    /\ route' = [route EXCEPT ![s] = None]
    /\ UNCHANGED <<Sent, attempts>>

\* Mutant: one retry too many.
RetryOnceMore(s) ==
    /\ retries[s] <= MaxRetries
    /\ Moves(s, "dialing", "backoff")
    /\ retries' = [retries EXCEPT ![s] = @ + 1]
    /\ route' = [route EXCEPT ![s] = None]
    /\ UNCHANGED <<home, Sent, excluded, attempts>>

Retry(s) ==
    /\ retries[s] < MaxRetries
    /\ Moves(s, "dialing", "backoff")
    /\ retries' = [retries EXCEPT ![s] = @ + 1]
    /\ route' = [route EXCEPT ![s] = None]
    /\ UNCHANGED <<home, Sent, excluded, attempts>>

RetryOrDescend(s) == Retry(s) \/ (retries[s] >= MaxRetries /\ Descend(s))

\* A transport failure or a 5xx, the only failures that say the backend is down.
FailDown(s) ==
    /\ Sending(s)
    /\ circuit' = [circuit EXCEPT ![Target(s)] = Failed(@)]
    /\ RetryOrDescend(s)
    /\ UNCHANGED world

OutOfQuota(b) == world' = [world EXCEPT !.level[b] = "out"]

\* A 429 with no wait or one of a second or two: worth another go.
FailBusy(s) ==
    /\ Sending(s)
    /\ UNCHANGED world \/ OutOfQuota(Target(s))
    /\ RetryOrDescend(s)
    /\ UNCHANGED circuit

\* A 429 with a real wait, learned by every later request; or a credential that
\* is missing or rejected.
FailLimited(s) ==
    /\ Sending(s)
    /\ UNCHANGED world \/ OutOfQuota(Target(s))
    /\ Descend(s)
    /\ UNCHANGED circuit

\* Any other answer is the client's to read.
FailReturned(s) == Sending(s) /\ Leave(s) /\ UNCHANGED Shared

Resume(s) ==
    /\ Moves(s, "backoff", "deciding")
    /\ UNCHANGED <<Shared, Sent, excluded, Count>>

-----------------------------------------------------------------------------
(* The rest of the world *)

\* The client is told that nothing could take its request.
Report(s) == phase[s] = "exhausted" /\ Leave(s) /\ UNCHANGED Shared

\* The client hangs up, and the handler's future is dropped at an await.
HangUp(s) == (Sending(s) \/ phase[s] = "backoff") /\ Leave(s) /\ UNCHANGED Shared

\* A conversation is swept, or evicted to make room for another.
Lapse(k) ==
    /\ home[k] # None
    /\ home' = [home EXCEPT ![k] = None]
    /\ UNCHANGED <<world, circuit, phase, Sent, excluded, Count>>

\* Quota windows fill and reset, and the user changes consent and privacy.
Shift ==
    /\ \/ \E b \in Backend, l \in Level :
             l \in Levels[b] /\ world' = [world EXCEPT !.level[b] = l]
       \/ \E c \in SUBSET NeedsConsent : world' = [world EXCEPT !.consented = c]
       \/ Trusted # Backend /\ world' = [world EXCEPT !.private = ~@]
    /\ UNCHANGED <<circuit, home, phase, Sent, excluded, Count>>

Tick ==
    /\ circuit' = [b \in Backend |-> Waited(circuit[b])]
    /\ UNCHANGED <<world, home, phase, Sent, excluded, Count>>

Step(s) ==
    \/ Arrive(s) \/ Decide(s) \/ BreakOff(s) \/ Refused(s) \/ RanOut(s)
    \/ Mistranslate(s) \/ Serve(s)
    \/ FailDown(s) \/ FailBusy(s) \/ FailLimited(s) \/ FailReturned(s)
    \/ Resume(s) \/ Report(s) \/ HangUp(s)

Next == (\E s \in Slot : Step(s)) \/ (\E k \in Key : Lapse(k)) \/ Shift \/ Tick

Spec == Init /\ [][Next]_vars

\* Requests keep coming, upstreams answer or time out, handlers run, and time
\* passes.
Progress(s) ==
    \/ Decide(s) \/ BreakOff(s) \/ Refused(s) \/ RanOut(s)
    \/ Mistranslate(s) \/ Serve(s)
    \/ FailDown(s) \/ FailBusy(s) \/ FailLimited(s) \/ FailReturned(s)
    \/ Resume(s) \/ Report(s)

FairSpec ==
    /\ Spec
    /\ \A s \in Slot : WF_vars(Arrive(s)) /\ WF_vars(Progress(s))
    /\ WF_vars(Tick)

-----------------------------------------------------------------------------
(* Properties *)

\* The shape of the state.
TypeOK ==
    /\ world \in World
    /\ circuit \in [Backend -> Circuit]
    /\ home \in [Key -> Route \cup {None}]
    /\ phase \in [Slot -> Phase]
    /\ turn \in [Slot -> Turn \cup {None}]
    /\ seen \in [Slot -> World \cup {None}]
    /\ skipped \in [Slot -> SUBSET Backend]
    /\ excluded \in [Slot -> SUBSET Backend]
    /\ attempts \in [Slot -> 0 .. MaxAttempts]
    /\ retries \in [Slot -> 0 .. MaxRetries]
    /\ route \in [Slot -> Route \cup {None}]

Unnamed(s) == turn[s].force = None

\* "The cap is belt and braces": a request that is given up on, and named no
\* backend, has failed on every backend that could have taken it.  The count of
\* attempts never ends it early, whatever else took its conversation along.
GivesUpOnlyWhenNothingIsLeft ==
    \A s \in Slot : phase[s] = "exhausted" /\ Unnamed(s) =>
        \A b \in Backend \ excluded[s] : ~Usable(Available(s), turn[s].r, b, TRUE)

AloneOnKey(s) == \A u \in Slot \ {s} : KeyOf[u] # KeyOf[s]

\* The next turn of a conversation is not sticky to a backend this one gave up
\* on, unless the backend was named or another agent shares the conversation.
GivenUpIsForgotten ==
    \A s \in Slot : phase[s] # "idle" /\ Unnamed(s) /\ AloneOnKey(s) =>
        MyHome(s) = None \/ MyHome(s).backend \notin excluded[s]

\* Every request comes to an end.
EveryRequestEnds == \A s \in Slot : phase[s] \in Active ~> phase[s] \notin Active

FailsDown(b) == \E s \in Slot : route[s] # None /\ Target(s) = b /\ FailDown(s)

\* Once an outage is over, the backend's circuit does not stay open: requests
\* that go elsewhere are enough to let it be tried again.
ReopensAfterOutage ==
    \A b \in Backend :
        <>[][~FailsDown(b)]_vars => []<>(circuit[b].state # "open")
=============================================================================
