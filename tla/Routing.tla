------------------------------ MODULE Routing -------------------------------
(***************************************************************************)
(* ironwire_core::policy::Policy as the proxy uses it: one table of sticky *)
(* routes, shared by every request and guarded by one lock.                *)
(*                                                                         *)
(* Threads are the concurrent agents of the daemon's clients; two of them  *)
(* may share a conversation key (subagents of one session, or sessions of  *)
(* a client that sends no session id).  A step of `Decide` is one call of  *)
(* `decide_with_override` under the lock together with the reply it leads  *)
(* to; `Forget` is the pipeline dropping a route whose backend just failed *)
(* (Dispatch has the failover loop).                                       *)
(*                                                                         *)
(* Timestamps are kept as ages that stop growing once no rule can tell     *)
(* them apart, so time itself is unbounded.                                *)
(***************************************************************************)
EXTENDS Policy

CONSTANTS
    Thread,             \* concurrent agents
    Key,                \* conversation keys
    KeyOf,              \* the key each thread's requests derive
    Named,              \* backends that pins and X-IronWire-Route name
    Sends,              \* what clients send: [kind, model, force]
    Levels,             \* per backend, the conditions it passes through
    DescentDebounce,    \* 20 s
    PromotionDebounce,  \* 5 min
    AffinityTtl,        \* 24 h
    MaxAffinities       \* 512

ASSUME RoutingAssumption ==
    /\ KeyOf \in [Thread -> Key]
    /\ Named \subseteq Backend
    /\ Sends \subseteq [kind : Kind, model : Model, force : Named \cup {None}]
    /\ Levels \in [Backend -> SUBSET Level]
    /\ DescentDebounce \in Nat \ {0}
    /\ PromotionDebounce \in Nat
    /\ DescentDebounce <= PromotionDebounce
    /\ AffinityTtl \in Nat \ {0}
    /\ MaxAffinities \in Nat \ {0}
    /\ None \notin Nat /\ None \notin Thread

VARIABLES
    world,     \* what the registry reports: level, consented, private
    affinity,  \* key -> its sticky route, or None
    loop,      \* thread -> the family its in-flight tool loop came from
    ask,       \* the request holding the policy lock, or None
    route      \* the route the last decision returned, or None

vars == <<world, affinity, loop, ask, route>>

Affinity == [backend  : Backend,
             rung     : Rung,
             home     : 0 .. PromotionDebounce,           \* age of `since`
             idle     : 0 .. AffinityTtl,                 \* age of `last_seen`
             pressure : (0 .. DescentDebounce) \cup {None},
             recovery : (0 .. PromotionDebounce) \cup {None}]

Loop == {"boundary", "native", "foreign"}
Ask  == [thread : Thread, kind : Kind, model : Model, force : Named \cup {None}]
Route == [backend : Backend, rung : Rung]

\* The sentinel is no record.
ASSUME NoneAssumption ==
    /\ None \notin Route
    /\ None \notin Ask
    /\ None \notin [key : Key, kind : Kind, mid : BOOLEAN, model : Model,
                   force : Named \cup {None}]

Init ==
    /\ world = [level |-> [b \in Backend |-> "free"], consented |-> NeedsConsent,
                private |-> FALSE]
    /\ affinity = [k \in Key |-> None]
    /\ loop = [t \in Thread |-> "boundary"]
    /\ ask = None
    /\ route = None

-----------------------------------------------------------------------------
(* The table *)

\* `sweep`: routes unheard from for the TTL are dropped before anything is read.
Swept == [k \in Key |-> IF affinity[k] # None /\ affinity[k].idle >= AffinityTtl
                        THEN None ELSE affinity[k]]

Tracked(f) == {k \in Key : f[k] # None}

Stalest(f) == {k \in Tracked(f) : \A j \in Tracked(f) : f[j].idle <= f[k].idle}

\* `bound`: past capacity the stalest route goes, whichever it is on a tie.
BoundedTo(f) ==
    \/ Cardinality(Tracked(f)) <= MaxAffinities /\ affinity' = f
    \/ /\ Cardinality(Tracked(f)) > MaxAffinities
       /\ \E k \in Stalest(f) : affinity' = [f EXCEPT ![k] = None]

NewAffinity(b, rung) == [backend |-> b, rung |-> rung, home |-> 0, idle |-> 0,
                         pressure |-> None, recovery |-> None]

\* `get_or_insert(now)`: a timer already running is left alone.
Start(timer) == IF timer = None THEN 0 ELSE timer

-----------------------------------------------------------------------------
(* One decision: the request in ask *)

Me      == ask.thread
MyKey   == KeyOf[Me]
MyMid   == loop[Me] # "boundary"
MyReq   == [kind |-> ask.kind, mid |-> MyMid, model |-> ask.model]
MyHome  == Swept[MyKey]

\* `cache_is_warm`
Warm == MyHome # None /\ MyHome.backend \notin Cacheless

\* A compaction turn re-selects rather than inherit a degraded route.
Inherits == ask.kind # "compaction" \/ (MyHome # None => MyHome.rung = Preferred)

HasIncumbent ==
    /\ ask.force = None
    /\ MyHome # None
    /\ Inherits
    /\ IncumbentUsable(world, MyReq, MyHome.backend, Warm)

\* Routes on a better rung than the incumbent's.
Better == {d \in Selections(world, MyReq, Warm) : d.rung < MyHome.rung}

Family(rung) == IF rung = CrossFamily THEN "foreign" ELSE "native"

\* The reply ends the turn, calls a tool, or breaks off and leaves the client
\* where it was.
Reply(rung) ==
    \E end \in {"boundary", Family(rung), loop[Me]} : loop' = [loop EXCEPT ![Me] = end]

Return(b, rung) ==
    /\ route' = [backend |-> b, rung |-> rung]
    /\ Reply(rung)
    /\ ask' = None
    /\ UNCHANGED world

NoRoute == route' = None /\ ask' = None /\ UNCHANGED <<world, loop>>

Updated(a) == [k \in Key |-> IF k = MyKey THEN a ELSE Swept[k]]

Keep(a)  == affinity' = Updated(a)
Adopt(d) == BoundedTo(Updated(NewAffinity(d.backend, d.rung)))

\* The incumbent is seen now: `last_seen` is touched and its timers are set.
Touched(pressure, recovery) ==
    [MyHome EXCEPT !.idle = 0, !.pressure = pressure, !.recovery = recovery]

\* The incumbent's timers as `route` leaves them before looking any further.
HomePressured == Pressured(world, MyHome.backend)
SeenPressure  == IF HomePressured THEN Start(MyHome.pressure) ELSE None

\* Mutant: a return to pressure banks the recovery accumulated so far.
SeenRecoveryBanked == MyHome.recovery

SeenRecovery == IF HomePressured THEN None ELSE MyHome.recovery

Seen == Touched(SeenPressure, SeenRecovery)

\* The rung the incumbent serves this request on.
HomeRung == KeptRung(MyReq, MyHome.backend, MyHome.rung)

\* Stay on the incumbent, whose record is a; the rung served is stored, and the
\* timers are left as they are.
StayHome(a) == Keep([a EXCEPT !.rung = HomeRung]) /\ Return(MyHome.backend, HomeRung)

\* Mutant: one pressured turn is enough to descend.
SustainedAtOnce == HomePressured

Sustained == HomePressured /\ SeenPressure >= DescentDebounce

\* Sticky under pressure that has not lasted.
Hold ==
    /\ HasIncumbent
    /\ HomePressured /\ ~Sustained
    /\ StayHome(Seen)

\* Sticky: nothing better, or the conversation is at the top already.
Stay ==
    /\ HasIncumbent
    /\ ~HomePressured
    /\ \/ /\ MyHome.rung = Preferred
          /\ StayHome(Seen)
       \/ /\ MyHome.rung # Preferred
          /\ Better = {}
          /\ StayHome(Touched(None, None))

\* Mutant: the climb waits as long as the descent did.
ClimbableSoon == /\ Start(SeenRecovery) >= DescentDebounce
                 /\ ~(MyHome.rung = CrossFamily /\ MyMid)

\* Mutant: the climb off a foreign family does not wait for a turn boundary.
ClimbableMidLoop == Start(SeenRecovery) >= PromotionDebounce

\* A blocked promotion keeps the recovery it has accumulated.
Climbable == /\ Start(SeenRecovery) >= PromotionDebounce
             /\ ~(MyHome.rung = CrossFamily /\ MyMid)

\* Mutant: every turn that waits restarts the wait.
AwaitPromotionAfresh ==
    /\ HasIncumbent
    /\ ~HomePressured
    /\ MyHome.rung # Preferred
    /\ Better # {}
    /\ ~Climbable
    /\ StayHome(Touched(None, 0))

\* Something better, but not for long enough or not at a turn boundary.
AwaitPromotion ==
    /\ HasIncumbent
    /\ ~HomePressured
    /\ MyHome.rung # Preferred
    /\ Better # {}
    /\ ~Climbable
    /\ StayHome(Touched(None, Start(SeenRecovery)))

Promote ==
    /\ HasIncumbent
    /\ ~HomePressured
    /\ MyHome.rung # Preferred
    /\ Climbable
    /\ \E d \in {Kept(MyReq, e) : e \in Better} :
          /\ Keep(NewAffinity(d.backend, d.rung))
          /\ Return(d.backend, d.rung)

\* No usable incumbent, or one under sustained pressure: the ladder decides.
Reselects == ask.force = None /\ (HasIncumbent => Sustained)

Select ==
    /\ Reselects
    /\ \E d \in {Kept(MyReq, e) : e \in Selections(world, MyReq, Warm)} :
          Adopt(d) /\ Return(d.backend, d.rung)

\* `NoRoute`.  An incumbent looked at on the way has been touched already.
Refuse ==
    /\ Reselects
    /\ Selections(world, MyReq, Warm) = {}
    /\ IF HasIncumbent THEN Keep(Seen) ELSE affinity' = Swept
    /\ NoRoute

\* The incumbent already translates this loop to the backend that was named.
Continuing == MyHome # None /\ MyHome.backend = ask.force /\ MyHome.rung = CrossFamily

TakeNamed ==
    /\ ask.force # None
    /\ ForcedAllowed(world, MyReq, ask.force, Warm, Continuing)
    /\ Adopt([backend |-> ask.force, rung |-> ForcedRung(ask.force)])
    /\ Return(ask.force, ForcedRung(ask.force))

RefuseNamed ==
    /\ ask.force # None
    /\ ~ForcedAllowed(world, MyReq, ask.force, Warm, Continuing)
    /\ affinity' = Swept
    /\ NoRoute

Decide ==
    /\ ask # None
    /\ \/ Hold \/ Stay \/ AwaitPromotion \/ Promote
       \/ Select \/ Refuse \/ TakeNamed \/ RefuseNamed

-----------------------------------------------------------------------------
(* Everything else *)

Arrive ==
    /\ ask = None
    /\ \E t \in Thread, m \in Sends :
          ask' = [thread |-> t, kind |-> m.kind, model |-> m.model, force |-> m.force]
    /\ route' = None
    /\ UNCHANGED <<world, affinity, loop>>

\* A request on k failed upstream, so the next decision must not be sticky.
Forget(k) ==
    /\ ask = None
    /\ affinity[k] # None
    /\ affinity' = [affinity EXCEPT ![k] = None]
    /\ UNCHANGED <<world, loop, ask, route>>

Aged(age, cap) == IF age < cap THEN age + 1 ELSE age
AgedTimer(timer, cap) == IF timer = None THEN None ELSE Aged(timer, cap)

Older(a) == IF a = None THEN None
            ELSE [a EXCEPT !.home     = Aged(@, PromotionDebounce),
                           !.idle     = Aged(@, AffinityTtl),
                           !.pressure = AgedTimer(@, DescentDebounce),
                           !.recovery = AgedTimer(@, PromotionDebounce)]

Tick ==
    /\ ask = None
    /\ affinity' = [k \in Key |-> Older(affinity[k])]
    /\ UNCHANGED <<world, loop, ask, route>>

\* Quota, circuit breakers, consent and the privacy mode change on their own.
Shift ==
    /\ ask = None
    /\ \/ \E b \in Backend, l \in Level :
             l \in Levels[b] /\ world' = [world EXCEPT !.level[b] = l]
       \/ \E c \in SUBSET NeedsConsent : world' = [world EXCEPT !.consented = c]
       \/ Trusted # Backend /\ world' = [world EXCEPT !.private = ~@]
    /\ UNCHANGED <<affinity, loop, ask, route>>

Next == Arrive \/ Decide \/ (\E k \in Key : Forget(k)) \/ Tick \/ Shift

Spec == Init /\ [][Next]_vars

\* Time passes, requests keep arriving from every thread, each is decided, and
\* tool loops end.
EndsTurn == Decide /\ loop'[ask.thread] = "boundary"
PlainTurn(t) == Arrive /\ ask'.thread = t /\ ask'.kind = "plain" /\ ask'.force = None

FairSpec ==
    /\ Spec
    /\ SF_vars(Tick)
    /\ WF_vars(Decide)
    /\ SF_vars(EndsTurn)
    /\ \A t \in Thread : SF_vars(PlainTurn(t))

-----------------------------------------------------------------------------
(* Properties *)

\* The shape of the state.
TypeOK ==
    /\ world \in World
    /\ affinity \in [Key -> Affinity \cup {None}]
    /\ loop \in [Thread -> Loop]
    /\ ask \in Ask \cup {None}
    /\ route \in Route \cup {None}

\* A route's pressure and recovery never run together, and neither outlives the
\* route it was measured on: a move starts both afresh (`route`,
\* `consider_promotion`).
TimersMeasureThisHome ==
    \A k \in Tracked(affinity) :
        LET a == affinity[k] IN
        /\ a.pressure = None \/ a.recovery = None
        /\ a.pressure # None => a.pressure <= a.home
        /\ a.recovery # None => a.recovery <= a.home

\* The table never outgrows its ceiling (`bound`).
WithinCapacity == Cardinality(Tracked(affinity)) <= MaxAffinities

\* A decision is a step that answers the request holding the lock with a route.
Decided == ask # None /\ ask' = None /\ route' # None

\* Every route returned is permitted now, however long ago it was chosen and
\* whoever named it; one nobody named is also up and has headroom.
RoutesPassTheGate ==
    [][Decided => /\ Permitted(world, route'.backend)
                  /\ ask.force = None => Healthy(world, route'.backend)]_vars

\* A conversation whose backend still serves it is not moved off it, up or
\* down, until it has been there for DESCENT_DEBOUNCE.
HomeIsKept ==
    [][Decided /\ HasIncumbent /\ route'.backend # MyHome.backend
       => MyHome.home >= DescentDebounce]_vars

\* The climb waited for: PROMOTION_DEBOUNCE on the incumbent, and a turn boundary
\* before a foreign family is left.
Earned == MyHome.home >= PromotionDebounce /\ (MyHome.rung = CrossFamily => ~MyMid)

\* The one climb nobody waits for, because it moves nothing: on the same backend,
\* the model named is one its provider lists, so the smaller model it had fallen
\* to is no longer what it serves.
PutBack == /\ MyHome.rung = SmallerModel
           /\ MyHome.backend \in Listed[ask.model]
           /\ route' = [backend |-> MyHome.backend, rung |-> Preferred]

\* A conversation whose backend is not under pressure climbs only after
\* PROMOTION_DEBOUNCE there, and leaves a foreign family only at a turn boundary
\* (`consider_promotion`); or stays where it is and has its rung put back for a
\* model that backend lists, at once (`keep_listed_model`).
ClimbsAreEarned ==
    [][Decided /\ HasIncumbent /\ ~Pressured(world, MyHome.backend)
               /\ route'.rung < MyHome.rung
       => Earned \/ PutBack]_vars

AloneOnKey(t) == \A u \in Thread \ {t} : KeyOf[u] # KeyOf[t]

\* A thread with a conversation to itself is never sent to a foreign family in
\* the middle of a native tool loop, by stickiness, selection or a pin.
EntersForeignAtBoundary ==
    [][Decided /\ AloneOnKey(ask.thread) /\ loop[ask.thread] = "native"
       => route'.rung # CrossFamily]_vars

\* Every backend is up, unpressured and permitted, and nobody names a route.
Calm == /\ \A b \in Backend : world.level[b] = "free" /\ Permitted(world, b)
        /\ ask # None => ask.force = None

\* Descent is not a one-way door: once the trouble is over for good, every
\* conversation is back on a preferred route, or forgotten, again and again, if
\* an unpressured backend of its wire serves the models it asks for.
ClimbsBack ==
    \A k \in Key :
        <>[]Calm => []<>(affinity[k] = None \/ affinity[k].rung = Preferred)

-----------------------------------------------------------------------------
(***************************************************************************)
(* The table implements its promise: forget the timers, and a route past   *)
(* its TTL is gone already, whenever it is swept.  The request under the   *)
(* lock is known by its conversation and its place in the turn.            *)
(***************************************************************************)
HomeOf(a) == IF a = None THEN None ELSE [backend |-> a.backend, rung |-> a.rung]

Promise == INSTANCE Sticky WITH
    home <- [k \in Key |-> HomeOf(Swept[k])],
    ask  <- IF ask = None THEN None
            ELSE [key |-> MyKey, kind |-> ask.kind, mid |-> MyMid, model |-> ask.model,
                  force |-> ask.force]

\* Every step of the table is one that Policy promises, or moves only timers.
KeepsPromise == Promise!Spec
=============================================================================
