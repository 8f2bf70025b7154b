--------------------------- MODULE RoutingProofs ----------------------------
(***************************************************************************)
(* What Routing guarantees for every set of backends, keys and threads and *)
(* for every choice of the debounces.                                      *)
(*                                                                         *)
(* The type invariant alone is not enough: that a climb has waited is a    *)
(* fact about the recovery timer, and it bounds the age of the route only  *)
(* because no timer outlives the route it was measured on.  The inductive  *)
(* invariant is therefore TypeOK together with TimersMeasureThisHome.      *)
(***************************************************************************)
EXTENDS Routing, FiniteSetTheorems, TLAPS

USE PolicyAssumption, RoutingAssumption

Timers(a) ==
    /\ a.pressure = None \/ a.recovery = None
    /\ a.pressure # None => a.pressure <= a.home
    /\ a.recovery # None => a.recovery <= a.home

SoundTable(f) ==
    /\ f \in [Key -> Affinity \cup {None}]
    /\ \A k \in Key : f[k] # None => Timers(f[k])

IInv == TypeOK /\ TimersMeasureThisHome

\* The invariant, said of the table as a whole.
LEMMA InvIsSoundTable ==
    IInv <=> /\ world \in World
             /\ loop \in [Thread -> Loop]
             /\ ask \in Ask \cup {None}
             /\ route \in Route \cup {None}
             /\ SoundTable(affinity)
BY DEF IInv, TypeOK, TimersMeasureThisHome, SoundTable, Timers, Tracked

\* Whatever `select` returns is a route over a backend it found usable.
LEMMA SelectionsAreUsable ==
    ASSUME NEW w, NEW r, NEW warm, NEW d \in Selections(w, r, warm)
    PROVE  /\ d \in Route
           /\ Usable(w, r, d.backend, warm)
           /\ d.rung = CrossFamily => d.backend \notin Native
<1> DEFINE usable == {b \in Backend : Usable(w, r, b, warm)}
<1>1. \A b \in Backend : /\ NativeRung(w, r, b, warm) \in Rung
                         /\ NativeRung(w, r, b, warm) # CrossFamily
  BY DEF NativeRung, Rung, Preferred, SmallerModel, AlternateCredential, CrossFamily
<1>2. CASE usable \cap Native # {}
  <2>1. PICK b \in Bests(w, r, usable \cap Native) :
             d = [backend |-> b, rung |-> NativeRung(w, r, b, warm)]
    BY <1>2 DEF Selections
  <2>2. b \in usable \cap Native
    BY <2>1 DEF Bests
  <2> QED  BY <1>1, <2>1, <2>2 DEF Route
<1>3. CASE usable \cap Native = {}
  <2>1. PICK b \in Bests(w, r, usable) : d = [backend |-> b, rung |-> CrossFamily]
    BY <1>3 DEF Selections
  <2>2. b \in usable
    BY <2>1 DEF Bests
  <2> QED  BY <1>3, <2>1, <2>2 DEF Route, Rung, Preferred, CrossFamily
<1> QED  BY <1>2, <1>3

\* Putting a rung back neither leaves the ladder nor crosses families, and a
\* rung that changed was SmallerModel on a backend that lists the model.
LEMMA PuttingBack ==
    ASSUME NEW r, NEW b, NEW rung
    PROVE  /\ rung \in Rung => KeptRung(r, b, rung) \in Rung
           /\ KeptRung(r, b, rung) = CrossFamily <=> rung = CrossFamily
           /\ KeptRung(r, b, rung) # rung
              => rung = SmallerModel /\ b \in Listed[r.model] /\ KeptRung(r, b, rung) = Preferred
BY DEF KeptRung, Rung, Preferred, SmallerModel, CrossFamily

LEMMA KeptIsRoute ==
    ASSUME NEW r, NEW d \in Route
    PROVE  /\ Kept(r, d) = [backend |-> d.backend, rung |-> KeptRung(r, d.backend, d.rung)]
           /\ Kept(r, d) \in Route
<1>1. d = [backend |-> d.backend, rung |-> d.rung] /\ d.backend \in Backend /\ d.rung \in Rung
  BY DEF Route
<1>2. KeptRung(r, d.backend, d.rung) \in Rung
  BY <1>1, PuttingBack
<1>3. Kept(r, d) = [backend |-> d.backend, rung |-> KeptRung(r, d.backend, d.rung)]
  BY <1>1 DEF Kept
<1> QED  BY <1>1, <1>2, <1>3 DEF Route

-----------------------------------------------------------------------------
(* The table under one decision *)

LEMMA SweptIsSound ==
    ASSUME SoundTable(affinity)
    PROVE  /\ SoundTable(Swept)
           /\ \A k \in Key : Swept[k] \in {affinity[k], None}
BY DEF SoundTable, Swept

LEMMA UpdatedIsSound ==
    ASSUME SoundTable(affinity), NEW a \in Affinity, Timers(a)
    PROVE  SoundTable(Updated(a))
BY SweptIsSound DEF SoundTable, Updated

LEMMA BoundedIsSound ==
    ASSUME NEW f, SoundTable(f), BoundedTo(f)
    PROVE  SoundTable(affinity')
<1>1. CASE affinity' = f
  BY <1>1
<1>2. CASE \E k \in Stalest(f) : affinity' = [f EXCEPT ![k] = None]
  BY <1>2 DEF SoundTable, Stalest, Tracked
<1> QED  BY <1>1, <1>2 DEF BoundedTo

LEMMA NewIsSound ==
    ASSUME NEW b \in Backend, NEW rung \in Rung
    PROVE  NewAffinity(b, rung) \in Affinity /\ Timers(NewAffinity(b, rung))
BY DEF NewAffinity, Affinity, Timers

\* Restarting the idle clock and setting both timers of a sound route.
LEMMA TouchedIsSound ==
    ASSUME MyHome \in Affinity,
           NEW p \in (0 .. DescentDebounce) \cup {None},
           NEW r \in (0 .. PromotionDebounce) \cup {None},
           p = None \/ r = None,
           p # None => p <= MyHome.home,
           r # None => r <= MyHome.home
    PROVE  Touched(p, r) \in Affinity /\ Timers(Touched(p, r))
<1> DEFINE a0 == [MyHome EXCEPT !.idle = 0]
           a1 == [a0 EXCEPT !.pressure = p]
<1>1. a0 \in Affinity /\ a0.home = MyHome.home
  BY DEF Affinity
<1>3. Touched(p, r) = [a1 EXCEPT !.recovery = r]
  BY DEF Touched
<1> HIDE DEF a0
<1>2. a1 \in Affinity /\ a1.home = MyHome.home /\ a1.pressure = p
  BY <1>1 DEF Affinity
<1> HIDE DEF a1
<1> QED  BY <1>2, <1>3 DEF Affinity, Timers

\* The rung of a sound route may be set to any other.
LEMMA RungIsFree ==
    ASSUME NEW a \in Affinity, Timers(a), NEW rung \in Rung
    PROVE  [a EXCEPT !.rung = rung] \in Affinity /\ Timers([a EXCEPT !.rung = rung])
BY DEF Affinity, Timers

\* What an incumbent is, and what looking at it leaves in the table.
LEMMA IncumbentIsSound ==
    ASSUME IInv, ask \in Ask, HasIncumbent
    PROVE  /\ MyKey \in Key
           /\ MyHome \in Affinity /\ Timers(MyHome)
           /\ Seen \in Affinity /\ Timers(Seen)
<1>1. MyKey \in Key
  BY DEF MyKey, Me, Ask
<1>2. MyHome \in Affinity /\ Timers(MyHome)
  BY <1>1, InvIsSoundTable, SweptIsSound DEF HasIncumbent, MyHome, SoundTable
<1>3. /\ SeenPressure \in (0 .. DescentDebounce) \cup {None}
      /\ SeenRecovery \in (0 .. PromotionDebounce) \cup {None}
      /\ SeenPressure = None \/ SeenRecovery = None
      /\ SeenPressure # None => SeenPressure <= MyHome.home
      /\ SeenRecovery # None => SeenRecovery <= MyHome.home
  BY <1>2 DEF SeenPressure, SeenRecovery, Start, Affinity, Timers
<1>4. Seen \in Affinity /\ Timers(Seen)
  BY <1>2, <1>3, TouchedIsSound DEF Seen
<1> QED  BY <1>1, <1>2, <1>4

\* The parts of the state a returned route does not read back.
LEMMA ReturnType ==
    ASSUME IInv, ask \in Ask, NEW b \in Backend, NEW rung \in Rung, Return(b, rung)
    PROVE  /\ world' \in World
           /\ loop' \in [Thread -> Loop]
           /\ ask' \in Ask \cup {None}
           /\ route' \in Route \cup {None}
<1>1. Me \in Thread /\ loop[Me] \in Loop
  BY DEF IInv, TypeOK, Me, Ask
<1>2. Family(rung) \in Loop
  BY DEF Family, Loop
<1>3. loop' \in [Thread -> Loop]
  <2>1. PICK end \in {"boundary", Family(rung), loop[Me]} : loop' = [loop EXCEPT ![Me] = end]
    BY DEF Return, Reply
  <2>2. end \in Loop
    BY <1>1, <1>2 DEF Loop
  <2> QED  BY <2>1, <2>2 DEF IInv, TypeOK
<1> QED  BY <1>3 DEF Return, IInv, TypeOK, Route

-----------------------------------------------------------------------------
(* The inductive invariant *)

LEMMA InitInv == Init => IInv
BY DEF Init, IInv, TypeOK, TimersMeasureThisHome, Tracked, World, Level, Loop

\* A decision that answers with route b at this rung, leaving a sound table.
LEMMA AnswerKeepsInv ==
    ASSUME IInv, ask \in Ask, NEW b \in Backend, NEW rung \in Rung,
           Return(b, rung), SoundTable(affinity')
    PROVE  IInv'
BY ReturnType DEF IInv, TypeOK, TimersMeasureThisHome, SoundTable, Timers, Tracked

LEMMA RefusalKeepsInv ==
    ASSUME IInv, NoRoute, SoundTable(affinity')
    PROVE  IInv'
BY DEF NoRoute, IInv, TypeOK, TimersMeasureThisHome, SoundTable, Timers, Tracked

\* Installing a fresh route, whether or not another has to make room for it.
LEMMA AdoptIsSound ==
    ASSUME IInv, NEW d \in Route, Adopt(d)
    PROVE  SoundTable(affinity')
<1>1. NewAffinity(d.backend, d.rung) \in Affinity /\ Timers(NewAffinity(d.backend, d.rung))
  BY NewIsSound DEF Route
<1> QED  BY <1>1, InvIsSoundTable, UpdatedIsSound, BoundedIsSound DEF Adopt

\* Staying on an incumbent whose record is sound.
LEMMA StayingIsSound ==
    ASSUME IInv, ask \in Ask, HasIncumbent, NEW a \in Affinity, Timers(a), StayHome(a)
    PROVE  IInv'
<1>1. MyHome.backend \in Backend /\ MyHome.rung \in Rung
  BY IncumbentIsSound DEF Affinity
<1>2. HomeRung \in Rung
  BY <1>1, PuttingBack DEF HomeRung
<1>3. [a EXCEPT !.rung = HomeRung] \in Affinity /\ Timers([a EXCEPT !.rung = HomeRung])
  BY <1>2, RungIsFree
<1>4. SoundTable(affinity')
  <2> DEFINE r == [a EXCEPT !.rung = HomeRung]
  <2>1. r \in Affinity /\ Timers(r) /\ affinity' = Updated(r)
    BY <1>3 DEF StayHome, Keep
  <2> HIDE DEF r
  <2> QED  BY <2>1, InvIsSoundTable, UpdatedIsSound
<1> QED  BY <1>1, <1>2, <1>4, AnswerKeepsInv DEF StayHome

LEMMA DecideKeepsInv ==
    ASSUME IInv, Decide
    PROVE  IInv'
<1>1. ask \in Ask /\ SoundTable(affinity)
  BY InvIsSoundTable DEF Decide
<1>2. ASSUME HasIncumbent
      PROVE  /\ MyHome.backend \in Backend /\ MyHome.rung \in Rung
             /\ Seen \in Affinity /\ Timers(Seen)
  BY <1>1, <1>2, IncumbentIsSound DEF Affinity
<1>3. CASE Hold
  BY <1>1, <1>2, <1>3, StayingIsSound DEF Hold
<1>4. CASE Stay
  <2>1. CASE StayHome(Seen)
    BY <1>1, <1>2, <1>4, <2>1, StayingIsSound DEF Stay
  <2>2. CASE StayHome(Touched(None, None))
    <3>1. Touched(None, None) \in Affinity /\ Timers(Touched(None, None))
      BY <1>1, <1>4, IncumbentIsSound, TouchedIsSound DEF Stay
    <3> QED  BY <1>1, <1>4, <2>2, <3>1, StayingIsSound DEF Stay
  <2> QED  BY <1>4, <2>1, <2>2 DEF Stay
<1>5. CASE AwaitPromotion
  <2>1. MyHome \in Affinity /\ Timers(MyHome)
    BY <1>1, <1>5, IncumbentIsSound DEF AwaitPromotion
  <2>2. /\ Start(SeenRecovery) \in 0 .. PromotionDebounce
        /\ Start(SeenRecovery) <= MyHome.home
    BY <1>5, <2>1 DEF AwaitPromotion, SeenRecovery, Start, Affinity, Timers
  <2>3. /\ Touched(None, Start(SeenRecovery)) \in Affinity
        /\ Timers(Touched(None, Start(SeenRecovery)))
    BY <2>1, <2>2, TouchedIsSound
  <2> QED  BY <1>1, <1>5, <2>3, StayingIsSound DEF AwaitPromotion
<1>6. CASE Promote
  <2>1. PICK e \in Better : LET d == Kept(MyReq, e) IN
               Keep(NewAffinity(d.backend, d.rung)) /\ Return(d.backend, d.rung)
    BY <1>6 DEF Promote
  <2> DEFINE d == Kept(MyReq, e)
  <2>2. d.backend \in Backend /\ d.rung \in Rung
    BY <2>1, SelectionsAreUsable, KeptIsRoute DEF Better, Route
  <2>3. Keep(NewAffinity(d.backend, d.rung)) /\ Return(d.backend, d.rung)
    BY <2>1
  <2> HIDE DEF d
  <2>4. SoundTable(affinity')
    BY <1>1, <2>2, <2>3, NewIsSound, UpdatedIsSound DEF Keep
  <2> QED  BY <1>1, <2>2, <2>3, <2>4, AnswerKeepsInv
<1>7. CASE Select
  <2>1. PICK e \in Selections(world, MyReq, Warm) : LET d == Kept(MyReq, e) IN
               Adopt(d) /\ Return(d.backend, d.rung)
    BY <1>7 DEF Select
  <2> DEFINE d == Kept(MyReq, e)
  <2>2. d \in Route /\ d.backend \in Backend /\ d.rung \in Rung
    BY <2>1, SelectionsAreUsable, KeptIsRoute DEF Route
  <2>3. Adopt(d) /\ Return(d.backend, d.rung)
    BY <2>1
  <2> HIDE DEF d
  <2> QED  BY <1>1, <2>2, <2>3, AdoptIsSound, AnswerKeepsInv
<1>8. CASE Refuse
  <2>1. SoundTable(affinity')
    BY <1>1, <1>2, <1>8, UpdatedIsSound, SweptIsSound DEF Refuse, Keep
  <2> QED  BY <1>8, <2>1, RefusalKeepsInv DEF Refuse
<1>9. CASE TakeNamed
  <2> DEFINE d == [backend |-> ask.force, rung |-> ForcedRung(ask.force)]
  <2>0. ask.force \in Backend
    <3>1. ask.force \in Named \cup {None}
      BY <1>1 DEF Ask
    <3> QED  BY <1>9, <3>1 DEF TakeNamed
  <2>1. ForcedRung(ask.force) \in Rung
    BY DEF ForcedRung, Rung, Preferred, CrossFamily
  <2>2. d \in Route
    BY <2>0, <2>1 DEF Route
  <2>3. Adopt(d) /\ Return(ask.force, ForcedRung(ask.force))
    BY <1>9 DEF TakeNamed
  <2> HIDE DEF d
  <2>4. SoundTable(affinity')
    BY <2>2, <2>3, AdoptIsSound
  <2> QED  BY <1>1, <2>0, <2>1, <2>3, <2>4, AnswerKeepsInv
<1>10. CASE RefuseNamed
  BY <1>1, <1>10, SweptIsSound, RefusalKeepsInv DEF RefuseNamed
<1> QED  BY <1>3, <1>4, <1>5, <1>6, <1>7, <1>8, <1>9, <1>10 DEF Decide

\* What a client sends becomes the request under the lock.
LEMMA ArrivalsAreAsks ==
    ASSUME Arrive
    PROVE  ask' \in Ask
<1>1. PICK t \in Thread, m \in Sends :
         ask' = [thread |-> t, kind |-> m.kind, model |-> m.model, force |-> m.force]
  BY DEF Arrive
<1>2. m \in [kind : Kind, model : Model, force : Named \cup {None}]
  OBVIOUS
<1> QED  BY <1>1, <1>2 DEF Ask

LEMMA OlderIsSound ==
    ASSUME NEW a \in Affinity, Timers(a), a # None
    PROVE  Older(a) \in Affinity /\ Timers(Older(a))
<1> DEFINE a1 == [a EXCEPT !.home = Aged(a.home, PromotionDebounce)]
           a2 == [a1 EXCEPT !.idle = Aged(a.idle, AffinityTtl)]
           a3 == [a2 EXCEPT !.pressure = AgedTimer(a.pressure, DescentDebounce)]
<1>1. /\ a1 \in Affinity
      /\ a1.idle = a.idle /\ a1.pressure = a.pressure /\ a1.recovery = a.recovery
      /\ a1.home = Aged(a.home, PromotionDebounce)
  BY DEF Affinity, Aged
<1>2. /\ a2 \in Affinity
      /\ a2.home = a1.home /\ a2.pressure = a.pressure /\ a2.recovery = a.recovery
  <2> HIDE DEF a1
  <2> QED  BY <1>1 DEF Affinity, Aged
<1>3. /\ a3 \in Affinity
      /\ a3.home = a1.home /\ a3.recovery = a.recovery
      /\ a3.pressure = AgedTimer(a.pressure, DescentDebounce)
  <2> HIDE DEF a2
  <2> QED  BY <1>2 DEF Affinity, Aged, AgedTimer
<1>4. Older(a) = [a3 EXCEPT !.recovery = AgedTimer(a.recovery, PromotionDebounce)]
  BY DEF Older
<1> HIDE DEF a3
<1>5. /\ Older(a) \in Affinity
      /\ Older(a).home = Aged(a.home, PromotionDebounce)
      /\ Older(a).pressure = AgedTimer(a.pressure, DescentDebounce)
      /\ Older(a).recovery = AgedTimer(a.recovery, PromotionDebounce)
  BY <1>1, <1>3, <1>4 DEF Affinity, Aged, AgedTimer
<1> QED  BY <1>5 DEF Timers, Aged, AgedTimer, Affinity

LEMMA NextKeepsInv == IInv /\ [Next]_vars => IInv'
<1> SUFFICES ASSUME IInv, [Next]_vars PROVE IInv'
  OBVIOUS
<1> USE DEF IInv, TypeOK, TimersMeasureThisHome
<1>1. CASE Arrive
  BY <1>1, ArrivalsAreAsks DEF Arrive, Tracked
<1>2. CASE Decide
  BY <1>2, DecideKeepsInv
<1>3. ASSUME NEW k \in Key, Forget(k) PROVE IInv'
  BY <1>3 DEF Forget, Tracked
<1>4. CASE Tick
  <2>1. SoundTable(affinity)
    BY InvIsSoundTable
  <2>2. SoundTable(affinity')
    BY <1>4, <2>1, OlderIsSound DEF Tick, SoundTable, Older
  <2> QED  BY <1>4, <2>2 DEF Tick, SoundTable, Timers, Tracked
<1>5. CASE Shift
  <2>1. world' \in World
    <3>1. ASSUME NEW b \in Backend, NEW l \in Level, world' = [world EXCEPT !.level[b] = l]
          PROVE  world' \in World
      BY <3>1 DEF World
    <3>2. ASSUME NEW c \in SUBSET NeedsConsent, world' = [world EXCEPT !.consented = c]
          PROVE  world' \in World
      BY <3>2 DEF World
    <3>3. ASSUME world' = [world EXCEPT !.private = ~@]
          PROVE  world' \in World
      BY <3>3 DEF World
    <3> QED  BY <1>5, <3>1, <3>2, <3>3 DEF Shift
  <2> QED  BY <1>5, <2>1 DEF Shift, Tracked
<1>6. CASE UNCHANGED vars
  BY <1>6 DEF vars, Tracked
<1> QED  BY <1>1, <1>2, <1>3, <1>4, <1>5, <1>6 DEF Next

LEMMA Invariance == Spec => []IInv
BY InitInv, NextKeepsInv, PTL DEF Spec

\* Types are kept whatever the backends do and however long they take.
THEOREM TypeCorrect == Spec => []TypeOK
BY Invariance, PTL DEF IInv

\* No pressure or recovery timer outlives the route it was measured on.
THEOREM TimersAreLocal == Spec => []TimersMeasureThisHome
BY Invariance, PTL DEF IInv

-----------------------------------------------------------------------------
(* What one decision may do *)

LEMMA DecidedIsDecide == Next /\ Decided => Decide
BY DEF Next, Decided, Arrive, Forget, Tick, Shift

\* A timer that has run to a positive bound was running, on this route.
LEMMA ClimbHasWaited ==
    ASSUME IInv, ask \in Ask, HasIncumbent, ~HomePressured, Climbable
    PROVE  MyHome.home >= PromotionDebounce
<1>1. MyHome \in Affinity /\ Timers(MyHome)
  BY IncumbentIsSound
<1>2. Start(MyHome.recovery) >= PromotionDebounce
  BY DEF Climbable, SeenRecovery
<1> QED  BY <1>1, <1>2 DEF Start, Timers, Affinity

LEMMA DescentHasWaited ==
    ASSUME IInv, ask \in Ask, HasIncumbent, Sustained
    PROVE  MyHome.home >= DescentDebounce
<1>1. MyHome \in Affinity /\ Timers(MyHome)
  BY IncumbentIsSound
<1>2. Start(MyHome.pressure) >= DescentDebounce
  BY DEF Sustained, SeenPressure
<1> QED  BY <1>1, <1>2 DEF Start, Timers, Affinity

\* The four ways a decision comes by backend b at this rung, which is then put
\* back, or is not.
Source(b, rung) ==
    \/ HasIncumbent /\ b = MyHome.backend /\ rung = MyHome.rung
    \/ /\ HasIncumbent /\ ~HomePressured /\ Climbable
       /\ [backend |-> b, rung |-> rung] \in Selections(world, MyReq, Warm)
       /\ rung < MyHome.rung
    \/ /\ Reselects
       /\ [backend |-> b, rung |-> rung] \in Selections(world, MyReq, Warm)
    \/ /\ ask.force # None
       /\ ForcedAllowed(world, MyReq, ask.force, Warm, Continuing)
       /\ b = ask.force /\ rung = ForcedRung(ask.force)

\* A route that was named is Preferred or CrossFamily, and neither is put back.
LEMMA NamedIsKept ==
    ASSUME NEW r, NEW b
    PROVE  KeptRung(r, b, ForcedRung(b)) = ForcedRung(b)
BY DEF KeptRung, ForcedRung, Preferred, SmallerModel, CrossFamily

LEMMA DecisionSources ==
    ASSUME Decide, route' # None
    PROVE  \E b, rung : /\ route' = [backend |-> b, rung |-> KeptRung(MyReq, b, rung)]
                        /\ Source(b, rung)
<1>0. ASSUME NEW d \in Selections(world, MyReq, Warm)
      PROVE  /\ d = [backend |-> d.backend, rung |-> d.rung]
             /\ Kept(MyReq, d) = [backend |-> d.backend, rung |-> KeptRung(MyReq, d.backend, d.rung)]
  BY SelectionsAreUsable, KeptIsRoute DEF Route
<1>1. CASE Hold \/ Stay \/ AwaitPromotion
  BY <1>1 DEF Hold, Stay, AwaitPromotion, StayHome, HomeRung, Return, Source
<1>2. CASE Promote
  <2>1. PICK d \in Better : Return(Kept(MyReq, d).backend, Kept(MyReq, d).rung)
    BY <1>2 DEF Promote
  <2>2. /\ d \in Selections(world, MyReq, Warm) /\ d = [backend |-> d.backend, rung |-> d.rung]
        /\ d.rung < MyHome.rung
        /\ Kept(MyReq, d) = [backend |-> d.backend, rung |-> KeptRung(MyReq, d.backend, d.rung)]
    BY <1>0 DEF Better
  <2>3. Source(d.backend, d.rung)
    BY <1>2, <2>2 DEF Promote, Source
  <2> QED  BY <2>1, <2>2, <2>3 DEF Return
<1>3. CASE Select
  <2>1. PICK d \in Selections(world, MyReq, Warm) :
               Return(Kept(MyReq, d).backend, Kept(MyReq, d).rung)
    BY <1>3 DEF Select
  <2>2. Source(d.backend, d.rung)
    BY <1>0, <1>3 DEF Select, Source
  <2> QED  BY <1>0, <2>1, <2>2 DEF Return
<1>4. CASE TakeNamed
  <2>1. KeptRung(MyReq, ask.force, ForcedRung(ask.force)) = ForcedRung(ask.force)
    BY NamedIsKept
  <2> QED  BY <1>4, <2>1 DEF TakeNamed, Return, Source
<1>5. CASE Refuse \/ RefuseNamed
  BY <1>5 DEF Refuse, RefuseNamed, NoRoute
<1> QED  BY <1>1, <1>2, <1>3, <1>4, <1>5 DEF Decide

\* Every route returned is permitted at that moment, by stickiness, selection or
\* name, and is up with headroom unless the user named it.
THEOREM GateHolds == Spec => RoutesPassTheGate
<1>1. ASSUME IInv, Next, Decided
      PROVE  /\ Permitted(world, route'.backend)
             /\ ask.force = None => Healthy(world, route'.backend)
  <2>1. Decide /\ route' # None
    BY <1>1, DecidedIsDecide DEF Decided
  <2>2. PICK b, rung : route' = [backend |-> b, rung |-> KeptRung(MyReq, b, rung)] /\ Source(b, rung)
    BY <2>1, DecisionSources
  <2>3. CASE HasIncumbent /\ b = MyHome.backend
    BY <2>2, <2>3 DEF HasIncumbent, IncumbentUsable, Why
  <2>4. CASE [backend |-> b, rung |-> rung] \in Selections(world, MyReq, Warm)
    BY <2>2, <2>4, SelectionsAreUsable DEF Usable, Why
  <2>5. CASE /\ ask.force # None /\ b = ask.force
             /\ ForcedAllowed(world, MyReq, ask.force, Warm, Continuing)
    BY <2>2, <2>5 DEF ForcedAllowed
  <2> QED  BY <2>2, <2>3, <2>4, <2>5 DEF Source
<1>2. IInv /\ [Next]_vars
      => [Decided => /\ Permitted(world, route'.backend)
                     /\ ask.force = None => Healthy(world, route'.backend)]_vars
  BY <1>1
<1> QED  BY <1>2, Invariance, PTL DEF Spec, RoutesPassTheGate

\* A usable incumbent is left only after DESCENT_DEBOUNCE on it.
THEOREM HomeIsSticky == Spec => HomeIsKept
<1>1. ASSUME IInv, Next, Decided, HasIncumbent, route'.backend # MyHome.backend
      PROVE  MyHome.home >= DescentDebounce
  <2>1. Decide /\ route' # None /\ ask \in Ask
    BY <1>1, DecidedIsDecide DEF Decided, IInv, TypeOK
  <2>2. CASE ~HomePressured /\ Climbable
    <3>1. MyHome.home >= PromotionDebounce /\ MyHome \in Affinity
      BY <1>1, <2>1, <2>2, ClimbHasWaited, IncumbentIsSound
    <3> QED  BY <3>1 DEF Affinity
  <2>3. CASE Reselects
    BY <1>1, <2>1, <2>3, DescentHasWaited DEF Reselects
  <2>4. PICK b, rung : route' = [backend |-> b, rung |-> KeptRung(MyReq, b, rung)] /\ Source(b, rung)
    BY <2>1, DecisionSources
  <2>5. b # MyHome.backend /\ ask.force = None
    BY <1>1, <2>4 DEF HasIncumbent
  <2>6. (~HomePressured /\ Climbable) \/ Reselects
    BY <2>4, <2>5 DEF Source
  <2> QED  BY <2>2, <2>3, <2>6
<1>2. IInv /\ [Next]_vars
      => [Decided /\ HasIncumbent /\ route'.backend # MyHome.backend
          => MyHome.home >= DescentDebounce]_vars
  BY <1>1
<1> QED  BY <1>2, Invariance, PTL DEF Spec, HomeIsKept

\* A climb off an unpressured incumbent has waited PROMOTION_DEBOUNCE there and
\* never leaves a foreign family in the middle of a tool loop, unless it leaves
\* nothing: the same backend, put back to Preferred for a model it lists.
THEOREM ClimbsWait == Spec => ClimbsAreEarned
<1>1. ASSUME IInv, Next, Decided, HasIncumbent, ~Pressured(world, MyHome.backend),
             route'.rung < MyHome.rung
      PROVE  Earned \/ PutBack
  <2>1. Decide /\ route' # None /\ ask \in Ask /\ ~HomePressured
    BY <1>1, DecidedIsDecide DEF Decided, IInv, TypeOK, HomePressured
  <2>2. MyHome.rung \in Rung /\ MyHome.rung \in Nat
    BY <1>1, <2>1, IncumbentIsSound DEF Affinity, Rung, Preferred, CrossFamily
  <2>3. PICK b, rung : route' = [backend |-> b, rung |-> KeptRung(MyReq, b, rung)] /\ Source(b, rung)
    BY <2>1, DecisionSources
  <2>4. CASE b = MyHome.backend /\ rung = MyHome.rung
    <3>1. KeptRung(MyReq, b, rung) # rung
      BY <1>1, <2>2, <2>3, <2>4
    <3>2. rung = SmallerModel /\ b \in Listed[ask.model] /\ KeptRung(MyReq, b, rung) = Preferred
      BY <2>2, <2>4, <3>1, PuttingBack DEF MyReq
    <3> QED  BY <2>3, <2>4, <3>2 DEF PutBack
  <2>5. CASE Climbable
    BY <1>1, <2>1, <2>5, ClimbHasWaited DEF Climbable, Earned
  <2> QED  BY <1>1, <2>1, <2>3, <2>4, <2>5 DEF HasIncumbent, Reselects, Sustained, Source
<1>2. IInv /\ [Next]_vars
      => [Decided /\ HasIncumbent /\ ~Pressured(world, MyHome.backend)
                  /\ route'.rung < MyHome.rung
          => Earned \/ PutBack]_vars
  BY <1>1
<1> QED  BY <1>2, Invariance, PTL DEF Spec, ClimbsAreEarned

-----------------------------------------------------------------------------
(* The turn boundary *)

\* A native tool loop whose conversation is its own has a native home, or none.
NativeLoopsHaveNativeHomes ==
    \A t \in Thread :
        AloneOnKey(t) /\ loop[t] = "native"
        => affinity[KeyOf[t]] = None \/ affinity[KeyOf[t]].rung # CrossFamily

\* A route with this backend and rung, seen just now.
Fresh(a, b, rung) == a.backend = b /\ a.rung = rung /\ a.idle = 0

\* What one decision does: it answers from one of the four sources or refuses;
\* its key is left with the route it returned, with what it held or with none;
\* any other key is left alone or emptied.
Answered(b, rung) ==
    LET served == KeptRung(MyReq, b, rung) IN
    /\ Return(b, served)
    /\ Source(b, rung)
    /\ affinity'[MyKey] = None \/ Fresh(affinity'[MyKey], b, served)

Refused ==
    /\ NoRoute
    /\ \/ Reselects /\ Selections(world, MyReq, Warm) = {}
       \/ /\ ask.force # None
          /\ ~ForcedAllowed(world, MyReq, ask.force, Warm, Continuing)
    /\ \/ affinity'[MyKey] = MyHome
       \/ MyHome # None /\ Fresh(affinity'[MyKey], MyHome.backend, MyHome.rung)
    /\ HasIncumbent => HomePressured

LEMMA SettingTimersKeepsRoute ==
    ASSUME MyHome \in Affinity, NEW p, NEW r
    PROVE  /\ Fresh(Touched(p, r), MyHome.backend, MyHome.rung)
           /\ Fresh([Touched(p, r) EXCEPT !.rung = HomeRung], MyHome.backend, HomeRung)
BY DEF Touched, Affinity, Fresh

LEMMA DecisionOutcome ==
    ASSUME IInv, Decide
    PROVE  /\ MyKey \in Key
           /\ \A k \in Key \ {MyKey} : affinity'[k] \in {affinity[k], None}
           /\ Refused \/ \E b, rung : Answered(b, rung)
<1> DEFINE After(a) == /\ \A k \in Key \ {MyKey} : affinity'[k] \in {affinity[k], None}
                       /\ affinity'[MyKey] \in {a, None}
<1>1. ask \in Ask /\ SoundTable(affinity)
  BY InvIsSoundTable DEF Decide
<1>2. MyKey \in Key
  BY <1>1 DEF MyKey, Me, Ask
<1>3. \A k \in Key : Swept[k] \in {affinity[k], None}
  BY DEF Swept
<1>4. ASSUME NEW a, Keep(a) PROVE After(a)
  BY <1>2, <1>3, <1>4 DEF Keep, Updated
<1>5. ASSUME NEW d, Adopt(d) PROVE After(NewAffinity(d.backend, d.rung))
  <2> DEFINE f == Updated(NewAffinity(d.backend, d.rung))
  <2>1. /\ f = [k \in Key |-> f[k]]
        /\ f[MyKey] = NewAffinity(d.backend, d.rung)
        /\ \A k \in Key \ {MyKey} : f[k] \in {affinity[k], None}
    BY <1>2, <1>3 DEF Updated
  <2>2. affinity' = f \/ \E k \in Key : affinity' = [f EXCEPT ![k] = None]
    BY <1>5 DEF Adopt, BoundedTo, Stalest, Tracked
  <2> HIDE DEF f
  <2> QED  BY <1>2, <2>1, <2>2
<1>6. \A b, rung : Fresh(NewAffinity(b, rung), b, rung)
  BY DEF NewAffinity, Fresh
<1>7. ASSUME HasIncumbent PROVE MyHome = affinity[MyKey] /\ MyHome # None /\ MyHome \in Affinity
  BY <1>1, <1>2, <1>3, <1>7, IncumbentIsSound DEF HasIncumbent, MyHome
<1>8. ASSUME NEW d \in Selections(world, MyReq, Warm)
      PROVE  /\ d = [backend |-> d.backend, rung |-> d.rung]
             /\ Kept(MyReq, d).backend = d.backend
             /\ Kept(MyReq, d).rung = KeptRung(MyReq, d.backend, d.rung)
  BY SelectionsAreUsable, KeptIsRoute DEF Route
<1> HIDE DEF After
<1>9. CASE Hold \/ Stay \/ AwaitPromotion
  <2>1. HasIncumbent
    BY <1>9 DEF Hold, Stay, AwaitPromotion
  <2>2. PICK p, r : StayHome(Touched(p, r))
    BY <1>9 DEF Hold, Stay, AwaitPromotion, Seen
  <2>3. /\ After([Touched(p, r) EXCEPT !.rung = HomeRung])
        /\ Fresh([Touched(p, r) EXCEPT !.rung = HomeRung], MyHome.backend, HomeRung)
    BY <1>4, <1>7, <2>1, <2>2, SettingTimersKeepsRoute DEF StayHome
  <2>4. Return(MyHome.backend, HomeRung) /\ Source(MyHome.backend, MyHome.rung)
    BY <2>1, <2>2 DEF StayHome, Source
  <2>5. Answered(MyHome.backend, MyHome.rung)
    BY <2>3, <2>4 DEF After, Answered, HomeRung
  <2> QED  BY <1>2, <2>3, <2>5 DEF After
<1>10. CASE Promote
  <2>1. PICK d \in Better : /\ Keep(NewAffinity(Kept(MyReq, d).backend, Kept(MyReq, d).rung))
                            /\ Return(Kept(MyReq, d).backend, Kept(MyReq, d).rung)
    BY <1>10 DEF Promote
  <2> DEFINE b == d.backend
             served == KeptRung(MyReq, d.backend, d.rung)
  <2>2. /\ Keep(NewAffinity(b, served)) /\ Return(b, served)
        /\ d = [backend |-> b, rung |-> d.rung]
    BY <1>8, <2>1 DEF Better
  <2>3. Source(b, d.rung)
    BY <1>10, <2>1, <2>2 DEF Promote, Better, Source
  <2>4. After(NewAffinity(b, served))
    BY <1>4, <2>2
  <2>5. Answered(b, d.rung)
    BY <1>6, <2>2, <2>3, <2>4 DEF After, Answered
  <2> QED  BY <1>2, <2>4, <2>5 DEF After
<1>11. CASE Select
  <2>1. PICK d \in Selections(world, MyReq, Warm) :
               Adopt(Kept(MyReq, d)) /\ Return(Kept(MyReq, d).backend, Kept(MyReq, d).rung)
    BY <1>11 DEF Select
  <2> DEFINE b == d.backend
             served == KeptRung(MyReq, d.backend, d.rung)
  <2>2. /\ After(NewAffinity(b, served)) /\ Return(b, served)
        /\ d = [backend |-> b, rung |-> d.rung]
    BY <1>5, <1>8, <2>1
  <2>3. Source(b, d.rung)
    BY <1>11, <2>1, <2>2 DEF Select, Source
  <2>4. Answered(b, d.rung)
    BY <1>6, <2>2, <2>3 DEF After, Answered
  <2> QED  BY <1>2, <2>2, <2>4 DEF After
<1>12. CASE TakeNamed
  <2> DEFINE b == ask.force
             rung == ForcedRung(ask.force)
             d == [backend |-> b, rung |-> rung]
  <2>1. Adopt(d) /\ Return(b, rung) /\ Source(b, rung)
    BY <1>12 DEF TakeNamed, Source
  <2>2. d.backend = b /\ d.rung = rung
    OBVIOUS
  <2> HIDE DEF b, rung, d
  <2>3. After(NewAffinity(b, rung))
    BY <1>5, <2>1, <2>2
  <2>4. KeptRung(MyReq, b, rung) = rung
    BY NamedIsKept DEF b, rung
  <2>5. Answered(b, rung)
    BY <1>6, <2>1, <2>3, <2>4 DEF After, Answered
  <2> QED  BY <1>2, <2>3, <2>5 DEF After
<1>13. CASE Refuse
  <2>1. CASE HasIncumbent
    <3>1. After(Seen) /\ Fresh(Seen, MyHome.backend, MyHome.rung)
      BY <1>4, <1>7, <1>13, <2>1, SettingTimersKeepsRoute DEF Refuse, Seen
    <3>2. affinity'[MyKey] = Seen
      BY <1>2, <1>13, <2>1 DEF Refuse, Keep, Updated
    <3>3. HomePressured
      BY <1>13, <2>1 DEF Refuse, Reselects, Sustained
    <3> QED  BY <1>2, <1>7, <1>13, <2>1, <3>1, <3>2, <3>3 DEF Refuse, Refused, After
  <2>2. CASE ~HasIncumbent
    BY <1>2, <1>3, <1>13, <2>2 DEF Refuse, Refused, MyHome
  <2> QED  BY <2>1, <2>2
<1>14. CASE RefuseNamed
  BY <1>2, <1>3, <1>14 DEF RefuseNamed, Refused, MyHome, HasIncumbent
<1> QED  BY <1>9, <1>10, <1>11, <1>12, <1>13, <1>14 DEF Decide

\* Mid native loop, none of the four sources leads abroad.
LEMMA NativeLoopStaysNative ==
    ASSUME IInv, NativeLoopsHaveNativeHomes, ask \in Ask,
           AloneOnKey(Me), loop[Me] = "native",
           NEW b, NEW rung, Source(b, rung)
    PROVE  rung # CrossFamily
<1>1. Me \in Thread /\ MyKey \in Key /\ MyMid
  BY DEF Me, MyKey, MyMid, Ask
<1>2. MyHome # None => MyHome.rung # CrossFamily
  BY <1>1 DEF NativeLoopsHaveNativeHomes, MyHome, MyKey, Swept
<1>3. \A x : x \in Native \/ Ineligible(MyReq, x, Warm) = "midloop"
  BY <1>1 DEF Ineligible, MyReq
<1>4. CASE HasIncumbent /\ rung = MyHome.rung
  BY <1>2, <1>4 DEF HasIncumbent
<1>5. CASE [backend |-> b, rung |-> rung] \in Selections(world, MyReq, Warm)
  <2>1. /\ Usable(world, MyReq, b, Warm)
        /\ rung = CrossFamily => b \notin Native
    BY <1>5, SelectionsAreUsable
  <2> QED  BY <1>3, <2>1 DEF Usable, Why
<1>6. CASE /\ ForcedAllowed(world, MyReq, ask.force, Warm, Continuing)
           /\ rung = ForcedRung(ask.force)
  <2>1. ~Continuing
    BY <1>2 DEF Continuing
  <2>2. ask.force \in Native
    BY <1>3, <1>6, <2>1 DEF ForcedAllowed
  <2> QED  BY <1>6, <2>2 DEF ForcedRung, Preferred, CrossFamily
<1> QED  BY <1>4, <1>5, <1>6 DEF Source

LEMMA NativeHomesInvariant ==
    IInv /\ NativeLoopsHaveNativeHomes /\ [Next]_vars => NativeLoopsHaveNativeHomes'
<1> SUFFICES ASSUME IInv, NativeLoopsHaveNativeHomes, [Next]_vars,
                    NEW t \in Thread, AloneOnKey(t), loop'[t] = "native",
                    affinity'[KeyOf[t]] # None
             PROVE  affinity'[KeyOf[t]].rung # CrossFamily
  BY DEF NativeLoopsHaveNativeHomes, AloneOnKey
<1>0. KeyOf[t] \in Key
  OBVIOUS
<1>1. CASE Decide
  <2>1. ask \in Ask /\ Me \in Thread
    BY <1>1 DEF IInv, TypeOK, Decide, Me, Ask
  <2>2. CASE t # Me
    <3>1. KeyOf[t] # MyKey
      BY <2>1, <2>2 DEF AloneOnKey, MyKey
    <3>2. affinity'[KeyOf[t]] = affinity[KeyOf[t]]
      BY <1>0, <1>1, <3>1, DecisionOutcome
    <3>3. loop'[t] = loop[t]
      BY <1>1, <2>2, DecisionOutcome DEF Refused, NoRoute, Answered, Return, Reply, IInv, TypeOK
    <3> QED  BY <3>2, <3>3 DEF NativeLoopsHaveNativeHomes
  <2>3. CASE t = Me /\ Refused
    <3>1. KeyOf[t] = MyKey /\ loop[t] = "native" /\ MyHome \in {affinity[MyKey], None}
      BY <1>0, <2>1, <2>3 DEF Refused, NoRoute, MyKey, MyHome, Swept
    <3>2. MyHome # None => MyHome.rung # CrossFamily
      BY <3>1 DEF NativeLoopsHaveNativeHomes
    <3> QED  BY <2>3, <3>1, <3>2 DEF Refused, Fresh
  <2>4. CASE t = Me /\ \E b, rung : Answered(b, rung)
    <3>1. PICK b, rung : Answered(b, rung)
      BY <2>4
    <3> DEFINE served == KeptRung(MyReq, b, rung)
    <3>2. affinity'[KeyOf[t]].rung = served
      BY <2>4, <3>1 DEF Answered, Fresh, MyKey
    <3>3. PICK end \in {"boundary", Family(served), loop[Me]} : loop' = [loop EXCEPT ![Me] = end]
      BY <3>1 DEF Answered, Return, Reply
    <3>4. Family(served) = "native" \/ loop[Me] = "native"
      BY <2>1, <2>4, <3>3 DEF IInv, TypeOK
    <3>5. CASE Family(served) = "native"
      BY <3>2, <3>5 DEF Family
    <3>6. CASE loop[Me] = "native"
      BY <2>1, <2>4, <3>1, <3>2, <3>6, NativeLoopStaysNative, PuttingBack DEF Answered
    <3> QED  BY <3>4, <3>5, <3>6
  <2> QED  BY <1>1, <2>2, <2>3, <2>4, DecisionOutcome
<1>2. CASE Arrive \/ Shift \/ UNCHANGED vars
  BY <1>2 DEF Arrive, Shift, vars, NativeLoopsHaveNativeHomes
<1>3. ASSUME NEW k \in Key, Forget(k) PROVE affinity'[KeyOf[t]].rung # CrossFamily
  BY <1>0, <1>3 DEF Forget, NativeLoopsHaveNativeHomes, IInv, TypeOK
<1>4. CASE Tick
  <2> DEFINE a == affinity[KeyOf[t]]
  <2>1. affinity'[KeyOf[t]] = Older(a) /\ loop'[t] = loop[t]
    BY <1>0, <1>4 DEF Tick
  <2>2. a # None
    BY <2>1 DEF Older
  <2>3. a \in Affinity
    BY <1>0, <2>2 DEF IInv, TypeOK
  <2>4. a.rung # CrossFamily
    BY <2>1, <2>2 DEF NativeLoopsHaveNativeHomes
  <2> HIDE DEF a
  <2>5. Older(a).rung = a.rung
    BY <2>2, <2>3 DEF Older, Affinity
  <2> QED  BY <2>1, <2>4, <2>5
<1> QED  BY <1>1, <1>2, <1>3, <1>4 DEF Next

\* A thread with a conversation to itself never enters a foreign family in the
\* middle of a native tool loop.
THEOREM TurnBoundary == Spec => EntersForeignAtBoundary
<1>1. Init => NativeLoopsHaveNativeHomes
  BY DEF Init, NativeLoopsHaveNativeHomes
<1>2. ASSUME IInv, NativeLoopsHaveNativeHomes, Next, Decided,
             AloneOnKey(ask.thread), loop[ask.thread] = "native"
      PROVE  route'.rung # CrossFamily
  <2>1. Decide /\ route' # None /\ ask \in Ask
    BY <1>2, DecidedIsDecide DEF Decided, IInv, TypeOK
  <2>2. PICK b, rung : route' = [backend |-> b, rung |-> KeptRung(MyReq, b, rung)] /\ Source(b, rung)
    BY <2>1, DecisionSources
  <2> QED  BY <1>2, <2>1, <2>2, NativeLoopStaysNative, PuttingBack DEF Me
<1>3. IInv /\ NativeLoopsHaveNativeHomes /\ [Next]_vars
      => [Decided /\ AloneOnKey(ask.thread) /\ loop[ask.thread] = "native"
          => route'.rung # CrossFamily]_vars
  BY <1>2
<1> QED  BY <1>1, <1>3, Invariance, NativeHomesInvariant, PTL DEF Spec, EntersForeignAtBoundary
-----------------------------------------------------------------------------
(* The ceiling: a decision tracks at most one more conversation, and past   *)
(* the ceiling gives one up in the same step.                               *)

Bounded(f) == IsFiniteSet(Tracked(f)) /\ Cardinality(Tracked(f)) <= MaxAffinities

LEMMA FewerIsBounded ==
    ASSUME NEW f, NEW g, Bounded(f), Tracked(g) \subseteq Tracked(f)
    PROVE  Bounded(g)
<1>1. /\ IsFiniteSet(Tracked(g))
      /\ Cardinality(Tracked(g)) <= Cardinality(Tracked(f))
  BY FS_Subset DEF Bounded
<1>2. Cardinality(Tracked(f)) \in Nat /\ Cardinality(Tracked(g)) \in Nat
  BY <1>1, FS_CardinalityType DEF Bounded
<1> QED  BY <1>1, <1>2 DEF Bounded

\* A route replacing one of the same conversation tracks nothing new.
LEMMA KeepIsBounded ==
    ASSUME NEW a, Keep(a), MyHome # None, Bounded(affinity)
    PROVE  Bounded(affinity')
<1>1. Tracked(affinity') \subseteq Tracked(affinity)
  BY DEF Keep, Updated, Tracked, Swept, MyHome
<1> QED  BY <1>1, FewerIsBounded

LEMMA AdoptIsBounded ==
    ASSUME NEW d, Adopt(d), MyKey \in Key, Bounded(affinity)
    PROVE  Bounded(affinity')
<1> DEFINE f == Updated(NewAffinity(d.backend, d.rung))
           T == Tracked(affinity)
           U == Tracked(f)
<1>1. U \subseteq T \cup {MyKey}
  BY DEF Updated, Tracked, Swept
<1>2. IsFiniteSet(T \cup {MyKey}) /\ Cardinality(T \cup {MyKey}) <= Cardinality(T) + 1
  <2>1. IsFiniteSet(T) /\ Cardinality(T) \in Nat
    BY FS_CardinalityType DEF Bounded
  <2> HIDE DEF T
  <2>2. /\ IsFiniteSet(T \cup {MyKey})
        /\ Cardinality(T \cup {MyKey}) = IF MyKey \in T THEN Cardinality(T) ELSE Cardinality(T) + 1
    BY <2>1, FS_AddElement
  <2> QED  BY <2>1, <2>2
<1>3. IsFiniteSet(U) /\ Cardinality(U) \in Nat /\ Cardinality(U) <= MaxAffinities + 1
  <2>1. IsFiniteSet(U) /\ Cardinality(U) <= Cardinality(T \cup {MyKey})
    BY <1>1, <1>2, FS_Subset
  <2>2. /\ Cardinality(T) \in Nat /\ Cardinality(U) \in Nat
        /\ Cardinality(T \cup {MyKey}) \in Nat /\ Cardinality(T) <= MaxAffinities
    BY <1>2, <2>1, FS_CardinalityType DEF Bounded
  <2> QED  BY <1>2, <2>1, <2>2
<1>4. f = [k \in Key |-> f[k]]
  BY DEF Updated
<1>5. BoundedTo(f)
  BY DEF Adopt
<1> HIDE DEF f
<1>6. CASE Cardinality(U) <= MaxAffinities /\ affinity' = f
  BY <1>3, <1>6 DEF Bounded
<1>7. CASE \E k \in Stalest(f) : affinity' = [f EXCEPT ![k] = None]
  <2>1. PICK k \in Stalest(f) : affinity' = [f EXCEPT ![k] = None]
    BY <1>7
  <2>2. k \in U
    BY <2>1 DEF Stalest
  <2>3. Tracked(affinity') = U \ {k}
    BY <1>4, <2>1, <2>2 DEF Tracked
  <2>4. /\ IsFiniteSet(U \ {k})
        /\ Cardinality(U \ {k}) = Cardinality(U) - 1
    BY <1>3, <2>2, FS_RemoveElement
  <2> QED  BY <1>3, <2>3, <2>4 DEF Bounded
<1> QED  BY <1>5, <1>6, <1>7 DEF BoundedTo

TableBounded == Bounded(affinity)

LEMMA NextIsBounded == IInv /\ TableBounded /\ [Next]_vars => TableBounded'
<1> SUFFICES ASSUME IInv, Bounded(affinity), [Next]_vars PROVE Bounded(affinity')
  BY DEF TableBounded, Bounded, Tracked
<1>1. CASE Decide
  <2>0. MyKey \in Key
    BY <1>1, DecisionOutcome
  <2>1. HasIncumbent => MyHome # None
    BY DEF HasIncumbent
  <2>2. CASE Hold \/ Stay \/ AwaitPromotion
    BY <2>1, <2>2, KeepIsBounded DEF Hold, Stay, AwaitPromotion, StayHome
  <2>3. CASE Promote
    BY <2>1, <2>3, KeepIsBounded DEF Promote
  <2>4. CASE Select \/ TakeNamed
    BY <2>0, <2>4, AdoptIsBounded DEF Select, TakeNamed
  <2>5. CASE Refuse \/ RefuseNamed
    <3>1. CASE affinity' = Swept
      <4>1. Tracked(affinity') \subseteq Tracked(affinity)
        BY <3>1 DEF Tracked, Swept
      <4> QED  BY <4>1, FewerIsBounded
    <3>2. CASE HasIncumbent /\ Keep(Seen)
      BY <2>1, <3>2, KeepIsBounded
    <3> QED  BY <2>5, <3>1, <3>2 DEF Refuse, RefuseNamed
  <2> QED  BY <1>1, <2>2, <2>3, <2>4, <2>5 DEF Decide
<1>2. CASE Arrive \/ Shift \/ UNCHANGED vars
  BY <1>2 DEF Arrive, Shift, vars
<1>3. ASSUME NEW k \in Key, Forget(k) PROVE Bounded(affinity')
  <2>1. Tracked(affinity') \subseteq Tracked(affinity)
    BY <1>3 DEF Forget, Tracked, IInv, TypeOK
  <2> QED  BY <2>1, FewerIsBounded
<1>4. CASE Tick
  <2>1. Tracked(affinity') \subseteq Tracked(affinity)
    BY <1>4 DEF Tick, Tracked, Older
  <2> QED  BY <2>1, FewerIsBounded
<1> QED  BY <1>1, <1>2, <1>3, <1>4 DEF Next

\* The table never holds more than MAX_AFFINITIES conversations, however many
\* the daemon's clients open.
THEOREM CeilingHolds == Spec => []WithinCapacity
<1>1. Init => TableBounded
  <2> SUFFICES ASSUME Init PROVE Bounded(affinity)
    BY DEF TableBounded
  <2>1. Tracked(affinity) = {}
    BY DEF Init, Tracked
  <2> QED  BY <2>1, FS_EmptySet DEF Bounded
<1>2. TableBounded => WithinCapacity
  BY DEF TableBounded, Bounded, WithinCapacity
<1> QED  BY <1>1, <1>2, Invariance, NextIsBounded, PTL DEF Spec

-----------------------------------------------------------------------------
(***************************************************************************)
(* Routing implements Sticky: with its timers, its capacity and its clock  *)
(* forgotten, every step of the table is one the policy promises.          *)
(*                                                                         *)
(* A decision answers from one of the four sources above, and each is a    *)
(* route Sticky allows; the conversation it was made for is left on that   *)
(* route, seen just now and so not swept; and everything else a step may   *)
(* do to the table only forgets conversations.                             *)
(***************************************************************************)

\* The state the mapping shows Sticky.
Homes == [k \in Key |-> HomeOf(Swept[k])]
Here  == HomeOf(MyHome)
MyAsk == [key |-> MyKey, kind |-> ask.kind, mid |-> MyMid, model |-> ask.model,
          force |-> ask.force]
Asked == IF ask = None THEN None ELSE MyAsk

Forgotten == \A k \in Key : Homes'[k] \in {Homes[k], None}

-----------------------------------------------------------------------------
(* The policy looks only at a request's kind, its place in the turn and its model *)

LEMMA SameReasons ==
    ASSUME NEW w, NEW r, NEW s, r.kind = s.kind, r.mid = s.mid, NEW warm, NEW b
    PROVE  /\ Ineligible(r, b, warm) = Ineligible(s, b, warm)
           /\ Why(w, r, b, warm) = Why(w, s, b, warm)
<1>1. Ineligible(r, b, warm) = Ineligible(s, b, warm)
  BY DEF Ineligible
<1> QED  BY <1>1 DEF Why

LEMMA SameSelections ==
    ASSUME NEW w, NEW r, NEW s, r.kind = s.kind, r.mid = s.mid, r.model = s.model, NEW warm
    PROVE  Selections(w, r, warm) = Selections(w, s, warm)
<1> DEFINE rUsable == {b \in Backend : Usable(w, r, b, warm)}
           sUsable == {b \in Backend : Usable(w, s, b, warm)}
           Same(q, S) == {[backend |-> b, rung |-> NativeRung(w, q, b, warm)] : b \in Bests(w, q, S)}
           Abroad(q, S) == {[backend |-> b, rung |-> CrossFamily] : b \in Bests(w, q, S)}
<1>1. \A b : Why(w, r, b, warm) = Why(w, s, b, warm)
  BY SameReasons
<1>2. rUsable = sUsable
  BY <1>1 DEF Usable
<1>3. \A b : NativeRung(w, r, b, warm) = NativeRung(w, s, b, warm)
  BY <1>1 DEF NativeRung, Alternate, ServesTier
<1>4. \A S : Bests(w, r, S) = Bests(w, s, S)
  BY DEF Bests, Before, SortRank
<1>5. \A S : Same(r, S) = Same(s, S) /\ Abroad(r, S) = Abroad(s, S)
  BY <1>3, <1>4
<1>6. /\ Selections(w, r, warm) = IF rUsable \cap Native # {}
                                  THEN Same(r, rUsable \cap Native) ELSE Abroad(r, rUsable)
      /\ Selections(w, s, warm) = IF sUsable \cap Native # {}
                                  THEN Same(s, sUsable \cap Native) ELSE Abroad(s, sUsable)
  BY DEF Selections
<1> HIDE DEF rUsable, sUsable, Same, Abroad
<1> QED  BY <1>2, <1>5, <1>6

LEMMA SameForced ==
    ASSUME NEW w, NEW b, NEW warm, NEW continuing
    PROVE  ForcedAllowed(w, MyAsk, b, warm, continuing)
           <=> ForcedAllowed(w, MyReq, b, warm, continuing)
<1>1. Ineligible(MyAsk, b, warm) = Ineligible(MyReq, b, warm)
  BY DEF Ineligible, MyAsk, MyReq
<1>2. Ineligible([MyAsk EXCEPT !.mid = FALSE], b, warm)
      = Ineligible([MyReq EXCEPT !.mid = FALSE], b, warm)
  <2> DEFINE a == [MyAsk EXCEPT !.mid = FALSE]
             q == [MyReq EXCEPT !.mid = FALSE]
  <2>1. a.kind = q.kind /\ a.mid = q.mid
    BY DEF MyAsk, MyReq
  <2> HIDE DEF a, q
  <2>2. Ineligible(a, b, warm) = Ineligible(q, b, warm)
    BY <2>1 DEF Ineligible
  <2> QED  BY <2>2 DEF a, q
<1> QED  BY <1>1, <1>2 DEF ForcedAllowed

-----------------------------------------------------------------------------
(* Where the conversation is, as Sticky sees it *)

LEMMA HomeOfType ==
    ASSUME NEW a \in Affinity \cup {None}
    PROVE  /\ HomeOf(a) \in Route \cup {None}
           /\ HomeOf(a) = None <=> a = None
           /\ a # None => HomeOf(a) = [backend |-> a.backend, rung |-> a.rung]
<1>1. CASE a = None
  BY <1>1 DEF HomeOf
<1>2. CASE a # None
  <2>1. a \in Affinity /\ HomeOf(a) = [backend |-> a.backend, rung |-> a.rung]
    BY <1>2 DEF HomeOf
  <2>2. HomeOf(a) \in Route
    BY <2>1 DEF Route, Affinity
  <2> QED  BY <1>2, <2>1, <2>2, NoneAssumption
<1> QED  BY <1>1, <1>2

LEMMA HereIsMyHome ==
    ASSUME IInv, ask \in Ask
    PROVE  /\ MyKey \in Key /\ Homes[MyKey] = Here
           /\ Here \in Route \cup {None}
           /\ Here = None <=> MyHome = None
           /\ MyHome # None => Here.backend = MyHome.backend /\ Here.rung = MyHome.rung
           /\ WarmAt(Here) = Warm
<1>1. MyKey \in Key
  BY DEF MyKey, Me, Ask
<1>2. MyHome \in Affinity \cup {None}
  BY <1>1, InvIsSoundTable, SweptIsSound DEF MyHome, SoundTable
<1>3. /\ Here \in Route \cup {None}
      /\ Here = None <=> MyHome = None
      /\ MyHome # None => Here.backend = MyHome.backend /\ Here.rung = MyHome.rung
  BY <1>2, HomeOfType DEF Here
<1> QED  BY <1>1, <1>3 DEF Homes, Here, MyHome, WarmAt, Warm

LEMMA IncumbentServes ==
    ASSUME IInv, ask \in Ask, ask.force = None
    PROVE  Serves(world, MyAsk, Here) <=> HasIncumbent
<1>1. /\ Here = None <=> MyHome = None
      /\ MyHome # None => Here.backend = MyHome.backend /\ Here.rung = MyHome.rung
      /\ WarmAt(Here) = Warm
  BY HereIsMyHome
<1>2. \A b : IncumbentUsable(world, MyAsk, b, Warm) <=> IncumbentUsable(world, MyReq, b, Warm)
  BY SameReasons DEF IncumbentUsable, MyAsk, MyReq
<1> QED  BY <1>1, <1>2 DEF Serves, HasIncumbent, Inherits, MyAsk

LEMMA ContinuesHere ==
    ASSUME IInv, ask \in Ask
    PROVE  Continues(Here, ask.force) <=> Continuing
BY HereIsMyHome DEF Continues, Continuing

\* A rung is put back for the request Sticky sees as for the one under the lock.
LEMMA SameKept ==
    ASSUME NEW b, NEW rung
    PROVE  Kept(MyAsk, [backend |-> b, rung |-> rung])
           = [backend |-> b, rung |-> KeptRung(MyReq, b, rung)]
BY DEF Kept, KeptRung, MyAsk, MyReq

\* Each of the four sources of a decision is a route the policy promises.
LEMMA SourceIsPromised ==
    ASSUME IInv, ask \in Ask, NEW b, NEW rung, Source(b, rung)
    PROVE  [backend |-> b, rung |-> KeptRung(MyReq, b, rung)]
           \in Routes(world, MyAsk, Here, ask.force)
<1> DEFINE d == [backend |-> b, rung |-> rung]
<1>0. Kept(MyAsk, d) = [backend |-> b, rung |-> KeptRung(MyReq, b, rung)]
  BY SameKept
<1>1. /\ Here = None <=> MyHome = None
      /\ Here \in Route \cup {None}
      /\ MyHome # None => Here.backend = MyHome.backend /\ Here.rung = MyHome.rung
      /\ WarmAt(Here) = Warm
  BY HereIsMyHome
<1>2. Selections(world, MyAsk, WarmAt(Here)) = Selections(world, MyReq, Warm)
  BY <1>1, SameSelections DEF MyAsk, MyReq
<1>3. CASE HasIncumbent /\ b = MyHome.backend /\ rung = MyHome.rung
  <2>1. Here # None /\ ask.force = None /\ Serves(world, MyAsk, Here)
    BY <1>1, <1>3, IncumbentServes DEF HasIncumbent
  <2>2. d = Here
    BY <1>1, <1>3, <2>1 DEF Route
  <2> QED  BY <1>0, <2>1, <2>2 DEF Routes
<1>4. CASE /\ HasIncumbent /\ ~HomePressured /\ Climbable
           /\ d \in Selections(world, MyReq, Warm)
           /\ rung < MyHome.rung
  <2>1. ask.force = None /\ MyHome # None
    BY <1>4 DEF HasIncumbent
  <2>2. d.rung < Here.rung /\ ~(Here.rung = CrossFamily /\ MyAsk.mid)
    BY <1>1, <1>4, <2>1 DEF Climbable, MyAsk
  <2> HIDE DEF d
  <2>3. d \in Chosen(world, MyAsk, Here)
    BY <1>2, <1>4, <2>2 DEF Chosen
  <2> QED  BY <1>0, <2>1, <2>3 DEF Routes
<1>5. CASE Reselects /\ d \in Selections(world, MyReq, Warm)
  <2>1. ask.force = None
    BY <1>5 DEF Reselects
  <2>2. Serves(world, MyAsk, Here) => Pressured(world, Here.backend)
    BY <1>1, <1>5, <2>1, IncumbentServes DEF Reselects, Sustained, HomePressured, HasIncumbent
  <2>3. d \in Chosen(world, MyAsk, Here)
    BY <1>2, <1>5, <2>2 DEF Chosen
  <2> HIDE DEF d
  <2> QED  BY <1>0, <2>1, <2>3 DEF Routes
<1>6. CASE /\ ask.force # None
           /\ ForcedAllowed(world, MyReq, ask.force, Warm, Continuing)
           /\ b = ask.force /\ rung = ForcedRung(ask.force)
  <2>1. ForcedAllowed(world, MyAsk, ask.force, WarmAt(Here), Continues(Here, ask.force))
    BY <1>1, <1>6, SameForced, ContinuesHere, ZenonT(60) DEF ForcedAllowed
  <2>2. KeptRung(MyReq, b, rung) = rung
    BY <1>6, NamedIsKept
  <2> QED  BY <1>6, <2>1, <2>2 DEF Routes, Taken
<1> QED  BY <1>3, <1>4, <1>5, <1>6 DEF Source

LEMMA RefusalIsPromised ==
    ASSUME IInv, ask \in Ask, Refused
    PROVE  Refusable(world, MyAsk, Here, ask.force)
<1>1. /\ Here = None <=> MyHome = None
      /\ MyHome # None => Here.backend = MyHome.backend /\ Here.rung = MyHome.rung
      /\ WarmAt(Here) = Warm
  BY HereIsMyHome
<1>2. Selections(world, MyAsk, WarmAt(Here)) = Selections(world, MyReq, Warm)
  BY <1>1, SameSelections DEF MyAsk, MyReq
<1>3. CASE Reselects /\ Selections(world, MyReq, Warm) = {}
  <2>1. ask.force = None
    BY <1>3 DEF Reselects
  <2>2. Serves(world, MyAsk, Here) => Pressured(world, Here.backend)
    BY <1>1, <2>1, IncumbentServes DEF Refused, HomePressured, HasIncumbent
  <2> QED  BY <1>2, <1>3, <2>1, <2>2 DEF Refusable
<1>4. CASE ask.force # None /\ ~ForcedAllowed(world, MyReq, ask.force, Warm, Continuing)
  <2>1. ~ForcedAllowed(world, MyAsk, ask.force, WarmAt(Here), Continues(Here, ask.force))
    BY <1>1, <1>4, SameForced, ContinuesHere DEF ForcedAllowed
  <2> QED  BY <1>4, <2>1 DEF Refusable, Taken
<1> QED  BY <1>3, <1>4 DEF Refused

-----------------------------------------------------------------------------
(* What a step does to the conversations Sticky sees *)

LEMMA HomesType == IInv => Homes \in [Key -> Route \cup {None}]
BY InvIsSoundTable, SweptIsSound, HomeOfType DEF Homes, SoundTable

LEMMA NextHomesType == IInv' => Homes' \in [Key -> Route \cup {None}]
<1> SUFFICES ASSUME IInv' PROVE Homes' \in [Key -> Route \cup {None}]
  OBVIOUS
<1>1. affinity' \in [Key -> Affinity \cup {None}]
  BY DEF IInv, TypeOK
<1>2. \A k \in Key : Swept'[k] \in Affinity \cup {None}
  BY <1>1 DEF Swept
<1> QED  BY <1>2, HomeOfType DEF Homes

\* A route kept or dropped is a conversation kept or forgotten.
LEMMA KeptOrForgotten ==
    ASSUME NEW k \in Key, affinity'[k] \in {affinity[k], None}
    PROVE  Homes'[k] \in {Homes[k], None}
BY DEF Homes, Swept, HomeOf

\* A route seen just now is not swept.
LEMMA FreshIsHome ==
    ASSUME NEW k \in Key, NEW b, NEW rung,
           affinity'[k] = None \/ Fresh(affinity'[k], b, rung)
    PROVE  Homes'[k] \in {[backend |-> b, rung |-> rung], None}
BY DEF Homes, Swept, HomeOf, Fresh

-----------------------------------------------------------------------------
(* Sticky, read through the mapping: its copy of Policy is Policy *)

LEMMA SamePolicy ==
    /\ Promise!World = World
    /\ \A w, r, h, force :
          /\ Promise!Routes(w, r, h, force) = Routes(w, r, h, force)
          /\ Promise!Refusable(w, r, h, force) <=> Refusable(w, r, h, force)
BY DEF Promise!Healthy, Promise!Pressured, Promise!Permitted, Promise!Ineligible,
       Promise!Why, Promise!Usable, Promise!IncumbentUsable, Promise!SortRank,
       Promise!Before, Promise!Bests, Promise!ServesTier, Promise!Alternate,
       Promise!NativeRung, Promise!Selections, Promise!ForcedAllowed,
       Promise!ForcedRung, Promise!WarmAt, Promise!Serves, Promise!Continues,
       Promise!KeptRung, Promise!Kept, Promise!Taken, Promise!Chosen, Promise!Routes, Promise!Refusable, Promise!World,
       Promise!Level, Promise!Preferred, Promise!SmallerModel,
       Promise!AlternateCredential, Promise!CrossFamily, Healthy, Pressured, Permitted,
       Ineligible, Why, Usable, IncumbentUsable, SortRank, Before, Bests, ServesTier,
       Alternate, NativeRung, Selections, ForcedAllowed, ForcedRung, WarmAt, Serves,
       Continues, KeptRung, Kept, Taken, Chosen, Routes, Refusable, World, Level, Preferred,
       SmallerModel, AlternateCredential, CrossFamily

LEMMA SameRequests ==
    Promise!Ask = [key : Key, kind : Kind, mid : BOOLEAN, model : Model, force : Named \cup {None}]
BY DEF Promise!Ask, Promise!Kind, Kind

LEMMA LapseMapped ==
    ASSUME Homes' \in [Key -> Route \cup {None}], Forgotten, UNCHANGED <<world, Asked, route>>
    PROVE  Promise!Lapse
BY DEF Promise!Lapse, Promise!Forgets, Promise!Route, Promise!Rung, Promise!Preferred,
       Promise!CrossFamily, Route, Rung, Preferred, CrossFamily, Forgotten, Homes, Asked, MyAsk

LEMMA ArriveMapped ==
    ASSUME Asked = None, Asked' \in Promise!Ask, route' = None, UNCHANGED <<world, Homes>>
    PROVE  Promise!Arrive
BY DEF Promise!Arrive, Homes, Asked, MyAsk

LEMMA ShiftMapped ==
    ASSUME Asked = None, world' \in World, UNCHANGED <<Homes, Asked, route>>
    PROVE  Promise!Shift
BY SamePolicy DEF Promise!Shift, Homes, Asked, MyAsk

LEMMA AnswerMapped ==
    ASSUME Homes' \in [Key -> Route \cup {None}], ask # None, MyAsk # None,
           route' \in Routes(world, MyAsk, Homes[MyKey], ask.force),
           \A k \in Key : Homes'[k] \in {[Homes EXCEPT ![MyKey] = route'][k], None},
           ask' = None, world' = world
    PROVE  Promise!Answer
BY SamePolicy DEF Promise!Answer, Promise!Forgets, Promise!Route, Promise!Rung, Promise!Preferred,
       Promise!CrossFamily, Route, Rung, Preferred, CrossFamily, Homes, MyAsk

LEMMA RefuseMapped ==
    ASSUME Homes' \in [Key -> Route \cup {None}], ask # None, MyAsk # None,
           Refusable(world, MyAsk, Homes[MyKey], ask.force),
           Forgotten, route' = None, ask' = None, world' = world
    PROVE  Promise!Refuse
BY SamePolicy DEF Promise!Refuse, Promise!Forgets, Promise!Route, Promise!Rung, Promise!Preferred,
       Promise!CrossFamily, Route, Rung, Preferred, CrossFamily, Homes, MyAsk, Forgotten

-----------------------------------------------------------------------------
(* Every step *)

LEMMA DecideIsPromised ==
    ASSUME IInv, IInv', Decide
    PROVE  Promise!Answer \/ Promise!Refuse
<1>1. ask \in Ask /\ ask # None /\ ask' = None /\ world' = world
  BY DecisionOutcome DEF Decide, IInv, TypeOK, Answered, Refused, Return, NoRoute
<1>2. MyKey \in Key /\ Homes[MyKey] = Here /\ Here \in Route \cup {None}
  BY <1>1, HereIsMyHome
<1>3. \A k \in Key \ {MyKey} : Homes'[k] \in {Homes[k], None}
  BY DecisionOutcome, KeptOrForgotten
<1>4. Homes' \in [Key -> Route \cup {None}]
  BY NextHomesType
<1>5. MyAsk # None /\ MyAsk.key = MyKey /\ MyAsk.force = ask.force
  <2>1. MyAsk \in [key : Key, kind : Kind, mid : BOOLEAN, model : Model, force : Named \cup {None}]
    BY <1>1, <1>2 DEF MyAsk, MyMid, Ask
  <2> QED  BY <2>1, NoneAssumption DEF MyAsk
<1>6. ASSUME NEW b, NEW rung, Answered(b, rung) PROVE Promise!Answer
  <2> DEFINE d == [backend |-> b, rung |-> KeptRung(MyReq, b, rung)]
  <2>1. route' = d /\ d \in Routes(world, MyAsk, Here, ask.force)
    BY <1>1, <1>6, SourceIsPromised DEF Answered, Return
  <2>2. Homes'[MyKey] \in {d, None}
    BY <1>2, <1>6, FreshIsHome DEF Answered
  <2>3. \A k \in Key : Homes'[k] \in {[Homes EXCEPT ![MyKey] = route'][k], None}
    BY <1>2, <1>3, <2>1, <2>2 DEF Homes
  <2> HIDE DEF d
  <2> QED  BY <1>1, <1>2, <1>4, <1>5, <2>1, <2>3, AnswerMapped
<1>7. CASE Refused
  <2>1. Refusable(world, MyAsk, Here, ask.force)
    BY <1>1, <1>7, RefusalIsPromised
  <2>2. Homes'[MyKey] \in {Homes[MyKey], None}
    <3>1. CASE affinity'[MyKey] = MyHome
      BY <1>2, <3>1 DEF Homes, Swept, HomeOf, MyHome
    <3>2. CASE MyHome # None /\ Fresh(affinity'[MyKey], MyHome.backend, MyHome.rung)
      BY <1>2, <3>2, FreshIsHome DEF Here, HomeOf
    <3> QED  BY <1>7, <3>1, <3>2 DEF Refused
  <2>3. Forgotten
    BY <1>3, <2>2 DEF Forgotten
  <2>4. route' = None
    BY <1>7 DEF Refused, NoRoute
  <2> QED  BY <1>1, <1>2, <1>4, <1>5, <2>1, <2>3, <2>4, RefuseMapped
<1> QED  BY <1>6, <1>7, DecisionOutcome

LEMMA NextIsPromised ==
    ASSUME IInv, IInv', [Next]_vars
    PROVE  [Promise!Next]_(Promise!vars)
<1> USE DEF Promise!Next
<1>1. Homes' \in [Key -> Route \cup {None}]
  BY NextHomesType
<1>2. CASE Arrive
  <2>1. ask' \in Ask /\ ask' # None
    BY <1>2, ArrivalsAreAsks, NoneAssumption
  <2>2. Homes' = Homes
    BY <1>2 DEF Arrive, Homes, Swept
  <2>3. Asked' \in Promise!Ask
    BY <2>1, SameRequests DEF Asked, MyAsk, Ask, MyKey, MyMid, Me
  <2> QED  BY <1>1, <1>2, <2>2, <2>3, ArriveMapped DEF Arrive, Asked
<1>3. CASE Decide
  BY <1>3, DecideIsPromised
<1>4. ASSUME NEW k \in Key, Forget(k) PROVE Promise!Lapse
  <2>1. \A j \in Key : affinity'[j] \in {affinity[j], None}
    BY <1>4 DEF Forget, IInv, TypeOK
  <2>2. Forgotten
    BY <2>1, KeptOrForgotten DEF Forgotten
  <2> QED  BY <1>1, <1>4, <2>2, LapseMapped DEF Forget, Asked
<1>5. CASE Tick
  <2>1. ASSUME NEW j \in Key PROVE Homes'[j] \in {Homes[j], None}
    <3> DEFINE a == affinity[j]
    <3>1. affinity'[j] = Older(a)
      BY <1>5 DEF Tick
    <3>2. CASE a = None
      BY <3>1, <3>2 DEF Older, Homes, Swept, HomeOf
    <3>3. CASE a # None
      <4>1. a \in Affinity
        BY <3>3 DEF IInv, TypeOK
      <4> HIDE DEF a
      <4>2. /\ Older(a).backend = a.backend /\ Older(a).rung = a.rung
            /\ a.idle >= AffinityTtl => Older(a).idle >= AffinityTtl
        BY <3>3, <4>1 DEF Older, Affinity, Aged
      <4> QED  BY <3>1, <3>3, <4>2 DEF Homes, Swept, HomeOf, a
    <3> QED  BY <3>2, <3>3
  <2> QED  BY <1>1, <1>5, <2>1, LapseMapped DEF Tick, Asked, Forgotten
<1>6. CASE Shift
  <2>1. world' \in World
    BY DEF IInv, TypeOK
  <2>2. Homes' = Homes
    BY <1>6 DEF Shift, Homes, Swept
  <2> QED  BY <1>1, <1>6, <2>1, <2>2, ShiftMapped DEF Shift, Asked
<1>7. CASE UNCHANGED vars
  BY <1>7 DEF vars, Promise!vars, Swept, MyKey, MyMid, Me
<1> QED  BY <1>2, <1>3, <1>4, <1>5, <1>6, <1>7 DEF Next

\* The sticky table implements what the policy promises its callers, whatever
\* the debounces, the TTL and the capacity, and however many conversations share
\* it.
THEOREM Implements == Spec => KeepsPromise
<1>1. Init => Promise!Init
  <2> SUFFICES ASSUME Init PROVE Promise!Init
    OBVIOUS
  <2>1. world \in World
    BY InitInv DEF IInv, TypeOK
  <2>2. \A k \in Key : HomeOf(Swept[k]) = None
    BY DEF Init, Swept, HomeOf
  <2> QED  BY <2>1, <2>2, SamePolicy DEF Init, Promise!Init
<1>2. IInv /\ IInv' /\ [Next]_vars => [Promise!Next]_(Promise!vars)
  BY NextIsPromised
<1> QED  BY <1>1, <1>2, Invariance, PTL DEF Spec, KeepsPromise, Promise!Spec
=============================================================================
