----------------------------- MODULE HomeProofs ------------------------------
(***************************************************************************)
(* What Home guarantees for every number of processes, ports and ticks.    *)
(*                                                                         *)
(* Neither property is inductive.  That one daemon serves rests on what an *)
(* older IronWire finds when it comes (nobody past the probe) and leaves   *)
(* (its own port file, which every probe then sees).  That the home names  *)
(* its daemon rests on who may write what: port, token and pointer change  *)
(* in hands that hold the lock, or to nothing.  That the quota outlives a  *)
(* restart rests on where it is between two daemons: in the file whenever  *)
(* nobody serves, and in memory or in the file while somebody does.        *)
(***************************************************************************)
EXTENDS Home, TLAPS

USE HomeAssumption, NoneIsNoReading

\* The older IronWire has the home to itself.
LegacyAlone ==
    legacy => /\ port = LegacyPort
              /\ \A d \in Daemon : at[d] \in {"down", "probe", "withdraw"}

\* From its publication to its withdrawal the port file is the holder's.
PortIsMine ==
    \A d \in Daemon :
        at[d] \in {"point", "serving", "closing", "flush", "unpoint", "unpublish"}
            => port = PortOf[d]

TokenIsMine ==
    \A d \in Daemon :
        at[d] \in {"restore", "bind", "publish", "point", "serving"} => token[d] = tokenFile

PointerIsMine ==
    \A d \in Daemon :
        /\ at[d] \in {"down"} \cup Starting => d \notin pointed
        /\ at[d] = "serving" /\ d \in pointed => pointer \in {PortOf[d], None}

HeldInv == /\ TypeOK
           /\ \A d \in Daemon : at[d] \notin {"down", "withdraw"} => held = d
           /\ LegacyAlone /\ PortIsMine /\ TokenIsMine /\ PointerIsMine

\* A reading that is the last one taken, or says nothing once that is spent.
Over     == Spent(lastSeen)
Knows(r) == r = lastSeen \/ (r = Unknown /\ Over)

Said == {r \in Reading : r.kind = "unknown" => r = Unknown}

Restored == {"bind", "publish", "point", "serving", "closing", "flush"}
Writing  == {"serving", "closing", "flush"}

\* Where the last reading is: with the daemon that took it, in what that daemon
\* wrote, and in the file as long as nobody serves.
QuotaIsSomewhere ==
    /\ lastSeen \in Said
    /\ \A d \in Daemon :
        /\ at[d] \in Writing /\ written[d] # None => quotaFile = written[d]
        /\ at[d] \in {"bind", "publish", "point"} => written[d] = None
    /\ ~lost =>
        /\ \A d \in Daemon : at[d] \in Restored => Knows(quota[d])
        /\ (\A d \in Daemon : at[d] \notin Writing) => Knows(quotaFile)

IInv == HeldInv /\ QuotaIsSomewhere

-----------------------------------------------------------------------------
(* The home and its files *)

LEMMA InitHolds == Init => HeldInv
<1> SUFFICES ASSUME Init PROVE HeldInv
  OBVIOUS
<1> USE DEF Init
<1>0. Unknown \in Reading
  BY DEF Reading, Unknown
<1>1. TypeOK
  <2>1. /\ at \in [Daemon -> Stage]
        /\ quota \in [Daemon -> Reading]
        /\ written \in [Daemon -> Reading \cup {None}]
        /\ token \in [Daemon -> Daemon \cup {None}]
    BY <1>0 DEF Stage
  <2>2. now \in 0 .. MaxTime
    OBVIOUS
  <2>3. turn \in BOOLEAN /\ legacy \in BOOLEAN /\ lost \in BOOLEAN
    OBVIOUS
  <2>4. /\ held \in Daemon \cup {None} /\ tokenFile \in Daemon \cup {None}
        /\ port \in Port \cup {None} /\ pointer \in Port \cup {None}
        /\ watch \in {"none", "arriving", "open", "told"}
        /\ pointed \subseteq Daemon
        /\ quotaFile \in Reading /\ lastSeen \in Reading
    BY <1>0
  <2> QED  BY <2>1, <2>2, <2>3, <2>4 DEF TypeOK
<1>2. LegacyAlone /\ PortIsMine /\ TokenIsMine /\ PointerIsMine
  BY DEF Init, LegacyAlone, PortIsMine, TokenIsMine, PointerIsMine, Starting
<1> QED  BY <1>1, <1>2 DEF HeldInv

\* Every step in one place where nothing but the stage of the holder, and what
\* only the holder may touch, is at stake.
LEMMA GiveUpHolds ==
    ASSUME HeldInv, NEW d \in Daemon, at[d] \notin {"down", "withdraw"},
           GiveUp(d), UNCHANGED <<files, served, env>>
    PROVE  HeldInv'
<1> USE DEF HeldInv, TypeOK, GiveUp, Forget, files, served, env
<1>1. TypeOK'
  BY DEF Stage, Reading, Unknown
<1>2. (\A e \in Daemon : at[e] \notin {"down", "withdraw"} => held = e)'
  OBVIOUS
<1>3. LegacyAlone' /\ PortIsMine' /\ TokenIsMine' /\ PointerIsMine'
  BY DEF LegacyAlone, PortIsMine, TokenIsMine, PointerIsMine, Starting
<1> QED  BY <1>1, <1>2, <1>3

LEMMA PortsAreTyped == \A d \in Daemon : PortOf[d] \in Port
BY DEF Port

LEMMA ProbeHolds ==
    ASSUME HeldInv, NEW d \in Daemon, Probe(d)
    PROVE  HeldInv'
<1>1. CASE GiveUp(d)
  BY <1>1, GiveUpHolds DEF Probe
<1>2. CASE ~(port # None /\ Healthy(port)) /\ Go(d, "probe", "token") /\ UNCHANGED <<held, memory>>
  <2>1. ~legacy
    BY <1>2 DEF HeldInv, LegacyAlone, Healthy
  <2> QED
    BY <1>2, <2>1 DEF Probe, HeldInv, TypeOK, LegacyAlone, PortIsMine, TokenIsMine, PointerIsMine,
       Go, Stage, Starting, files, memory, served, env
<1> QED  BY <1>1, <1>2 DEF Probe

LEMMA BindHolds ==
    ASSUME HeldInv, NEW d \in Daemon, Bind(d)
    PROVE  HeldInv'
<1>1. CASE GiveUp(d)
  BY <1>1, GiveUpHolds DEF Bind
<1>2. CASE Go(d, "bind", "publish") /\ UNCHANGED <<held, memory>>
  BY <1>2 DEF Bind, HeldInv, TypeOK, LegacyAlone, PortIsMine, TokenIsMine, PointerIsMine,
     Go, Stage, Starting, files, memory, served, env
<1> QED  BY <1>1, <1>2 DEF Bind

LEMMA PublishHolds ==
    ASSUME HeldInv, NEW d \in Daemon, Publish(d)
    PROVE  HeldInv'
<1>1. CASE GiveUp(d) /\ UNCHANGED port
  BY <1>1, GiveUpHolds DEF Publish, files
<1>2. CASE Go(d, "publish", "point") /\ port' = PortOf[d] /\ UNCHANGED <<held, memory>>
  BY <1>2, PortsAreTyped DEF Publish, HeldInv, TypeOK, LegacyAlone, PortIsMine, TokenIsMine, PointerIsMine,
     Go, Stage, Starting, memory, served, env
<1> QED  BY <1>1, <1>2 DEF Publish

LEMMA WriteNowIsTyped ==
    ASSUME TypeOK, NEW d \in Daemon, WriteNow(d)
    PROVE  /\ quotaFile' \in Reading
           /\ written' \in [Daemon -> Reading \cup {None}]
           /\ lost' \in BOOLEAN
<1> USE DEF TypeOK, WriteNow
<1>1. quotaFile' \in Reading
  OBVIOUS
<1>2. written' \in [Daemon -> Reading \cup {None}]
  OBVIOUS
<1>3. lost' \in BOOLEAN
  OBVIOUS
<1> QED  BY <1>1, <1>2, <1>3

LEMMA ForgetIsTyped ==
    ASSUME TypeOK, NEW d \in Daemon, Forget(d)
    PROVE  /\ pointed' \subseteq Daemon
           /\ token' \in [Daemon -> Daemon \cup {None}]
           /\ quota' \in [Daemon -> Reading]
           /\ written' \in [Daemon -> Reading \cup {None}]
BY DEF TypeOK, Forget, Reading, Unknown

LEMMA ReadTokenHolds ==
    ASSUME HeldInv, NEW d \in Daemon, ReadToken(d)
    PROVE  HeldInv'
<1>1. PICK to \in {"restore", "mint"} :
        at[d] = "token" /\ at' = [at EXCEPT ![d] = to] /\ (to = "restore" => tokenFile # None)
  BY DEF ReadToken, Go
<1>2. TypeOK'
  BY <1>1 DEF ReadToken, HeldInv, TypeOK, Stage, Starting, files, served, env
<1> QED
  BY <1>1, <1>2 DEF ReadToken, HeldInv, TypeOK, LegacyAlone, PortIsMine, TokenIsMine, PointerIsMine,
     Starting, files, served, env

\* Starting, in the hands of the lock.
LEMMA StartHolds ==
    ASSUME HeldInv, NEW d \in Daemon, Start(d)
    PROVE  HeldInv'
<1> USE DEF HeldInv, TypeOK, LegacyAlone, PortIsMine, TokenIsMine, PointerIsMine,
           Go, Stage, Starting, Stopping, files, memory, served, env
<1>1. CASE Acquire(d)  BY <1>1 DEF Acquire
<1>2. CASE MintToken(d)  BY <1>2 DEF MintToken
<1>3. CASE Restore(d)
  <2>1. StillTrue(quotaFile) \in Reading
    BY DEF StillTrue, Reading, Unknown
  <2> QED  BY <1>3, <2>1 DEF Restore
<1>4. CASE Point(d)  BY <1>4, PortsAreTyped DEF Point
<1> QED
  BY <1>1, <1>2, <1>3, <1>4, ProbeHolds, ReadTokenHolds, BindHolds, PublishHolds DEF Start

\* The reading that Observe takes is a reading.
LEMMA ServeHolds ==
    ASSUME HeldInv, NEW d \in Daemon, Serve(d)
    PROVE  HeldInv'
<1> USE DEF HeldInv, TypeOK, LegacyAlone, PortIsMine, TokenIsMine, PointerIsMine,
           Go, Stage, Starting, Stopping, files, memory, served, env
<1>1. CASE BeginTurn(d) \/ EndTurn(d) \/ Connect(d) \/ Subscribe(d) \/ Leave(d)
  <2>1. /\ UNCHANGED <<at, held, files, memory, env>>
        /\ turn' \in BOOLEAN /\ watch' \in {"none", "arriving", "open", "told"}
    BY <1>1 DEF BeginTurn, EndTurn, Connect, Subscribe, Leave
  <2> QED  BY <2>1
<1>2. CASE Observe(d)
  <2>1. PICK r : /\ r \in {[kind |-> "observed", at |-> now]}
                         \cup {[kind |-> "exhausted", at |-> now + w] : w \in 1 .. MaxWait}
                 /\ quota' = [quota EXCEPT ![d] = r] /\ lastSeen' = r
    BY <1>2 DEF Observe
  <2>2. r \in Reading
    BY <2>1 DEF Reading
  <2>3. /\ UNCHANGED <<at, held, files, pointed, token, written, served, legacy, now>>
        /\ lost' = FALSE
    BY <1>2 DEF Observe
  <2>4. TypeOK'
    BY <2>1, <2>2, <2>3
  <2> QED  BY <2>3, <2>4
<1>3. CASE WriteQuota(d)
  <2>1. /\ quotaFile' \in Reading
        /\ written' \in [Daemon -> Reading \cup {None}]
        /\ lost' \in BOOLEAN
    BY <1>3, WriteNowIsTyped DEF WriteQuota
  <2> QED  BY <1>3, <2>1 DEF WriteQuota
<1> QED  BY <1>1, <1>2, <1>3 DEF Serve

LEMMA StopHolds ==
    ASSUME HeldInv, NEW d \in Daemon, Shutdown(d) \/ Stop(d)
    PROVE  HeldInv'
<1> USE DEF HeldInv, TypeOK, LegacyAlone, PortIsMine, TokenIsMine, PointerIsMine,
           Go, Stage, Starting, Stopping, files, memory, served, env
<1>1. CASE Shutdown(d)  BY <1>1 DEF Shutdown
<1>2. CASE Drained(d)  BY <1>2 DEF Drained
<1>3. CASE Flush(d)
  <2>1. /\ quotaFile' \in Reading
        /\ written' \in [Daemon -> Reading \cup {None}]
        /\ lost' \in BOOLEAN
    BY <1>3, WriteNowIsTyped DEF Flush
  <2> QED  BY <1>3, <2>1 DEF Flush
<1>4. CASE Unpoint(d)  BY <1>4 DEF Unpoint
<1>5. CASE Unpublish(d)  BY <1>5 DEF Unpublish
<1>6. CASE Release(d)
  <2>1. CASE d \in Cli  BY <1>6, <2>1 DEF Release
  <2>2. CASE d \notin Cli
    <3>1. at[d] = "release" /\ GiveUp(d) /\ UNCHANGED <<files, served, env>>
      BY <1>6, <2>2 DEF Release, GiveUp
    <3> QED  BY <3>1, GiveUpHolds
  <2> QED  BY <2>1, <2>2
<1>7. CASE Withdraw(d)
  <2>1. TypeOK'
    BY <1>7, ForgetIsTyped DEF Withdraw
  <2> QED  BY <1>7, <2>1 DEF Withdraw, Forget
<1> QED  BY <1>1, <1>2, <1>3, <1>4, <1>5, <1>6, <1>7 DEF Stop

LEMMA CrashHolds ==
    ASSUME HeldInv, NEW d \in Daemon, Crash(d)
    PROVE  HeldInv'
<1> USE DEF HeldInv, TypeOK, LegacyAlone, PortIsMine, TokenIsMine, PointerIsMine,
           Go, Stage, Starting, Stopping, files, memory, served, env
<1>1. TypeOK'
  <2>1. at' \in [Daemon -> Stage] /\ held' \in Daemon \cup {None}
    BY DEF Crash
  <2>2. turn' \in BOOLEAN /\ watch' \in {"none", "arriving", "open", "told"}
    BY DEF Crash
  <2>3. lost' \in BOOLEAN
    BY DEF Crash
  <2> QED  BY <2>1, <2>2, <2>3, ForgetIsTyped DEF Crash
<1>2. (\A e \in Daemon : at[e] \notin {"down", "withdraw"} => held = e)'
  BY DEF Crash
<1>3. LegacyAlone' /\ PortIsMine'
  BY DEF Crash
<1>4. TokenIsMine' /\ PointerIsMine'
  BY DEF Crash, Forget
<1> QED  BY <1>1, <1>2, <1>3, <1>4

LEMMA HeldStep == HeldInv /\ [Next]_vars => HeldInv'
<1> SUFFICES ASSUME HeldInv, [Next]_vars PROVE HeldInv'
  OBVIOUS
<1> USE DEF HeldInv, TypeOK, LegacyAlone, PortIsMine, TokenIsMine, PointerIsMine,
           Go, Stage, Starting, Stopping, files, memory, served, env
<1>1. CASE Legacy  BY <1>1, ZenonT(60) DEF Legacy, Port
<1>2. CASE Tick  BY <1>2 DEF Tick
<1>3. CASE UNCHANGED vars  BY <1>3 DEF vars
<1> QED
  BY <1>1, <1>2, <1>3, StartHolds, ServeHolds, StopHolds, CrashHolds DEF Next

\* One daemon serves a home, whoever else starts, stops or dies, and the port
\* file, the token and the pointer name it.  Code: embed/lock.rs, embed.rs.
THEOREM HomeHeldByOne == Spec => []HomeIsHeldByOne
<1>1. HeldInv => HomeIsHeldByOne
  BY DEF HeldInv, LegacyAlone, PortIsMine, TokenIsMine, PointerIsMine,
     HomeIsHeldByOne, OneDaemon, HomeNamesItsDaemon, Serves
<1> QED  BY <1>1, InitHolds, HeldStep, PTL DEF Spec

-----------------------------------------------------------------------------
(* The quota *)

\* What is spent stays spent.
LEMMA OverStays ==
    ASSUME lastSeen' = lastSeen, now' = now \/ now' = now + 1,
           now \in Nat, lastSeen \in Reading, Over
    PROVE  Over'
BY DEF Over, Spent, Reading, Unknown

\* A step that leaves alone what is known and stored, at which nobody begins
\* or ends to serve.
LEMMA QuotaStays ==
    ASSUME QuotaIsSomewhere, Over => Over',
           UNCHANGED <<quota, written, quotaFile, lastSeen, lost>>,
           \A d \in Daemon :
                /\ at'[d] \in Restored => at[d] \in Restored
                /\ at'[d] \in Writing <=> at[d] \in Writing
                /\ at'[d] \in {"bind", "publish", "point"}
                     => at[d] \in {"bind", "publish", "point"}
    PROVE  QuotaIsSomewhere'
<1>1. lastSeen' \in Said
  BY DEF QuotaIsSomewhere
<1>2. (\A d \in Daemon :
        /\ at[d] \in Writing /\ written[d] # None => quotaFile = written[d]
        /\ at[d] \in {"bind", "publish", "point"} => written[d] = None)'
  BY DEF QuotaIsSomewhere, Writing
<1>3. ASSUME ~lost'
      PROVE  /\ \A d \in Daemon : at'[d] \in Restored => Knows(quota[d])'
             /\ (\A d \in Daemon : at'[d] \notin Writing) => Knows(quotaFile)'
  BY <1>3 DEF QuotaIsSomewhere, Knows, Restored, Writing
<1> QED  BY <1>1, <1>2, <1>3 DEF QuotaIsSomewhere

\* The end of a process that was not writing: what it knew is in the file.
LEMMA QuotaForgotten ==
    ASSUME QuotaIsSomewhere, TypeOK, NEW d \in Daemon, Forget(d),
           UNCHANGED <<quotaFile, lastSeen, lost, now>>,
           at[d] \notin Writing, at'[d] \in {"down"},
           \A e \in Daemon \ {d} : at'[e] = at[e]
    PROVE  QuotaIsSomewhere'
<1>1. lastSeen' \in Said /\ (Over => Over')
  BY DEF QuotaIsSomewhere, Over, Spent
<1>2. \A e \in Daemon \ {d} : quota'[e] = quota[e] /\ written'[e] = written[e]
  BY DEF Forget, TypeOK
<1>3. (\A e \in Daemon :
        /\ at[e] \in Writing /\ written[e] # None => quotaFile = written[e]
        /\ at[e] \in {"bind", "publish", "point"} => written[e] = None)'
  BY <1>2 DEF QuotaIsSomewhere, Writing
<1>4. ASSUME ~lost'
      PROVE  /\ \A e \in Daemon : at'[e] \in Restored => Knows(quota[e])'
             /\ (\A e \in Daemon : at'[e] \notin Writing) => Knows(quotaFile)'
  BY <1>1, <1>2, <1>4 DEF QuotaIsSomewhere, Knows, Restored, Writing
<1> QED  BY <1>1, <1>3, <1>4 DEF QuotaIsSomewhere

\* Over a step that leaves the clock and the last reading alone.
LEMMA OverIsKept == ASSUME UNCHANGED <<lastSeen, now>>, Over PROVE Over'
BY DEF Over, Spent

LEMMA InitKnows == Init => QuotaIsSomewhere
<1> SUFFICES ASSUME Init PROVE QuotaIsSomewhere
  OBVIOUS
<1>1. lastSeen \in Said
  BY DEF Init, Said, Reading, Unknown
<1> QED  BY <1>1 DEF Init, QuotaIsSomewhere, Knows, Restored, Writing

\* Whoever starts finds in the file what the last to serve had been told.
LEMMA RestoreKnows ==
    ASSUME IInv, NEW d \in Daemon, Restore(d)
    PROVE  QuotaIsSomewhere'
<1> USE DEF IInv
<1>1. /\ at[d] = "restore" /\ at' = [at EXCEPT ![d] = "bind"]
      /\ quota' = [quota EXCEPT ![d] = StillTrue(quotaFile)]
      /\ written' = [written EXCEPT ![d] = None]
      /\ UNCHANGED <<quotaFile, lastSeen, lost, now>>
  BY DEF Restore, Go, files, env
<1>2. \A e \in Daemon : at[e] \notin Writing
  BY <1>1 DEF HeldInv, Writing
<1>3. Knows(quotaFile) => Knows(StillTrue(quotaFile))
  BY DEF HeldInv, TypeOK, QuotaIsSomewhere, Said, Knows, Over, StillTrue, Spent, Reading, Unknown
<1>4. lastSeen' \in Said /\ (Over => Over')
  BY <1>1, OverIsKept DEF QuotaIsSomewhere
<1>5. (\A e \in Daemon :
        /\ at[e] \in Writing /\ written[e] # None => quotaFile = written[e]
        /\ at[e] \in {"bind", "publish", "point"} => written[e] = None)'
  BY <1>1 DEF QuotaIsSomewhere, Writing, HeldInv, TypeOK
<1>6. ASSUME ~lost'
      PROVE  /\ \A e \in Daemon : at'[e] \in Restored => Knows(quota[e])'
             /\ (\A e \in Daemon : at'[e] \notin Writing) => Knows(quotaFile)'
  BY <1>1, <1>2, <1>3, <1>4, <1>6 DEF QuotaIsSomewhere, Knows, Restored, Writing, HeldInv, TypeOK
<1> QED  BY <1>4, <1>5, <1>6 DEF QuotaIsSomewhere

\* It serves what it restored, and owes the file a first write.
LEMMA PointKnows ==
    ASSUME IInv, NEW d \in Daemon, Point(d)
    PROVE  QuotaIsSomewhere'
<1> USE DEF IInv
<1>1. /\ at[d] = "point" /\ at' = [at EXCEPT ![d] = "serving"]
      /\ UNCHANGED <<quota, written, quotaFile, lastSeen, lost, now>>
  BY DEF Point, Go, env
<1>2. written[d] = None
  BY <1>1 DEF QuotaIsSomewhere
<1>3. lastSeen' \in Said /\ (Over => Over')
  BY <1>1, OverIsKept DEF QuotaIsSomewhere
<1>4. (\A e \in Daemon :
        /\ at[e] \in Writing /\ written[e] # None => quotaFile = written[e]
        /\ at[e] \in {"bind", "publish", "point"} => written[e] = None)'
  BY <1>1, <1>2 DEF QuotaIsSomewhere, Writing, HeldInv, TypeOK
<1>5. ASSUME ~lost'
      PROVE  /\ \A e \in Daemon : at'[e] \in Restored => Knows(quota[e])'
             /\ (\A e \in Daemon : at'[e] \notin Writing) => Knows(quotaFile)'
  BY <1>1, <1>3, <1>5 DEF QuotaIsSomewhere, Knows, Restored, Writing, HeldInv, TypeOK
<1> QED  BY <1>3, <1>4, <1>5 DEF QuotaIsSomewhere

\* A reading is taken by the one daemon that has restored anything.
LEMMA ObserveKnows ==
    ASSUME IInv, NEW d \in Daemon, Observe(d)
    PROVE  QuotaIsSomewhere'
<1> USE DEF IInv
<1>1. PICK r : /\ r \in {[kind |-> "observed", at |-> now]}
                      \cup {[kind |-> "exhausted", at |-> now + w] : w \in 1 .. MaxWait}
               /\ quota' = [quota EXCEPT ![d] = r] /\ lastSeen' = r
  BY DEF Observe
<1>2. r \in Said
  BY <1>1 DEF HeldInv, TypeOK, Said, Reading
<1>3. at[d] \in Writing /\ UNCHANGED <<at, written, quotaFile>>
  BY DEF Observe, Finishes, Writing, files, served
<1>4. \A e \in Daemon : at'[e] \in Restored => e = d
  BY <1>3 DEF HeldInv, Restored, Writing
<1>5. \A e \in Daemon : at'[e] \in Restored => Knows(quota[e])'
  BY <1>1, <1>4 DEF Knows, HeldInv, TypeOK
<1>6. (\A e \in Daemon :
        /\ at[e] \in Writing /\ written[e] # None => quotaFile = written[e]
        /\ at[e] \in {"bind", "publish", "point"} => written[e] = None)'
  BY <1>3 DEF QuotaIsSomewhere, Writing
<1> QED  BY <1>1, <1>2, <1>3, <1>5, <1>6 DEF QuotaIsSomewhere, Writing

\* A write that works, is not needed, or fails where another is still to come.
LEMMA WriteKnows ==
    ASSUME IInv, NEW d \in Daemon, WriteQuota(d)
    PROVE  QuotaIsSomewhere'
<1> USE DEF IInv
<1>1. at[d] \in Writing /\ at[d] # "flush" /\ UNCHANGED <<at, quota, lastSeen, now>>
  BY DEF WriteQuota, Finishes, Writing
<1>2. lastSeen' \in Said /\ (Over => Over')
  BY <1>1, OverIsKept DEF QuotaIsSomewhere
<1>3. lost' = lost
  BY <1>1 DEF WriteQuota, WriteNow, HeldInv, TypeOK
<1>4. \A e \in Daemon : at[e] \in Writing => e = d
  BY <1>1 DEF HeldInv, Writing
<1>5. (\A e \in Daemon :
        /\ at[e] \in Writing /\ written[e] # None => quotaFile = written[e]
        /\ at[e] \in {"bind", "publish", "point"} => written[e] = None)'
  BY <1>1, <1>4 DEF WriteQuota, WriteNow, QuotaIsSomewhere, Writing, HeldInv, TypeOK
<1>6. ASSUME ~lost'
      PROVE  /\ \A e \in Daemon : at'[e] \in Restored => Knows(quota[e])'
             /\ (\A e \in Daemon : at'[e] \notin Writing) => Knows(quotaFile)'
  BY <1>1, <1>2, <1>3, <1>6 DEF QuotaIsSomewhere, Knows, Restored, Writing
<1> QED  BY <1>2, <1>5, <1>6 DEF QuotaIsSomewhere

\* The last write is the one that must not fail.
LEMMA FlushKnows ==
    ASSUME IInv, NEW d \in Daemon, Flush(d)
    PROVE  QuotaIsSomewhere'
<1> USE DEF IInv
<1>1. /\ at[d] = "flush" /\ at' = [at EXCEPT ![d] = "unpoint"]
      /\ UNCHANGED <<quota, lastSeen, now>>
  BY DEF Flush, Go
<1>2. lastSeen' \in Said /\ (Over => Over')
  BY <1>1, OverIsKept DEF QuotaIsSomewhere
<1>3. \A e \in Daemon : at[e] \in Writing \cup Restored => e = d
  BY <1>1 DEF HeldInv, Writing, Restored
<1>4. \A e \in Daemon : at'[e] \notin Writing /\ at'[e] \notin Restored
  BY <1>1, <1>3 DEF Writing, Restored, HeldInv, TypeOK
<1>5. ~lost' => ~lost /\ quotaFile' = quota[d]
  <2>1. quota[d] \in Reading
    BY DEF HeldInv, TypeOK
  <2>2. CASE written[d] = quota[d] /\ UNCHANGED <<quotaFile, written, lost>>
    BY <1>1, <2>1, <2>2 DEF QuotaIsSomewhere, Writing
  <2>3. CASE quotaFile' = quota[d] /\ UNCHANGED lost
    BY <2>3
  <2>4. CASE lost' = (lost \/ at[d] = "flush")
    BY <1>1, <2>4
  <2> QED  BY <2>2, <2>3, <2>4 DEF Flush, WriteNow
<1>6. ~lost => Knows(quota[d])
  BY <1>1 DEF QuotaIsSomewhere, Restored
<1>7. ~lost' => Knows(quotaFile)'
  BY <1>1, <1>2, <1>5, <1>6 DEF Knows
<1>8. (\A e \in Daemon : at[e] \in {"bind", "publish", "point"} => written[e] = None)'
  BY <1>4 DEF Restored
<1> QED  BY <1>2, <1>4, <1>7, <1>8 DEF QuotaIsSomewhere, Writing, Restored

LEMMA CrashKnows ==
    ASSUME IInv, NEW d \in Daemon, Crash(d)
    PROVE  QuotaIsSomewhere'
<1> USE DEF IInv
<1>1. /\ at' = [at EXCEPT ![d] = "down"] /\ Forget(d)
      /\ UNCHANGED <<quotaFile, lastSeen, now>>
      /\ lost' = (lost \/ at[d] \in Writing)
  BY DEF Crash, files, Writing
<1>2. CASE at[d] \notin Writing
  BY <1>1, <1>2, QuotaForgotten DEF HeldInv, TypeOK
<1>3. CASE at[d] \in Writing
  <2>1. lost' /\ lastSeen' \in Said
    BY <1>1, <1>3 DEF QuotaIsSomewhere
  <2>2. \A e \in Daemon : at'[e] \notin Writing /\ at'[e] \notin {"bind", "publish", "point"}
    BY <1>1, <1>3 DEF Writing, HeldInv, TypeOK
  <2> QED  BY <2>1, <2>2 DEF QuotaIsSomewhere, Writing
<1> QED  BY <1>2, <1>3

LEMMA QuotaStep == IInv /\ [Next]_vars => QuotaIsSomewhere'
<1> SUFFICES ASSUME IInv, [Next]_vars PROVE QuotaIsSomewhere'
  OBVIOUS
<1> USE DEF IInv
<1>1. ASSUME NEW d \in Daemon, Start(d) \/ Stop(d), GiveUp(d),
             at[d] \notin Writing, UNCHANGED <<quotaFile, lastSeen, lost, now>>
      PROVE  QuotaIsSomewhere'
  BY <1>1, QuotaForgotten DEF GiveUp, HeldInv, TypeOK
<1>2. ASSUME NEW d \in Daemon, Start(d)
      PROVE  QuotaIsSomewhere'
  <2>1. CASE Acquire(d)
    BY <2>1, QuotaStays, OverIsKept
       DEF Acquire, Go, files, memory, env, HeldInv, TypeOK, Restored, Writing
  <2>2. CASE Probe(d) \/ Bind(d) \/ Publish(d)
    <3>1. CASE GiveUp(d)
      BY <1>1, <1>2, <2>2, <3>1 DEF Probe, Bind, Publish, files, env, Writing
    <3>2. CASE ~GiveUp(d)
      BY <2>2, <3>2, QuotaStays, OverIsKept
         DEF Probe, Bind, Publish, Go, files, memory, env, HeldInv, TypeOK, Restored, Writing
    <3> QED  BY <3>1, <3>2
  <2>3. CASE ReadToken(d)
    BY <2>3, QuotaStays, OverIsKept
       DEF ReadToken, Go, files, env, HeldInv, TypeOK, Restored, Writing
  <2>4. CASE MintToken(d)
    BY <2>4, QuotaStays, OverIsKept
       DEF MintToken, Go, env, HeldInv, TypeOK, Restored, Writing
  <2> QED  BY <1>2, <2>1, <2>2, <2>3, <2>4, RestoreKnows, PointKnows DEF Start
<1>3. ASSUME NEW d \in Daemon, Serve(d)
      PROVE  QuotaIsSomewhere'
  <2>1. CASE BeginTurn(d) \/ EndTurn(d) \/ Connect(d) \/ Subscribe(d) \/ Leave(d)
    <3>1. UNCHANGED <<at, files, memory, env>>
      BY <2>1 DEF BeginTurn, EndTurn, Connect, Subscribe, Leave
    <3> QED  BY <3>1, QuotaStays, OverIsKept DEF files, memory, env
  <2> QED  BY <1>3, <2>1, ObserveKnows, WriteKnows DEF Serve
<1>4. ASSUME NEW d \in Daemon, Shutdown(d) \/ Stop(d)
      PROVE  QuotaIsSomewhere'
  <2>1. CASE Shutdown(d) \/ Drained(d) \/ Unpoint(d) \/ Unpublish(d)
    BY <2>1, QuotaStays, OverIsKept
       DEF Shutdown, Drained, Unpoint, Unpublish, Go, files, memory, env, HeldInv, TypeOK,
           Restored, Writing
  <2>2. CASE Release(d)
    <3>1. CASE d \in Cli
      BY <2>2, <3>1, QuotaStays, OverIsKept
         DEF Release, Go, files, memory, env, HeldInv, TypeOK, Restored, Writing
    <3>2. CASE d \notin Cli
      BY <2>2, <3>2, QuotaForgotten DEF Release, Go, files, env, HeldInv, TypeOK, Writing
    <3> QED  BY <3>1, <3>2
  <2>3. CASE Withdraw(d)
    BY <2>3, QuotaForgotten DEF Withdraw, Go, env, HeldInv, TypeOK, Writing
  <2> QED  BY <1>4, <2>1, <2>2, <2>3, FlushKnows DEF Stop
<1>5. CASE Legacy
  BY <1>5, QuotaStays, OverIsKept DEF Legacy, memory
<1>6. CASE Tick
  <2>1. Over => Over'
    BY <1>6, OverStays DEF Tick, HeldInv, TypeOK
  <2> QED  BY <1>6, <2>1, QuotaStays DEF Tick, files, memory
<1>7. CASE UNCHANGED vars
  BY <1>7, QuotaStays, OverIsKept DEF vars, files, memory, env
<1> QED
  BY <1>2, <1>3, <1>4, <1>5, <1>6, <1>7, CrashKnows DEF Next

\* A restarted daemon knows what the last one was told, until that is over, or
\* unless a death or a failed last write lost it.  Code: quota_store.rs, embed.rs.
THEOREM QuotaOutlives == Spec => []QuotaOutlivesRestart
<1>1. Init => IInv
  BY InitHolds, InitKnows DEF IInv
<1>2. IInv /\ [Next]_vars => IInv'
  BY HeldStep, QuotaStep DEF IInv
<1>3. IInv => QuotaOutlivesRestart
  BY DEF IInv, QuotaIsSomewhere, QuotaOutlivesRestart, Knows, Over, Finishes, Restored
<1> QED  BY <1>1, <1>2, <1>3, PTL DEF Spec
=============================================================================
