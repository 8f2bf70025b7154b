-------------------------------- MODULE Home --------------------------------
(***************************************************************************)
(* The life of the daemons of one home directory: ironwire_proxy::embed,   *)
(* its lock, the discovery pointer, the control token, the stored quota    *)
(* and the graceful shutdown.                                              *)
(*                                                                         *)
(* Several processes may try to own the home; each may die at any step.    *)
(* The kernel lock goes with the process, the files stay.  An older        *)
(* IronWire knows no lock: it publishes a port file and answers health     *)
(* probes.  Every call that touches a file, the lock or the listener is a  *)
(* step of its own.                                                        *)
(*                                                                         *)
(* Assumed: the home is the conventional one, so that the pointer the      *)
(* command line publishes is the home's own; the clock does not go back;   *)
(* an older IronWire starts and stops while no other process is starting.  *)
(* Abstracted: configuration, ledger, catalogue and background tasks other *)
(* than the quota writer; one backend stands for all.                      *)
(***************************************************************************)
EXTENDS Integers

CONSTANTS
    Daemon,       \* the processes that serve this home
    PortOf,       \* the port each asks for
    Cli,          \* those started by `ironwire serve`
    LegacyPort,   \* the port of an older IronWire
    MaxTime,      \* the clock's bound
    MaxAge,       \* QUOTA_MAX_AGE
    MaxWait,      \* the longest wait a backend asks for
    None

ASSUME HomeAssumption ==
    /\ MaxTime \in Nat /\ MaxAge \in Nat /\ MaxWait \in Nat \ {0}
    /\ Cli \subseteq Daemon
    /\ None \notin Daemon /\ \A d \in Daemon : PortOf[d] # None
    /\ LegacyPort # None

VARIABLES
    at,          \* daemon -> how far its start, its service or its end has come
    held,        \* the process that holds the kernel lock on lock.guard, or None
    port,        \* the port file
    pointer,     \* endpoint.json: the port it names
    pointed,     \* the daemons whose pointer was published
    tokenFile,   \* control-token
    token,       \* daemon -> the token it serves under
    quota,       \* daemon -> what it knows of the backend's quota
    written,     \* daemon -> what its quota writer wrote last
    quotaFile,   \* quota.json
    turn,        \* a model request is in flight
    watch,       \* the one client of /_ironwire/events
    legacy,      \* an older IronWire serves this home
    now,
    lastSeen,    \* the last reading any daemon took, and whether it was lost
    lost

files  == <<port, pointer, tokenFile, quotaFile>>
memory == <<pointed, token, quota, written>>
served == <<turn, watch>>
env    == <<legacy, now, lastSeen, lost>>
vars   == <<at, held, files, memory, served, env>>

\* In the order of `start_with_options`, of the supervising task, and of the
\* command line behind it.
Starting == {"probe", "token", "mint", "restore", "bind", "publish", "point"}
Stopping == {"flush", "unpoint", "unpublish", "release"}
Stage    == {"down", "serving", "closing", "withdraw"} \cup Starting \cup Stopping

Reading == [kind : {"unknown", "exhausted", "observed"}, at : 0 .. MaxTime + MaxWait]
Unknown == [kind |-> "unknown", at |-> 0]

ASSUME NoneIsNoReading == None \notin Reading

Init ==
    /\ at = [d \in Daemon |-> "down"]
    /\ held = None
    /\ port = None /\ pointer = None /\ tokenFile = None /\ quotaFile = Unknown
    /\ pointed = {}
    /\ token = [d \in Daemon |-> None]
    /\ quota = [d \in Daemon |-> Unknown]
    /\ written = [d \in Daemon |-> None]
    /\ turn = FALSE /\ watch = "none"
    /\ legacy = FALSE
    /\ now = 0
    /\ lastSeen = Unknown /\ lost = FALSE

Bound(p) == \/ legacy /\ p = LegacyPort
            \/ \E d \in Daemon : at[d] \in {"publish", "point", "serving"} /\ PortOf[d] = p

\* A listener that is bound answers once its router runs.
Healthy(p) == \/ legacy /\ p = LegacyPort
              \/ \E d \in Daemon : at[d] = "serving" /\ PortOf[d] = p

Go(d, from, to) == at[d] = from /\ at' = [at EXCEPT ![d] = to]

-----------------------------------------------------------------------------
(* Starting *)

\* Mutant: the port file alone says whether the home is taken.
AcquireUnlocked(d) ==
    /\ Go(d, "down", "probe")
    /\ held' = IF held = None THEN d ELSE held
    /\ UNCHANGED <<files, memory, served, env>>

\* `lock::acquire`: the kernel lock first ...
Acquire(d) ==
    /\ Go(d, "down", "probe")
    /\ held = None
    /\ held' = d
    /\ UNCHANGED <<files, memory, served, env>>

\* What a process knew goes with it.
Forget(d) ==
    /\ pointed' = pointed \ {d}
    /\ token' = [token EXCEPT ![d] = None]
    /\ quota' = [quota EXCEPT ![d] = Unknown]
    /\ written' = [written EXCEPT ![d] = None]

\* A start that fails lets go of the lock, and leaves every file as it is.
GiveUp(d) ==
    /\ at' = [at EXCEPT ![d] = "down"]
    /\ held' = None
    /\ Forget(d)

\* ... then the port file, for an IronWire that knows no lock.
Probe(d) ==
    /\ at[d] = "probe"
    /\ \/ port # None /\ Healthy(port) /\ GiveUp(d)
       \/ ~(port # None /\ Healthy(port)) /\ Go(d, "probe", "token") /\ UNCHANGED <<held, memory>>
    /\ UNCHANGED <<files, served, env>>

\* `control_token`: the one on disk, or a new one.
ReadToken(d) ==
    /\ \/ tokenFile # None /\ Go(d, "token", "restore")
       \/ tokenFile = None /\ Go(d, "token", "mint")
    /\ token' = [token EXCEPT ![d] = tokenFile]
    /\ UNCHANGED <<held, files, pointed, quota, written, served, env>>

MintToken(d) ==
    /\ Go(d, "mint", "restore")
    /\ token' = [token EXCEPT ![d] = d]
    /\ tokenFile' = d
    /\ UNCHANGED <<held, port, pointer, quotaFile, pointed, quota, written, served, env>>

\* Mutant: a restart keeps only what is spent.
StillSpent(r) == IF r.kind = "exhausted" /\ r.at > now THEN r ELSE Unknown

\* `still_true`: a wait that is over, and a reading too old, are forgotten.
StillTrue(r) ==
    IF \/ r.kind = "exhausted" /\ r.at > now
       \/ r.kind = "observed" /\ now - r.at <= MaxAge
    THEN r ELSE Unknown

Restore(d) ==
    /\ Go(d, "restore", "bind")
    /\ quota' = [quota EXCEPT ![d] = StillTrue(quotaFile)]
    /\ written' = [written EXCEPT ![d] = None]
    /\ UNCHANGED <<held, files, pointed, token, served, env>>

Bind(d) ==
    /\ at[d] = "bind"
    /\ \/ ~Bound(PortOf[d]) /\ Go(d, "bind", "publish") /\ UNCHANGED <<held, memory>>
       \/ Bound(PortOf[d]) /\ GiveUp(d)
    /\ UNCHANGED <<files, served, env>>

\* `Guard::publish`: the same file, rewritten in place; or the start fails.
Publish(d) ==
    /\ at[d] = "publish"
    /\ \/ Go(d, "publish", "point") /\ port' = PortOf[d] /\ UNCHANGED <<held, memory>>
       \/ GiveUp(d) /\ UNCHANGED port
    /\ UNCHANGED <<pointer, tokenFile, quotaFile, served, env>>

\* The discovery pointer.  A start goes on without one.
Point(d) ==
    /\ Go(d, "point", "serving")
    /\ \/ pointer' = PortOf[d] /\ pointed' = pointed \cup {d}
       \/ UNCHANGED <<pointer, pointed>>
    /\ UNCHANGED <<held, port, tokenFile, quotaFile, token, quota, written, served, env>>

-----------------------------------------------------------------------------
(* Serving *)

Serves(d)   == at[d] = "serving"
Finishes(d) == at[d] \in {"serving", "closing"}

BeginTurn(d) ==
    /\ Serves(d) /\ ~turn /\ turn' = TRUE
    /\ UNCHANGED <<at, held, files, memory, watch, env>>

\* No timeout truncates a model's reply: the server waits for it.
EndTurn(d) ==
    /\ Finishes(d) /\ turn /\ turn' = FALSE
    /\ UNCHANGED <<at, held, files, memory, watch, env>>

\* A client of the event stream connects; its handler runs later, maybe after
\* the shutdown was announced.
Connect(d) ==
    /\ Serves(d) /\ watch = "none" /\ watch' = "arriving"
    /\ UNCHANGED <<at, held, files, memory, turn, env>>

\* Mutant: a handler that runs after the announcement waits for the next one.
SubscribeLate(d) ==
    /\ Finishes(d) /\ watch = "arriving" /\ watch' = "open"
    /\ UNCHANGED <<at, held, files, memory, turn, env>>

\* `Shutdown::begins` looks before it waits.
Subscribe(d) ==
    /\ Finishes(d) /\ watch = "arriving"
    /\ watch' = IF at[d] = "closing" THEN "told" ELSE "open"
    /\ UNCHANGED <<at, held, files, memory, turn, env>>

\* The stream says ": closing" and ends.
Leave(d) ==
    /\ Finishes(d) /\ watch = "told" /\ watch' = "none"
    /\ UNCHANGED <<at, held, files, memory, turn, env>>

\* A reply says what is left of the quota.
Observe(d) ==
    /\ Finishes(d) /\ turn
    /\ \E r \in {[kind |-> "observed", at |-> now]}
                 \cup {[kind |-> "exhausted", at |-> now + w] : w \in 1 .. MaxWait} :
          /\ quota' = [quota EXCEPT ![d] = r]
          /\ lastSeen' = r
    /\ lost' = FALSE
    /\ UNCHANGED <<at, held, files, pointed, token, written, served, legacy, now>>

\* Mutant: a write that failed counts as done.
WriteOnce(d) ==
    \/ /\ written[d] = quota[d]
       /\ UNCHANGED <<quotaFile, written, lost>>
    \/ /\ written[d] # quota[d]
       /\ quotaFile' \in {quota[d], quotaFile}
       /\ written' = [written EXCEPT ![d] = quota[d]]
       /\ UNCHANGED lost

\* `QuotaWriter::write_now`: what was written last is not written again, and
\* what could not be written is tried again.
WriteNow(d) ==
    \/ /\ written[d] = quota[d]
       /\ UNCHANGED <<quotaFile, written, lost>>
    \/ /\ written[d] # quota[d]
       /\ quotaFile' = quota[d]
       /\ written' = [written EXCEPT ![d] = quota[d]]
       /\ UNCHANGED lost
    \/ /\ written[d] # quota[d]
       /\ lost' = (lost \/ at[d] = "flush")
       /\ UNCHANGED <<quotaFile, written>>

WriteQuota(d) ==
    /\ Finishes(d)
    /\ WriteNow(d)
    /\ UNCHANGED <<at, held, port, pointer, tokenFile, pointed, token, quota, served,
                   legacy, now, lastSeen>>

-----------------------------------------------------------------------------
(* Stopping *)

\* The shutdown is announced: no more requests, and whoever watches is told.
Shutdown(d) ==
    /\ Go(d, "serving", "closing")
    /\ watch' = IF watch = "open" THEN "told" ELSE watch
    /\ UNCHANGED <<held, files, memory, turn, env>>

\* The server has drained, and the background tasks are stopped.
Drained(d) ==
    /\ Go(d, "closing", "flush")
    /\ ~turn /\ watch = "none"
    /\ UNCHANGED <<held, files, memory, served, env>>

Flush(d) ==
    /\ Go(d, "flush", "unpoint")
    /\ WriteNow(d)
    /\ UNCHANGED <<held, port, pointer, tokenFile, pointed, token, quota, served,
                   legacy, now, lastSeen>>

\* Mutant: the lock goes first.
UnlockFirst(d) ==
    /\ held' = IF at[d] = "unpoint" THEN None ELSE held
    /\ Go(d, "unpoint", "unpublish")
    /\ pointer' = IF d \in pointed /\ pointer = PortOf[d] THEN None ELSE pointer
    /\ UNCHANGED <<port, tokenFile, quotaFile, memory, served, env>>

\* `OwnedPointer`: removed if it still says what this daemon published.
Unpoint(d) ==
    /\ Go(d, "unpoint", "unpublish")
    /\ pointer' = IF d \in pointed /\ pointer = PortOf[d] THEN None ELSE pointer
    /\ UNCHANGED <<held, port, tokenFile, quotaFile, memory, served, env>>

\* `Guard::drop`: the port file, and only then the lock.
Unpublish(d) ==
    /\ Go(d, "unpublish", "release")
    /\ port' = IF port = PortOf[d] THEN None ELSE port
    /\ UNCHANGED <<held, pointer, tokenFile, quotaFile, memory, served, env>>

Release(d) ==
    /\ held' = None
    /\ \/ d \in Cli /\ Go(d, "release", "withdraw") /\ UNCHANGED memory
       \/ d \notin Cli /\ Go(d, "release", "down") /\ Forget(d)
    /\ UNCHANGED <<files, served, env>>

\* `ironwire serve` looks at the pointer once more, with the home let go.
Withdraw(d) ==
    /\ Go(d, "withdraw", "down")
    /\ pointer' = IF d \in pointed /\ pointer = PortOf[d] THEN None ELSE pointer
    /\ Forget(d)
    /\ UNCHANGED <<held, port, tokenFile, quotaFile, served, env>>

\* The process dies: the kernel closes what it had open.
Crash(d) ==
    /\ at[d] # "down"
    /\ at' = [at EXCEPT ![d] = "down"]
    /\ held' = IF held = d THEN None ELSE held
    /\ Forget(d)
    /\ IF Finishes(d) THEN turn' = FALSE /\ watch' = "none" ELSE UNCHANGED served
    /\ lost' = (lost \/ at[d] \in {"serving", "closing", "flush"})
    /\ UNCHANGED <<files, legacy, now, lastSeen>>

\* An older IronWire comes and goes; it takes its port file with it, or dies.
Legacy ==
    /\ held = None
    /\ \/ /\ ~legacy /\ ~Bound(LegacyPort)
          /\ legacy' = TRUE /\ port' = LegacyPort
       \/ /\ legacy
          /\ legacy' = FALSE /\ port' \in {port, None}
    /\ UNCHANGED <<at, held, pointer, tokenFile, quotaFile, memory, served, now, lastSeen, lost>>

Tick ==
    /\ now < MaxTime
    /\ now' = now + 1
    /\ UNCHANGED <<at, held, files, memory, served, legacy, lastSeen, lost>>

-----------------------------------------------------------------------------
Start(d) == Acquire(d) \/ Probe(d) \/ ReadToken(d) \/ MintToken(d) \/ Restore(d)
            \/ Bind(d) \/ Publish(d) \/ Point(d)
Serve(d) == BeginTurn(d) \/ EndTurn(d) \/ Connect(d) \/ Subscribe(d) \/ Leave(d)
            \/ Observe(d) \/ WriteQuota(d)
Stop(d)  == Drained(d) \/ Flush(d) \/ Unpoint(d) \/ Unpublish(d) \/ Release(d) \/ Withdraw(d)

Next ==
    \/ \E d \in Daemon : Start(d) \/ Serve(d) \/ Shutdown(d) \/ Stop(d) \/ Crash(d)
    \/ Legacy
    \/ Tick

\* Replies end, handlers run, and the supervisor goes on.  Nothing makes a
\* process start, nor anybody stop it.
Spec ==
    /\ Init /\ [][Next]_vars
    /\ \A d \in Daemon :
        /\ WF_vars(EndTurn(d)) /\ WF_vars(Subscribe(d)) /\ WF_vars(Leave(d))
        /\ WF_vars(Stop(d))

-----------------------------------------------------------------------------
(* What must hold *)

Port == {PortOf[d] : d \in Daemon} \cup {LegacyPort}

\* Every variable has its type.
TypeOK ==
    /\ at \in [Daemon -> Stage]
    /\ held \in Daemon \cup {None}
    /\ port \in Port \cup {None} /\ pointer \in Port \cup {None}
    /\ pointed \subseteq Daemon
    /\ tokenFile \in Daemon \cup {None}
    /\ token \in [Daemon -> Daemon \cup {None}]
    /\ quota \in [Daemon -> Reading]
    /\ written \in [Daemon -> Reading \cup {None}]
    /\ quotaFile \in Reading /\ lastSeen \in Reading
    /\ turn \in BOOLEAN /\ legacy \in BOOLEAN /\ lost \in BOOLEAN
    /\ watch \in {"none", "arriving", "open", "told"}
    /\ now \in 0 .. MaxTime

\* One daemon at a time is between its lock and its release, an older one
\* counted, however starts, ends and deaths interleave.
OneDaemon ==
    /\ \A d \in Daemon : at[d] \notin {"down", "withdraw"} => held = d
    /\ legacy => \A d \in Daemon : at[d] \notin {"publish", "point", "serving", "closing"}

\* While a daemon serves, what the home says of it is true: the port file
\* names it, the token on disk is the one it asks for, and its pointer, where
\* it has one and nobody took it down, leads to it.
HomeNamesItsDaemon ==
    \A d \in Daemon : Serves(d) =>
        /\ port = PortOf[d]
        /\ token[d] = tokenFile
        /\ d \in pointed => pointer \in {PortOf[d], None}

\* A home has one daemon and says so truly.  Code: embed/lock.rs, embed.rs.
HomeIsHeldByOne == OneDaemon /\ HomeNamesItsDaemon

\* A reading that is over or too old, and so need not be remembered.
Spent(r) == \/ r = Unknown
            \/ r.kind = "exhausted" /\ r.at <= now
            \/ r.kind = "observed" /\ now > r.at + MaxAge

\* What was last known of a backend's quota is known again after a restart,
\* until it is over or too old, unless the process died or the last write
\* failed.
QuotaOutlivesRestart ==
    \A d \in Daemon : Finishes(d) /\ ~lost =>
        quota[d] = lastSeen \/ (quota[d] = Unknown /\ Spent(lastSeen))

\* A daemon that is told to stop lets go of its home: the streams held open by
\* design end themselves, whenever they were opened.
LetsGo == \A d \in Daemon : at[d] = "closing" ~> held # d
=============================================================================
