------------------------------- MODULE Spool --------------------------------
(***************************************************************************)
(* ironwire_ledger::token_spool::TokenSpool: verbatim request and response *)
(* bodies in files, their metadata and the leases on them in SQLite.       *)
(*                                                                         *)
(* Every call runs under one lock and one IMMEDIATE transaction, so a call *)
(* that touches only the database is one step.  `record` and `prune` also  *)
(* write and remove files, which no transaction undoes: they are a step    *)
(* per file, and the daemon may stop or an I/O error end them in between.  *)
(*                                                                         *)
(* A call reads the clock before it takes the lock, and may wait there for *)
(* a prune: it acts on a time up to MaxLate ticks old.  Time is kept as    *)
(* the age of a capture and the time a lease has left.                     *)
(*                                                                         *)
(* Abstracted: the bytes and their digests (a body is one unit of budget), *)
(* owners and snapshot digests (a call that names the wrong one changes    *)
(* nothing), absence counters, and the store's own opening.  The clock     *)
(* never goes back.                                                        *)
(***************************************************************************)
EXTENDS Integers, FiniteSetsExt

CONSTANTS
    Capture, Lease,   \* the random identities the store will draw
    SessionOf,        \* the session each capture is of
    Budget,           \* `max_bytes`, in bodies
    SessionBudget,    \* 64 MiB at most: the share of one session
    MaxCaptures,      \* 4096
    MaxLeases,        \* 4096
    Retention,        \* `retain_seconds`
    MaxLifetime,      \* 7 days
    Terms,            \* the lease terms clients ask for
    MaxLate,          \* how long a call may wait for the lock
    None

ASSUME SpoolAssumption ==
    /\ Budget \in Nat /\ SessionBudget \in Nat
    /\ MaxCaptures \in Nat /\ MaxLeases \in Nat /\ MaxLate \in Nat
    /\ MaxLifetime \in Nat \ {0}
    /\ Retention \in 1 .. MaxLifetime
    /\ Terms \subseteq 1 .. MaxLifetime

VARIABLES
    rows,     \* capture -> its committed metadata, or None
    leases,   \* lease -> its committed row and members, or None
    files,    \* the body files on disk
    drawn,    \* the identities already used
    op        \* the call that holds the lock between two file operations, or None

spool == <<rows, leases, files, drawn, op>>

Suffix == {"req", "res"}
Body   == Capture \X Suffix
Bodies(c) == {c} \X Suffix

Oldest == MaxLifetime + MaxLate

Row == [age : 0 .. Oldest, deleting : BOOLEAN]

\* `stale` is no column: it tells the leases granted or renewed by a late call
\* on what had lapsed meanwhile.
LeaseRow == [of : SUBSET Capture, left : -MaxLate .. MaxLifetime,
             released : BOOLEAN, stale : BOOLEAN]

Op == [kind : {"record"}, id : Capture, age : 0 .. Oldest]
      \cup [kind : {"prune"}, doomed : SUBSET Capture, lapsed : SUBSET Lease]

ASSUME NoneAssumption == None \notin Row /\ None \notin LeaseRow /\ None \notin Op

SpoolInit ==
    /\ rows = [c \in Capture |-> None]
    /\ leases = [l \in Lease |-> None]
    /\ files = {}
    /\ drawn = {}
    /\ op = None

Rows == {c \in Capture : rows[c] # None}

UnderWay(kind) == op # None /\ op.kind = kind

\* Judged by a clock `late` ticks behind.
Expired(c, late) == rows[c].age - late >= Retention

Live(l, late) ==
    leases[l] # None /\ ~leases[l].released /\ leases[l].left + late > 0

Held(c, late) == \E l \in Lease : Live(l, late) /\ c \in leases[l].of

\* How much of its hard lifetime the oldest of these captures has left.
Ceiling(S, late) == Min({MaxLifetime - (rows[c].age - late) : c \in S})

-----------------------------------------------------------------------------
(* record: both files are synced before the row is committed *)

SameSession(c) == {d \in Rows : SessionOf[d] = SessionOf[c]}

Fits(c) ==
    /\ Cardinality(Rows) < MaxCaptures
    /\ Cardinality(files) + 2 <= Budget
    /\ 2 * Cardinality(SameSession(c)) + 2 <= SessionBudget

RecordBegin(c, late) ==
    /\ op = None
    /\ c \notin drawn
    /\ Fits(c)
    /\ drawn' = drawn \cup {c}
    /\ op' = [kind |-> "record", id |-> c, age |-> late]
    /\ UNCHANGED <<rows, leases, files>>

WriteBody(suffix) ==
    /\ UnderWay("record")
    /\ <<op.id, suffix>> \notin files
    /\ suffix = "res" => <<op.id, "req">> \in files
    /\ files' = files \cup {<<op.id, suffix>>}
    /\ UNCHANGED <<rows, leases, drawn, op>>

\* A write fails: what was written is removed again, as far as that succeeds.
WriteFails ==
    /\ UnderWay("record")
    /\ \E S \in SUBSET Bodies(op.id) : files' = files \ S
    /\ op' = None
    /\ UNCHANGED <<rows, leases, drawn>>

RecordCommit ==
    /\ UnderWay("record")
    /\ Bodies(op.id) \subseteq files
    /\ rows' = [rows EXCEPT ![op.id] = [age |-> op.age, deleting |-> FALSE]]
    /\ op' = None
    /\ UNCHANGED <<leases, files, drawn>>

-----------------------------------------------------------------------------
(* Leases *)

Acquire(l, S, term, late) ==
    /\ op = None
    /\ l \notin drawn
    /\ S # {}
    /\ \A c, d \in S : SessionOf[c] = SessionOf[d]
    /\ Cardinality({k \in Lease : leases[k] # None /\ ~leases[k].released}) < MaxLeases
    /\ \A c \in S : rows[c] # None /\ ~rows[c].deleting /\ ~Expired(c, late)
    /\ LET granted == Min({term, Ceiling(S, late)})
       IN  /\ granted > 0
           /\ leases' = [leases EXCEPT ![l] =
                  [of |-> S, left |-> granted - late, released |-> FALSE,
                   stale |-> \E c \in S : Expired(c, 0)]]
    /\ drawn' = drawn \cup {l}
    /\ UNCHANGED <<rows, files, op>>

\* Mutant: a renewal is not bounded by the lifetime of what it holds.
RenewedAtWill(l, term, late) == Max({leases[l].left + late, term})

\* The capture with the least time left, of those still kept, bounds the lease.
Kept(l) == {c \in leases[l].of : rows[c] # None /\ ~rows[c].deleting}

Renewed(l, term, late) ==
    Min({Max({leases[l].left + late, term}), Ceiling(Kept(l), late)})

Renew(l, term, late) ==
    /\ op = None
    /\ Live(l, late)
    /\ Kept(l) # {}
    /\ Renewed(l, term, late) > 0
    /\ leases' = [leases EXCEPT ![l].left  = Renewed(l, term, late) - late,
                                ![l].stale = @ \/ leases[l].left <= 0]
    /\ UNCHANGED <<rows, files, drawn, op>>

\* Mutant: releasing a lease queues all it held, whoever else holds it.
UnheldRegardless(l, late) == leases[l].of

\* The captures of l that no other live lease holds.
Unheld(l, late) ==
    {c \in leases[l].of : \A k \in Lease \ {l} : ~(Live(k, late) /\ c \in leases[k].of)}

\* Releasing twice, or after the lease lapsed, is the same call.
Release(l, late) ==
    /\ op = None
    /\ leases[l] # None
    /\ leases' = [leases EXCEPT ![l].released = TRUE]
    /\ rows' = [c \in Capture |-> IF c \in Rows \cap Unheld(l, late)
                                  THEN [rows[c] EXCEPT !.deleting = TRUE] ELSE rows[c]]
    /\ UNCHANGED <<files, drawn, op>>

-----------------------------------------------------------------------------
(* prune: after every release, and every five minutes *)

PruneBegin(late) ==
    /\ op = None
    /\ op' = [kind   |-> "prune",
              doomed |-> {c \in Rows : rows[c].deleting \/ (Expired(c, late) /\ ~Held(c, late))},
              lapsed |-> {l \in Lease : leases[l] # None /\ leases[l].left + late <= 0}]
    /\ UNCHANGED <<rows, leases, files, drawn>>

Doomed  == {f \in files : f[1] \in op.doomed}
Orphans == {f \in files : f[1] \notin Rows}

\* Mutant: files without a row are left where they are.
SweepableOfRows == Doomed

\* Files of captures that go, then files no row knows of.
Sweepable == IF Doomed # {} THEN Doomed ELSE Orphans

RemoveBody ==
    /\ UnderWay("prune")
    /\ \E f \in Sweepable : files' = files \ {f}
    /\ UNCHANGED <<rows, leases, drawn, op>>

PruneCommit ==
    /\ UnderWay("prune")
    /\ Sweepable = {}
    /\ rows' = [c \in Capture |-> IF c \in op.doomed THEN None ELSE rows[c]]
    /\ leases' = [l \in Lease |-> IF l \in op.lapsed THEN None ELSE leases[l]]
    /\ op' = None
    /\ UNCHANGED <<files, drawn>>

-----------------------------------------------------------------------------
(* The daemon dies, or an error ends the call: its transaction is rolled   *)
(* back, its work on the files is not.                                     *)

Stop ==
    /\ op # None
    /\ op' = None
    /\ UNCHANGED <<rows, leases, files, drawn>>

Older(age) == IF age < Oldest THEN age + 1 ELSE age
Less(left) == IF left > -MaxLate THEN left - 1 ELSE left

Tick ==
    /\ rows' = [c \in Capture |-> IF rows[c] = None THEN None
                                  ELSE [rows[c] EXCEPT !.age = Older(@)]]
    /\ leases' = [l \in Lease |-> IF leases[l] = None THEN None
                                  ELSE [leases[l] EXCEPT !.left = Less(@)]]
    /\ op' = IF UnderWay("record") THEN [op EXCEPT !.age = Older(@)] ELSE op
    /\ UNCHANGED <<files, drawn>>

SpoolNext ==
    \/ \E late \in 0 .. MaxLate :
          \/ \E c \in Capture : RecordBegin(c, late)
          \/ \E l \in Lease, S \in SUBSET Capture, term \in Terms : Acquire(l, S, term, late)
          \/ \E l \in Lease, term \in Terms : Renew(l, term, late)
          \/ \E l \in Lease : Release(l, late)
          \/ PruneBegin(late)
    \/ \E suffix \in Suffix : WriteBody(suffix)
    \/ WriteFails \/ RecordCommit
    \/ RemoveBody \/ PruneCommit
    \/ Stop \/ Tick

SpoolSpec == SpoolInit /\ [][SpoolNext]_spool

\* The cleanup comes round, what it starts is not interrupted for ever, and a
\* call that holds the lock lets go of it.
FairSpec ==
    /\ SpoolSpec
    /\ WF_spool(Tick)
    /\ SF_spool(PruneBegin(0))
    /\ SF_spool(RemoveBody)
    /\ SF_spool(PruneCommit)
    /\ WF_spool(\E suffix \in Suffix : WriteBody(suffix))
    /\ WF_spool(RecordCommit)

-----------------------------------------------------------------------------
(* Properties *)

TypeOK ==
    /\ rows \in [Capture -> Row \cup {None}]
    /\ leases \in [Lease -> LeaseRow \cup {None}]
    /\ files \in SUBSET Body
    /\ drawn \in SUBSET (Capture \cup Lease)
    /\ op \in Op \cup {None}

Readable(c) == rows[c] # None /\ ~rows[c].deleting /\ Bodies(c) \subseteq files

\* A lease granted and renewed in time pins its whole snapshot: until it lapses
\* or is released, each capture of it can be read, whatever is recorded, pruned
\* or released next to it and wherever the daemon stopped.  And "hard maximum
\* retention, including renewed leases" (MAX_LIFETIME_SECONDS): no lease outlives
\* the hard lifetime of any capture it still holds.
LeasePinsSnapshot ==
    \A l \in Lease : Live(l, 0) =>
        /\ ~leases[l].stale => \A c \in leases[l].of : Readable(c)
        /\ \A c \in Kept(l) : leases[l].left + rows[c].age <= MaxLifetime

\* No body stays on disk for ever: not one that a lease is renewed on, nor one a
\* crash left without a row.
NothingKeptForEver ==
    \A f \in Body : f \in files ~> f \notin files
=============================================================================
