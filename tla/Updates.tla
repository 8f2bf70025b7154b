------------------------------ MODULE Updates -------------------------------
(***************************************************************************)
(* The two channels of docs/UPDATES.md.  The catalogue: signed documents   *)
(* that a running daemon fetches and caches (ironwire_catalog,             *)
(* embed/catalog.rs), that a start and every command read from the cache   *)
(* (CatalogStore::load), and that describe tools to be pointed at IronWire *)
(* (ironwire_agents::catalog, commands/connect.rs).  And the notice of a   *)
(* newer release (ironwire_update, embed/updates.rs).                      *)
(*                                                                         *)
(* The binary is replaced under a running daemon, by a newer or an older   *)
(* one; what answers a fetch may be any document that was ever signed.     *)
(*                                                                         *)
(* Assumed: the signing key verifies something (today's is a placeholder), *)
(* `updates.check` is on, and a publisher stamps a document with the       *)
(* schema its fields need, as schema.rs asks.  Abstracted: the other       *)
(* constants than the beta flag and one marker, whether a tool is          *)
(* installed, several tools, the port, a user who edits while a command    *)
(* runs (module Agents), and `ironwire update`, which checks by            *)
(* itself when the daemon knows nothing.                                   *)
(***************************************************************************)
EXTENDS Naturals

CONSTANTS
    Documents,    \* what may be signed: [serial, schema, flag, marker, agent]
    BuiltIn,      \* Catalog::default: what a binary knows, at serial 0
    Builds,       \* versions of the binary, 1 is the oldest
    SchemaOf,     \* build -> its SCHEMA_VERSION
    MaxSlips,     \* reads and writes of the cache that fail, at most
    MaxDate,      \* the clock's bound, in days
    Broken,       \* a cache that cannot be read or does not verify
    Nil           \* nothing: no document, no entry

Interval == 1     \* CHECK_INTERVAL
Keys == {"inner", "outer"}   \* `inner` lies in the block of a provider

\* An entry is a set of settings: the key, how the address is spelt, and whether
\* the provider's block is required.
Setting == [key : Keys, style : {"origin", "versioned"}, needs : BOOLEAN]

ASSUME UpdatesAssumption ==
    /\ {Nil, Broken} \cap Documents = {} /\ Nil \notin Builds /\ 1 \in Builds
    /\ Nil \notin [at : Nat, status : {"upToDate", "available"}]
    /\ BuiltIn \notin Documents /\ BuiltIn.serial = 0 /\ BuiltIn.agent = Nil
    /\ SchemaOf \in [Builds -> Nat]
    /\ \A d \in Documents :
          /\ d.serial \in Nat /\ d.schema \in Nat
          /\ d.agent = Nil \/ d.agent \subseteq Setting
          /\ d.agent # Nil => \A s \in d.agent :
                d.schema >= IF s.needs THEN 3 ELSE IF s.style = "versioned" THEN 2 ELSE 1
    /\ {MaxSlips, MaxDate} \subseteq Nat

VARIABLES
    signed,     \* the documents published so far
    latest,     \* the latest release
    build,      \* the binary that is installed
    runs,       \* the build the daemon is of, or Nil
    inForce,    \* AppState::catalog
    cache,      \* catalog.json: a document, Broken, or Nil if there is none
    blind,      \* the daemon could not use the cache it found
    unsaved,    \* a document in force could not be cached
    tool,       \* the tool's file: key -> "empty", "theirs" or our address; and
    block,      \*   whether the user has the provider in it
    request,    \* the daemon's last request to Anthropic: what it was sent with, and what was in force
    date,
    checked,    \* update.json: [at, status], or Nil
    due,        \* a check is on its way
    shown,      \* AppState::update
    asked,      \* when a check last went out, and whether its answer was kept
    slips

daemon == <<runs, inForce, blind, unsaved, due, shown>>
disk == <<cache, checked>>
file == <<tool, block>>
outside == <<signed, latest, build, date>>
updates == <<daemon, disk, file, outside, request, asked, slips>>

Up == runs # Nil

UpdatesInit ==
    /\ signed = {} /\ latest = 1 /\ build = 1 /\ date = 0
    /\ runs = Nil /\ inForce = BuiltIn /\ blind = FALSE /\ unsaved = FALSE
    /\ due = FALSE /\ shown = "unknown"
    /\ cache = Nil /\ checked = Nil
    /\ tool \in [Keys -> {"empty", "theirs"}] /\ block \in BOOLEAN
    /\ request = Nil /\ asked = Nil /\ slips = 0

-----------------------------------------------------------------------------
(* The documents *)

\* Mutant: what can be parsed is applied.
VerifiesAnySchema(b, d) == d \in signed

\* SignedCatalog::verify: the signature, and only then the schema.
Verifies(b, d) == d \in signed /\ d.schema <= SchemaOf[b]

\* CatalogStore::apply: never at or below what is installed.
Newer(d, current) == d.serial > current.serial \/ current.serial = 0

\* CatalogStore::load: the cache, or what the binary shipped with.
Load(b) == IF cache \in Documents /\ Verifies(b, cache) THEN cache ELSE BuiltIn

\* The publisher signs a newer one.
Sign(d) ==
    /\ \A e \in signed : e.serial < d.serial
    /\ signed' = signed \cup {d}
    /\ UNCHANGED <<daemon, disk, file, latest, build, date, request, asked, slips>>

\* fetch_and_apply: whatever the pinned address answers with.  Applied to a copy,
\* cached once it verified, and put in force whether or not it could be.
Refresh(d) ==
    /\ Up /\ Verifies(runs, d) /\ Newer(d, inForce)
    /\ inForce' = d
    /\ \/ cache' = d /\ unsaved' = FALSE /\ UNCHANGED slips
       \/ /\ slips < MaxSlips /\ slips' = slips + 1
          /\ unsaved' = TRUE /\ UNCHANGED cache
    /\ UNCHANGED <<runs, blind, due, shown, checked, file, outside, request, asked>>

\* Someone else's hand on the cache.
Spoil ==
    /\ slips < MaxSlips /\ slips' = slips + 1
    /\ cache' = Broken
    /\ UNCHANGED <<daemon, checked, file, outside, request, asked>>

\* The constants a request of the login is sent with are a field of the adapter,
\* which with_catalog would set: no caller does.
FlagSent == BuiltIn.flag

\* How the client is known is read off the catalogue (identity_markers).
SendRequest ==
    /\ Up
    /\ request' = [flag |-> FlagSent, marker |-> inForce.marker,
                   fixed |-> inForce.flag]
    /\ UNCHANGED <<daemon, disk, file, outside, asked, slips>>

-----------------------------------------------------------------------------
(* A tool the catalogue describes *)

\* What a build makes of an entry.  Fields it does not know are tolerated.
Understood(b, s) ==
    [s EXCEPT !.needs = @ /\ SchemaOf[b] >= 3,
              !.style = IF SchemaOf[b] >= 2 THEN @ ELSE "origin"]
Entry(b, d) == IF d.agent = Nil THEN {} ELSE {Understood(b, s) : s \in d.agent}

Ours == {"origin", "versioned"}

\* json_present: the user's block, or one that a key of ours made.
Present == block \/ tool["inner"] # "empty"

\* applies_here, and the slots: an empty one is filled, ours follows the entry,
\* any other is left alone.
Asks(e, k) == {s \in e : s.key = k /\ (s.needs => Present) /\ tool[k] # "theirs"}
Wire(e) ==
    tool' = [k \in Keys |-> IF Asks(e, k) = {} THEN tool[k]
                            ELSE (CHOOSE s \in Asks(e, k) : TRUE).style]

\* disconnect is not gated on what connect required.
Unwire(e) ==
    tool' = [k \in Keys |-> IF tool[k] \in Ours /\ \E s \in e : s.key = k
                            THEN "empty" ELSE tool[k]]

\* A command reads the cache, by the binary installed now; the daemon's control
\* API goes by what it has in force.
Readers == {<<build, Load(build)>>} \cup IF Up THEN {<<runs, inForce>>} ELSE {}

ConnectTool ==
    /\ \E r \in Readers : Wire(Entry(r[1], r[2]))
    /\ UNCHANGED <<daemon, disk, block, outside, request, asked, slips>>
DisconnectTool ==
    /\ \E r \in Readers : Unwire(Entry(r[1], r[2]))
    /\ UNCHANGED <<daemon, disk, block, outside, request, asked, slips>>

\* The user takes up the provider, or drops its block and all that is in it.
UserEdit ==
    /\ block' = ~block
    /\ tool' = [tool EXCEPT !["inner"] = IF block THEN "empty" ELSE @]
    /\ UNCHANGED <<daemon, disk, outside, request, asked, slips>>

-----------------------------------------------------------------------------
(* Releases, and the daemon's life *)

\* evaluate
Evaluate(b) == IF b >= latest THEN "upToDate" ELSE "available"

\* should_check
IsDue == checked = Nil \/ date - checked.at >= Interval

NewRelease ==
    /\ latest + 1 \in Builds /\ latest' = latest + 1
    /\ UNCHANGED <<daemon, disk, file, signed, build, date, request, asked, slips>>

\* The user, or a package manager, replaces the binary.  A running daemon goes on.
Upgrade(b) ==
    /\ b \in 1 .. latest /\ b # build /\ build' = b
    /\ UNCHANGED <<daemon, disk, file, signed, latest, date, request, asked, slips>>

\* A start reads the two caches; what was concluded last is shown at once.
Boot(loaded) ==
    /\ ~Up /\ runs' = build
    /\ inForce' = loaded
    /\ blind' = (cache # Nil /\ loaded # cache) /\ unsaved' = FALSE
    /\ shown' = IF checked = Nil THEN "unknown" ELSE checked.status
    /\ due' = IsDue
    /\ UNCHANGED <<disk, file, outside, request, asked>>
StartUp == Boot(Load(build)) /\ UNCHANGED slips
StartUnread ==
    /\ slips < MaxSlips /\ slips' = slips + 1
    /\ Boot(BuiltIn)

\* check_now: an answer is cached, and shown; none is shown as unknown.
Checked ==
    /\ Up /\ due /\ due' = FALSE
    /\ shown' = Evaluate(runs)
    /\ \/ /\ checked' = [at |-> date, status |-> Evaluate(runs)]
          /\ asked' = [at |-> date, kept |-> TRUE] /\ UNCHANGED slips
       \/ /\ slips < MaxSlips /\ slips' = slips + 1
          /\ asked' = [at |-> date, kept |-> FALSE] /\ UNCHANGED checked
    /\ UNCHANGED <<runs, inForce, blind, unsaved, cache, file, outside, request>>
CheckFails ==
    /\ Up /\ due /\ due' = FALSE /\ shown' = "unknown"
    /\ asked' = [at |-> date, kept |-> FALSE]
    /\ UNCHANGED <<runs, inForce, blind, unsaved, disk, file, outside, request, slips>>

\* The daemon is stopped, or dies.
Quit ==
    /\ Up /\ runs' = Nil
    /\ inForce' = BuiltIn /\ blind' = FALSE /\ unsaved' = FALSE
    /\ due' = FALSE /\ shown' = "unknown" /\ request' = Nil
    /\ UNCHANGED <<disk, file, outside, asked, slips>>

NewDay ==
    /\ date < MaxDate /\ date' = date + 1
    /\ UNCHANGED <<daemon, disk, file, signed, latest, build, request, asked, slips>>

UpdatesNext ==
    \/ \E d \in Documents : Sign(d) \/ Refresh(d)
    \/ Spoil \/ SendRequest \/ ConnectTool \/ DisconnectTool \/ UserEdit
    \/ NewRelease \/ (\E b \in Builds : Upgrade(b))
    \/ StartUp \/ StartUnread \/ Checked \/ CheckFails \/ Quit \/ NewDay

UpdatesSpec == UpdatesInit /\ [][UpdatesNext]_updates

-----------------------------------------------------------------------------
(* Properties *)

UpdatesTypeOK ==
    /\ signed \subseteq Documents /\ latest \in Builds /\ build \in Builds
    /\ runs \in Builds \cup {Nil} /\ inForce \in Documents \cup {BuiltIn}
    /\ cache \in Documents \cup {Nil, Broken}
    /\ tool \in [Keys -> Ours \cup {"empty", "theirs"}]
    /\ {block, blind, unsaved, due} \subseteq BOOLEAN
    /\ shown \in {"unknown", "upToDate", "available"}

\* "Never go backwards": not in a process, whatever answers, and not on disk unless
\* the daemon could not use what it found there.  Code: store.rs apply, persist.
NeverBackwards ==
    /\ Up /\ runs' = runs => inForce'.serial >= inForce.serial
    /\ Up /\ cache' # cache /\ cache \in Documents /\ cache' \in Documents /\ ~blind =>
          cache'.serial > cache.serial

\* What a daemon has in force is what its cache says, so that the commands and the
\* daemon act on one description of a tool and a restart changes nothing.
MindIsOnDisk ==
    Up /\ runs = build /\ ~blind /\ ~unsaved /\ cache # Broken => inForce = Load(runs)

\* No build writes half of what an entry asks: our address is in a key only as some
\* signed document spelt it, where its condition held.  Code: schema.rs
\* SCHEMA_VERSION, catalog.rs applies_here.
WritesWhatWasAsked ==
    \A k \in Keys : tool'[k] \in Ours /\ tool'[k] # tool[k] =>
        \E d \in signed : d.agent # Nil /\ \E s \in d.agent :
            s.key = k /\ s.style = tool'[k] /\ (s.needs => Present)

\* "At most once every 24 hours", as far as the last answer could be kept.
ChecksAreRare ==
    asked' # asked /\ asked # Nil /\ asked.kept => asked'.at >= asked.at + Interval

\* The promises of docs/UPDATES.md that the code keeps.
DocumentsKeepFaith ==
    /\ []MindIsOnDisk
    /\ [][NeverBackwards /\ WritesWhatWasAsked /\ ChecksAreRare]_updates

\* "A document that requires a restart to take effect has the same latency as a
\* release": a request goes out with the constants of the document in force.
FixIsServed == request # Nil => request.flag = request.fixed
=============================================================================
