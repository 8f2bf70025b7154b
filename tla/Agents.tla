------------------------------- MODULE Agents -------------------------------
(***************************************************************************)
(* Pointing an agent at IronWire and taking it off again: the edits of     *)
(* ironwire_agents::{catalog, claude_settings, codex_config} to a file     *)
(* that belongs to the user, and who makes them: the control API (preview, *)
(* confirm, or without asking), the command line, and the user's editor,   *)
(* all on one file and at any time.                                        *)
(*                                                                         *)
(* A file maps its nodes to what is there: None, a value of the user's, a  *)
(* value of ours (for Codex also the provider it Selected), or for a node  *)
(* that holds others a Plain table, an Inline one (TOML only) or a Scalar. *)
(* A missing file and an empty document are one.  A file that does not     *)
(* parse is refused whole and is not modelled; nor are comments, order and *)
(* layout.                                                                 *)
(***************************************************************************)
EXTENDS Access

CONSTANTS
    Tool,        \* the agents; "codex" has a format of its own
    Setting,     \* tool -> the nodes IronWire sets
    Own,         \* tool -> the other nodes the user sets
    TableOf,     \* node -> the table it lies in, or None
    Requires,    \* node -> the node its setting waits for, or None
    Toml,        \* tools whose tables may be inline
    UserValue, Port, Account

ASSUME AgentsAssumption ==
    /\ Tool # {}
    /\ Setting \in [Tool -> SUBSET STRING] /\ Own \in [Tool -> SUBSET STRING]
    /\ \A t \in Tool : Setting[t] \cap Own[t] = {}
    /\ "codex" \in Tool => Setting["codex"] = {"provider", "note", "block"}
    /\ DOMAIN TableOf = DOMAIN Requires /\ None \notin DOMAIN TableOf
    /\ \A t \in Tool : \A n \in Setting[t] \cup Own[t] :
           /\ n \in DOMAIN TableOf
           /\ TableOf[n] # None => TableOf[n] \in Own[t] /\ TableOf[TableOf[n]] = None
           /\ n \in {"provider", "note", "block"} => TableOf[n] = None
           /\ TableOf[n] \notin {"provider", "note", "block"}

VARIABLES
    tool,
    file,
    backup,    \* FILE.ironwire-backup
    job,       \* edits being made
    shown,     \* the edit each caller was last shown
    theirs     \* history: what the user last put in each node

agents == <<tool, file, backup, job, shown, theirs>>

Node   == Setting[tool] \cup Own[tool]
Table  == {TableOf[n] : n \in Node} \ {None}
Leaf   == Node \ Table
Blank  == [n \in Node |-> None]

\* Values are tuples, so that any two can be compared.
Url(p, a) == <<"ours", p, a>>
Selected  == <<"ironwire">>
Plain     == <<"table">>
Inline    == <<"inline">>
Scalar    == <<"scalar">>
IsOurs(v) == v \in {Url(p, a) : p \in Port, a \in Account \cup {None}}

\* What the user puts in a file is none of our values.
ASSUME UsersAreNotOurs ==
    /\ UserValue \cap {None, Selected, Plain, Inline, Scalar} = {}
    /\ \A v \in UserValue \cup {None} : ~IsOurs(v)
    /\ None \notin {Selected, Plain, Inline, Scalar}

-----------------------------------------------------------------------------
(* Edits to settings that are slots: catalogue entries and Claude Code *)

Inside(n)      == {k \in Leaf : TableOf[k] = n}
InTable(f, k) == IF TableOf[k] = None THEN Plain ELSE f[TableOf[k]]

\* `json_slot`, `toml_slot`
SlotOf(f, k) ==
    CASE InTable(f, k) # Scalar /\ f[k] = None   -> "empty"
      [] InTable(f, k) # Scalar /\ IsOurs(f[k]) -> "ours"
      [] OTHER                                  -> "blocked"

Applies(f, k)  == Requires[k] # None => f[Requires[k]] # None
Writable(f, k) == InTable(f, k) # Inline

\* A connect that names no login does not unbind one.
KeepBinding(v, p, a) == Url(p, IF a = None /\ IsOurs(v) THEN v[3] ELSE a)

SlotsConnected(f, p, a) ==
    LET todo == {k \in Setting[tool] :
                    Applies(f, k) /\ SlotOf(f, k) \in {"empty", "ours"} /\ Writable(f, k)}
    IN  [n \in Node |->
            IF n \in todo THEN KeepBinding(f[n], p, a)
            ELSE IF f[n] = None /\ todo \cap Inside(n) # {} THEN Plain
            ELSE f[n]]

\* Mutant: the table goes with our key, whatever else is in it.
SlotsRazed(f) ==
    LET gone == {k \in Setting[tool] : SlotOf(f, k) = "ours" /\ Writable(f, k)}
    IN  [n \in Node |-> IF n \in gone \cup {TableOf[k] : k \in gone} THEN None
                        ELSE IF n \in Leaf /\ TableOf[n] \in {TableOf[k] : k \in gone} \ {None}
                             THEN None ELSE f[n]]

\* Preconditions do not bind removal; a table we emptied goes too.
SlotsDisconnected(f) ==
    LET gone  == {k \in Setting[tool] : SlotOf(f, k) = "ours" /\ Writable(f, k)}
        g     == [n \in Node |-> IF n \in gone THEN None ELSE f[n]]
        empty == {TableOf[k] : k \in {x \in gone : \A y \in Inside(TableOf[x]) : g[y] = None}}
    IN  [n \in Node |-> IF n \in empty THEN None ELSE g[n]]

-----------------------------------------------------------------------------
(* Edits to Codex's config.toml: a provider, and a block that defines ours *)

\* A provider of the user's stays, with a note of it for a later disconnect.
CodexConnected(f, p, a) ==
    [f EXCEPT !["block"]    = KeepBinding(f["block"], p, a),
              !["provider"] = IF @ = None THEN Selected ELSE @,
              !["note"]     = IF f["provider"] \in {None, Selected} THEN @ ELSE f["provider"]]

\* The note is honoured where our provider is selected, and goes either way.
CodexDisconnected(f) ==
    [f EXCEPT !["block"]    = None,
              !["provider"] = IF @ = Selected THEN f["note"] ELSE @,
              !["note"]     = None]

Connected(f, p, a) == IF tool = "codex" THEN CodexConnected(f, p, a) ELSE SlotsConnected(f, p, a)
Disconnected(f)    == IF tool = "codex" THEN CodexDisconnected(f) ELSE SlotsDisconnected(f)

EditPlans(f) ==
    {Disconnected(f)} \cup {Connected(f, p, None) : p \in Port}

\* The command line may also name a login.
CliPlans(f) ==
    {Disconnected(f)} \cup {Connected(f, p, a) : p \in Port, a \in Account \cup {None}}

-----------------------------------------------------------------------------
(* Who asks for an edit *)

Free(c) == job[c] = Idle
Start(c, pc, to, cli) ==
    job' = [job EXCEPT ![c] = [pc |-> pc, existing |-> file, contents |-> to,
                                 cli |-> cli, overtaken |-> FALSE]]

\* The digest handed back stands for the file's bytes before and after.
Preview(c, to) ==
    /\ Free(c) /\ Spare("edit")
    /\ shown' = [shown EXCEPT ![c] = [existing |-> file, contents |-> to]]
    /\ UNCHANGED <<tool, file, backup, job, theirs>>

\* Worked out again; another file or another edit is a conflict.
Confirm(c, to) ==
    /\ Free(c) /\ Spare("edit")
    /\ shown[c] = [existing |-> file, contents |-> to]
    /\ to # file
    /\ Start(c, "check", to, FALSE)
    /\ UNCHANGED <<tool, file, backup, shown, theirs>>

Apply(c, to) ==
    /\ Free(c) /\ Spare("edit")
    /\ to # file
    /\ Start(c, "backup", to, FALSE)
    /\ UNCHANGED <<tool, file, backup, shown, theirs>>

Cli(c, to) ==
    /\ Free(c) /\ Spare("edit")
    /\ to # file
    /\ Start(c, "backup", to, TRUE)
    /\ UNCHANGED <<tool, file, backup, shown, theirs>>

\* Mutant: a confirmed edit is written without another look at the file.
CheckNothing(c) ==
    /\ job[c].pc = "check"
    /\ job' = [job EXCEPT ![c].pc = "backup"]
    /\ UNCHANGED <<tool, file, backup, shown, left, theirs>>

\* `commit_if_unchanged` reads once more ...
Check(c) ==
    /\ job[c].pc = "check"
    /\ job' = [job EXCEPT ![c] = IF file = @.existing THEN [@ EXCEPT !.pc = "backup"] ELSE Idle]
    /\ UNCHANGED <<tool, file, backup, shown, left, theirs>>

(***************************************************************************)
(* ... and `commit` keeps the first copy of a file that was there.  The    *)
(* command line's `write_with_backup` writes the copy again every time.    *)
(***************************************************************************)
Backup(c) ==
    /\ job[c].pc = "backup"
    /\ LET e == job[c].existing
       IN  backup' = IF e # Blank /\ (job[c].cli \/ backup = None) THEN e ELSE backup
    /\ job' = [job EXCEPT ![c].pc = "write"]
    /\ UNCHANGED <<tool, file, shown, left, theirs>>

Users(v) == v \in UserValue \cup {Scalar}

\* An edit of the user's that fell in the window nothing guards is lost.
Write(c) ==
    /\ job[c].pc = "write"
    /\ file' = job[c].contents
    /\ theirs' = IF ~job[c].overtaken THEN theirs
                 ELSE [n \in Node |-> IF file'[n] = theirs[n] THEN theirs[n] ELSE None]
    /\ job' = [job EXCEPT ![c] = Idle]
    /\ UNCHANGED <<tool, backup, shown, left>>

\* A command is interrupted.
Interrupt(c) ==
    /\ job[c].pc # "idle" /\ job[c].cli /\ Fault
    /\ job' = [job EXCEPT ![c] = Idle]
    /\ UNCHANGED <<tool, file, backup, shown, theirs>>

(***************************************************************************)
(* The user, or the agent itself, writes the file: a value put in or taken *)
(* out, the table it needs along with it, or Codex's provider set to ours  *)
(* by hand, as `connect` tells a user with another provider to do.         *)
(***************************************************************************)
Set(f, n, v) ==
    [k \in Node |-> IF k = n THEN v
                    ELSE IF n \in Leaf /\ v # None /\ k = TableOf[n] /\ f[k] \in {None, Scalar}
                         THEN Plain
                    ELSE IF n \in Table /\ v \in {None, Scalar} /\ k \in Inside(n) THEN None
                    ELSE f[k]]

Values(n) ==
    IF n \in Table
    THEN {None, Plain, Scalar} \cup (IF tool \in Toml THEN {Inline} ELSE {})
    ELSE UserValue \cup {None} \cup (IF n = "provider" THEN {Selected} ELSE {})

Edit(n, v) ==
    /\ Spare("edit")
    /\ n \notin {"note", "block"}
    /\ file' = Set(file, n, v) /\ file' # file
    /\ theirs' = [k \in Node |-> IF Users(file'[k]) /\ k # "note" THEN file'[k] ELSE None]
    /\ job' = [c \in Caller |-> IF job[c].pc \in {"backup", "write"}
                                 THEN [job[c] EXCEPT !.overtaken = TRUE] ELSE job[c]]
    /\ UNCHANGED <<tool, backup, shown>>

Unscathed == UNCHANGED <<clock, settings, bindings, money, req, call, settled>>

Wiring ==
    /\ Unscathed
    /\ \/ \E c \in Caller, to \in EditPlans(file) : Preview(c, to) \/ Confirm(c, to) \/ Apply(c, to)
       \/ \E c \in Caller, to \in CliPlans(file) : Cli(c, to)
       \/ \E c \in Caller : Check(c) \/ Backup(c) \/ Write(c) \/ Interrupt(c)
       \/ \E n \in Node : \E v \in Values(n) : Edit(n, v)

-----------------------------------------------------------------------------
(* The control API with everything it serves *)

AllInit ==
    /\ Init
    /\ tool \in IF left["edit"] > 0 THEN Tool ELSE {CHOOSE t \in Tool : TRUE}
    /\ file = Blank /\ theirs = Blank
    /\ backup = None
    /\ job = [c \in Caller |-> Idle] /\ shown = [c \in Caller |-> None]

\* A daemon that dies takes the edits it was making with it.
DaemonDies ==
    /\ Restart
    /\ job' = [c \in Caller |-> IF job[c] # Idle /\ ~job[c].cli THEN Idle ELSE job[c]]
    /\ UNCHANGED <<tool, file, backup, shown, theirs>>

AllNext ==
    \/ Step /\ UNCHANGED agents
    \/ Wiring
    \/ DaemonDies

Spec == AllInit /\ [][AllNext]_<<access, agents>>

-----------------------------------------------------------------------------
(* Properties *)

(***************************************************************************)
(* What the user put in the file stays there through any number of         *)
(* connects and disconnects, also when it was written while an edit was    *)
(* being previewed, confirmed or checked: only what falls between the last *)
(* look at the file and the write can be lost.                             *)
(* Code: catalog.rs json_slot, tools.rs commit_if_unchanged.               *)
(***************************************************************************)
OwnValuesSurvive ==
    \A n \in Node : theirs[n] # None => file[n] = theirs[n]

(***************************************************************************)
(* Whatever state the file is in, disconnect removes everything of ours    *)
(* it can reach and nothing of the user's, and undoes a connect exactly.   *)
(* An empty table of the user's is the exception: it is taken for ours.    *)
(* Code: catalog.rs json_disconnect, codex_config.rs disconnect.           *)
(***************************************************************************)
UndoLeavesNoTrace ==
    LET g     == Disconnected(file)
        clean == /\ \A n \in Node : ~IsOurs(file[n]) /\ file[n] # Selected
                 /\ \A t \in Table : file[t] = Plain => \E k \in Inside(t) : file[k] # None
                 /\ "note" \in Node => file["note"] = None
    IN  /\ \A n \in Node : IsOurs(g[n]) => InTable(file, n) = Inline
        /\ \A n \in Node : Users(file[n]) /\ n # "note" => g[n] = file[n]
        /\ clean => \A p \in Port, a \in Account \cup {None} : Disconnected(Connected(file, p, a)) = file

\* The user's own part of an agent's file survives connecting it and taking it
\* off, and ours does not survive the latter.  Code: catalog.rs, tools.rs.
FilesStayTheUsers == OwnValuesSurvive /\ UndoLeavesNoTrace
=============================================================================
