------------------------------- MODULE Logins -------------------------------
(***************************************************************************)
(* Several logins of one product: which directory each is read from, which *)
(* client is pointed at which, and which of them the user agreed to        *)
(* (ironwire_core::{config, config_edit}, ironwire_creds, the daemon's     *)
(* registry, the commands connect, disconnect, init and doctor, and the    *)
(* control API where it touches a login).                                  *)
(*                                                                         *)
(* Claude Code and Codex are each a product, and a behaviour is about one  *)
(* of them.  The user edits config.toml, the terminal runs one command at  *)
(* a time, which may wait for an answer about consent, the daemon goes     *)
(* down and comes up, and its control API answers a GUI meanwhile.         *)
(*                                                                         *)
(* Abstracted: a directory is one of the strings it may be written as, and *)
(* the directory on disk each of them is; what a login holds (a credential *)
(* or none); ports; a file that does not parse; every kind of backend but  *)
(* a login and a metered key; --dry-run, which changes nothing.            *)
(***************************************************************************)
EXTENDS Naturals, FiniteSets

CONSTANTS
    Spelling,        \* login directories as they are written
    Dir, DirOf,      \* directories on disk, and which one a spelling is
    UsualDir,        \* where the client keeps its default login ...
    UsualSpelling,   \* ... as every program spells it
    Id,
    DefaultId,       \* `claude-sub` or `codex-sub`
    MeteredId,       \* an id discovery gives to another kind of backend
    NameOf,          \* the id derived from a directory's name
    World,           \* the machines considered: see the variable
    Edits,           \* the entries the user may write
    Errands,         \* bound: how many of each kind of event a behaviour may have
    Void

ASSUME LoginsAssumption ==
    /\ DirOf \in [Spelling -> Dir] /\ NameOf \in [Spelling -> Id]
    /\ UsualSpelling \in Spelling /\ DirOf[UsualSpelling] = UsualDir
    /\ {DefaultId, MeteredId} \subseteq Id
    /\ World \subseteq [product : {"claude", "codex"}, keychain : BOOLEAN,
                        exported : Spelling \cup {Void}, holding : BOOLEAN, theirs : SUBSET Dir]
    /\ Errands \subseteq [{"edit", "command", "call", "start"} -> Nat]
    /\ Void \notin Spelling \cup Dir \cup Id

\* A login is left in its usual place (Void) or put in a directory.
Place == Spelling \cup {Void}
Entry == [id : Id, kind : {"login", "metered"}, dir : Place, on : BOOLEAN]

ASSUME EditsAreEntries == Edits \subseteq Entry

\* What a record or a file says in words is none of the values it may hold.
ASSUME WordsAreWords ==
    "no" \notin Place /\ {"plain", "theirs"} \cap (Id \cup {Void}) = {}

VARIABLES
    world,       \* what stays: the product, whether there is a Keychain, what the
                 \* shell exports as CLAUDE_CONFIG_DIR or CODEX_HOME, whether the usual
                 \* place holds a login, and the files with a URL of the user's own
    config,      \* the [[backends]] of config.toml
    client,      \* directory -> its client's config: Void, "theirs", "plain" or an id
    disk,        \* consent.json: id -> the place agreed to, or "no"
    daemon,      \* Void, or [logins, home, consent]
    term,        \* the command that waits for an answer, or Void
    prompt,      \* the consent question the GUI shows, or Void
    room,        \* bound: the events still to come
    agreed,      \* history: the questions answered yes, as <<id, place>>
    said         \* history: warnings given of a client left behind, as <<id, directory>>

loginVars == <<world, config, client, disk, daemon, term, prompt, room, agreed, said>>

exported == world.exported
holding  == world.holding

May(event) == room[event] > 0 /\ room' = [room EXCEPT ![event] = @ - 1]

-----------------------------------------------------------------------------
(* config.toml *)

\* Whether two spellings are one directory.
SameDir(a, b) == DirOf[a] = DirOf[b]

\* The kind an id discovery gives out always has.
Discovered(id) == CASE id = DefaultId -> {"login"} [] id = MeteredId -> {"metered"}
                    [] OTHER -> {"login", "metered"}

Placed(c) == {e \in c : e.dir # Void}

\* What Config::validate_with asks of each entry ...
EntryStands(e) ==
    e.dir # Void => /\ e.kind \in Discovered(e.id)
                    /\ e.kind = "login"
                    /\ e.id # DefaultId => ~SameDir(e.dir, UsualSpelling)

\* ... and of them all.
Valid(c) ==
    /\ \A e \in c : EntryStands(e)
    /\ \A e, f \in c : e.id = f.id => e = f
    /\ \A e, f \in Placed(c) : SameDir(e.dir, f.dir) => e = f

\* A command goes on without a file it cannot use.
Loaded == IF Valid(config) THEN config ELSE {}

Login(id, at, on) == [id |-> id, at |-> at, on |-> on]

\* The default login, moved if its entry moves it.
DefaultLogin(c) ==
    IF \E e \in c : e.id = DefaultId
    THEN LET e == CHOOSE x \in c : x.id = DefaultId IN Login(DefaultId, e.dir, e.on)
    ELSE Login(DefaultId, Void, TRUE)

\* The other logins the file declares: without a directory an entry is none.
Additional(c) ==
    {Login(e.id, e.dir, e.on) :
        e \in {x \in Placed(c) : x.kind = "login" /\ x.id \notin {DefaultId, MeteredId}}}

Configured(c) == {DefaultLogin(c)} \cup Additional(c)

\* Mutant: the entry is appended and the file not read again.
EnsureUnchecked(c, login) ==
    IF \E e \in c : e.id = login.id THEN {} ELSE
    {c \cup {[id |-> login.id, kind |-> "login", dir |-> login.at, on |-> TRUE]}}

(***************************************************************************)
(* ensure_subscription_entry: the file that declares `login`, if there is  *)
(* one that leaves what is there alone and that a daemon would start with. *)
(***************************************************************************)
Ensure(c, login) ==
    LET same  == {e \in c : e.id = login.id}
        new   == [id |-> login.id, kind |-> "login", dir |-> login.at, on |-> TRUE]
        added == c \cup {new}
    IN  IF same # {}
        THEN {c : e \in {x \in same : x.kind = "login" /\ x.dir = login.at}}
        ELSE {d \in {added} :
                 /\ \A e \in Placed(c) : e.kind = "login" => ~SameDir(e.dir, login.at)
                 /\ Valid(d)}

-----------------------------------------------------------------------------
(* Where a login is kept, and the URL its client is pointed at *)

Claude == world.product = "claude"

\* Claude Code names its Keychain item after the exact string.
PerSpelling == Claude /\ world.keychain

\* Where the client of a login keeps its settings.  The default Codex home
\* follows CODEX_HOME in whoever asks.
ClientDir(at, home) ==
    CASE at # Void                       -> DirOf[at]
      [] at = Void /\ ~Claude /\ home # Void -> DirOf[home]
      [] OTHER                           -> UsualDir

\* Every login but the one in its usual place holds a credential, or not,
\* wherever it is: only whether that one is there decides anything.
Usable(at) == at # Void \/ holding

\* Mutant: the default login is named by the plain URL wherever it is.
AccountByDefault(login) == IF login.id = DefaultId THEN "plain" ELSE login.id

OwnsThePlainUrl(login) == login.id = DefaultId /\ login.at = Void

\* What the client of a login is pointed at: a URL that names it, or the plain one.
AccountOf(login) == IF OwnsThePlainUrl(login) THEN "plain" ELSE login.id

\* The URL written into a file: the user's own stays, and a file bound to a
\* login stays bound when the plain URL comes.
Wire(now, url) ==
    CASE now = "theirs"                         -> now
      [] url = "plain" /\ now \in Id            -> now
      [] OTHER                                  -> url

Unwire(now) == IF now \in Id \cup {"plain"} THEN Void ELSE now

\* The login a daemon serves a URL from: the one it names, or for the plain
\* one the default in its usual place.
Serves(logins, url) ==
    {l \in logins : IF url = "plain" THEN l.id = DefaultId /\ l.at = Void ELSE l.id = url}

-----------------------------------------------------------------------------
(* Which login a command means *)

ByDir(c, s) ==
    {l \in Configured(c) : l.at # Void /\ SameDir(l.at, s) /\ (PerSpelling => l.at = s)}

\* Another login's directory under another name: one settings file, two items.
IsAlias(c, s) ==
    PerSpelling /\ \E l \in Configured(c) : l.at # Void /\ SameDir(l.at, s) /\ l.at # s

Means(login, declared) == [login |-> login, declared |-> declared]

\* The usual directory, named: the default login moved there, and never a second one.
InTheUsualPlace(c, dir, id, connecting) ==
    {Means(Login(DefaultId, dir, DefaultLogin(c).on), FALSE) :
        x \in {y \in {1} : /\ id \in {Void, DefaultId}
                           /\ connecting => \A e \in c : e.id # DefaultId}}

NamedByDir(c, dir, id, connecting) ==
    LET known == ByDir(c, dir)
        derived == IF id # Void THEN {id}
                   ELSE IF known # {} THEN {l.id : l \in known}
                   ELSE {NameOf[dir]} \ {DefaultId, MeteredId}
    IN  IF IsAlias(c, dir) THEN {}
        ELSE IF known = {} /\ SameDir(dir, UsualSpelling)
             THEN InTheUsualPlace(c, dir, id, connecting)
        ELSE {IF \E l \in known : l.id = n
              THEN Means(CHOOSE l \in known : l.id = n, TRUE)
              ELSE Means(Login(n, dir, TRUE), FALSE) : n \in derived}

\* The shell's variable chooses a login; a CODEX_HOME only one config.toml declares.
FromShell(c) ==
    IF exported # Void /\ (Claude \/ ByDir(c, exported) # {}) THEN exported ELSE Void

\* `--config-dir` names a login outright, `--id` one that is declared.
Resolve(c, dir, id, connecting) ==
    LET by == IF dir = Void /\ id = Void THEN FromShell(c) ELSE dir
    IN  CASE by # Void -> NamedByDir(c, by, id, connecting)
          [] by = Void /\ id \notin {Void, DefaultId} ->
                 {Means(l, TRUE) : l \in {x \in Configured(c) : x.id = id}}
          [] OTHER -> {Means(DefaultLogin(c), TRUE)}

-----------------------------------------------------------------------------
(* Consent *)

\* Mutant: a yes is found by the id alone.
AnswersById(record, at) == record # "no"

\* A yes counts for the place it was given for.
Answers(record, at) == record = at

Granted(ledger, login) == Answers(ledger[login.id], login.at)

\* Mutant: where a login was agreed to before is not looked at.
LeftBehindDefault(login, ledger) ==
    IF login.id = DefaultId /\ login.at # Void
    THEN {ClientDir(Void, exported)} \ {ClientDir(login.at, exported)} ELSE {}

\* The directories a login moved away from: the usual one for a default that
\* is moved, and the one its consent was given in.
LeftBehind(login, ledger) ==
    ({ClientDir(Void, exported) : x \in {y \in {login} : y.id = DefaultId /\ y.at # Void}}
        \cup {DirOf[s] : s \in {x \in Spelling : x = ledger[login.id]}})
    \ {ClientDir(login.at, exported)}

\* The warnings: of clients there that still name the login.  (One on the
\* plain URL is warned of too, when the default moved.)
Warnings(logins, ledger, files) ==
    {<<l.id, d>> : l \in logins, d \in Dir} \cap
    {w \in Id \X Dir : files[w[2]] = w[1] /\ \E l \in logins :
                            l.id = w[1] /\ w[2] \in LeftBehind(l, ledger)}

\* A warning is of no more use once the client is off that login.
StillSaid(files) == {w \in said : files[w[2]] = w[1]}

-----------------------------------------------------------------------------
(* The terminal *)

Ready == term = Void /\ May("command")

(***************************************************************************)
(* `connect`, up to the question: the entry, the client's file, the        *)
(* warnings.  A refusal leaves everything alone.                           *)
(***************************************************************************)
Connect(dir, id, subscription) ==
    /\ Ready
    /\ \E m \in Resolve(Loaded, dir, id, TRUE) :
       LET l == m.login
           d == ClientDir(l.at, exported)
       IN  /\ config' \in IF m.declared \/ l.at = Void THEN {config} ELSE Ensure(config, l)
           /\ client' = [client EXCEPT ![d] = Wire(@, AccountOf(l))]
           /\ said' = StillSaid(client') \cup Warnings({l}, disk, client')
           /\ term' = IF subscription /\ Usable(l.at) /\ ~Granted(disk, l)
                      THEN [command |-> "connect", asks |-> {l}, ledger |-> disk] ELSE Void
    /\ UNCHANGED <<world, disk, daemon, prompt, agreed>>

\* Declining leaves everything as it is.
Decline ==
    /\ term # Void /\ term.command = "connect"
    /\ term' = Void
    /\ UNCHANGED <<world, config, client, disk, daemon, prompt, room, agreed, said>>

\* A yes is for the place the question named.
Recorded(ledger, logins) ==
    [i \in Id |-> IF \E l \in logins : l.id = i
                  THEN (CHOOSE l \in logins : l.id = i).at ELSE ledger[i]]

\* What is saved is the ledger read when the command started, with the yes added.
Accept ==
    /\ term # Void /\ term.command = "connect"
    /\ disk' = Recorded(term.ledger, term.asks)
    /\ agreed' = agreed \cup {<<l.id, l.at>> : l \in term.asks}
    /\ term' = Void
    /\ UNCHANGED <<world, config, client, daemon, prompt, room, said>>

\* `disconnect`: the client's file goes back.
Disconnect(dir, id) ==
    /\ Ready
    /\ \E m \in Resolve(Loaded, dir, id, FALSE) :
         client' = [client EXCEPT ![ClientDir(m.login.at, exported)] = Unwire(@)]
    /\ said' = StillSaid(client')
    /\ UNCHANGED <<world, config, disk, daemon, term, prompt, agreed>>

\* `disconnect --subscription`, by id, whatever place the record names.
RevokeLogin(dir, id) ==
    /\ Ready
    /\ \E m \in Resolve(Loaded, dir, id, FALSE) : disk' = [disk EXCEPT ![m.login.id] = "no"]
    /\ UNCHANGED <<world, config, client, daemon, term, prompt, agreed, said>>

\* The logins `init` finds, and asks about in one question.
FoundLogins(c)   == {l \in Configured(c) : l.on /\ Usable(l.at)}
Pending(c, ledger) == {l \in FoundLogins(c) : ~Granted(ledger, l)}

\* The logins whose clients `init` wires: a default in its usual place only
\* where its client is installed and no other login claims its file.
ToWire(c, installed) ==
    LET claimed == {ClientDir(l.at, exported) : l \in {x \in Additional(c) : x.on}}
    IN  {l \in Configured(c) : IF OwnsThePlainUrl(l)
                               THEN installed /\ ClientDir(Void, exported) \notin claimed
                               ELSE l.on}

WireAll(logins) ==
    [d \in Dir |-> IF \E l \in logins : ClientDir(l.at, exported) = d
                   THEN Wire(client[d], AccountOf(CHOOSE l \in logins :
                                                    ClientDir(l.at, exported) = d))
                   ELSE client[d]]

\* The second half of `init`, with the ledger as it has just left it.
WireAgents(c, ledger) ==
    \E installed \in BOOLEAN :
        LET these == ToWire(c, installed)
        IN  /\ client' = WireAll(these)
            /\ said' = StillSaid(client') \cup Warnings(these, ledger, client')

\* `init` asks first, if there is anything to ask, and wires afterwards.
InitCommand ==
    /\ Ready
    /\ IF Pending(Loaded, disk) # {}
       THEN /\ term' = [command |-> "init", asks |-> Pending(Loaded, disk), ledger |-> disk]
            /\ UNCHANGED <<client, said>>
       ELSE WireAgents(Loaded, disk) /\ UNCHANGED term
    /\ UNCHANGED <<world, config, disk, daemon, prompt, agreed>>

InitAnswer(yes) ==
    /\ term # Void /\ term.command = "init"
    /\ term' = Void
    /\ disk' = IF yes THEN Recorded(term.ledger, term.asks) ELSE disk
    /\ agreed' = agreed \cup {<<l.id, l.at>> : l \in {x \in term.asks : yes}}
    /\ WireAgents(Loaded, disk')
    /\ UNCHANGED <<world, config, daemon, prompt, room>>

\* `doctor` reports the clients every login left behind.
Doctor ==
    /\ Ready
    /\ said' = said \cup Warnings(Configured(Loaded), disk, client)
    /\ UNCHANGED <<world, config, client, disk, daemon, term, prompt, agreed>>

-----------------------------------------------------------------------------
(* The user, the daemon and the GUI *)

\* The user's editor: an entry written, changed or taken out.  It is closed
\* while a command waits for an answer.
EditConfig ==
    /\ term = Void /\ May("edit")
    /\ \E old \in SUBSET config, new \in SUBSET Edits :
         /\ Cardinality(old) <= 1 /\ Cardinality(new) <= 1
         /\ config' = (config \ old) \cup new
    /\ config' # config
    /\ UNCHANGED <<world, client, disk, daemon, term, prompt, agreed, said>>

\* build_registry.  A default in its usual place is there if it holds a
\* login, or if the Keychain could not be asked.
Registry(c, locked) ==
    {l \in {DefaultLogin(c)} : l.on /\ (Usable(l.at) \/ locked)}
        \cup {l \in Additional(c) : l.on}

\* A daemon goes down and comes up, as a service or from a shell, if it can.
StartDaemon ==
    /\ May("start")
    /\ \E home \in {Void, exported}, locked \in {FALSE, PerSpelling} :
         daemon' = IF Valid(config)
                   THEN [logins |-> Registry(config, locked), consent |-> disk,
                         home |-> IF Claude THEN Void ELSE home]
                   ELSE Void
    /\ UNCHANGED <<world, config, client, disk, term, prompt, agreed, said>>

Running == daemon # Void

\* The place the question about an id names: a default without a login has one.
Asked(id) ==
    {l.at : l \in {x \in daemon.logins : x.id = id}}
        \cup {p \in {Void} : id = DefaultId /\ \A l \in daemon.logins : l.id # id}

\* GET /_ironwire/settings: the GUI shows the question.
Show(id) ==
    /\ Running
    /\ \E at \in Asked(id) : prompt' = [id |-> id, at |-> at, home |-> daemon.home]
    /\ prompt' # prompt
    /\ UNCHANGED <<world, config, client, disk, daemon, term, room, agreed, said>>

\* The binding a yes carries is that of the question asked now.
SameQuestion(at) ==
    prompt.at = at /\ (at = Void => prompt.home = daemon.home)

\* POST /_ironwire/consent, yes.  A save that fails takes it back.
Consent ==
    /\ Running /\ prompt # Void /\ May("call")
    /\ \E at \in Asked(prompt.id) :
         /\ SameQuestion(at)
         /\ daemon' = [daemon EXCEPT !.consent[prompt.id] = at]
    /\ disk' = daemon'.consent
    /\ agreed' = agreed \cup {<<prompt.id, prompt.at>>}
    /\ UNCHANGED <<world, config, client, term, prompt, said>>

\* Withdrawing asks for no question.
Withdraw(id) ==
    /\ Running /\ Asked(id) # {} /\ May("call")
    /\ daemon' = [daemon EXCEPT !.consent[id] = "no"]
    /\ disk' = daemon'.consent
    /\ UNCHANGED <<world, config, client, term, prompt, agreed, said>>

\* The file a tool edit through the control API is about, and its spelling.
ToolPlace == IF daemon.home # Void THEN daemon.home ELSE UsualSpelling

\* POST /_ironwire/tools: the plain URL, refused into a file that belongs to
\* a login of its own.
ToolConnect ==
    /\ Running /\ May("call")
    /\ LET d == DirOf[ToolPlace]
       IN  /\ client[d] \notin Id => \A l \in daemon.logins : l.at # ToolPlace
           /\ client' = [client EXCEPT ![d] = Wire(@, "plain")]
    /\ said' = StillSaid(client')
    /\ UNCHANGED <<world, config, disk, daemon, term, prompt, agreed>>

ToolDisconnect ==
    /\ Running /\ May("call")
    /\ client' = [client EXCEPT ![DirOf[ToolPlace]] = Unwire(@)]
    /\ said' = StillSaid(client')
    /\ UNCHANGED <<world, config, disk, daemon, term, prompt, agreed>>

-----------------------------------------------------------------------------

LoginsInit ==
    /\ world \in World
    /\ config = {}
    /\ client = [d \in Dir |-> IF d \in world.theirs THEN "theirs" ELSE Void]
    /\ disk = [i \in Id |-> "no"]
    /\ daemon = Void /\ term = Void /\ prompt = Void
    /\ room \in Errands
    /\ agreed = {} /\ said = {}

LoginsNext ==
    \/ \E dir \in Place, id \in Id \cup {Void} :
         \/ \E subscription \in BOOLEAN : Connect(dir, id, subscription)
         \/ Void \in {dir, id} /\ (Disconnect(dir, id) \/ RevokeLogin(dir, id))
    \/ Accept \/ Decline
    \/ InitCommand \/ \E yes \in BOOLEAN : InitAnswer(yes)
    \/ Doctor
    \/ EditConfig
    \/ StartDaemon
    \/ \E id \in Id : Show(id) \/ Withdraw(id)
    \/ Consent
    \/ ToolConnect \/ ToolDisconnect

LoginsSpec == LoginsInit /\ [][LoginsNext]_loginVars

-----------------------------------------------------------------------------
(* Properties *)

LoginsTypeOK ==
    /\ world \in World
    /\ config \subseteq Entry
    /\ client \in [Dir -> Id \cup {Void, "theirs", "plain"}]
    /\ disk \in [Id -> Place \cup {"no"}]
    /\ said \subseteq Id \X Dir /\ agreed \subseteq Id \X Place

(***************************************************************************)
(* A daemon uses a subscription only if the user said yes to a question    *)
(* that named the id and the place it is read from now: not to the login   *)
(* the id stood for before config.toml moved it, nor to one a restart put  *)
(* under the id while the question was on the screen.                      *)
(***************************************************************************)
OnlyTheLoginAgreedTo ==
    Running => \A l \in daemon.logins :
                   Granted(daemon.consent, l) => <<l.id, l.at>> \in agreed

(***************************************************************************)
(* Two logins of a product are never one: a daemon that started reads each *)
(* from a directory of its own.  (A CODEX_HOME moves the default login     *)
(* where config.toml cannot see it, and is left out.)                      *)
(***************************************************************************)
NoLoginTwice ==
    Running /\ daemon.home = Void =>
        \A l, m \in daemon.logins :
            ClientDir(l.at, Void) = ClientDir(m.at, Void) => l = m

\* A yes stands for one login: the one it was asked about, which no other is.
\* Code: consent.rs, state.rs set_consent, config.rs validate.
ConsentNamesOneLogin == OnlyTheLoginAgreedTo /\ NoLoginTwice

\* The URL in `d` reaches the login kept there, if one is on, and no other.
ReachesItsOwn(logins, d, url, home) ==
    LET own == {l \in logins : l.on /\ ClientDir(l.at, home) = d}
    IN  /\ Serves(logins, url) \subseteq {l \in logins : ClientDir(l.at, home) = d}
        /\ own # {} => Serves(logins, url) # {}

(***************************************************************************)
(* A URL that a command or the control API writes into a client's file is  *)
(* that of the login kept beside it: its requests are paid for by that     *)
(* login and no other, and it is not left without one.  Commands answer    *)
(* for a config.toml that loads, the daemon for what it has registered.    *)
(* (Left out: a CODEX_HOME, as above; and for the daemon, a login moved to *)
(* the usual directory under another name, which it compares as a string.) *)
(***************************************************************************)
WiredToItsOwn ==
    [][ Claude \/ exported = Void =>
        \A d \in Dir : client'[d] # client[d] /\ client'[d] # Void =>
            IF room'.command # room.command \/ term' # term
            THEN Valid(config') => ReachesItsOwn(Configured(config'), d, client'[d], exported)
            ELSE \/ ReachesItsOwn(daemon.logins, d, client'[d], daemon.home)
                 \/ \E l \in daemon.logins : l.at # Void /\ DirOf[l.at] = d
                                             /\ l.at # ToolPlace ]_loginVars

(***************************************************************************)
(* A command leaves a config.toml that a daemon would start with one that  *)
(* it still starts with, and every entry of the user's in it.              *)
(***************************************************************************)
StaysStartable ==
    [][ config' # config /\ room'.edit = room.edit =>
            (Valid(config) => Valid(config')) /\ config \subseteq config' ]_loginVars

\* What is said when a yes replaces the only record of a place whose client
\* still names the login.
Tells(warnings) ==
    \A i \in Id : disk'[i] \in Place /\ term.ledger[i] \in Spelling /\ disk'[i] # term.ledger[i] =>
        LET d == DirOf[term.ledger[i]]
        IN  \/ d = ClientDir(disk'[i], exported)
            \/ client[d] # i
            \/ <<i, d>> \in warnings

(***************************************************************************)
(* `connect` says which client a moved login leaves behind before the yes  *)
(* that makes the ledger forget where the login was.                       *)
(***************************************************************************)
ConnectSaysFirst ==
    [][ Accept => Tells(said) ]_loginVars
=============================================================================

