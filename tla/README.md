# A formal model of IronWire

IronWire is a proxy on the loopback interface between coding agents (Claude
Code, Codex and others) and the accounts their user owns: subscriptions, API
keys, NEAR AI, local models. It decides per request which backend serves it,
keeps each conversation on one backend while that is sensible, fails over before
the first byte, translates between the wires of agent and provider, keeps the
reply's stream alive, hides private values, and records what was used. This
directory specifies that behaviour in TLA+, checks it with TLC and proves most
of it with TLAPS. Paths below are relative to the repository.

## The system

| Component | State it keeps | Operations | What makes it correct |
| --- | --- | --- | --- |
| Routing policy (`ironwire_core/src/policy.rs`) | one table of sticky routes (backend, rung, `since`, `last_seen`, two timers); the accounts that minted encrypted reasoning; the pin | `decide_with_override`, `forget`, `set_pin`, `note_reasoning_account` | no move before its debounce; no family switch in the middle of a tool loop; permission asked on every decision; reasoning goes home; a way back from every descent |
| Circuit breakers (`ironwire_upstream/src/breaker.rs`) | per backend: state, failures in a row, `opened_at`, probes | `allows`, `record_success`, `record_failure` | an outage does not leave a circuit open for ever |
| Dispatch (`ironwire_proxy/src/pipeline.rs`) | per request: candidates, excluded backends, attempts, retries | `dispatch_inner` and its retry rules | gives up only when nothing is left; never redials what it gave up on; always ends |
| Stream resilience (`ironwire_proxy/src/resilience.rs`) | per reply: buffer, held envelope, commitment, silence, reconnects | `guard`, `restart` | what the client reads is one try, in order, and ended honestly |
| Translation (`ironwire_translate/`) | the blocks open in a stream | one state machine per wire pair | streams are well formed, calls arrive whole, histories stand up |
| Quota (`ironwire_core/src/quota.rs`, `quota_store.rs`) | per backend: last reading, persisted | readings, 429s, restore | a reading is not believed past its reset, and not lost by a restart |
| Registry and daemon state (`ironwire_proxy/src/state.rs`, `control.rs`) | backends, consent, privacy mode, usage memo | snapshots, `set_consent`, `set_privacy_mode`, `usage_report` | a request obeys the settings in force when it came |
| Spend caps (`spend.rs`), admission (`admission.rs`) | day totals; bindings with an expiry | check, charge, seed; register, revoke, snapshot | a cap or a binding is honoured when it is used, not only when it is read |
| Ledger, bodies, proofs (`ironwire_ledger/`, `proof.rs`, `facade/guard.rs`) | SQLite rows, body files | record, roll, prune, settle | one row an exchange; files and rows agree; proof only of what is whole |
| Token spool (`token_spool.rs`) | captures, leases, files | record, acquire, renew, release, prune | a leased capture is not pruned, and nothing is kept for ever |
| Privacy filter (`ironwire_privacy/`, `privacy.rs`) | salts per conversation, one map per request | substitute, reverse over chunks | what was hidden comes back, wherever the stream is cut |
| Consent, credentials, logins (`ironwire_creds/`, `config.rs`, `commands/`) | the consent file, `config.toml`, other products' credential files | grant, revoke, connect, read, refresh | a yes, a URL and a directory mean one login and keep meaning it |
| Provider adapters (`ironwire_upstream/`) | quota and catalogue learnt, read permits | status, send, probe, observe | a rotated token does not lose a request; reads stay within their bounds |
| Embedding and lifecycle (`embed.rs`, `embed/`, `shutdown.rs`) | the lock of a home directory, port, pointer, token | open, publish, release, drain | one owner per home, also after a crash |
| Agent configuration (`ironwire_agents/`, `commands/connect.rs`) | the agents' own files | preview, confirm, apply, undo | the user's part of a file stays the user's |
| Catalogue and updates (`ironwire_catalog/`, `ironwire_update/`) | the document in force, its cache | fetch, verify, install, notice | never older than what was trusted |
| Usage statistics (`ironwire_usage/`) | none (memo in the daemon) | blocks, burn rates, ceilings | the windows account for every row once |

A request passes through a facade (identity, key, peek), the privacy filter and
`dispatch_inner` (registry snapshot, circuits, policy, adapter); its reply comes
back through the observer, the translator, the reverser and `guard`, which may
dispatch again to restart a stream; a row and a proof are left behind. Handlers
run concurrently on tokio; the policy, the board, consent and the quota of each
backend are behind mutexes of their own that are never held over an await, so
concurrent requests interleave at every lock and every await. A client that
hangs up drops its handler at an await. Commands, the control API, the user's
editor and other products write the same files as the daemon, at any time.

The hazards this code is exposed to, with the line where each bites and the
properties that watch it, are the list `hazards` of `PROJECT.json`; the
components with their status are its list `components`.

## Modules

| Module | What it is |
| --- | --- |
| `Policy` | The stateless half of the policy: `usable`, `eligible`, `select`, the forced branch, and everything one decision may answer when only the conversation's place is known |
| `Sticky` | The promise of the policy, without timers, capacity or time |
| `Routing` | `Policy` the struct: table, sweep, eviction, two debounces, promotion, pins, forget. Implements `Sticky` |
| `Breaker`, `Dispatch` | One circuit; `dispatch_inner` for several requests at once over shared circuits, routes and quota. The policy in it is `Sticky`'s |
| `Updates` | The signed catalogue and the notice of a release, over a daemon whose binary is replaced |
| `Choice` | The model a request is given, or the refusal it is told |
| `Convert`, `Translate`, `Reply` | The pivot between wires; the streaming translators; a conversation that goes on over several wires |
| `Stream` | `guard` between an upstream that may do anything and the client |
| `Privacy` | Salts, minting, substitution and the reverser over chunks |
| `Origins` | The account lock on encrypted reasoning |
| `Upstream` | Credentials read, refreshed by others, sent, refused and probed, within permits |
| `Spool` | `TokenSpool`: captures, files and leases, with crashes |
| `Ledger` | The row, the bodies and the proof of each exchange, with crashes |
| `Usage` | The status screen's report and its memo |
| `Home` | The daemons of one home directory: lock, token, port, pointer, quota file, event streams |
| `Access` | Privacy mode, consent, caps and bindings, changed while requests read them |
| `Agents` | The agents' configuration files and everyone who edits them |
| `Logins` | Several logins of one product: ids, directories, consent, clients and commands |
| `Serving`, `Answer`, `Request`, `Records`, `Control` | Compositions (below) |
| `*Proofs` | Theorems |
| `MC*` | Instances for TLC |

The five compositions put components side by side that share no state or touch
different files: a behaviour is the story of one while the others stay where
they start, so the state space is the sum and not the product. `Serving` is
`Dispatch` and `Updates`, `Answer` is `Choice`, `Reply` and `Stream`, `Request`
is `Privacy`, `Origins` and `Upstream`, `Records` is `Ledger` and `Usage`,
`Control` is `Access` with `Agents`, and `Logins`. What does interact is one
module: the loop, the circuits and the routes (`Dispatch` over `Breaker` and
`Sticky`), the translators and the history they build up (`Reply` over
`Translate` and `Convert`), settings and the requests that read them (`Access`),
restarts and the edits they cut short (`Agents` over `Access`).

## How state and actions correspond to the code

**Routing.** A step of `Decide` is one `decide_with_override` under the policy's
lock; its disjuncts are the ways through `route`: `Hold`, `Stay`,
`AwaitPromotion`, `Promote`, `Select`, `Refuse`, and for a named backend
`TakeNamed` and `RefuseNamed`. Timestamps are ages that stop growing at the
largest bound any rule compares them with, so time is unbounded and the state
space finite. `loop` is the client's side of the conversation, which the code
only sees as "the last message is a tool result". A backend is what the policy
asks of it: wire, consent, trust, prompt cache, its place in the sort orders, and
for every model a request may name its fit (`Fit`) and whether its provider lists
that name (`Listed`); `world` holds what changes by itself. Every answer that
nobody named, a sticky one included, passes `keep_listed_model` (`Kept`,
`StayHome`): where the backend's provider lists the name asked for, `SmallerModel`
becomes `Preferred` in the answer and in the table, at once, and the timers stay
as they are. (A pin or header never gives that rung, so it needs no such step.)

**Dispatch.** The phases of a slot are the stretches of the handler between
awaits: `Arrive`, one round of the loop (`Decide`, `BreakOff`, `Refused`,
`RanOut`), `Mistranslate`, the outcome of the send (`Serve`, `FailDown`,
`FailBusy`, `FailLimited`, `FailReturned`), the sleep before a retry (`Resume`)
and `Report`; `HangUp` drops the handler at its awaits. `seen` and `skipped` are
the candidate list as built on arrival: later changes of `world` do not reach a
request in flight, as in the code.

**Choice.** `TakeTurn` is one decision of a client of a plain facade about one
of a few bodies; between turns catalogues are restocked, backends fare
differently, consent, privacy and pins change, and the route is forgotten.

**Reply.** `Ask` and `AskWhole` translate the client's history to another wire;
`Frame`, `Lose`, `Cut` and `Finish` are the arms of the translating stream, and
`ReadReply` is the agent, which keeps what it was given, runs its tools and
replays all of it. A translator is a record, each of its methods an operator of
`Translate`; the two readings and writings of a conversation are `Convert`'s.

**Stream.** A frame is its try, its place in that try and its kind. `Receive`
and `Extend` make a chunk, `Fragment` ends one inside a frame; `Forward`,
`Heartbeat`, `Hold` and `Commit` are the arms of the frame loop, `Quiet` and
`Stall` those of the timer, `Break` and `Close` those of an upstream that fails
or ends. The reconnect is one step here and a whole request in `Dispatch`.

**Privacy.** `Turn` is one request: its salt found, drawn or evicted, its values
resolved and replaced; `Chunk` cuts the answer after any number of symbols and
runs the reverser on it; `Finish`, `Break` and `Drop` end it; `Replace` is the
daemon starting over with new salts.

**Origins.** A turn is `Ask` (the snapshot of the logins), `Decide`, `SendTurn`
and `Reply` or `Fail`, with `Relogin` possible between any two. `Hours` and
`Die` take records away.

**Upstream.** An inquirer is a status, a request, a probe or a listing at one of
its awaits; a read is its slot, its permit and its blocking job, which goes on
when the caller gives up (`GiveUp`). `Refresh`, `Revoked` and `LockKeychain` are
what other products do to the store.

**Spool.** `rows`, `leases` and `files` are what is on disk. A call holds the
store's lock and one IMMEDIATE transaction, so `Acquire`, `Renew` and `Release`
are one step each. `record` and `prune` also touch files, which no transaction
undoes: `op` is the call between two of them, and `Stop`, a crash or an error,
drops it with its transaction and keeps its files. Every call takes `now` from
its caller, who read it before waiting for the lock: `late` is by how much it is
old. `LeasePinsSnapshot` leaves out leases a late call granted or renewed after
they had lapsed (`stale`), for which the code makes no such promise.

**Ledger.** `job[e].at` is where an exchange is between facade, guard and tee;
`Write` has the steps of a reply's end (files, row, roll, unlink), each an SQL
statement or a file operation; `Prune` and `Judge` are the daily sweep and the
settlement of proofs in the same grain; `Crash` loses what is in memory.

**Usage.** `Record` is a row that comes when its request ends, under the time it
began; `Ask`, `Enter`, `Made`, `Misread` and `Reuse` are a caller of
`usage_report` with the memo and its change token. Time runs in half-hour ticks
and tokens in thousands; `Now` is fixed, the history is chosen at `Init`, and at
most `MaxFlying` requests still running record late. The ten seconds of the memo
are below a tick. A ledger that cannot be read makes an empty report, which is
remembered under the token (`Misread`).

**Home.** `at[d]` is the step a process has reached in `Embedded::open`,
`serve` and shutdown; each call that touches a file, the lock or the listener is
a step. `Legacy` is an older IronWire without a kernel lock.

**Access.** A call that changes the privacy mode is three steps (registry,
filter, file) and one about consent three (answer, snapshot, save with its
roll-back); a request is the reads it makes in the order it makes them.
`settled` and `alone` are history: what the last call nothing contested left.

**Agents.** A file maps its nodes to None, a value of the user's, a value of
ours, or a table (plain, inline, or a scalar in its place); `Connected` and
`Disconnected` are the two edits of the catalogue's tools and of Codex. An edit
is worked out from the file as it was read, and checked, backed up and written
in later steps; `overtaken` marks what the user changed after the last look.

**Logins.** A directory is a string and what it resolves to. The terminal runs
`connect`, `disconnect`, `init`, `login revoke` and `doctor`, which may wait for
an answer (`term`); the GUI has a question on its screen (`prompt`); the daemon
keeps what it read at start. `EditConfig` waits for a command that waits, and
commands fall back to defaults when the file does not parse, as the code does.

**Updates.** The document in force, the cached one and the compiled-in one of
the running build; a tick is a day. The signing key is assumed to verify
something (today's is a placeholder, so the channel is inert), a publisher to
stamp schemas honestly.

## Runs

| Run | Asks | Bounds |
| --- | --- | --- |
| `routing` | Timers, permission on every route, no move before its debounce, no entry into a foreign family mid-loop, and that every step implements `Sticky` | 3 backends (a login, a metered key, a foreign one), 2 models (one only the key's provider lists, though not in its tier), 2 agents with a conversation each, a table of 1, debounces 1 and 2, TTL 2 |
| `routing_live` | A conversation always finds back up, where the backend it prefers serves the models it asks for | the same backends and models, 1 agent, no pins |
| `serving` | The cap never ends a request early; the documents are never taken back, unverified or half | 2 slots of one conversation, 2 backends, threshold 2, 1 retry; 3 documents, 2 builds |
| `dispatch_live` | Endings, what is given up is forgotten, and the circuit after an outage | 1 slot, pins, tool loops, consent, privacy and quota changing |
| `answer` | The model chosen or the reason told; streams, calls and histories over wires; the guard | 3 vendors; 3 turns, 2 tools, 1 fault; 1 envelope, 6 frames, 2 restarts, 3 ticks to a stall |
| `spool` | What a lease holds stays readable for no longer than the hard lifetime, and an end to every file | 2 captures of one session, 2 leases, room for 4 bodies, retention 1, lifetime 2, calls 1 tick late |
| `ledger` | One row, the right bodies, honest proofs, an end to pending; the status screen | 2 exchanges of one session, 1 fault, 1 crash, 2 attempts; 3 requests, 2 askers |
| `home` | One owner, named truly; the quota over a restart; letting go | 2 processes and an older one, 1 port |
| `request` | Restored or failed; reasoning goes home; reads within bounds; a rotation survived | a value across two others, 2 items, chunks of up to 4; 2 conversations, 2 logins, 2 records; 2 inquirers, 1 permit, 1 thread |
| `control` | Settings, bindings, caps, the agents' files; consent, wiring and `config.toml` of several logins | 2 callers, 2 slots, 2 sessions, five plans of at most 5 events; 5 spellings of 3 directories, 4 ids, four errands |
| `privacy_events`, `updates_fix` | two documented claims the code does not keep (below) | the smallest that shows it |

Why these bounds are enough to be interesting. Three backends and
two models give each of the four rungs, `SmallerModel` with a put-back by the
listed name (the key, asked for the other model) and without; two conversations over a table of one make every new route an
eviction, in every state of the other; debounces of one and two ticks
distinguish the three cases of each timer and the two from each other. Two slots
that share a key and both backends reach every pair of positions in the loop.
Six frames allow an envelope, content and a terminal frame in one chunk or many,
and two restarts let each try leave something behind. Two captures under two
leases can be held in common, apart, or by one and released by the other; room
for four bodies is what two captures need. Two exchanges of one session make one
of them outlive the other in either order. One permit, one thread and one slot
are the case where everybody could wait for everybody. The plans of `control`
count events by kind: each is one kind of story (two mode changes around a
request and a restart, two answers about consent and a save that fails, ...), so
that calls of one kind meet in every order. Symmetry is used over
interchangeable slots, callers, conversations and holders, in runs that check no
liveness.

### Fairness

`routing_live`: time passes; every request that holds the lock is decided; each
agent goes on sending plain turns, and tool loops end now and then (an
assumption on the client: a loop that never ends blocks the climb by design).
`dispatch_live`: upstreams answer or time out, handlers run, requests keep coming
and time passes. `answer`: the guard is polled, so frames at hand are handled and
its timer fires. `spool`: the maintenance task prunes every five minutes
(`embed.rs:754`), so a prune is begun and gets on again and again however often
calls and errors come in between (strong fairness); a `record` that holds the
lock ends. `ledger`: a reply's write is synchronous, the round of proofs is on a
timer, and a daemon that died is started again. `home`: replies end, handlers
run, and the supervisor goes on. Upstreams, users and other products are under
no fairness anywhere.

### Where the code and its documentation disagree

Run:

1. `privacy_events`: a placeholder the model spells over two events of its stream
   has the framing of the second between its halves, and both halves pass
   (`reverse.rs:159`), against `docs/PRIVACY.md:202`.
2. `updates_fix`: `AnthropicBackend::with_catalog` has no caller outside tests
   (`anthropic.rs:94`): a fix that is signed, fetched and in force changes no
   request, against `embed/catalog.rs:3`.

Noticed while modelling, and exempted or left out where a property is near:

- *Routing and dispatch.* Sustained pressure moves a tool loop on a foreign
  backend to the native family mid-loop (`policy.rs:1091`, `docs/PROTOCOL.md`
  484). A rung put back for a listed name is put back for the conversation: its
  next turn, for a model the backend has only a smaller one for, is served as
  `Preferred` and looks for nothing better (`policy.rs` 833 to 842); `PutBack` in
  `ClimbsAreEarned` admits the step, which moves nothing. An open circuit on the only usable backend is skipped while some useless
  candidate has a closed one (`pipeline.rs:472`, comment at 456). A half-open
  circuit admits every request. `forget` of one request may drop the route
  another has just taken on the same key. A failover of an opening without a
  session contends for its own slot (`Minted::Contended`, `policy.rs` about 370).
- *Choice.* A sticky turn replays the model chosen for an earlier request and
  never promotes it (`policy.rs` 1099 to 1120), so `DescentIsSeen` exempts sticky
  turns. `list_models` lists models no backend of the wire can serve. A request
  no backend could ever serve may be told 429, since a transient refusal is
  checked first. `cache_control` on tools only counts for nothing. And
  `incumbent_is_usable` is said to tolerate "everything `usable` refuses, except
  the mid-tool-loop rule" (`policy.rs:1669`), but `eligible` asks that rule first
  (`capability.rs:311`), so its refusal hides the others: within a tool loop a
  conversation stays on a backend of another wire that has no room for it, or
  takes no images. The proof of `FitsItsWindow` failed there and a body of 150
  for a window of 128 showed it; `CarriesOn` exempts those turns. A backend the
  user named is asked with the rule lifted (`ForcedRefusal`) and has no such gap.
- *Stream.* Of two envelope frames the first is dropped (`resilience.rs:346`);
  text that names a terminal event hides a truncation (236); an upstream that
  fails after its terminal frame adds an error to it.
- *Translation.* On messages, text after a call opens block 0 a second time and
  restarts the count at 1 (`stream.rs` 685 to 700), so that two blocks of one
  message share an index, though the comment at 609 to 612 reckons with "a client
  tracking blocks by index"; `StreamIsWellFormed` checks the numbers of every
  answer and admits this case alone, by name (`BlockZeroAgain`). A call that was received in half is emitted as whole when the
  stream ends or fails (`stream.rs` 19 to 21); an upstream error becomes a normal
  end; a dropped call still reports `ToolUse`; `Dropped.reasoning_blocks` is
  documented but nothing is sent; several texts of one message are joined with a
  line break on Chat.
- *Privacy.* Invalid UTF-8 overtakes held text; a stray opening bracket before a
  placeholder lets it pass; plaintext is put into raw JSON unescaped; a later
  overlapping finding is dropped with its tail in the clear.
- *Ledger and home.* A crash between the deferral of a proof and its settlement
  leaves it pending for ever; rows crossing the retention keep their files until
  the next sweep; an Anthropic restart records nothing (`facade/anthropic.rs`
  391); the pointer is withdrawn after the lock is released (`serve.rs:127`).
- *Settings.* A consent that cannot be saved restores what another call revoked
  meanwhile; overlapping mode changes leave registry, filter and file apart; a
  reply that began before midnight wipes what today has spent; a named backend
  ignores its cap; commands write `consent.json` under a running daemon.
- *Agents.* The command line overwrites its backup on every write
  (`connect.rs:1193`), against the comment in `tools.rs`; a user's own empty table
  goes with a disconnect; the daemon's write is not atomic; lines the user puts
  inside our provider's block go with it.
- *Logins.* Entries of other kinds with an id of their own are built under the
  discovered id, so their caps and trust never apply; `init` records the yes
  before it has looked at what is left behind (`init.rs:506`); the daemon compares
  a login moved to an alias of the usual directory as a string
  (`control.rs:1203`); a codex default's consent does not follow `CODEX_HOME`.
- *Updates and usage.* A cache that cannot be read, or a downgrade, lets an older
  signed document be accepted again; an entry whose key changed between connect
  and disconnect leaves our URL behind; the update check runs at every start when
  the last failed; an empty report after a failed read is shown for ten seconds.

## What is proved

For every set of backends, keys, slots, exchanges, captures, leases, daemons,
calls, sessions, tools, logins and directories that satisfies the named
assumptions of the modules (TLC evaluates them on the instances it checks):

| Theorem | Says |
| --- | --- |
| `RoutingProofs!TypeCorrect`, `CeilingHolds` | the table keeps its types and its ceiling |
| `TimersAreLocal`, `GateHolds`, `HomeIsSticky`, `ClimbsWait`, `TurnBoundary` | the safety properties of run `routing`; a climb waits for the debounce, unless it is a rung put back where it stands |
| `RoutingProofs!Implements` | `Routing` implements `Sticky`: every step is one the policy promises, or moves only timers |
| `ServingProofs!DispatchTypeCorrect`, `NothingIsLeft`, `GivenUpForgotten` | `Dispatch`: types; the cap never ends a request early; what was given up on is forgotten |
| `ServingProofs!FaithIsKept` | `Updates`: documents never go backwards, the daemon follows its cache, no half-understood entry is written, a check waits a day |
| `AnswerProofs!RestartIsInvisible`, `StreamsAreWhole` | `Stream`: one try and in order; whole and honestly ended, where `Envelopes <= 1` and `~MayQuote` |
| `AnswerProofs!ModelsAreChosenSoundly` | `Choice`: the model that leaves is the one asked for, or one that was sized, and recorded as less where it is; a 429 is worth waiting on |
| `AnswerProofs!TranslatedStreamsAreWellFormed` | `Reply`: what the client of a translated answer receives begins and ends once, has one block open at a time, and is numbered in order from 0 up, whatever frames were lost; but text after a call on messages is block 0 again |
| `AnswerProofs!ToolsAreAwaited` | `Reply`: a client that was handed a call is told to run it, even if the upstream never gave a reason |
| `TranslationProofs!CallsReachTheirAgent` | `Reply`: of a whole answer within the parser's bounds the agent gets every call once, in order, complete, under its own name and an id that leads back |
| `RequestProofs!SpoolTypeCorrect`, `LeasesPin` | types; a lease pins its snapshot, within the hard lifetime |
| `LedgerProofs!LedgerTypeCorrect`, `OneRowEachAlways`, `RightBodiesKept`, `ProofIsOfAWhole` | types and the bound on attempts; the three safety properties of `Ledger` |
| `LedgerProofs!StatusHonest` | the status screen: windows account for the rows, forecasts and ceilings follow from them, nobody is told less than was recorded when it asked (alone: `StatusIsNeverBehind`) |
| `HomeProofs!HomeHeldByOne`, `QuotaOutlives` | one owner, truly named; the quota over a restart |
| `RequestProofs!GoesHome` | `Origins`: encrypted reasoning goes back to the account that minted it, or nowhere |
| `RequestProofs!RefreshIsSurvived`, `ReadsAreBounded` | `Upstream`: one refresh loses no turn, no token is sent twice; permits are neither leaked nor doubled, and somebody can always go on |
| `ControlProofs!SettingsObeyed`, `StaysBound`, `CapHonoured` | `Access`: modes and refusals; bindings; spend caps |
| `ControlProofs!FilesStayTheirs` | `Agents` |
| `ControlProofs!AgreedTo`, `ConfigStaysStartable`, `SaidBeforeForgotten`, `WiredRight` | `Logins` |

None of the invariants is inductive as it stands. What each proof adds:

- **Routing.** Types and timers together: that a conversation has been on its
  backend for a debounce is a fact about the age of its route, while the code
  compares a timer, and the two are related only because every timer was started
  on the present route. The action properties follow from `DecisionSources` (a
  route returned is the incumbent's, a climb's, a fresh selection's or a named
  one's, each with its rung as `KeptRung` leaves it). `TurnBoundary` needs that an agent alone on its key in a native loop has
  a native route or none. `Implements` maps the four sources to members of
  `Routes` and shows that a route just seen is not swept.
- **Dispatch.** `Paid`: every attempt beyond the retries under way was paid for
  by a backend that is excluded by now, so that the cap, a multiple of the number
  of backends, is reached only when all are excluded. That the loop does not break
  off on its own account rests on a lemma about the policy: an answer over a
  backend it was not told to take is over one it was told is healthy; and on the
  existence of a best candidate, by well-founded induction.
- **Updates.** A serial is signed once, and what is in force or in the cache was
  signed; a daemon that could use its cache has nothing older in force than the
  cache holds, so that what it caches next is newer than both; a check is due only
  when the last answer that was kept is a day old. An entry comes out of a build
  as it was signed because the schema a document bears is at least what its
  fields need: the assumption `UpdatesAssumption` makes of a publisher.
- **Stream.** The guard remembers the envelope it holds and whether content went
  out. What the client has is compared with `Done`, the frames of the current try
  the guard has looked at: all there were, but for the chunk at hand. Before
  content the client has nothing and the guard all of `Done`; from then on the
  client has it all. `StreamsAreWhole` is proved where the two disagreements
  named above are out of play: with two envelopes the guard keeps the latter only, and
  a terminal event is found by its name anywhere in a frame.
  `RestartIsInvisible` needs neither proviso.
- **Choice.** An answer is judged in the world it was given in, so the invariant
  says little of the past: shelves hold catalogues, and a home is a backend.
  `Chosen` is what `select` promises of a route, `Promises` what any route does of
  the model that leaves on it, fresh, promoted, sticky or named. That the best of
  several candidates is one of them is by well-founded induction on the sort key.
  Assumed of the constants is that no provider lists a model called "default",
  the name a translated body without one is given.
- **Streams between wires.** `ReplyInv` relates the three parts of a stream at
  work. What the client has so far is open or over (`Going`, `Over`), with the
  block that is open and the numbers given; the emitter knows both (`Flowing`);
  the parser has begun exactly when the emitter has; and of the frames to come
  (`Comes`) the first begins an answer not begun, "[DONE]" is the last. The
  emitter's text block is opened anew only after a call (`EndsInCall`), so that the
  one number out of order is the block 0 of `BlockZeroAgain`. The parser's part
  is what it tells of a frame (`Told`): "start" first and once, no call of which it
  has not heard. That a writer keeps the promise for all deltas of a frame, and
  that flattened pieces keep their order, is by the least counterexample
  (`Ladder`) on the recursive functions `Writing` and the library's fold.
  `ReplyAssumption` says that an answer is a sequence of the three pieces, and
  that the agent's tools are a list with names, of which one is in no namespace.
  `ToolsInv` follows the calls the client was handed to the reason it is given
  (`Handed`, `Follows`): as long as a named call is among the parser's slots, the
  reason it holds (`GivenReason`) is that tools are wanted, or none, in which case
  the end of the stream says so; and after the upstream's own word no frame stirs
  a call (`Hears`), so that no call comes behind a reason that knew of none.
- **Calls of an answer.** The calls of an answer are listed apart from how they
  come (`CallsOf`): where the parser keeps each, its id, name and fragments. At
  every frame the parser knows so many of them, of the last so much, and has handed
  out so many (`Knows`, `Here`); each frame of each wire moves that forward by what
  it brings (`Beat`, `Move`), and what a frame makes it hand out are the next calls,
  whole and in order (`Delivers`), also where `finish` and a repeated end of a call
  hand out what is left. `CallsInv` says of a stream under way that the client
  has some calls and the frames to come bring the rest (`Tracks`). What the agent
  is shown follows from two ways there and back: `flatten` gives every namespaced
  tool an alias nobody else has, so `restore_item` finds its name (`NamesAre`); and
  an id that was decoded on one wire and encoded on another comes back as it was
  (`IdComesBack`) and no two of an answer become one (`IdsApart`). `HistInv` says
  that the history is a sequence, so that the names it takes are known.
- **Spool.** Which files can be missing (those of a capture queued for deletion or
  past its retention), what a prune under way may take (what no lease granted in
  time holds), and that identities are drawn once, so that a new capture is in no
  lease granted before it.
- **Ledger.** Who owes what. A row is owed by the guard, by the reply or by
  nobody, and the stage of a job says which; a body file is in the hand of the
  write that superseded it, or of the prune, only when its row names it no longer
  or is past the retention; and `Outlives` orders the rows of a session. `ScreenInv` is of the
  callers of the status screen: a report has all the ledger knew under its token,
  and a caller takes none whose token is older than its own.
- **Usage.** What a report says is proved of the operators, then kept: it was made
  of rows, and a row does not change (`Told`). `CutUp` is what `cut` has made of the
  requests up to one: a chain of windows, each of which starts after the last has
  ended, gaps in which nobody asked, and the last one ending no earlier than its
  last request (`Tip`); it goes from each request to the next whether that one opens
  a window, leaves a gap or goes on with the last. Of the ninth cut point: every
  rank is taken by the least number enough windows do not exceed (`RankExists`),
  and the point lies beyond the rank nine tenths of them have reached, or beyond
  the last (`PositionIs`). That the last hour is a part of a sum is again by the
  least counterexample (`SumsCompare`), where the order of adding must not matter
  (`AddingOne`). `UsageAssumption` asks for finitely many backends.
- **Home.** That one daemon serves rests on what an older IronWire finds (nobody
  past the probe) and leaves (its own port file); that the home names its daemon,
  on port, token and pointer changing only in hands that hold the lock; that the
  quota outlives a restart, on where it is between two daemons.
- **Reasoning.** `Sure`: for a conversation that lost no record it rests on, what
  is noted under its key or its digests is the account that minted, or that two
  disagree; so a route that may replay leads home. A lost record is one that
  lapsed, died, was evicted, or was evicted by the very turn that noted it, a case
  the proof brought up and a table of one record shows.
- **Credentials.** `UpstreamInv`: as long as nothing worse than a refresh befell a
  turn, its login is sound at every step, so whatever it reads can be used, and
  a token that was denied is not the one that is there now: the second read finds
  another. Every permit is free, with a call, or with the job of a call that was
  given up (`PermitsInv`); when nobody may go on, no thread is busy, so no read
  waits, so every permit is free, so no slot is held, and nobody is under way.
- **Settings.** A call is several steps and another may start between any two.
  What can be promised is promised of a call nothing contests: it is the only one
  of its kind (`AloneIsAlone`), what it settled is in force in every copy
  (`ModeSettles`, `RefusalsSettle`), and what a request has read agrees with what
  it was promised when it came in (`Promised`).
- **Money.** `MoneyInv`: of its own day the tracker has every row that is written
  and every reply that is billed and not written yet, and no later day has either,
  unless it went back a day (`AllIsTracked`); so what a row adds was in the
  tracker before. What a request had spent when it was considered is a sum the
  library defines by recursion; that the sum exists and grows with what it adds
  is proved by the least counterexample (`LeastNatural`, `SumsGrow`). For this
  `AccessAssumption` asks for finitely many metered backends and slots, which a
  configuration and a process have, and for every day up to the last.
- **Files.** `WellFormed`: a value of ours is at a setting, what holds a value is
  a table that is there, and Codex's three settings are what IronWire or the user
  puts there. Connecting and disconnecting preserve it and the user's values, and
  undo each other on a clean file, for any tree of tables of one level. An edit
  that waits was worked out from such a file and, unless overtaken, has all the
  user put there since.
- **Logins.** A consent record has three copies (the file, what the daemon read,
  what a command read before its question), and each names only places agreed
  to; a registry is one of a configuration a daemon could start with; and what a
  waiting `connect` is about to forget has been said. `WiredRight` follows the
  URL through the four ways a client is told which login to use.

Only model-checked: all liveness (`ClimbsBack`, `EveryRequestEnds`,
`ReopensAfterOutage`, `GuardGivesUp`, `NothingKeptForEver`, `PendingIsSettled`,
`LetsGo`), since fairness and ENABLED are out of the prover's reach.
What `Reply` and `Privacy` say of histories and text (`HistoryStandsUp`,
`RestoredOrFailed`) is about folds over sequences of any length.

## Not modelled

Prices; headers and the shapes of errors; the parsing of any format; the
patterns that find a private value; the schema migrations and summaries of the
ledger; the cryptography of receipts and catalogues; the download of an update,
which the code leaves to the user; the rendering of screens and the menu bar
app. The abstractions of each module are in its header; what each component's
model leaves out is in its note in `PROJECT.json`.
