------------------------------ MODULE Upstream ------------------------------
(***************************************************************************)
(* How a provider is asked (ironwire_upstream::{anthropic,                 *)
(* openai_responses, openai_chat, credential_read, observe},               *)
(* ironwire_creds::{claude, codex}, and the checks ironwire_proxy::state   *)
(* runs on all of them): the status a request routes by, the request, the  *)
(* probe of the control API and the models document, several at once and   *)
(* each given up at any await.  The credential is read afresh every time,  *)
(* on a blocking thread, from stores other products write: Claude Code and *)
(* Codex refresh their tokens, the user logs in and out, a Keychain locks. *)
(*                                                                         *)
(* Abstracted: headers and bodies, a token's letters, paths, and the text  *)
(* of an error.  A provider denies just the tokens it no longer honours.   *)
(***************************************************************************)
EXTENDS Naturals, FiniteSets

CONSTANTS
    Adapter,
    Registries,    \* sets of adapters a configuration may name
    Wire,          \* adapter -> "claude", "codex", "key" or "chat"
    Place,         \* adapter -> what its base URL names
    Inquirer,      \* calls in flight
    Reads,         \* MAX_READS
    Workers,       \* blocking threads of the host
    Checks,        \* BACKEND_CHECK_CONCURRENCY
    Models,        \* what a models document may list
    Reports,       \* the rate limits an answer may carry
    Wait,          \* the delay a 429 may name
    Lifetimes,     \* how long a token may be good for
    MaxTokens, Troubles, Inquiries,   \* bounds
    Nothing

ASSUME UpstreamAssumption ==
    /\ Registries \subseteq SUBSET Adapter
    /\ Wire \in [Adapter -> {"claude", "codex", "key", "chat"}]
    /\ Place \in [Adapter -> {"issuer", "loopback", "cleartext", "userinfo", "elsewhere"}]
    /\ IsFiniteSet(Inquirer)
    /\ Lifetimes \subseteq (Nat \ {0}) \cup {Nothing}
    /\ Nothing \notin [of : Adapter, serial : Nat, who : {1, 2}, until : Nat \cup {Nothing}]
    /\ Reports # {}
    /\ Reads \in Nat \ {0} /\ Workers \in Nat \ {0} /\ Checks \in Nat \ {0}

VARIABLES
    registry,   \* the adapters the daemon was started with
    minute,
    store,      \* adapter -> [keychain, file, locked]
    honoured,   \* tokens the provider takes
    inquiry,
    orphans,    \* reads nobody waits for any more: [queued, running]
    permits,    \* free permits of the read semaphore
    learnt,     \* adapter -> [models, document, windows]
    room,       \* adapter -> [primary, secondary]
    issued, troubles, inquiries

upstream == <<registry, minute, store, honoured, inquiry, orphans, permits, learnt, room,
              issued, troubles, inquiries>>

Unasked  == [at |-> "idle"]
At(c)    == inquiry[c].at
Wired(c) == Wire[inquiry[c].of]
Go(c, at) == inquiry' = [inquiry EXCEPT ![c].at = at]
World    == <<registry, minute, store, honoured, issued, troubles>>

Subscribed(a) == Wire[a] \in {"claude", "codex"}

-----------------------------------------------------------------------------
(* Credentials *)

\* Codex's tokens count as expired a minute early.
Past(a, t) == t.until # Nothing /\ t.until <= minute + (IF Wire[a] = "codex" THEN 1 ELSE 0)

\* What the product itself would use.
Current(a) == IF store[a].keychain # Nothing THEN store[a].keychain ELSE store[a].file

Sound(a) ==
    LET t == Current(a)
    IN  t \in honoured /\ ~Past(a, t) /\ ~store[a].locked

\* What a read yields: a token that can be used, or nothing.
Yields(a, t) == IF t # Nothing /\ Subscribed(a) /\ Past(a, t) THEN Nothing ELSE t

\* `account_scope`: Claude's tokens do not say whose they are.
ScopeOf(a, x) == IF Wire[a] = "claude" THEN Nothing ELSE x.who

\* `credential_host::check`; a chat endpoint is its credential's own host.
HostOk(a) == Wire[a] = "chat" \/ Place[a] \in {"issuer", "loopback"}

-----------------------------------------------------------------------------
(* Rate limits *)

Seen(r)       == <<"seen", r.used, IF r.resets = Nothing THEN Nothing ELSE minute + r.resets>>
Unknown       == <<"unknown">>
Exhausted(by) == <<"exhausted", by>>

\* Of Anthropic's two windows the one the provider says binds, else the
\* fuller.  A claim to a window that was not reported falls to the other.
Binding(five, seven, claim) ==
    LET or(x, y) == IF x # Nothing THEN x ELSE y
    IN  CASE claim = "five"  -> or(five, seven)
          [] claim = "seven" -> or(seven, five)
          [] OTHER -> IF five # Nothing /\ seven # Nothing /\ seven.used > five.used
                      THEN seven ELSE or(five, seven)

\* `record`: a window that was not reported keeps what is known of it, and a
\* wait the provider names says more than any percentage.
Recorded(q, a, report) ==
    LET primary == IF Wire[a] = "claude"
                   THEN Binding(report.five, report.seven, report.claim)
                   ELSE IF Wire[a] \in {"codex", "key"} THEN report.five ELSE Nothing
    IN  [primary   |-> IF report.wait # Nothing THEN Exhausted(minute + report.wait)
                       ELSE IF primary # Nothing THEN Seen(primary) ELSE q.primary,
         secondary |-> IF Wire[a] \in {"codex", "key"} /\ report.seven # Nothing
                       THEN Seen(report.seven) ELSE q.secondary]

-----------------------------------------------------------------------------
(* A call and its reads *)

Ended(call, v) ==
    [at |-> "done", of |-> call.of, kind |-> call.kind, verdict |-> v, news |-> call.news]

\* A models document that is kept, or that a provider has none of, is answered
\* at once.
Begin(c, a, kind) ==
    /\ inquiry[c] = Unasked /\ inquiries > 0
    /\ kind = "models" => Wire[a] \in {"codex", "key"} /\ learnt[a].document = Nothing
    /\ inquiries' = inquiries - 1
    /\ inquiry' = [inquiry EXCEPT ![c] =
           [at |-> CASE kind = "models" -> "permit" [] kind = "probe" -> "probeSlot" [] OTHER -> "statusSlot",
            of |-> a, kind |-> kind,
            phase |-> IF kind \in {"turn", "listing"} THEN "status" ELSE kind,
            expected |-> Nothing, token |-> Nothing, tried |-> {}, list |-> Nothing,
            news |-> IF Sound(a) THEN "none" ELSE "trouble"]]
    /\ UNCHANGED <<World, orphans, permits, learnt, room>>

\* A check holds its slot until its status or its probe has come back.
Holding(phase) ==
    Cardinality({c \in Inquirer : At(c) \notin {"idle", "done", "statusSlot", "probeSlot"}
                                  /\ inquiry[c].phase = phase})

SlotFree(c) == \/ At(c) = "statusSlot" /\ Holding("status") < Checks
               \/ At(c) = "probeSlot" /\ Holding("probe") < Checks

\* A chat backend has its key at hand; the others read.
TakeSlot(c) ==
    /\ SlotFree(c)
    /\ Go(c, IF Wired(c) = "chat" THEN "file" ELSE "permit")
    /\ UNCHANGED <<World, orphans, permits, learnt, room, inquiries>>

PermitFree(c) == At(c) = "permit" /\ permits > 0

TakePermit(c) ==
    /\ PermitFree(c)
    /\ permits' = permits - 1
    /\ Go(c, "queued")
    /\ UNCHANGED <<World, orphans, learnt, room, inquiries>>

Reading(c) == At(c) \in {"keychain", "file"} /\ Wired(c) # "chat"
Running    == Cardinality({c \in Inquirer : Reading(c)}) + orphans.running

ThreadFree == Running < Workers

StartRead(c) ==
    /\ At(c) = "queued" /\ ThreadFree
    /\ Go(c, IF Wired(c) = "claude" THEN "keychain" ELSE "file")
    /\ UNCHANGED <<World, orphans, permits, learnt, room, inquiries>>

\* A token a status was asked for is not sent: its scope is what routing sees.
Got(c, x) ==
    LET a    == inquiry[c].of
        call == inquiry[c]
    IN  IF x = Nothing THEN Ended(call, "unusable")
        ELSE IF call.phase = "status" /\ call.kind = "listing" THEN Ended(call, "ok")
        ELSE IF call.phase = "status"
             THEN [call EXCEPT !.at = IF Wire[a] = "chat" THEN "file" ELSE "permit",
                               !.phase = "send", !.expected = ScopeOf(a, x)]
        ELSE IF call.phase = "send" /\ call.expected # Nothing /\ call.expected # ScopeOf(a, x)
             THEN Ended(call, "moved")
        ELSE IF ~HostOk(a) THEN Ended(call, "misplaced")
        ELSE IF call.phase = "again" /\ x \in call.tried THEN Ended(call, "rejected")
        ELSE [call EXCEPT !.at = "dial", !.token = x]

GiveBack(c) == permits' = IF Wired(c) = "chat" THEN permits ELSE permits + 1

\* An item that is there is what the product uses, sound or not.  A Keychain
\* that does not answer is as good as none, for as long as there is a file.
LookInKeychain(c) ==
    /\ At(c) = "keychain"
    /\ LET s == store[inquiry[c].of]
       IN  IF s.locked \/ s.keychain = Nothing
           THEN Go(c, "file") /\ UNCHANGED permits
           ELSE /\ inquiry' = [inquiry EXCEPT ![c] = Got(c, Yields(@.of, s.keychain))]
                /\ GiveBack(c)
    /\ UNCHANGED <<World, orphans, learnt, room, inquiries>>

\* Reading may fail, or panic.
LookInFile(c) ==
    /\ At(c) = "file"
    /\ \/ /\ inquiry' = [inquiry EXCEPT ![c] = Got(c, Yields(@.of, store[@.of].file))]
          /\ UNCHANGED troubles
       \/ /\ Wired(c) # "chat" /\ troubles > 0 /\ troubles' = troubles - 1
          /\ inquiry' = [inquiry EXCEPT ![c] = [Got(c, Nothing) EXCEPT !.news = "trouble"]]
    /\ GiveBack(c)
    /\ UNCHANGED <<registry, minute, store, honoured, issued, orphans, learnt, room, inquiries>>

-----------------------------------------------------------------------------
(* The provider *)

Dial(c) ==
    /\ At(c) = "dial"
    /\ inquiry' = [inquiry EXCEPT ![c] =
           [@ EXCEPT !.at = "dialled", !.tried = inquiry[c].tried \cup {inquiry[c].token}]]
    /\ UNCHANGED <<World, orphans, permits, learnt, room, inquiries>>

Taken(t) == t \in honoured /\ (t.until = Nothing \/ minute < t.until)

MayAnswer(c) ==
    IF ~Taken(inquiry[c].token) THEN {"denied"}
    ELSE {"ok", "down"} \cup (IF inquiry[c].phase \in {"send", "again"} THEN {"limited", "refused"} ELSE {})

\* Mutant: a denied request is reported at once.
VerdictAtOnce(c, answer) ==
    LET call == inquiry[c]
    IN  IF answer = "ok" /\ call.phase \in {"probe", "models"}
        THEN [call EXCEPT !.at = "learn"]
        ELSE Ended(call, IF answer = "denied" THEN "rejected" ELSE answer)

\* A denied request of Claude Code's login reads and tries once more.
Verdict(c, answer) ==
    LET call == inquiry[c]
    IN  IF answer = "denied" /\ Wired(c) = "claude" /\ call.phase = "send"
        THEN [call EXCEPT !.at = "permit", !.phase = "again", !.token = Nothing]
        ELSE IF answer = "denied" THEN Ended(call, "rejected")
        ELSE IF answer = "ok" /\ call.phase \in {"probe", "models"} THEN [call EXCEPT !.at = "learn"]
        ELSE Ended(call, answer)

\* Whatever the status, the rate limits of an answer are kept before anything
\* else is made of it; a probe does not look at them.
Answered(c, answer, report) ==
    /\ At(c) = "dialled" /\ answer \in MayAnswer(c)
    /\ LET a == inquiry[c].of
           r == IF answer = "limited" THEN [report EXCEPT !.wait = Wait] ELSE report
       IN  room' = IF inquiry[c].phase \in {"send", "again"} /\ answer # "down"
                   THEN [room EXCEPT ![a] = Recorded(@, a, r)] ELSE room
    /\ inquiry' = [inquiry EXCEPT ![c] = Verdict(c, answer)]
    /\ UNCHANGED <<World, orphans, permits, learnt, inquiries>>

(***************************************************************************)
(* A list that can be read replaces the compiled-in one, and what is kept  *)
(* beside it: the document itself for Codex, before it the windows of its  *)
(* models for a chat backend, each under a lock of its own.                *)
(***************************************************************************)
Learn(c) ==
    /\ At(c) = "learn"
    /\ LET a == inquiry[c].of
       IN  \/ \E m \in Models :
                /\ learnt' = [learnt EXCEPT ![a] =
                       IF Wire[a] = "chat" THEN [@ EXCEPT !.windows = m] ELSE [@ EXCEPT !.models = m]]
                /\ inquiry' = [inquiry EXCEPT ![c] =
                       IF Wire[a] = "claude" THEN Ended(@, "ok")
                       ELSE [@ EXCEPT !.at = "keep", !.list = m]]
           \/ /\ inquiry' = [inquiry EXCEPT ![c] = Ended(@, "ok")]
              /\ UNCHANGED learnt
    /\ UNCHANGED <<World, orphans, permits, room, inquiries>>

Keep(c) ==
    /\ At(c) = "keep"
    /\ LET a == inquiry[c].of
           m == inquiry[c].list
       IN  learnt' = [learnt EXCEPT ![a] =
               IF Wire[a] = "chat" THEN [@ EXCEPT !.models = m] ELSE [@ EXCEPT !.document = m]]
    /\ inquiry' = [inquiry EXCEPT ![c] = Ended(@, "ok")]
    /\ UNCHANGED <<World, orphans, permits, room, inquiries>>

Return(c) ==
    /\ At(c) = "done"
    /\ inquiry' = [inquiry EXCEPT ![c] = Unasked]
    /\ UNCHANGED <<World, orphans, permits, learnt, room, inquiries>>

-----------------------------------------------------------------------------
(* Calls given up: the job goes on, and the permit stays with it *)

\* Mutant: the permit belongs to the caller.
GiveUpFreeing(c) ==
    /\ At(c) \notin {"idle", "done", "learn", "keep"} /\ troubles > 0
    /\ orphans' = CASE At(c) = "queued" -> [orphans EXCEPT !.queued = @ + 1]
                    [] Reading(c)       -> [orphans EXCEPT !.running = @ + 1]
                    [] OTHER            -> orphans
    /\ permits' = IF At(c) = "queued" \/ Reading(c) THEN permits + 1 ELSE permits
    /\ inquiry' = [inquiry EXCEPT ![c] = Unasked]
    /\ troubles' = troubles - 1
    /\ UNCHANGED <<registry, minute, store, honoured, issued, learnt, room, inquiries>>

GiveUp(c) ==
    /\ At(c) \notin {"idle", "done", "learn", "keep"} /\ troubles > 0
    /\ orphans' = CASE At(c) = "queued" -> [orphans EXCEPT !.queued = @ + 1]
                    [] Reading(c)       -> [orphans EXCEPT !.running = @ + 1]
                    [] OTHER            -> orphans
    /\ inquiry' = [inquiry EXCEPT ![c] = Unasked]
    /\ troubles' = troubles - 1
    /\ UNCHANGED <<registry, minute, store, honoured, issued, permits, learnt, room, inquiries>>

OrphanStarts ==
    /\ orphans.queued > 0 /\ ThreadFree
    /\ orphans' = [queued |-> orphans.queued - 1, running |-> orphans.running + 1]
    /\ UNCHANGED <<World, inquiry, permits, learnt, room, inquiries>>

OrphanEnds ==
    /\ orphans.running > 0
    /\ orphans' = [orphans EXCEPT !.running = @ - 1]
    /\ permits' = permits + 1
    /\ UNCHANGED <<World, inquiry, learnt, room, inquiries>>

-----------------------------------------------------------------------------
(* The products whose logins these are, and the user *)

Trouble == troubles > 0 /\ troubles' = troubles - 1
\* What befalls a credential while a call for it is under way: history.
Told(a, mild) ==
    inquiry' = [c \in Inquirer |->
        IF At(c) # "idle" /\ inquiry[c].of = a
        THEN [inquiry[c] EXCEPT !.news = IF mild /\ @ = "none" THEN "rotated" ELSE "trouble"]
        ELSE inquiry[c]]
Calls == <<orphans, permits, learnt, room, inquiries>>

Mint(a, who, life) ==
    [of |-> a, serial |-> issued + 1, who |-> who,
     until |-> IF life = Nothing THEN Nothing ELSE minute + life]

\* A product refreshes its token, or the user logs in to it, maybe as somebody
\* else: it goes where the old one is, which may be good for a while yet.
Refresh(a, who, life) ==
    /\ Subscribed(a) /\ issued < MaxTokens /\ ~store[a].locked
    /\ LET t    == Mint(a, who, life)
           old  == Current(a)
           slot == IF store[a].keychain # Nothing THEN "keychain" ELSE "file"
           same == old # Nothing /\ old.who = who
       IN  /\ store' = [store EXCEPT ![a][slot] = t]
           /\ honoured' \in {honoured \cup {t}, (honoured \ {old}) \cup {t}}
           /\ Told(a, same)
    /\ issued' = issued + 1
    /\ UNCHANGED <<registry, minute, troubles, Calls>>

\* A token is revoked, or the login is removed.
Revoked(a) ==
    /\ Trouble /\ Current(a) # Nothing
    /\ \/ honoured' = honoured \ {Current(a)} /\ UNCHANGED store
       \/ /\ Subscribed(a) /\ UNCHANGED honoured
          /\ store' = [store EXCEPT ![a].keychain = Nothing,
                                    ![a].file = IF @ = Current(a) THEN Nothing ELSE @]
    /\ Told(a, FALSE)
    /\ UNCHANGED <<registry, minute, issued, Calls>>

LockKeychain(a) ==
    /\ Trouble /\ Wire[a] = "claude" /\ store[a].keychain # Nothing
    /\ store' = [store EXCEPT ![a].locked = ~@]
    /\ Told(a, FALSE)
    /\ UNCHANGED <<registry, minute, honoured, issued, Calls>>

Passes ==
    /\ Trouble
    /\ minute' = minute + 1
    /\ inquiry' = [c \in Inquirer |-> IF At(c) # "idle" THEN [inquiry[c] EXCEPT !.news = "trouble"]
                                       ELSE inquiry[c]]
    /\ UNCHANGED <<registry, store, honoured, issued, Calls>>

-----------------------------------------------------------------------------

\* Every login starts out sound, Claude Code's where its platform keeps it.
Given(a) == [of |-> a, serial |-> 0, who |-> 1, until |-> Nothing]
Stores ==
    {[a \in Adapter |->
         [keychain |-> IF a \in chain THEN Given(a) ELSE Nothing, locked |-> FALSE,
          file     |-> IF a \in chain THEN Nothing ELSE Given(a)]]
     : chain \in SUBSET {a \in Adapter : Wire[a] = "claude"}}

UpstreamInit ==
    /\ registry \in Registries
    /\ minute = 0
    /\ store \in Stores
    /\ honoured = {Current(a) : a \in Adapter}
    /\ inquiry = [c \in Inquirer |-> Unasked]
    /\ orphans = [queued |-> 0, running |-> 0] /\ permits = Reads
    /\ learnt = [a \in Adapter |-> [models |-> Nothing, document |-> Nothing, windows |-> Nothing]]
    /\ room = [a \in Adapter |-> [primary |-> Unknown, secondary |-> Nothing]]
    /\ issued = 0 /\ troubles = Troubles /\ inquiries = Inquiries

\* What the daemon and the provider do, unlike the user, of themselves.
Proceeds ==
    \/ \E c \in Inquirer :
         \/ TakeSlot(c) \/ TakePermit(c) \/ StartRead(c) \/ LookInKeychain(c) \/ LookInFile(c)
         \/ Dial(c) \/ Learn(c) \/ Keep(c) \/ Return(c)
         \/ \E answer \in {"ok", "denied", "limited", "refused", "down"}, report \in Reports :
                Answered(c, answer, report)
    \/ OrphanStarts \/ OrphanEnds

UpstreamNext ==
    \/ Proceeds
    \/ \E c \in Inquirer : GiveUp(c)
    \/ \E c \in Inquirer, a \in registry, kind \in {"turn", "listing", "probe", "models"} : Begin(c, a, kind)
    \/ \E a \in registry :
         \/ \E who \in {1, 2}, life \in Lifetimes : Refresh(a, who, life)
         \/ Revoked(a) \/ LockKeychain(a)
    \/ Passes

-----------------------------------------------------------------------------
(* Properties *)

\* The guards of what the daemon and the provider do.
MayGoOn(c) ==
    \/ SlotFree(c) \/ PermitFree(c)
    \/ At(c) = "queued" /\ ThreadFree
    \/ At(c) \in {"keychain", "file", "dial", "dialled", "learn", "keep", "done"}
OrphanMayGoOn == orphans.running > 0 \/ (orphans.queued > 0 /\ ThreadFree)

(***************************************************************************)
(* However many callers give up in the middle of their read, no more       *)
(* credentials are being read at a time than there are permits             *)
(* (credential_read.rs: "Their permits belong to the blocking jobs"); and  *)
(* though a check takes a slot, a permit and a thread one inside the       *)
(* other, somebody can always go on, with one of each (state.rs            *)
(* checked_status).                                                        *)
(***************************************************************************)
ReadsGoOnWithinBounds ==
    /\ Running + orphans.queued + Cardinality({c \in Inquirer : At(c) = "queued"}) + permits <= Reads
    /\ (\E c \in Inquirer : At(c) # "idle") => (\E c \in Inquirer : MayGoOn(c)) \/ OrphanMayGoOn

(***************************************************************************)
(* A token is sent once in a turn, and a turn that began on a sound login  *)
(* of Claude Code is not lost to one refresh of its token in the middle,   *)
(* at whatever step (anthropic.rs send).                                   *)
(***************************************************************************)
RotationIsSurvived ==
    \A c \in Inquirer : At(c) # "idle" =>
        /\ At(c) = "dial" => inquiry[c].token \notin inquiry[c].tried
        /\ At(c) = "done" /\ Wired(c) = "claude" /\ inquiry[c].kind = "turn" =>
             inquiry[c].verdict # "rejected" \/ inquiry[c].news = "trouble"
=============================================================================
