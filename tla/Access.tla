------------------------------- MODULE Access -------------------------------
(***************************************************************************)
(* What the user lets a request do: the privacy mode, consent to each      *)
(* subscription, spend caps on metered backends, and admission bindings    *)
(* (ironwire_proxy::{state, spend, control}, ironwire_core::admission).    *)
(* Control calls change these settings while requests read them one after  *)
(* the other: the filter where the body comes in, the binding where the    *)
(* request is dispatched, consent, trust and the caps once the statuses of *)
(* the backends have been awaited.  A restart reads back what was saved.   *)
(*                                                                         *)
(* Abstracted: which usable backend routing prefers (Routing and Dispatch  *)
(* model that; here it is any of them), quota and credentials, the         *)
(* modes other than `full` (one of them, `pii`, stands for the rest), the  *)
(* directory a login is read from, and the bearer every control call       *)
(* checks first.                                                           *)
(***************************************************************************)
EXTENDS Naturals, FiniteSets, FiniteSetsExt

CONSTANTS
    Backend,
    Subscription,   \* backends that need consent
    Metered,        \* backends that cost money
    Trusted,        \* `trusted_backends`
    Chat,           \* backends an admission binding may name
    CapFor,         \* dollars a day for each metered backend
    GlobalCap,      \* whether `daily_spend_usd` is among them
    Refuse,         \* `on_breach = "refuse"`
    Session,        \* the sessions clients name
    Slot,           \* requests in flight
    Caller,         \* control calls in flight
    MaxBindings,    \* MAX_BINDINGS
    MaxExpired,     \* MAX_EXPIRED_SESSIONS
    Life,           \* MAX_BINDING_SECONDS
    Day,            \* clock ticks in a day
    Days,           \* bound: the days the ledger has room for
    Plans,          \* bound: how many of each kind of event a behaviour may have
    None

Mode  == {"pii", "full"}

\* The kinds of event that are bounded: "fault" is a failed write or a death,
\* "edit" an edit to an agent's file (see Agents).
Event == {"mode", "consent", "binding", "edit", "request", "fault", "tick"}

ASSUME AccessAssumption ==
    /\ Subscription \cup Metered \cup Trusted \cup Chat \subseteq Backend
    /\ Subscription \cap (Metered \cup Chat) = {}
    /\ CapFor \in [Metered -> Nat \ {0}]
    /\ GlobalCap \in BOOLEAN /\ Refuse \in BOOLEAN
    /\ {MaxBindings, Life, Day} \subseteq Nat \ {0}
    /\ MaxExpired \in Nat
    /\ IsFiniteSet(Metered) /\ IsFiniteSet(Slot)
    /\ Plans \subseteq [Event -> Nat]
    /\ \A p \in Plans : 0 .. p["tick"] \div Day \subseteq Days
    /\ 0 \in Days /\ Days \subseteq Nat
    /\ None \notin Backend \cup Session \cup Nat \cup Mode \cup [backend : Chat, expires : Nat]

VARIABLES
    clock,
    mode,      \* [registry, filter, config]: the copies, and the one on disk
    consent,   \* [memory, disk]: the subscriptions consented to
    live,      \* session -> [backend, expires] or None
    expired,   \* sessions whose lapsed binding was forgotten, the fact kept
    spend,     \* [day, sum]: the tracker
    rows,      \* [day -> [metered -> cost]]: the ledger
    req, call,
    left,      \* bound: the events still to come
    settled,   \* history: what the last uncontested calls left in force
    bound      \* history: sessions registered and not revoked since

access == <<clock, mode, consent, live, expired, spend, rows, req, call, left, settled, bound>>
settings  == <<mode, consent>>
bindings  == <<live, expired, bound>>
money     == <<spend, rows>>

Today == clock \div Day
Zero  == [b \in Metered |-> 0]

Idle   == [pc |-> "idle"]
NoCall == [pc |-> "idle"]

Spare(event) == left[event] > 0 /\ left' = [left EXCEPT ![event] = @ - 1]
Fault        == Spare("fault")

-----------------------------------------------------------------------------
(* The settings screens: privacy and consent *)

Busy(kind) == \E c \in Caller : call[c].pc # "idle" /\ call[c].kind = kind

\* A second call of the kind makes what either leaves behind unknown.
Contest(kind) ==
    [c \in Caller |-> IF call[c].pc # "idle" /\ call[c].kind = kind
                      THEN [call[c] EXCEPT !.alone = FALSE] ELSE call[c]]

\* POST /_ironwire/privacy: requests already in are promised nothing any more.
ChangeMode(c, m) ==
    /\ Spare("mode") /\ call[c] = NoCall
    /\ call' = [Contest("mode") EXCEPT ![c] =
                   [pc |-> "registry", kind |-> "mode", to |-> m, alone |-> ~Busy("mode")]]
    /\ settled' = [settled EXCEPT !.mode = None, !.modeSaved = IF Busy("mode") THEN None ELSE @]
    /\ req' = [r \in Slot |-> IF req[r].pc = "idle" THEN Idle ELSE [req[r] EXCEPT !.mode = None]]
    /\ UNCHANGED <<clock, settings, bindings, money>>

\* Mutant: the registry keeps the copy it was built with.
SetFilterOnly(c) ==
    /\ call[c].pc = "registry"
    /\ call' = [call EXCEPT ![c].pc = "filter"]
    /\ UNCHANGED <<clock, mode, consent, bindings, money, req, settled, left>>

\* `set_privacy_mode` moves the constraint first ...
SetRegistry(c) ==
    /\ call[c].pc = "registry"
    /\ mode' = [mode EXCEPT !.registry = call[c].to]
    /\ call' = [call EXCEPT ![c].pc = "filter"]
    /\ UNCHANGED <<clock, consent, bindings, money, req, settled, left>>

\* ... then the filter, each under its own lock.
SetFilter(c) ==
    /\ call[c].pc = "filter"
    /\ mode' = [mode EXCEPT !.filter = call[c].to]
    /\ call' = [call EXCEPT ![c].pc = "persist"]
    /\ UNCHANGED <<clock, consent, bindings, money, req, settled, left>>

\* A mode that could not be saved is in force until the next restart.
Persist(c) ==
    /\ call[c].pc = "persist"
    /\ LET now == IF call[c].alone THEN call[c].to ELSE None
       IN  \/ /\ mode' = [mode EXCEPT !.config = call[c].to]
              /\ settled' = [settled EXCEPT !.mode = now, !.modeSaved = now]
              /\ UNCHANGED left
           \/ /\ Fault
              /\ settled' = [settled EXCEPT !.mode = now]
              /\ UNCHANGED mode
    /\ call' = [call EXCEPT ![c] = NoCall]
    /\ UNCHANGED <<clock, consent, bindings, money, req>>

Answer(ledger, b, granted) == IF granted THEN ledger \cup {b} ELSE ledger \ {b}

\* POST /_ironwire/consent, up to the ledger it could go back to.
ChangeConsent(c, b, granted) ==
    /\ Spare("consent") /\ call[c] = NoCall
    /\ call' = [Contest("consent") EXCEPT ![c] =
                   [pc |-> "answer", kind |-> "consent", backend |-> b, granted |-> granted,
                    previous |-> consent.memory, updated |-> {}, alone |-> ~Busy("consent")]]
    /\ settled' = IF Busy("consent") THEN [settled EXCEPT !.refused = {}, !.refusedSaved = {}]
                  ELSE [settled EXCEPT !.refused = @ \ {b}]
    /\ UNCHANGED <<clock, settings, bindings, money, req>>

\* The router obeys at once; the file follows.
SetConsent(c) ==
    /\ call[c].pc = "answer"
    /\ consent' = [consent EXCEPT !.memory = Answer(@, call[c].backend, call[c].granted)]
    /\ call' = [call EXCEPT ![c].pc = "snapshot"]
    /\ UNCHANGED <<clock, mode, bindings, money, req, settled, left>>

Snapshot(c) ==
    /\ call[c].pc = "snapshot"
    /\ call' = [call EXCEPT ![c] = [@ EXCEPT !.pc = "save", !.updated = consent.memory]]
    /\ UNCHANGED <<clock, settings, bindings, money, req, settled, left>>

Return(c, standing, saved) ==
    /\ settled' = IF call[c].alone
                  THEN [settled EXCEPT !.refused = Subscription \ standing,
                                       !.refusedSaved = saved]
                  ELSE settled
    /\ call' = [call EXCEPT ![c] = NoCall]
    /\ UNCHANGED <<clock, mode, bindings, money, req>>

Saved(c) ==
    /\ consent' = [consent EXCEPT !.disk = call[c].updated]
    /\ Return(c, call[c].updated, Subscription \ call[c].updated)
    /\ UNCHANGED left

\* "Both or neither": a save that fails puts back what the call found.
Save(c) ==
    /\ call[c].pc = "save"
    /\ \/ Saved(c)
       \/ /\ Fault
          /\ consent' = [consent EXCEPT !.memory = call[c].previous]
          /\ Return(c, call[c].previous, settled.refusedSaved)

-----------------------------------------------------------------------------
(* Admission bindings: each call holds the lock from end to end *)

Lapsed == {s \in Session : live[s] # None /\ live[s].expires <= clock}

\* Mutant: the payload of a lapsed binding is forgotten and the fact with it.
ForgetLapsed ==
    {[gone |-> Lapsed, kept |-> expired]}

(***************************************************************************)
(* What `register` does with lapsed bindings: the payload goes, the fact   *)
(* that the session needs one stays, and what does not fit in the bounded  *)
(* set of those facts stays where it is.                                   *)
(***************************************************************************)
Forget ==
    LET room == IF MaxExpired > Cardinality(expired) THEN MaxExpired - Cardinality(expired) ELSE 0
        n    == IF Cardinality(Lapsed) < room THEN Cardinality(Lapsed) ELSE room
    IN  {[gone |-> S, kept |-> expired \cup S] : S \in kSubset(n, Lapsed)}

Register(s, b, expires) ==
    /\ Spare("binding")
    /\ \E f \in Forget :
         LET open == {x \in Session : live[x] # None} \ f.gone
         IN  IF Cardinality(open) >= MaxBindings /\ s \notin open
             THEN \* Capacity: refused, the lapsed ones forgotten all the same
                  /\ live' = [x \in Session |-> IF x \in f.gone THEN None ELSE live[x]]
                  /\ expired' = f.kept
                  /\ UNCHANGED bound
             ELSE /\ live' = [x \in Session |-> IF x = s THEN [backend |-> b, expires |-> expires]
                                                ELSE IF x \in f.gone THEN None ELSE live[x]]
                  /\ expired' = f.kept \ {s}
                  /\ bound' = bound \cup {s}
    /\ UNCHANGED <<clock, settings, money, req, call, settled>>

\* Requests in flight have already copied their binding.
Revoke(s) ==
    /\ Spare("binding")
    /\ live' = [live EXCEPT ![s] = None]
    /\ expired' = expired \ {s}
    /\ bound' = bound \ {s}
    /\ UNCHANGED <<clock, settings, money, req, call, settled>>

Expired(s) == s \in expired \/ s \in Lapsed

-----------------------------------------------------------------------------
(* Money *)

Roll(day)  == IF spend.day = day THEN spend ELSE [day |-> day, sum |-> Zero]
Record(b, day) == [Roll(day) EXCEPT !.sum[b] = @ + 1]

\* The backends at their cap: their own spend against it, or everyone's.
Reached(sum) ==
    {b \in Metered : \/ sum[b] >= CapFor[b]
                     \/ GlobalCap /\ MapThenSumSet(LAMBDA x : sum[x], Metered) >= CapFor[b]}

-----------------------------------------------------------------------------
(* One request *)

\* The facade: the filter is taken where the body is still at hand.
Enter(r, s, forced) ==
    /\ req[r] = Idle /\ Spare("request")
    /\ req' = [req EXCEPT ![r] = [pc |-> "admit", session |-> s, forced |-> forced,
                                  day |-> Today, filter |-> mode.filter, mode |-> settled.mode,
                                  binding |-> None, bound |-> FALSE, may |-> {}, to |-> None,
                                  refused |-> {}, spent |-> {}]]
    /\ UNCHANGED <<clock, settings, bindings, money, call, settled>>

End(r) == [req EXCEPT ![r] = Idle]

\* The binding is copied once, before the statuses are awaited.
Admit(r) ==
    /\ req[r].pc = "admit"
    /\ LET s == req[r].session
       IN  req' = IF s = None THEN [req EXCEPT ![r] = [@ EXCEPT !.pc = "consider"]]
                  ELSE IF Expired(s) THEN End(r)
                  ELSE [req EXCEPT ![r] = [@ EXCEPT !.pc = "consider", !.binding = live[s],
                                                    !.bound = s \in bound]]
    /\ UNCHANGED <<clock, settings, bindings, money, call, settled, left>>

Allowed(r, b) ==
    /\ b \in Subscription => b \in consent.memory
    /\ mode.registry = "full" => b \in Trusted
    /\ req[r].binding # None => req[r].binding.backend = b

(***************************************************************************)
(* Consent, trust and the caps, read when the statuses are back, for every *)
(* attempt this request will make.  A backend the caller names is tried    *)
(* whatever it has spent; "refuse" stops everyone at the first cap.        *)
(***************************************************************************)
Consider(r) ==
    /\ req[r].pc = "consider"
    /\ LET now  == Roll(Today)
           full == Reached(now.sum)
           some == {b \in Backend : Allowed(r, b)}
           may  == IF req[r].forced # None THEN some \cap {req[r].forced} ELSE some \ full
       IN  /\ spend' = now
           /\ req' = IF (Refuse /\ full # {}) \/ may = {} THEN End(r)
                     ELSE [req EXCEPT ![r] =
                              [@ EXCEPT !.pc = "send", !.may = may, !.refused = settled.refused,
                                        !.spent = IF settled.lost THEN {} ELSE Reached(rows[Today])]]
    /\ UNCHANGED <<clock, settings, bindings, rows, call, settled, left>>

\* Routing takes a candidate; a failed one is marked and the next one tried.
Send(r, b) ==
    /\ req[r].pc = "send" /\ b \in req[r].may
    /\ LET e == req[r].binding
       IN  req' = IF e # None /\ e.expires <= clock THEN End(r)
                  ELSE [req EXCEPT ![r] = [@ EXCEPT !.pc = "reply", !.to = b]]
    /\ UNCHANGED <<clock, settings, bindings, money, call, settled, left>>

Failover(r) ==
    /\ req[r].pc = "reply"
    /\ LET others == req[r].may \ {req[r].to}
       IN  req' = IF others = {} THEN End(r)
                  ELSE [req EXCEPT ![r] = [@ EXCEPT !.pc = "send", !.may = others]]
    /\ UNCHANGED <<clock, settings, bindings, money, call, settled, left>>

(***************************************************************************)
(* The reply has ended: it is billed to the day the request came in, then  *)
(* written down.  Billing an earlier day rolls the window back, and what   *)
(* today had spent is lost until a restart adds it up again.               *)
(***************************************************************************)
Bill(r) ==
    /\ req[r].pc = "reply"
    /\ LET b == req[r].to
           d == req[r].day
       IN  IF b \in Metered
           THEN /\ spend' = Record(b, d)
                /\ settled' = [settled EXCEPT !.lost = @ \/ d < spend.day]
           ELSE UNCHANGED <<spend, settled>>
    /\ req' = [req EXCEPT ![r].pc = "row"]
    /\ UNCHANGED <<clock, settings, bindings, rows, call, left>>

\* A row that cannot be written is noted and forgotten.
Row(r) ==
    /\ req[r].pc = "row"
    /\ LET b == req[r].to
       IN  \/ /\ b \in Metered
              /\ rows' = [rows EXCEPT ![req[r].day][b] = @ + 1]
              /\ UNCHANGED left
           \/ b \notin Metered /\ UNCHANGED <<rows, left>>
           \/ b \in Metered /\ Fault /\ UNCHANGED rows
    /\ req' = End(r)
    /\ UNCHANGED <<clock, settings, bindings, spend, call, settled>>

-----------------------------------------------------------------------------
(* Time and restarts *)

Tick ==
    /\ Spare("tick")
    /\ clock' = clock + 1
    /\ UNCHANGED <<settings, bindings, money, req, call, settled>>

\* Mutant: a daemon that starts over starts spending from nothing.
SeedNothing == [day |-> Today, sum |-> Zero]

\* `seed_spend`: the ledger's total for the window the daemon starts in.
Seed == [day |-> Today, sum |-> rows[Today]]

\* Settings come back from their files, bindings do not come back.
Restart ==
    /\ Fault
    /\ mode' = [mode EXCEPT !.registry = mode.config, !.filter = mode.config]
    /\ consent' = [consent EXCEPT !.memory = consent.disk]
    /\ live' = [s \in Session |-> None] /\ expired' = {} /\ bound' = {}
    /\ spend' = Seed
    /\ req' = [r \in Slot |-> Idle]
    /\ call' = [c \in Caller |-> NoCall]
    /\ settled' = [settled EXCEPT !.mode = settled.modeSaved,
                                  !.refused = settled.refusedSaved, !.lost = FALSE]
    /\ UNCHANGED <<clock, rows>>

Init ==
    /\ clock = 0
    /\ mode = [registry |-> "pii", filter |-> "pii", config |-> "pii"]
    /\ consent = [memory |-> Subscription, disk |-> Subscription]
    /\ live = [s \in Session |-> None] /\ expired = {}
    /\ spend = [day |-> 0, sum |-> Zero]
    /\ rows = [d \in Days |-> Zero]
    /\ req = [r \in Slot |-> Idle] /\ call = [c \in Caller |-> NoCall]
    /\ left \in Plans
    /\ settled = [mode |-> "pii", modeSaved |-> "pii", refused |-> {}, refusedSaved |-> {},
                  lost |-> FALSE]
    /\ bound = {}

Controlled ==
    \/ \E c \in Caller, m \in Mode : ChangeMode(c, m)
    \/ \E c \in Caller, b \in Subscription, g \in BOOLEAN : ChangeConsent(c, b, g)
    \/ \E c \in Caller : SetRegistry(c) \/ SetFilter(c) \/ Persist(c)
    \/ \E c \in Caller : SetConsent(c) \/ Snapshot(c) \/ Save(c)
    \/ \E s \in Session, b \in Chat, l \in 1 .. Life : Register(s, b, clock + l)
    \/ \E s \in Session : Revoke(s)

Served ==
    \/ \E r \in Slot, s \in Session \cup {None}, f \in Backend \cup {None} : Enter(r, s, f)
    \/ \E r \in Slot : Admit(r) \/ Consider(r) \/ Failover(r) \/ Bill(r) \/ Row(r)
    \/ \E r \in Slot, b \in Backend : Send(r, b)

Step == Controlled \/ Served \/ Tick

-----------------------------------------------------------------------------
(* Properties *)

Under == {r \in Slot : req[r].pc = "reply"}

(***************************************************************************)
(* A mode change that has returned, and that no other change contests, is  *)
(* obeyed by every request that comes in after it: raised to `full`, the   *)
(* request is filtered for `full` and goes only where the user trusts the  *)
(* operator.  A consent withdrawn before the backends were considered      *)
(* keeps that backend out, failed saves and restarts included.             *)
(* Code: state.rs set_privacy_mode, set_consent, candidates_capped.        *)
(***************************************************************************)
SettingsAreObeyed ==
    \A r \in Under :
        /\ req[r].mode # None => req[r].filter = req[r].mode
        /\ req[r].mode = "full" => req[r].to \in Trusted
        /\ req[r].to \notin req[r].refused

(***************************************************************************)
(* A session whose binding was registered and never revoked goes out with  *)
(* a binding and only to the backend it names, however many bindings have  *)
(* lapsed since and however full the registry was; or it is refused.       *)
(* Code: admission.rs register, snapshot; pipeline.rs 672-683.             *)
(***************************************************************************)
SessionsStayBound ==
    \A r \in Under : req[r].bound =>
        /\ req[r].binding # None
        /\ req[r].binding.backend = req[r].to

(***************************************************************************)
(* A request considered after the ledger's rows for the day have reached a *)
(* backend's cap is not sent there, across restarts and midnight, unless   *)
(* it names the backend; until a reply that began before midnight ends     *)
(* after it, which makes the tracker forget today.                         *)
(* Code: pipeline.rs capped_candidates, spend.rs, embed.rs seed_spend.     *)
(***************************************************************************)
CapIsHonoured ==
    \A r \in Under : req[r].forced = None => req[r].to \notin req[r].spent
=============================================================================
