------------------------------- MODULE Choice -------------------------------
(***************************************************************************)
(* Which model a request is given, and what a client is told that is given *)
(* none.  Routing models where a conversation lives and when it moves;     *)
(* this module models what Policy abstracts: what is read of a body        *)
(* (peek.rs), what it needs of a backend (capability.rs), catalogues and   *)
(* tiers, the model `route` and `keep_listed_model` settle on, and the     *)
(* refusals and their status (policy.rs, facade/error.rs).                 *)
(*                                                                         *)
(* One conversation of one client; the registry changes between its turns. *)
(* Tokens are counted in thousands.  Abstracted: how long pressure and     *)
(* recovery have lasted (a debounce has passed or has not), the account    *)
(* lock (Origins) and admission bindings (Access), and dispatch: a request *)
(* is sent once, to where `route` says.                                    *)
(***************************************************************************)
EXTENDS Naturals, Sequences, FiniteSets

CONSTANTS
    Vendor,       \* the registered backends
    Tongues,      \* the wires each speaks
    OwnedBy,      \* the client a subscription serves, or Nil
    IsDefault,    \* the logins the plain facade belongs to
    Cost,         \* `marginal_cost_rank`: 0 local, 1 subscription, 2 credits, 3 metered
    Seat,         \* the order of registration
    Able,         \* what each can preserve, of Skill
    Room,         \* the context window compiled in for each
    Shelf,        \* the catalogues each may come to have
    Fates,        \* the conditions each may come to be in
    Hint,         \* the tier a model's name asks for
    Bodies,       \* the requests of the conversation
    Clientele,    \* the clients it may be held by
    Forces,       \* the pins and route headers the user may set
    Confided,     \* privacy.trusted_backends
    CrossAccount, \* [subscriptions] cross_account_fallback
    Nil           \* no model, no owner, no home, no pin

Skill == {"tools", "parallel", "images", "schema", "cache"}

\* Rung: kept as a number, for `consider_promotion` compares.
Top     == 0
Smaller == 1
Another == 2
Abroad  == 3

VARIABLES
    holder,   \* [wire, identity, login] of this conversation's client
    shelf,    \* Candidate::models, catalogue_from_provider, context_windows
    state,    \* "up", "pressed", "spent", "capped" or "down"
    agreed,   \* the subscriptions consented to
    full,     \* privacy.mode = "full"
    pin,      \* Policy::pin
    home,     \* the conversation's Affinity
    verdict   \* the last turn: what was asked, of which world, and the answer

choice == <<holder, shelf, state, agreed, full, pin, home, verdict>>

Subscriptions == {v \in Vendor : OwnedBy[v] # Nil}

-----------------------------------------------------------------------------
(* What is read of a request *)

\* A tool result's image lies one level below the blocks looked at on the
\* Messages wire; breakpoints and schemas exist on one wire each.
inspect_anthropic(b) ==
    (b.parts \cap {"tools", "parallel", "images"}) \cup (IF "mark" \in b.parts THEN {"cache"} ELSE {})

inspect_openai(b) ==
    (b.parts \cap {"tools", "parallel", "images", "schema"})
    \cup (IF "shot" \in b.parts THEN {"images"} ELSE {})

MidLoop(b) == b.last = "result"

\* A few words are no compaction unless much has been said.
Compacts(b) == b.last = "summary" /\ b.long

from_model_hint(b) == IF b.model = Nil THEN 2 ELSE Hint[b.model]

Peek(b) ==
    [model  |-> b.model,
     needs  |-> IF holder.wire = "anthropic" THEN inspect_anthropic(b) ELSE inspect_openai(b),
     size   |-> b.size,
     prefix |-> IF holder.wire = "anthropic" /\ "mark" \in b.parts THEN b.size \div 2 ELSE 0,
     limit  |-> b.limit,
     mid    |-> MidLoop(b),
     compact |-> Compacts(b),
     tier   |-> from_model_hint(b)]

-----------------------------------------------------------------------------
(* Catalogues *)

Listed(cat) == {cat.list[i][1] : i \in DOMAIN cat.list}

\* "default" is what a translated body without a model is given.
ASSUME ChoiceAssumption ==
    /\ Cost \in [Vendor -> Nat] /\ Seat \in [Vendor -> Nat]
    /\ Nil \notin DOMAIN Hint /\ \A m \in DOMAIN Hint : Hint[m] \in 0 .. 2
    /\ \A v \in Vendor : \A cat \in Shelf[v] : Nil \notin Listed(cat) /\ "default" \notin Listed(cat)

\* The first of the tier, else the last of the best tier below it.
pick_model(cat, tier) ==
    LET of(t) == {i \in DOMAIN cat.list : cat.list[i][2] = t}
        below == {t \in 0 .. 2 : t < tier /\ of(t) # {}}
        best  == CHOOSE t \in below : \A u \in below : u <= t
    IN  IF of(tier) # {} THEN cat.list[CHOOSE i \in of(tier) : \A j \in of(tier) : i <= j][1]
        ELSE IF below = {} THEN Nil
        ELSE cat.list[CHOOSE i \in of(best) : \A j \in of(best) : j <= i][1]

serves_tier(cat, tier) == \E i \in DOMAIN cat.list : cat.list[i][2] >= tier

\* A name the provider itself lists is a selection; any other is a hint.
Selects(cat, r) == cat.stated /\ r.model \in Listed(cat)

served_model(cat, forced, r) ==
    IF forced # Nil THEN forced
    ELSE IF Selects(cat, r) THEN r.model ELSE pick_model(cat, r.tier)

\* The window the provider states for a model it lists, or Nil.
Window(cat, m) == IF cat.stated /\ m \in Listed(cat) /\ m \in DOMAIN cat.room THEN cat.room[m] ELSE Nil

DefaultOutput == 8

\* Only a stated window is an edge: it is checked with a margin and the answer.
context_needed(r, stated) ==
    IF stated THEN r.size + r.size \div 8 + (IF r.limit = Nil THEN DefaultOutput ELSE r.limit)
    ELSE r.size

Fits(v, r, m) ==
    LET w == Window(shelf[v], m)
    IN  IF w = Nil THEN context_needed(r, FALSE) <= Room[v] ELSE context_needed(r, TRUE) <= w

-----------------------------------------------------------------------------
(* What a backend can take *)

Crosses(v) == holder.wire \notin Tongues[v]

is_own_login(v) == IF holder.login = Nil THEN IsDefault[v] ELSE v = holder.login

serves_this_client(v) ==
    IF OwnedBy[v] = Nil THEN "ok"
    ELSE IF holder.identity # OwnedBy[v] THEN "identity"
    ELSE IF ~CrossAccount /\ ~is_own_login(v) THEN "another"
    ELSE "ok"

eligible(v, r, m, continues) ==
    IF Crosses(v) /\ r.mid /\ ~continues THEN "loop"
    ELSE IF r.needs \ {"cache"} \subseteq Able[v]
         THEN IF ~Fits(v, r, m) THEN "context"
              ELSE IF Crosses(v) /\ "cache" \in r.needs \ Able[v] /\ r.prefix > 4 THEN "cold"
              ELSE "ok"
         ELSE "unable"

usable(v, r) ==
    IF serves_this_client(v) # "ok" THEN serves_this_client(v)
    ELSE IF state[v] = "down" THEN "unhealthy"
    ELSE IF state[v] \in {"spent", "capped"} THEN "capacity"
    ELSE IF v \in Subscriptions \ agreed THEN "consent"
    ELSE IF full /\ v \notin Confided THEN "untrusted"
    ELSE eligible(v, r, served_model(shelf[v], Nil, r), FALSE)

\* A prefix is warm only where an earlier turn went to a backend that caches.
Warmed(r) == IF home # Nil /\ "cache" \in Able[home.at] THEN r ELSE [r EXCEPT !.prefix = 0]

-----------------------------------------------------------------------------
(* Policy::select *)

One(p) == IF p THEN 1 ELSE 0

\* `sort_key` and the stable sort, as one number.
SortKey(v, r) ==
    LET beyond == One(Cost[v] = 0 /\ ~serves_tier(shelf[v], r.tier))
        lesser == One(~serves_tier(shelf[v], r.tier))
        bare   == One(pick_model(shelf[v], r.tier) = Nil)
        other  == One(~is_own_login(v))
        order  == IF r.compact THEN 100 * lesser + 10 * Cost[v] + other
                  ELSE 100 * Cost[v] + 10 * other + bare
    IN  10 * (10000 * One(state[v] = "pressed") + 1000 * beyond + order) + Seat[v]

Best(vs, r) == CHOOSE v \in vs : \A u \in vs : SortKey(v, r) <= SortKey(u, r)

Liking(v) == 100 * Cost[v] + 10 * One(~is_own_login(v)) + Seat[v]

was_passed_over(v, r) == usable(v, r) \in {"ok", "unhealthy", "capacity"}

AnotherCredential(b, r) ==
    \/ \E v \in Vendor \ {b} : /\ ~Crosses(v) /\ serves_tier(shelf[v], r.tier)
                               /\ was_passed_over(v, r) /\ Liking(v) < Liking(b)
    \/ OwnedBy[b] # Nil /\ ~is_own_login(b)

Route(v, m, rung, how) == [at |-> v, model |-> m, rung |-> rung, how |-> how, forced |-> FALSE]

\* A name missing from a list we only guessed is the provider's to judge.
unrecognised(b, r) == ~shelf[b].stated /\ r.model # Nil /\ r.model \notin Listed(shelf[b])

NativeRoute(b, r) ==
    LET m == pick_model(shelf[b], r.tier)
    IN  IF unrecognised(b, r) /\ state[b] # "pressed"
        THEN Route(b, Nil, IF AnotherCredential(b, r) THEN Another ELSE Top, "fresh")
        ELSE Route(b, IF m = r.model THEN Nil ELSE m,
                   IF AnotherCredential(b, r) THEN Another
                   ELSE IF m # Nil /\ Hint[m] < r.tier THEN Smaller ELSE Top, "fresh")

\* At most one route.
select(r) ==
    LET fit    == {v \in Vendor : usable(v, r) = "ok"}
        native == {v \in fit : ~Crosses(v)}
    IN  IF native # {} THEN {NativeRoute(Best(native, r), r)}
        ELSE IF fit # {} THEN LET b == Best(fit, r) IN {Route(b, pick_model(shelf[b], r.tier), Abroad, "fresh")}
        ELSE {}

-----------------------------------------------------------------------------
(* Refusals, and the status a client is given *)

is_transient(why) == why \in {"unhealthy", "capacity"}

\* A client of the product, none of whose own logins is here.
WrongUrl(whys) ==
    /\ \E v \in Vendor : whys[v] = "another"
    /\ \A v \in Vendor : ~(OwnedBy[v] # Nil /\ OwnedBy[v] = holder.identity /\ is_own_login(v))

NoRoute(r) ==
    LET whys == [v \in Vendor |-> usable(v, r)]
    IN  IF \E v \in Vendor : whys[v] = "capacity" /\ state[v] = "capped" THEN "cap"
        ELSE IF \E v \in Vendor : whys[v] = "untrusted" THEN "untrusted"
        ELSE IF \A v \in Vendor : whys[v] = "identity" THEN "identity"
        ELSE IF /\ ~WrongUrl(whys)
                /\ \E v \in Vendor : is_transient(whys[v])
                /\ \A v \in Vendor : is_transient(whys[v]) \/ whys[v] = "another"
             THEN "exhausted"
        ELSE "unusable"

StatusOf(refusal) ==
    CASE refusal \in {"exhausted", "cap"} -> 429
      [] refusal = "unknown" -> 400
      [] OTHER -> 503

-----------------------------------------------------------------------------
(* Policy::decide_with_override *)

\* Named by a pin or a header: preference is overridden, eligibility is not.
ForcedRefusal(f, r) ==
    IF full /\ f.at \notin Confided THEN "untrusted"
    ELSE IF serves_this_client(f.at) = "identity" THEN "identity"
    ELSE IF \/ serves_this_client(f.at) = "another"
            \/ f.at \in Subscriptions \ agreed
            \/ eligible(f.at, r, served_model(shelf[f.at], f.model, r),
                        home # Nil /\ home.at = f.at /\ home.rung = Abroad) # "ok"
         THEN "unusable"
    ELSE "none"

ForcedRoute(f, r) ==
    [at |-> f.at, model |-> IF f.model # Nil THEN f.model ELSE pick_model(shelf[f.at], r.tier),
     rung |-> IF Crosses(f.at) THEN Abroad ELSE Top, how |-> "named", forced |-> f.model # Nil]

\* The home that this turn may inherit: a compaction inherits no descent.
Inherits(r) ==
    /\ home # Nil
    /\ r.compact => home.rung = Top
    /\ usable(home.at, r) \in {"ok", "loop"}

Sticky == [at |-> home.at, model |-> home.model, rung |-> home.rung, how |-> "sticky", forced |-> FALSE]

Promoted(r) ==
    {[d EXCEPT !.how = "promoted"] :
        d \in {e \in select(r) : e.rung < home.rung /\ ~(home.rung = Abroad /\ r.mid)}}

\* Stay, or move once pressure or recovery has lasted.
Routes(r) ==
    IF Inherits(r)
    THEN {Sticky} \cup (IF state[home.at] = "pressed" THEN select(r) ELSE Promoted(r))
    ELSE select(r)

KeptIfFresh(d, r) ==
    IF d.forced \/ ~Selects(shelf[d.at], r) \/ d.how = "sticky" THEN d
    ELSE [d EXCEPT !.model = IF Crosses(d.at) THEN r.model ELSE Nil,
                   !.rung = IF d.rung = Smaller THEN Top ELSE d.rung]

keep_listed_model(d, r) ==
    IF d.forced \/ ~Selects(shelf[d.at], r) THEN d
    ELSE [d EXCEPT !.model = IF Crosses(d.at) THEN r.model ELSE Nil,
                   !.rung = IF d.rung = Smaller THEN Top ELSE d.rung]

\* The model in the body that leaves: edited only where the route names one.
apply_model(b, d) ==
    IF d.model # Nil THEN d.model
    ELSE IF b.model = Nil /\ Crosses(d.at) THEN "default" ELSE b.model

Serve(b, d) ==
    /\ home' = [at |-> d.at, model |-> d.model, rung |-> d.rung]
    /\ verdict' = [asked |-> b, at |-> d.at, sent |-> apply_model(b, d), rung |-> d.rung,
                how |-> d.how, forced |-> d.forced, status |-> 200]

Decline(b, refusal) ==
    /\ verdict' = [asked |-> b, at |-> Nil, sent |-> Nil, rung |-> Nil,
                how |-> refusal, forced |-> FALSE, status |-> StatusOf(refusal)]
    /\ UNCHANGED home

\* A route header outranks the pin, and one that names nothing is an error.
DecideFor(b, header) ==
    LET r == Warmed(Peek(b))
        f == IF header # Nil THEN header ELSE pin
    IN  \/ /\ header # Nil /\ header.at \notin Vendor
           /\ Decline(b, "unknown")
        \/ /\ f # Nil /\ f.at \in Vendor
           /\ IF ForcedRefusal(f, r) = "none" THEN Serve(b, keep_listed_model(ForcedRoute(f, r), r))
              ELSE Decline(b, ForcedRefusal(f, r))
        \/ /\ f # Nil => header = Nil /\ f.at \notin Vendor
           /\ \/ \E d \in Routes(r) : Serve(b, keep_listed_model(d, r))
              \/ /\ select(r) = {}
                 /\ Inherits(r) => state[home.at] = "pressed"
                 /\ Decline(b, NoRoute(r))

TakeTurn ==
    /\ \E b \in Bodies, h \in Forces \cup {Nil} : DecideFor(b, h)
    /\ UNCHANGED <<holder, shelf, state, agreed, full, pin>>

-----------------------------------------------------------------------------
(* What happens between two turns *)

\* A provider is asked for its catalogue, and answers another time otherwise.
Restock == /\ \E v \in Vendor : \E cat \in Shelf[v] : shelf' = [shelf EXCEPT ![v] = cat]
         /\ UNCHANGED <<state, agreed, full, pin, home>>

Fare == /\ \E v \in Vendor : \E s \in Fates[v] : state' = [state EXCEPT ![v] = s]
        /\ UNCHANGED <<shelf, agreed, full, pin, home>>

\* The user's consent, mode and pin.
Settle == /\ \/ \E v \in Subscriptions : agreed' \in {agreed \cup {v}, agreed \ {v}} /\ UNCHANGED <<full, pin>>
             \/ full' = ~full /\ UNCHANGED <<agreed, pin>>
             \/ pin' \in Forces \cup {Nil} /\ UNCHANGED <<agreed, full>>
          /\ UNCHANGED <<shelf, state, home>>

\* A failure, idleness or the table's ceiling.
Unhome == home' = Nil /\ UNCHANGED <<shelf, state, agreed, full, pin>>

ChoiceInit ==
    /\ holder \in Clientele
    /\ shelf \in {f \in [Vendor -> UNION {Shelf[v] : v \in Vendor}] : \A v \in Vendor : f[v] \in Shelf[v]}
    /\ state = [v \in Vendor |-> "up"]
    /\ agreed = Subscriptions /\ full = FALSE
    /\ pin = Nil /\ home = Nil /\ verdict = Nil

\* The client has its answer before anything else happens.
ChoiceNext ==
    \/ verdict # Nil /\ verdict' = Nil /\ UNCHANGED <<holder, shelf, state, agreed, full, pin, home>>
    \/ verdict = Nil /\ TakeTurn
    \/ verdict = Nil /\ (Restock \/ Fare \/ Settle \/ Unhome) /\ UNCHANGED <<holder, verdict>>

ChoiceSpec == ChoiceInit /\ [][ChoiceNext]_choice

-----------------------------------------------------------------------------
(* Properties: of the last answer, while the world it was given in lasts *)

Served == verdict # Nil /\ verdict.status = 200

ChoiceTypeOK ==
    /\ state \in [Vendor -> {"up", "pressed", "spent", "capped", "down"}]
    /\ agreed \subseteq Subscriptions
    /\ home # Nil => home.at \in Vendor /\ home.rung \in Top .. Abroad
    /\ Served => verdict.at \in Vendor

\* A name the provider lists is the one it gets, whatever an earlier turn of the
\* conversation was given, unless the user forced another.  Code: policy.rs
\* keep_listed_model.
ListedIsServed ==
    Served /\ ~verdict.forced /\ Selects(shelf[verdict.at], verdict.asked) => verdict.sent = verdict.asked.model

\* A turn within a tool loop that stays on a backend of another wire.
CarriesOn == Served /\ verdict.how = "sticky" /\ Crosses(verdict.at) /\ MidLoop(verdict.asked)

\* The window that was checked is that of the model that was sent, on every
\* route chosen for this request: a sticky one replays its model, and within a
\* tool loop nothing is checked that comes after the loop in `eligible`.  Code:
\* policy.rs sized_for, served_model, incumbent_is_usable.
FitsItsWindow ==
    Served /\ (verdict.how # "sticky" \/ Selects(shelf[verdict.at], verdict.asked)) /\ ~CarriesOn
        => Fits(verdict.at, Peek(verdict.asked), verdict.sent)

\* Given less than it asks for, on a rung from which nothing climbs back.
Downgraded ==
    /\ Served /\ verdict.rung = Top /\ verdict.how # "named"
    /\ ~Selects(shelf[verdict.at], verdict.asked)
    /\ verdict.sent \in DOMAIN Hint /\ Hint[verdict.sent] < from_model_hint(verdict.asked)

\* Whoever is given less than asked for is on a lower rung, from which the
\* conversation climbs back, unless the turn replays the model of an earlier
\* one.  Code: policy.rs route, select, consider_promotion.
DescentIsSeen == Downgraded => verdict.how = "sticky"

\* Told to come back later, a client finds capacity that is its own to use and
\* may return; one pointed at the wrong URL is not told to wait.  Code: policy.rs
\* select, the refusals; facade/error.rs from_no_route.
WaitingHelps ==
    verdict # Nil /\ verdict.status = 429 =>
        /\ \E v \in Vendor : serves_this_client(v) = "ok" /\ state[v] \in {"down", "spent", "capped"}
        /\ (\E v \in Vendor : state[v] = "capped")
           \/ ~WrongUrl([v \in Vendor |-> serves_this_client(v)])

\* The four together: the right model, sized, recorded; or the right reason.
ChoiceIsSound == ListedIsServed /\ FitsItsWindow /\ DescentIsSeen /\ WaitingHelps
=============================================================================
