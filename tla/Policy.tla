------------------------------- MODULE Policy -------------------------------
(***************************************************************************)
(* The pure half of ironwire_core::policy and ironwire_core::capability:   *)
(* which backends may serve one request, and which of them `select` takes. *)
(* Nothing here has state; Routing and Dispatch are built on it.           *)
(*                                                                         *)
(* A request r is [kind, mid, model]: its kind, whether its last message   *)
(* replays a tool result, and the model it names.  The world w is what the *)
(* registry reported when the candidates were listed: [level, consented,   *)
(* private].                                                               *)
(*                                                                         *)
(* Abstracted: catalogues (for each model a request may name, `Fit` says   *)
(* what a backend's catalogue does to its tier, and `Listed` which         *)
(* providers list it by name; Choice has them slug by slug), capability    *)
(* flags other than the prompt cache, the account lock on encrypted        *)
(* reasoning, and clients the subscriptions do not belong to               *)
(* (`serves_this_client` refuses those for good).                          *)
(***************************************************************************)
EXTENDS Naturals, FiniteSets

CONSTANTS
    Backend,          \* the registered backends
    Native,           \* those that speak the client's wire
    NeedsConsent,     \* subscriptions: used only with the user's consent
    Trusted,          \* destinations still allowed under full privacy
    Cacheless,        \* backends without a prompt cache
    Model,            \* the models that requests name
    Fit,              \* model -> what each catalogue does to its tier
    Listed,           \* model -> the backends whose provider lists that name
    Order,            \* the static part of `sort_key`, lowest first
    CompactionOrder,  \* the same for a compaction request
    Preference,       \* cost rank, own login, position: see Alternate
    None              \* no backend, no timer, no affinity

Level == {"free", "pressured", "out"}
Kind  == {"plain", "long", "compaction"}
Fits  == {"full", "smaller", "unlisted"}

Preferred           == 0
SmallerModel        == 1
AlternateCredential == 2
CrossFamily         == 3
Rung == Preferred .. CrossFamily

ASSUME PolicyAssumption ==
    /\ Native \subseteq Backend
    /\ NeedsConsent \subseteq Backend
    /\ Trusted \subseteq Backend
    /\ Cacheless \subseteq Backend
    /\ Order \in [Backend -> Nat]
    /\ CompactionOrder \in [Backend -> Nat]
    /\ Preference \in [Backend -> Nat]
    /\ None \notin Backend

ASSUME CatalogueAssumption ==
    /\ Fit \in [Model -> [Backend -> Fits]]
    /\ Listed \in [Model -> SUBSET Backend]

World   == [level : [Backend -> Level], consented : SUBSET NeedsConsent, private : BOOLEAN]
Request == [kind : Kind, mid : BOOLEAN, model : Model]

Healthy(w, b)   == w.level[b] # "out"
Pressured(w, b) == w.level[b] # "free"

\* Consent and trust bind every route, a pinned one included.
Permitted(w, b) ==
    /\ b \in NeedsConsent => b \in w.consented
    /\ w.private => b \in Trusted

\* Mutant: a loop in flight no longer defers a family switch.
IneligibleByCostOnly(r, b, warm) ==
    IF b \notin Native /\ r.kind = "long" /\ warm /\ b \in Cacheless THEN "cache" ELSE "ok"

(***************************************************************************)
(* The cross-family half of `eligible`: a family switch waits for a turn   *)
(* boundary, and is not worth a large prompt cache while one is warm.      *)
(***************************************************************************)
Ineligible(r, b, warm) ==
    IF b \in Native THEN "ok"
    ELSE IF r.mid THEN "midloop"
    ELSE IF r.kind = "long" /\ warm /\ b \in Cacheless THEN "cache"
    ELSE "ok"

\* `usable`: the first reason not to use b, or "ok".
Why(w, r, b, warm) ==
    IF ~Healthy(w, b) THEN "out"
    ELSE IF ~Permitted(w, b) THEN "barred"
    ELSE Ineligible(r, b, warm)

Usable(w, r, b, warm) == Why(w, r, b, warm) = "ok"

\* Mutant: stickiness asks only whether the backend suits the request.
IncumbentSuits(w, r, b, warm) == Ineligible(r, b, warm) \in {"ok", "midloop"}

\* `incumbent_is_usable`: the backend a conversation is on may finish a loop.
IncumbentUsable(w, r, b, warm) == Why(w, r, b, warm) \in {"ok", "midloop"}

-----------------------------------------------------------------------------
(* `select` *)

SortRank(r, b) == IF r.kind = "compaction" THEN CompactionOrder[b] ELSE Order[b]

\* Unpressured capacity first, then the static order.
Before(w, r, a, b) ==
    \/ ~Pressured(w, a) /\ Pressured(w, b)
    \/ /\ Pressured(w, a) = Pressured(w, b)
       /\ SortRank(r, a) < SortRank(r, b)

Bests(w, r, S) == {b \in S : \A a \in S : ~Before(w, r, a, b)}

\* A catalogue that is a guess ("unlisted") is trusted with the client's own slug
\* while unpressured, but it lists no model of the requested tier.
ServesTier(r, b) == Fit[r.model][b] = "full"

\* The route is a second-choice credential when a preferred one on this wire
\* could have served the tier but was spent, unhealthy or only outranked.
Alternate(w, r, b, warm) ==
    \E a \in Native \ {b} :
        /\ ServesTier(r, a)
        /\ Why(w, r, a, warm) \in {"ok", "out"}
        /\ Preference[a] < Preference[b]

NativeRung(w, r, b, warm) ==
    IF Alternate(w, r, b, warm) THEN AlternateCredential
    ELSE IF \/ Fit[r.model][b] = "smaller"
            \/ Fit[r.model][b] = "unlisted" /\ Pressured(w, b)
         THEN SmallerModel
         ELSE Preferred

\* The routes `select` may return: one when the orders are strict, none when
\* every backend is refused.
Selections(w, r, warm) ==
    LET usable == {b \in Backend : Usable(w, r, b, warm)}
        same   == usable \cap Native
    IN  IF same # {}
        THEN {[backend |-> b, rung |-> NativeRung(w, r, b, warm)] : b \in Bests(w, r, same)}
        ELSE {[backend |-> b, rung |-> CrossFamily] : b \in Bests(w, r, usable)}

-----------------------------------------------------------------------------
(***************************************************************************)
(* A pin or an X-IronWire-Route header names the backend.  It overrides    *)
(* preference, health and quota, never permission or eligibility; a tool   *)
(* loop already translated to that backend may continue there.             *)
(***************************************************************************)
ForcedAllowed(w, r, b, warm, continuing) ==
    /\ Permitted(w, b)
    /\ \/ Ineligible(r, b, warm) = "ok"
       \/ continuing /\ Ineligible([r EXCEPT !.mid = FALSE], b, warm) = "ok"

ForcedRung(b) == IF b \in Native THEN Preferred ELSE CrossFamily

-----------------------------------------------------------------------------
(* `keep_listed_model` *)

\* Mutant: any descent is put back, not only one to a smaller model.
KeptRungAlways(r, b, rung) == IF b \in Listed[r.model] THEN Preferred ELSE rung

\* A name the chosen backend's provider lists is served as such, so a fall to a
\* smaller model was none: the rung is put back at once, whatever chose it.
KeptRung(r, b, rung) ==
    IF rung = SmallerModel /\ b \in Listed[r.model] THEN Preferred ELSE rung

Kept(r, d) == [d EXCEPT !.rung = KeptRung(r, d.backend, d.rung)]

-----------------------------------------------------------------------------
(* What one decision may answer, knowing only where the conversation is *)

WarmAt(h) == h # None /\ h.backend \notin Cacheless

\* The backend a conversation is on may serve this request too.
Serves(w, r, h) ==
    /\ h # None
    /\ r.kind = "compaction" => h.rung = Preferred
    /\ IncumbentUsable(w, r, h.backend, WarmAt(h))

Continues(h, b) == h # None /\ h.backend = b /\ h.rung = CrossFamily

(***************************************************************************)
(* The routes a decision may return to request r, whose conversation is on *)
(* h and which names backend `force`, if any.                              *)
(***************************************************************************)
Taken(w, r, h, force) ==
    {d \in {[backend |-> force, rung |-> ForcedRung(force)]} :
        ForcedAllowed(w, r, force, WarmAt(h), Continues(h, force))}

Chosen(w, r, h) ==
    {d \in Selections(w, r, WarmAt(h)) :
        Serves(w, r, h) =>
            \/ Pressured(w, h.backend)
            \/ d.rung < h.rung /\ ~(h.rung = CrossFamily /\ r.mid)}

Routes(w, r, h, force) ==
    IF force # None THEN Taken(w, r, h, force)
    ELSE {Kept(r, d) : d \in Chosen(w, r, h) \cup {e \in {h} : Serves(w, r, h)}}

\* When it may refuse: no route, or only the pressured one it is on.
Refusable(w, r, h, force) ==
    IF force # None THEN Taken(w, r, h, force) = {}
    ELSE /\ Selections(w, r, WarmAt(h)) = {}
         /\ Serves(w, r, h) => Pressured(w, h.backend)
=============================================================================
