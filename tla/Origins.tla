------------------------------ MODULE Origins ------------------------------
(***************************************************************************)
(* The account lock (ironwire_core::policy): which account minted the       *)
(* encrypted reasoning a Responses client replays.  The provider takes it  *)
(* back on that account only, so a replay goes home, goes through a        *)
(* translation that drops it, or is refused.  The policy learns the origin *)
(* from the routes it chooses, under the client's session if it names one, *)
(* else under a slot all sessionless conversations of a login share and    *)
(* under digests of what was replayed; records lapse, are evicted, and die *)
(* with the process.                                                       *)
(*                                                                         *)
(* Abstracted: which usable candidate routing prefers and what else makes  *)
(* one usable (Routing models both: here any candidate may be taken, and   *)
(* none may be left), clients that are not Codex, and the second           *)
(* conversation of one session: a session is one conversation, as          *)
(* ReasoningKey::Session takes it to be.                                   *)
(***************************************************************************)
EXTENDS Naturals, Sequences, FiniteSets

CONSTANTS
    Convo,
    Client,        \* kinds of client: [session, login, latest]
    Candidate, Native, Login,
    DefaultLogin,
    Holder,       \* whom a credential may belong to
    Named,         \* those a credential names
    Keeps,         \* AFFINITY_TTL
    MaxRecords,    \* MAX_REASONING_ACCOUNTS
    MaxReplies,     \* bound: ciphertexts a conversation receives
    Happenings,    \* bound: relogins, restarts, hours passing, compactions, failures
    Nobody

ASSUME OriginsAssumption ==
    /\ Native \cup Login \cup {DefaultLogin} \subseteq Candidate
    /\ Named \subseteq Holder
    /\ Keeps \in Nat \ {0} /\ MaxRecords \in Nat \ {0}
    /\ MaxReplies \in Nat /\ Happenings \in Nat

VARIABLES
    fallback,    \* cross_account_fallback
    client,
    now,
    account,     \* candidate -> the account its credential is for, or Nobody
    record,      \* reasoning_accounts: key -> [by, seen]
    turn,        \* what each conversation is waiting for
    past,        \* conversation -> the ciphertexts in its history
    replies,      \* bound: how many it has received
    unsure,      \* history: conversations some record of which has been lost
    happens

origins == <<fallback, client, now, account, record, turn, past, replies, unsure, happens>>
fixed   == <<fallback, client>>

Resting == [pc |-> "rest"]
Contended == <<"contended">>

\* What a status or a sender can tell of an account.
Scope(a) == IF a \in Named THEN a ELSE Nobody

-----------------------------------------------------------------------------
(* Records *)

Sessionless(c) == ~client[c].session
KeyFor(c)   == IF Sessionless(c) THEN <<"conversation", client[c].login>>
             ELSE <<"session", c, client[c].login>>
DigestOf(x) == <<"reasoning", x.id>>

Has(r, k) == k \in DOMAIN r
Touch(r, keys) == [k \in DOMAIN r |-> IF k \in keys THEN [r[k] EXCEPT !.seen = now] ELSE r[k]]
Put(r, k, by)  == [x \in DOMAIN r \cup {k} |-> IF x = k THEN [by |-> by, seen |-> now] ELSE r[x]]
Without(r, keys) == [k \in DOMAIN r \ keys |-> r[k]]

\* `bound`: what has lapsed goes, then the stalest while there are too many.
Bounded(r) ==
    LET lapsed == {k \in DOMAIN r : now - r[k].seen >= Keeps}
        live   == Without(r, lapsed)
        stalest == {k \in DOMAIN live : \A x \in DOMAIN live : live[k].seen <= live[x].seen}
    IN  IF Cardinality(DOMAIN live) <= MaxRecords THEN {live}
        ELSE {Without(live, {k}) : k \in stalest}

\* A conversation that rested on a record that is gone may be guessed about.
Lose(gone) ==
    unsure' = unsure \cup {c \in Convo :
        \/ KeyFor(c) \in gone /\ (past[c] # <<>> \/ turn[c] # Resting)
        \/ \E i \in 1 .. Len(past[c]) : DigestOf(past[c][i]) \in gone}
Gone(r, s) == DOMAIN r \ DOMAIN s

-----------------------------------------------------------------------------
(* Where the replayed reasoning came from: `origin_of` *)

Serves(c, b) ==
    b \in Login =>
        \/ fallback
        \/ b = IF client[c].login = Nobody THEN DefaultLogin ELSE client[c].login

Known(b, s) == [origin |-> "known", backend |-> b, scope |-> s]
Absent      == [origin |-> "absent"]
Ambiguous   == [origin |-> "ambiguous"]
FromRecord(by) == IF by = Contended THEN Ambiguous ELSE Known(by[1], by[2])

\* The only account that could have minted it: a login before any key.
Inferred(c) ==
    LET could  == {b \in Native : Serves(c, b)}
        pool   == IF could \cap Login # {} THEN could \cap Login
                  ELSE {b \in could : turn[c].scope[b] # Nobody}
    IN  IF client[c].login \notin Candidate \cup {Nobody} \/ pool = {} THEN Absent
        ELSE IF Cardinality(pool) > 1 THEN Ambiguous
        ELSE LET b == CHOOSE x \in pool : TRUE IN Known(b, turn[c].scope[b])

OriginOf(c, r) ==
    LET seen == {r[k].by : k \in {DigestOf(x) : x \in turn[c].replays} \cap DOMAIN r}
    IN  IF Sessionless(c) /\ seen # {}
        THEN IF Cardinality(seen) > 1 THEN Ambiguous ELSE FromRecord(CHOOSE by \in seen : TRUE)
        ELSE IF Has(r, KeyFor(c)) THEN FromRecord(r[KeyFor(c)].by)
        ELSE IF turn[c].replays = {} THEN Absent
        ELSE Inferred(c)

\* `requirements_for` and what `eligible` makes of it.
MayReplay(c, b, o) ==
    turn[c].replays # {} =>
        /\ o.origin # "ambiguous" /\ ~(o.origin = "known" /\ o.scope = Nobody)
        /\ b \in Native => o.origin = "known" /\ o.backend = b /\ o.scope = turn[c].scope[b]

-----------------------------------------------------------------------------
(* `note_reasoning_account`: what a chosen route leaves behind *)

Newest(c) == CHOOSE x \in turn[c].replays : \A y \in turn[c].replays : y.id[2] <= x.id[2]

\* The records a turn rests on, and the one its route is noted under.
Rested(c) == {KeyFor(c)} \cup (IF Sessionless(c) THEN {DigestOf(x) : x \in turn[c].replays} ELSE {})
NotedUnder(c) ==
    IF Sessionless(c) /\ turn[c].replays # {} THEN DigestOf(Newest(c)) ELSE KeyFor(c)

\* Mutant: whoever writes a shared key last owns it.
NotedByLast(c, b, r) ==
    LET t == Touch(r, Rested(c))
    IN  IF b \notin Native THEN {t} ELSE Bounded(Put(t, NotedUnder(c), <<b, turn[c].scope[b]>>))

(***************************************************************************)
(* Every turn keeps alive the records it rests on; a native one says who   *)
(* mints.  Under a key that several conversations may share, a second      *)
(* account does not replace the first: neither is believed from then on.   *)
(***************************************************************************)
Noted(c, b, r) ==
    LET t    == Touch(r, Rested(c))
        mine == <<b, turn[c].scope[b]>>
        k    == NotedUnder(c)
        by   == IF Sessionless(c) /\ Has(t, k) /\ t[k].by # mine THEN Contended ELSE mine
    IN  IF b \notin Native THEN {t} ELSE Bounded(Put(t, k, by))

\* What a noted turn rests on from then on; a full table may evict it at once.
Noticed(c, b, r) == DOMAIN r \cup IF b \in Native THEN {NotedUnder(c)} ELSE {}

-----------------------------------------------------------------------------
(* A turn: the snapshot, a decision for every attempt, the sender's check *)

Ids(c) == {past[c][i] : i \in 1 .. Len(past[c])}

\* The client sends its history, or the last of it.
Ask(c) ==
    /\ turn[c] = Resting /\ replies[c] < MaxReplies
    /\ turn' = [turn EXCEPT ![c] =
           [pc |-> "decide", failed |-> {}, to |-> Nobody, at |-> Nobody,
            scope |-> [b \in Candidate |-> Scope(account[b])],
            replays |-> IF client[c].latest /\ past[c] # <<>> THEN {past[c][Len(past[c])]} ELSE Ids(c)]]
    /\ UNCHANGED <<fixed, now, account, record, past, replies, unsure, happens>>

Eligible(c, r) ==
    {b \in Candidate \ turn[c].failed : Serves(c, b) /\ MayReplay(c, b, OriginOf(c, r))}

\* Pins and overrides pass the same gate.
Decide(c, b) ==
    /\ turn[c].pc = "decide"
    /\ \E r \in Bounded(record) :
         /\ b \in Eligible(c, r)
         /\ \E s \in Noted(c, b, r) :
                record' = s /\ Lose(Gone(record, r) \cup (Noticed(c, b, r) \ DOMAIN s))
    /\ turn' = [turn EXCEPT ![c] = [@ EXCEPT !.pc = "send", !.to = b]]
    /\ UNCHANGED <<fixed, now, account, past, replies, happens>>

\* No eligible one is up: the sweep has happened, nothing is noted.
RefuseTurn(c) ==
    /\ turn[c].pc = "decide"
    /\ record' \in Bounded(record) /\ Lose(Gone(record, record'))
    /\ turn' = [turn EXCEPT ![c] = Resting]
    /\ UNCHANGED <<fixed, now, account, past, replies, happens>>

Again(c, failed) ==
    turn' = [turn EXCEPT ![c] = [@ EXCEPT !.pc = "decide", !.failed = failed,
                                          !.to = Nobody, !.at = Nobody]]

\* The sender reads the credential itself; the account must be the one that
\* was routed to, as far as the snapshot could tell.
Matches(c) ==
    LET b == turn[c].to
    IN  account[b] # Nobody /\ turn[c].scope[b] \in {Nobody, Scope(account[b])}

SendTurn(c) ==
    /\ turn[c].pc = "send"
    /\ IF Matches(c)
       THEN turn' = [turn EXCEPT ![c] = [@ EXCEPT !.pc = "reply", !.at = account[turn[c].to]]]
       ELSE Again(c, turn[c].failed \cup {turn[c].to})
    /\ UNCHANGED <<fixed, now, account, record, past, replies, unsure, happens>>

\* A reply on the Responses wire carries reasoning only its account can read.
Reply(c) ==
    /\ turn[c].pc = "reply"
    /\ LET b == turn[c].to
       IN  IF b \in Native
           THEN /\ past' = [past EXCEPT ![c] = Append(@, [id |-> <<c, replies[c]>>, by |-> turn[c].at])]
                /\ replies' = [replies EXCEPT ![c] = @ + 1]
           ELSE UNCHANGED <<past, replies>>
    /\ turn' = [turn EXCEPT ![c] = Resting]
    /\ UNCHANGED <<fixed, now, account, record, unsure, happens>>

Happens == happens > 0 /\ happens' = happens - 1

\* A failed attempt gives the backend up, or is made again.
Fail(c) ==
    /\ turn[c].pc = "reply" /\ Happens
    /\ \E failed \in {turn[c].failed, turn[c].failed \cup {turn[c].to}} : Again(c, failed)
    /\ UNCHANGED <<fixed, now, account, record, past, replies, unsure>>

-----------------------------------------------------------------------------
(* The world *)

\* The client summarises: what it replayed is gone.
Compact(c) ==
    /\ turn[c] = Resting /\ past[c] # <<>> /\ Happens
    /\ past' = [past EXCEPT ![c] = <<>>]
    /\ unsure' = unsure \ {c}
    /\ UNCHANGED <<fixed, now, account, record, turn, replies>>

Relogin(b, a) ==
    /\ account[b] # a /\ Happens
    /\ account' = [account EXCEPT ![b] = a]
    /\ UNCHANGED <<fixed, now, record, turn, past, replies, unsure>>

Hours ==
    /\ Happens
    /\ now' = now + 1
    /\ UNCHANGED <<fixed, account, record, turn, past, replies, unsure>>

Die ==
    /\ Happens
    /\ record' = Without(record, DOMAIN record)
    /\ Lose(DOMAIN record)
    /\ turn' = [c \in Convo |-> Resting]
    /\ UNCHANGED <<fixed, now, account, past, replies>>

OriginsInit(accounts) ==
    /\ fallback \in BOOLEAN
    /\ client \in [Convo -> Client]
    /\ now = 0
    /\ account \in accounts
    /\ record = [k \in {} |-> Resting]
    /\ turn = [c \in Convo |-> Resting]
    /\ past = [c \in Convo |-> <<>>] /\ replies = [c \in Convo |-> 0]
    /\ unsure = {}
    /\ happens = Happenings

OriginsNext ==
    \/ \E c \in Convo :
         \/ \E b \in Candidate : Decide(c, b)
         \/ Ask(c) \/ RefuseTurn(c) \/ SendTurn(c) \/ Reply(c) \/ Fail(c) \/ Compact(c)
    \/ \E b \in Candidate, a \in Holder \cup {Nobody} : Relogin(b, a)
    \/ Hours \/ Die

-----------------------------------------------------------------------------
(* Properties *)

(***************************************************************************)
(* Encrypted reasoning goes back to the account that minted it or nowhere:  *)
(* through failures, retries, translated detours, relogins between status, *)
(* decision and send, and another conversation under the same slot, as     *)
(* long as no record the conversation rests on has lapsed, was evicted or  *)
(* died with the process (docs/PROTOCOL.md, the account twin; policy.rs    *)
(* origin_of, note_reasoning_account).                                     *)
(***************************************************************************)
ReasoningGoesHome ==
    \A c \in Convo \ unsure :
        turn[c].pc = "reply" /\ turn[c].to \in Native =>
            \A x \in turn[c].replays : x.by = turn[c].at
=============================================================================
