--------------------------- MODULE ControlProofs ----------------------------
(***************************************************************************)
(* What holds of the control API, for every set of requests, calls,        *)
(* sessions, agents, logins and directories.  Four invariants; a step of   *)
(* Control is a step of the settings or of the logins, and leaves the      *)
(* other alone.                                                            *)
(*                                                                         *)
(* Settings (AccessInv).  A call is several steps, and another may start   *)
(* between any two.  What can be promised is promised of a call that       *)
(* nothing contests: it is the only one of its kind, what it has settled   *)
(* is in force in every copy, and what a request has read of it agrees     *)
(* with what it was promised when it came in.                              *)
(*                                                                         *)
(* Money (MoneyInv).  The tracker has, of its own day, every row that is   *)
(* written and every reply that is billed and not written yet; and of no   *)
(* later day is there a row, unless the tracker went back a day.           *)
(*                                                                         *)
(* Files (FilesInv).  A file keeps a shape in which a value of ours is at  *)
(* a setting and a table that holds something is there; an edit that waits *)
(* to be written was worked out from such a file, keeps the user's part of *)
(* it, and unless it was overtaken has all the user put there since.       *)
(*                                                                         *)
(* Logins (LoginsInv).  A consent record has three copies: the file, what  *)
(* the daemon read, and what a command read before its question.  Each     *)
(* names only places agreed to; and what a command that waits is about to  *)
(* forget has been said.                                                   *)
(***************************************************************************)
EXTENDS Control, Sequences, FiniteSetTheorems, NaturalsInduction, WellFoundedInduction, TLAPS

-----------------------------------------------------------------------------
(* Settings and requests: the invariant *)

Binding == [backend : Chat, expires : Nat]

Request ==
    [pc : {"admit", "consider", "send", "reply", "row"}, session : Session \cup {None},
     forced : Backend \cup {None}, day : Nat, filter : Mode, mode : Mode \cup {None},
     binding : Binding \cup {None}, bound : BOOLEAN, may : SUBSET Backend,
     to : Backend \cup {None}, refused : SUBSET Subscription, spent : SUBSET Metered]

ModeCall == [pc : {"registry", "filter", "persist"}, kind : {"mode"}, to : Mode, alone : BOOLEAN]

ConsentCall ==
    [pc : {"answer", "snapshot", "save"}, kind : {"consent"}, backend : Subscription,
     granted : BOOLEAN, previous : SUBSET Subscription, updated : SUBSET Subscription,
     alone : BOOLEAN]

Settled ==
    [mode : Mode \cup {None}, modeSaved : Mode \cup {None},
     refused : SUBSET Subscription, refusedSaved : SUBSET Subscription, lost : BOOLEAN]

SettingsTypeOK ==
    /\ clock \in Nat
    /\ mode \in [registry : Mode, filter : Mode, config : Mode]
    /\ consent \in [memory : SUBSET Subscription, disk : SUBSET Subscription]
    /\ live \in [Session -> Binding \cup {None}]
    /\ expired \subseteq Session /\ bound \subseteq Session
    /\ req \in [Slot -> {Idle} \cup Request]
    /\ call \in [Caller -> {NoCall} \cup ModeCall \cup ConsentCall]
    /\ settled \in Settled

\* A call that nothing contests is the only one of its kind.
AloneIsAlone ==
    \A c, d \in Caller :
        /\ call[c].pc # "idle" /\ call[d].pc # "idle" /\ call[c].kind = call[d].kind
        /\ call[c].alone
        => c = d

\* The mode that is settled is the one in force and, once saved, the one on disk.
ModeSettles ==
    /\ settled.modeSaved # None => mode.config = settled.modeSaved
    /\ settled.mode # None => /\ mode.registry = settled.mode /\ mode.filter = settled.mode
                              /\ \A c \in Caller : call[c] \notin ModeCall
    /\ \A c \in Caller : call[c] \in ModeCall /\ call[c].alone =>
           /\ call[c].pc \in {"filter", "persist"} => mode.registry = call[c].to
           /\ call[c].pc = "persist" => mode.filter = call[c].to

\* What is settled as refused is refused, in memory and on disk.
RefusalsSettle ==
    /\ settled.refused \cap consent.memory = {}
    /\ settled.refusedSaved \cap consent.disk = {}
    /\ \A c \in Caller : call[c] \in ConsentCall =>
           /\ ~call[c].alone => settled.refused = {} /\ settled.refusedSaved = {}
           /\ call[c].alone /\ call[c].pc = "answer" => call[c].backend \notin settled.refused
           /\ call[c].alone /\ call[c].pc = "save" => call[c].updated = consent.memory

\* A session bound and not revoked has its binding, or the fact that it lapsed.
BoundIsKept == \A s \in bound : live[s] # None \/ s \in expired

\* What a request has read so far is what it was promised.
Promised(q) ==
    /\ q.mode # None => q.filter = q.mode /\ q.mode = settled.mode
    /\ q.bound => q.binding # None
    /\ q.pc \in {"admit", "consider"} => q.may = {}
    /\ q.mode = "full" => q.may \subseteq Trusted
    /\ q.may \cap q.refused = {}
    /\ q.binding # None => \A b \in q.may : b = q.binding.backend
    /\ q.pc = "reply" => q.to \in q.may

RequestsKnow == \A r \in Slot : req[r] # Idle => Promised(req[r])

AccessInv ==
    /\ SettingsTypeOK
    /\ AloneIsAlone /\ ModeSettles /\ RefusalsSettle /\ BoundIsKept /\ RequestsKnow

-----------------------------------------------------------------------------

LEMMA IdleIsNoRequest == /\ Idle \notin Request /\ Idle.pc = "idle"
                         /\ \A q \in Request : q.pc # "idle"
                         /\ NoCall \notin ModeCall /\ NoCall \notin ConsentCall
                         /\ ModeCall \cap ConsentCall = {}
                         /\ \A x \in ModeCall : x.pc # "idle" /\ x.kind = "mode"
                         /\ \A x \in ConsentCall : x.pc # "idle" /\ x.kind = "consent"
                         /\ NoCall.pc = "idle"
<1>1. \A q \in Request : q.pc # "idle"
  BY DEF Request
<1>2. \A x \in ModeCall : x.pc # "idle" /\ x.kind = "mode"
  BY DEF ModeCall
<1>3. \A x \in ConsentCall : x.pc # "idle" /\ x.kind = "consent"
  BY DEF ConsentCall
<1>4. Idle.pc = "idle" /\ NoCall.pc = "idle"
  BY DEF Idle, NoCall
<1> QED  BY <1>1, <1>2, <1>3, <1>4

LEMMA AccessInvInit ==
    ASSUME Init  PROVE AccessInv
<1> USE DEF Init
<1>1. SettingsTypeOK
  BY DEF SettingsTypeOK, Settled, Mode
<1>2. \A c \in Caller : call[c] = NoCall
  OBVIOUS
<1>3. \A r \in Slot : req[r] = Idle
  OBVIOUS
<1>4. AloneIsAlone
  BY <1>2, IdleIsNoRequest DEF AloneIsAlone
<1>5. ModeSettles
  BY <1>2, IdleIsNoRequest DEF ModeSettles
<1>6. RefusalsSettle
  BY <1>2, IdleIsNoRequest DEF RefusalsSettle
<1> QED  BY <1>1, <1>3, <1>4, <1>5, <1>6 DEF AccessInv, BoundIsKept, RequestsKnow

\* A step of one request, as long as what it leaves was promised.
LEMMA OneRequest ==
    ASSUME AccessInv, UNCHANGED <<clock, settings, live, expired, bound, call>>,
           settled' \in Settled, settled'.mode = settled.mode,
           settled'.modeSaved = settled.modeSaved, settled'.refused = settled.refused,
           settled'.refusedSaved = settled.refusedSaved,
           NEW r \in Slot, NEW q, (q \in Request /\ Promised(q)) \/ q = Idle,
           req' = [req EXCEPT ![r] = q]
    PROVE  AccessInv'
<1> USE DEF AccessInv
<1>1. UNCHANGED <<mode, consent>>
  BY DEF settings
<1>2. SettingsTypeOK'
  BY <1>1 DEF SettingsTypeOK
<1>3. AloneIsAlone'
  BY DEF AloneIsAlone
<1>4. ModeSettles'
  BY <1>1 DEF ModeSettles
<1>5. RefusalsSettle'
  BY <1>1 DEF RefusalsSettle
<1>6. BoundIsKept'
  BY DEF BoundIsKept
<1>7. RequestsKnow'
  <2> SUFFICES ASSUME NEW x \in Slot, req'[x] # Idle  PROVE Promised(req[x])'
    BY DEF RequestsKnow
  <2>1. req \in [Slot -> {Idle} \cup Request]
    BY DEF SettingsTypeOK
  <2>3. Promised(req'[x])
    BY <2>1 DEF RequestsKnow
  <2> QED  BY <2>3 DEF Promised
<1> QED  BY <1>2, <1>3, <1>4, <1>5, <1>6, <1>7

\* One lemma per step of a request.
LEMMA EnterKeeps ==
    ASSUME AccessInv, NEW r \in Slot, NEW s \in Session \cup {None},
           NEW f \in Backend \cup {None}, Enter(r, s, f)
    PROVE  AccessInv'
<1> DEFINE q == [pc |-> "admit", session |-> s, forced |-> f,
                 day |-> Today, filter |-> mode.filter, mode |-> settled.mode,
                 binding |-> None, bound |-> FALSE, may |-> {}, to |-> None,
                 refused |-> {}, spent |-> {}]
<1>1. req' = [req EXCEPT ![r] = q] /\ UNCHANGED <<clock, settings, bindings, call, settled>>
  BY DEF Enter
<1>2. mode \in [registry : Mode, filter : Mode, config : Mode] /\ settled \in Settled /\ clock \in Nat
  BY DEF AccessInv, SettingsTypeOK
<1>3. Today \in Nat
  BY <1>2, AccessAssumption DEF Today
<1>4. q \in Request
  BY <1>2, <1>3 DEF Request, Settled
<1>5. q.mode # None => q.filter = q.mode /\ q.mode = settled.mode
  BY DEF AccessInv, ModeSettles
<1>6. Promised(q)
  BY <1>5 DEF Promised
<1> HIDE DEF q
<1>7. UNCHANGED <<live, expired, bound>>
  BY <1>1 DEF bindings
<1> QED  BY <1>1, <1>2, <1>4, <1>6, <1>7, OneRequest

\* A request that goes no further is promised nothing.
LEMMA EndKeeps ==
    ASSUME AccessInv, NEW r \in Slot, req' = End(r),
           UNCHANGED <<clock, settings, bindings, call, settled>>
    PROVE  AccessInv'
<1>1. req' = [req EXCEPT ![r] = Idle]
  BY DEF End
<1>2. UNCHANGED <<live, expired, bound>>
  BY DEF bindings
<1>3. settled \in Settled
  BY DEF AccessInv, SettingsTypeOK
<1> QED  BY <1>1, <1>2, <1>3, OneRequest

\* A request that goes on, changed to one that is promised.
LEMMA OnwardKeeps ==
    ASSUME AccessInv, NEW r \in Slot, NEW q \in Request, Promised(q),
           req' = [req EXCEPT ![r] = q],
           UNCHANGED <<clock, settings, bindings, call, settled>>
    PROVE  AccessInv'
<1>2. UNCHANGED <<live, expired, bound>>
  BY DEF bindings
<1>3. settled \in Settled
  BY DEF AccessInv, SettingsTypeOK
<1> QED  BY <1>2, <1>3, OneRequest

LEMMA GoingOn ==
    ASSUME AccessInv, NEW r \in Slot, req[r].pc # "idle"
    PROVE  req[r] \in Request /\ Promised(req[r])
BY IdleIsNoRequest DEF AccessInv, SettingsTypeOK, RequestsKnow

LEMMA AdmitKeeps ==
    ASSUME AccessInv, NEW r \in Slot, Admit(r)
    PROVE  AccessInv'
<1> DEFINE q == req[r]
           s == q.session
<1>1. /\ q.pc = "admit" /\ UNCHANGED <<clock, settings, bindings, call, settled>>
      /\ req' = IF s = None THEN [req EXCEPT ![r] = [q EXCEPT !.pc = "consider"]]
                ELSE IF Expired(s) THEN End(r)
                ELSE [req EXCEPT ![r] = [q EXCEPT !.pc = "consider", !.binding = live[s],
                                                  !.bound = s \in bound]]
  BY DEF Admit, bindings, money
<1>2. q \in Request /\ Promised(q)
  BY <1>1, GoingOn
<1>3. CASE s = None
  <2> DEFINE n == [q EXCEPT !.pc = "consider"]
  <2>1. req' = [req EXCEPT ![r] = n]
    BY <1>1, <1>3
  <2> HIDE DEF q
  <2>2. n \in Request /\ Promised(n)
    BY <1>1, <1>2 DEF Request, Promised
  <2> HIDE DEF n
  <2> QED  BY <1>1, <2>1, <2>2, OnwardKeeps
<1>4. CASE s # None /\ Expired(s)
  BY <1>1, <1>4, EndKeeps
<1>5. CASE s # None /\ ~Expired(s)
  <2>1. s \in Session
    BY <1>2, <1>5 DEF Request
  <2> DEFINE e == live[s]
             tied == s \in bound
             n == [q EXCEPT !.pc = "consider", !.binding = e, !.bound = tied]
  <2>2. req' = [req EXCEPT ![r] = n]
    BY <1>1, <1>5
  <2>3. e \in Binding \cup {None} /\ tied \in BOOLEAN /\ (tied => e # None)
    BY <1>5, <2>1 DEF AccessInv, SettingsTypeOK, BoundIsKept, Expired
  <2> HIDE DEF q, e, tied
  <2>4. n \in Request
    BY <1>2, <2>3 DEF Request
  <2>5. Promised(n)
    BY <1>1, <1>2, <2>3 DEF Request, Promised
  <2> HIDE DEF n
  <2> QED  BY <1>1, <2>2, <2>4, <2>5, OnwardKeeps
<1> QED  BY <1>3, <1>4, <1>5

\* What `Allowed` lets through is what the request was promised.
LEMMA AllowedIsPromised ==
    ASSUME AccessInv, NEW r \in Slot, req[r] \in Request, Promised(req[r]),
           NEW b \in Backend, Allowed(r, b)
    PROVE  /\ b \notin settled.refused
           /\ req[r].mode = "full" => b \in Trusted
           /\ req[r].binding # None => b = req[r].binding.backend
<1>1. b \notin settled.refused
  <2>1. settled.refused \subseteq Subscription /\ settled.refused \cap consent.memory = {}
    BY DEF AccessInv, RefusalsSettle, SettingsTypeOK, Settled
  <2> QED  BY <2>1 DEF Allowed
<1>2. req[r].mode = "full" => b \in Trusted
  <2>1. None # "full"
    BY AccessAssumption DEF Mode
  <2>2. req[r].mode = "full" => settled.mode = "full"
    BY <2>1 DEF Promised
  <2>3. settled.mode = "full" => mode.registry = "full"
    BY <2>1 DEF AccessInv, ModeSettles
  <2> QED  BY <2>2, <2>3 DEF Allowed
<1>3. req[r].binding # None => b = req[r].binding.backend
  BY DEF Allowed
<1> QED  BY <1>1, <1>2, <1>3

LEMMA ConsiderKeeps ==
    ASSUME AccessInv, NEW r \in Slot, Consider(r)
    PROVE  AccessInv'
<1> DEFINE q    == req[r]
           now  == Roll(Today)
           full == Reached(now.sum)
           some == {b \in Backend : Allowed(r, b)}
           may  == IF q.forced # None THEN some \cap {q.forced} ELSE some \ full
           spent == IF settled.lost THEN {} ELSE Reached(rows[Today])
           n    == [q EXCEPT !.pc = "send", !.may = may, !.refused = settled.refused,
                             !.spent = spent]
<1>1. /\ q.pc = "consider"
      /\ UNCHANGED <<clock, settings, live, expired, bound, call, settled>>
  BY DEF Consider, bindings
<1>2. req' = End(r) \/ req' = [req EXCEPT ![r] = n]
  BY DEF Consider
<1>3. q \in Request /\ Promised(q)
  BY <1>1, GoingOn
<1>4. settled \in Settled
  BY DEF AccessInv, SettingsTypeOK
<1>5. CASE req' = End(r)
  <2>1. req' = [req EXCEPT ![r] = Idle]
    BY <1>5 DEF End
  <2> QED  BY <1>1, <1>4, <2>1, OneRequest
<1>6. CASE req' = [req EXCEPT ![r] = n]
  <2>1. /\ may \subseteq Backend
        /\ \A b \in may : Allowed(r, b)
    OBVIOUS
  <2>2. \A b \in may : /\ b \notin settled.refused
                       /\ q.mode = "full" => b \in Trusted
                       /\ q.binding # None => b = q.binding.backend
    BY <1>3, <2>1, AllowedIsPromised
  <2>3. spent \subseteq Metered
    BY DEF Reached
  <2>4. settled.refused \subseteq Subscription
    BY <1>4 DEF Settled
  <2>5. req' = [req EXCEPT ![r] = n]
    BY <1>6
  <2> HIDE DEF q, may, spent
  <2>6. n \in Request
    BY <1>3, <2>1, <2>3, <2>4 DEF Request
  <2>7. /\ n.pc = "send" /\ n.may = may /\ n.refused = settled.refused
        /\ n.mode = q.mode /\ n.filter = q.filter /\ n.bound = q.bound /\ n.binding = q.binding
    BY <1>3 DEF Request
  <2> HIDE DEF n
  <2>8. Promised(n)
    <3>1. n.mode # None => n.filter = n.mode /\ n.mode = settled.mode
      BY <1>3, <2>7 DEF Promised
    <3>2. n.bound => n.binding # None
      BY <1>3, <2>7 DEF Promised
    <3>3. n.mode = "full" => n.may \subseteq Trusted
      BY <2>2, <2>7
    <3>4. n.may \cap n.refused = {}
      BY <2>2, <2>7
    <3>5. n.binding # None => \A b \in n.may : b = n.binding.backend
      BY <2>2, <2>7
    <3> QED  BY <2>7, <3>1, <3>2, <3>3, <3>4, <3>5 DEF Promised
  <2> QED  BY <1>1, <1>4, <2>5, <2>6, <2>8, OneRequest
<1> QED  BY <1>2, <1>5, <1>6

LEMMA SendKeeps ==
    ASSUME AccessInv, NEW r \in Slot, NEW b \in Backend, Send(r, b)
    PROVE  AccessInv'
<1> DEFINE q == req[r]
           n == [q EXCEPT !.pc = "reply", !.to = b]
<1>1. /\ q.pc = "send" /\ b \in q.may /\ UNCHANGED <<clock, settings, bindings, call, settled>>
      /\ req' = End(r) \/ req' = [req EXCEPT ![r] = n]
  BY DEF Send
<1>2. q \in Request /\ Promised(q)
  BY <1>1, GoingOn
<1>3. CASE req' = End(r)
  BY <1>1, <1>3, EndKeeps
<1>4. CASE req' = [req EXCEPT ![r] = n]
  <2>1. req' = [req EXCEPT ![r] = n]
    BY <1>4
  <2> HIDE DEF q
  <2>2. n \in Request /\ Promised(n)
    BY <1>1, <1>2, ZenonT(60) DEF Request, Promised
  <2> HIDE DEF n
  <2> QED  BY <1>1, <2>1, <2>2, OnwardKeeps
<1> QED  BY <1>1, <1>3, <1>4

LEMMA FailoverKeeps ==
    ASSUME AccessInv, NEW r \in Slot, Failover(r)
    PROVE  AccessInv'
<1> DEFINE q == req[r]
           others == q.may \ {q.to}
           n == [q EXCEPT !.pc = "send", !.may = others]
<1>1. /\ q.pc = "reply" /\ UNCHANGED <<clock, settings, bindings, call, settled>>
      /\ req' = End(r) \/ req' = [req EXCEPT ![r] = n]
  BY DEF Failover
<1>2. q \in Request /\ Promised(q)
  BY <1>1, GoingOn
<1>3. CASE req' = End(r)
  BY <1>1, <1>3, EndKeeps
<1>4. CASE req' = [req EXCEPT ![r] = n]
  <2>1. req' = [req EXCEPT ![r] = n] /\ others \subseteq q.may
    BY <1>4
  <2> HIDE DEF q, others
  <2>2. n \in Request /\ Promised(n)
    BY <1>1, <1>2, <2>1 DEF Request, Promised
  <2> HIDE DEF n
  <2> QED  BY <1>1, <2>1, <2>2, OnwardKeeps
<1> QED  BY <1>1, <1>3, <1>4

LEMMA BillKeeps ==
    ASSUME AccessInv, NEW r \in Slot, Bill(r)
    PROVE  AccessInv'
<1> DEFINE q == req[r]
           n == [q EXCEPT !.pc = "row"]
           lost == settled.lost \/ q.day < spend.day
<1>1. /\ q.pc = "reply" /\ UNCHANGED <<clock, settings, bindings, call>>
      /\ req' = [req EXCEPT ![r] = n]
      /\ settled' = settled \/ settled' = [settled EXCEPT !.lost = lost]
  BY DEF Bill
<1>2. q \in Request /\ Promised(q)
  BY <1>1, GoingOn
<1>3. settled \in Settled /\ lost \in BOOLEAN
  BY DEF AccessInv, SettingsTypeOK
<1>4. UNCHANGED <<live, expired, bound>>
  BY <1>1 DEF bindings
<1> HIDE DEF q, lost
<1>5. n \in Request /\ Promised(n)
  BY <1>1, <1>2 DEF Request, Promised
<1>6. /\ settled' \in Settled /\ settled'.mode = settled.mode
      /\ settled'.modeSaved = settled.modeSaved /\ settled'.refused = settled.refused
      /\ settled'.refusedSaved = settled.refusedSaved
  BY <1>1, <1>3 DEF Settled
<1> HIDE DEF n
<1> QED  BY <1>1, <1>4, <1>5, <1>6, OneRequest

LEMMA RowKeeps ==
    ASSUME AccessInv, NEW r \in Slot, Row(r)
    PROVE  AccessInv'
BY EndKeeps DEF Row, bindings, settings

LEMMA ServedKeeps ==
    ASSUME AccessInv, Served  PROVE AccessInv'
BY EnterKeeps, AdmitKeeps, ConsiderKeeps, SendKeeps, FailoverKeeps, BillKeeps, RowKeeps DEF Served

-----------------------------------------------------------------------------
(* Calls that change the mode *)

LEMMA ACall ==
    ASSUME AccessInv, NEW c \in Caller, call[c].pc # "idle"
    PROVE  /\ call[c] \in ModeCall \cup ConsentCall
           /\ call[c].pc \in {"registry", "filter", "persist"} => call[c] \in ModeCall
           /\ call[c].pc \in {"answer", "snapshot", "save"} => call[c] \in ConsentCall
           /\ call[c].kind = "mode" => call[c] \in ModeCall
           /\ call[c].kind = "consent" => call[c] \in ConsentCall
<1>1. call[c] \in ModeCall \cup ConsentCall
  BY IdleIsNoRequest DEF AccessInv, SettingsTypeOK
<1> QED  BY <1>1 DEF ModeCall, ConsentCall

\* The calls once `c` has contested those of its kind.
LEMMA Contested ==
    ASSUME AccessInv, NEW kind \in {"mode", "consent"}, NEW d \in Caller
    PROVE  /\ Contest(kind)[d] \in {NoCall} \cup ModeCall \cup ConsentCall
           /\ call[d] = NoCall => Contest(kind)[d] = NoCall
           /\ Contest(kind)[d] = call[d] \/ Contest(kind)[d] = [call[d] EXCEPT !.alone = FALSE]
           /\ call[d].pc # "idle" /\ call[d].kind = kind =>
                  Contest(kind)[d] = [call[d] EXCEPT !.alone = FALSE]
           /\ ~(call[d].pc # "idle" /\ call[d].kind = kind) => Contest(kind)[d] = call[d]
<1>1. Contest(kind)[d] = IF call[d].pc # "idle" /\ call[d].kind = kind
                         THEN [call[d] EXCEPT !.alone = FALSE] ELSE call[d]
  BY DEF Contest
<1>2. call[d] \in {NoCall} \cup ModeCall \cup ConsentCall
  BY DEF AccessInv, SettingsTypeOK
<1>3. call[d] \in ModeCall => [call[d] EXCEPT !.alone = FALSE] \in ModeCall
  BY DEF ModeCall
<1>4. call[d] \in ConsentCall => [call[d] EXCEPT !.alone = FALSE] \in ConsentCall
  BY DEF ConsentCall
<1> QED  BY <1>1, <1>2, <1>3, <1>4, IdleIsNoRequest

\* A call goes a step further, or returns.
LEMMA AloneStays ==
    ASSUME AccessInv, NEW c \in Caller, NEW x, call' = [call EXCEPT ![c] = x],
           \/ x = NoCall
           \/ /\ call[c].pc # "idle" /\ x.kind = call[c].kind /\ x.alone = call[c].alone
              /\ x \in ModeCall \cup ConsentCall
    PROVE  /\ AloneIsAlone'
           /\ call' \in [Caller -> {NoCall} \cup ModeCall \cup ConsentCall]
           /\ \A d \in Caller : d # c => call'[d] = call[d]
           /\ call'[c] = x
<1>1. call \in [Caller -> {NoCall} \cup ModeCall \cup ConsentCall]
  BY DEF AccessInv, SettingsTypeOK
<1>2. /\ call' \in [Caller -> {NoCall} \cup ModeCall \cup ConsentCall]
      /\ \A d \in Caller : d # c => call'[d] = call[d]
      /\ call'[c] = x
  BY <1>1
<1>3. x # NoCall => call[c].pc # "idle" /\ x.kind = call[c].kind /\ x.alone = call[c].alone
  OBVIOUS
<1>4. AloneIsAlone
  BY DEF AccessInv
<1>5. ASSUME NEW a \in Caller, NEW d \in Caller,
             call'[a].pc # "idle", call'[d].pc # "idle", call'[a].kind = call'[d].kind,
             call'[a].alone
      PROVE  a = d
  <2>1. \A e \in Caller : call'[e].pc # "idle" =>
            /\ call[e].pc # "idle"
            /\ call'[e].kind = call[e].kind
            /\ call'[e].alone = call[e].alone
    BY <1>2, <1>3, IdleIsNoRequest
  <2> QED  BY <1>4, <1>5, <2>1 DEF AloneIsAlone
<1>6. AloneIsAlone'
  BY <1>5 DEF AloneIsAlone
<1> QED  BY <1>2, <1>6

\* The calls once a new one has begun.
LEMMA AloneBegins ==
    ASSUME AccessInv, NEW kind \in {"mode", "consent"}, NEW c \in Caller, call[c] = NoCall,
           NEW x \in ModeCall \cup ConsentCall, x.kind = kind, x.alone = ~Busy(kind),
           call' = [Contest(kind) EXCEPT ![c] = x]
    PROVE  /\ AloneIsAlone'
           /\ call' \in [Caller -> {NoCall} \cup ModeCall \cup ConsentCall]
           /\ \A d \in Caller : d # c => call'[d] = Contest(kind)[d]
           /\ call'[c] = x
<1> DEFINE con == Contest(kind)
<1>1. con = [d \in Caller |-> con[d]]
  BY DEF Contest
<1>2. \A d \in Caller : con[d] \in {NoCall} \cup ModeCall \cup ConsentCall
  BY Contested
<1>3. con \in [Caller -> {NoCall} \cup ModeCall \cup ConsentCall]
  BY <1>1, <1>2
<1>4. call' = [con EXCEPT ![c] = x]
  OBVIOUS
<1>5. \A d \in Caller :
        /\ call[d].pc # "idle" /\ call[d].kind = kind => ~con[d].alone
        /\ ~(call[d].pc # "idle" /\ call[d].kind = kind) => con[d] = call[d]
        /\ call[d].pc # "idle" /\ call[d].kind = kind => con[d].kind = kind
        /\ con[d].pc # "idle" => call[d].pc # "idle"
  <2> SUFFICES ASSUME NEW d \in Caller
               PROVE  /\ call[d].pc # "idle" /\ call[d].kind = kind => ~con[d].alone
                      /\ ~(call[d].pc # "idle" /\ call[d].kind = kind) => con[d] = call[d]
                      /\ call[d].pc # "idle" /\ call[d].kind = kind => con[d].kind = kind
                      /\ con[d].pc # "idle" => call[d].pc # "idle"
    OBVIOUS
  <2>1. CASE call[d].pc # "idle" /\ call[d].kind = kind
    <3>1. con[d] = [call[d] EXCEPT !.alone = FALSE]
      BY <2>1, Contested
    <3>2. call[d] \in ModeCall \cup ConsentCall
      BY <2>1, ACall
    <3> HIDE DEF con
    <3> QED  BY <2>1, <3>1, <3>2 DEF ModeCall, ConsentCall
  <2>2. CASE ~(call[d].pc # "idle" /\ call[d].kind = kind)
    <3>1. con[d] = call[d]
      BY <2>2, Contested
    <3> HIDE DEF con
    <3> QED  BY <2>2, <3>1
  <2> QED  BY <2>1, <2>2
<1>6. x.pc # "idle"
  BY IdleIsNoRequest
<1>7. x.alone => \A d \in Caller : ~(call[d].pc # "idle" /\ call[d].kind = kind)
  BY DEF Busy
<1>8. AloneIsAlone
  BY DEF AccessInv
<1> HIDE DEF con
<1>9. /\ call' \in [Caller -> {NoCall} \cup ModeCall \cup ConsentCall]
      /\ \A d \in Caller : d # c => call'[d] = con[d]
      /\ call'[c] = x
  BY <1>3, <1>4
<1>10. ASSUME NEW a \in Caller, NEW d \in Caller,
              call'[a].pc # "idle", call'[d].pc # "idle", call'[a].kind = call'[d].kind,
              call'[a].alone
       PROVE  a = d
  <2>1. CASE a = c /\ d # c
    <3>1. con[d].pc # "idle" /\ con[d].kind = kind /\ x.alone
      BY <1>9, <1>10, <2>1
    <3>2. call[d].pc # "idle" /\ call[d].kind = kind
      BY <1>5, <3>1
    <3> QED  BY <1>7, <3>1, <3>2
  <2>2. CASE a # c /\ d = c
    <3>1. con[a].pc # "idle" /\ con[a].kind = kind /\ con[a].alone
      BY <1>9, <1>10, <2>2
    <3> QED  BY <1>5, <3>1
  <2>3. CASE a # c /\ d # c
    <3>1. con[a].pc # "idle" /\ con[d].pc # "idle" /\ con[a].kind = con[d].kind /\ con[a].alone
      BY <1>9, <1>10, <2>3
    <3>2. ~(call[a].pc # "idle" /\ call[a].kind = kind) /\ con[a] = call[a]
      BY <1>5, <3>1
    <3>3. con[d].kind # kind
      BY <1>5, <3>1, <3>2
    <3>4. con[d] = call[d]
      BY <1>5, <3>3
    <3> QED  BY <1>8, <3>1, <3>2, <3>4 DEF AloneIsAlone
  <2> QED  BY <2>1, <2>2, <2>3
<1>11. AloneIsAlone'
  BY <1>10 DEF AloneIsAlone
<1> QED  BY <1>9, <1>11 DEF con

\* While the mode is being changed nothing is settled, and nothing promised of it.
LEMMA ModeUnsettled ==
    ASSUME AccessInv, NEW c \in Caller, call[c] \in ModeCall
    PROVE  /\ settled.mode = None
           /\ \A r \in Slot : req[r] # Idle => req[r].mode = None
BY DEF AccessInv, ModeSettles, RequestsKnow, Promised

\* Nothing a request was promised depends on what a step leaves as it is.
LEMMA PromisesStay ==
    ASSUME RequestsKnow, req' = req,
           settled'.mode = settled.mode \/ \A r \in Slot : req[r] # Idle => req[r].mode = None
    PROVE  RequestsKnow'
<1> SUFFICES ASSUME NEW r \in Slot, req[r] # Idle  PROVE Promised(req[r])'
  BY DEF RequestsKnow
<1>1. Promised(req[r])
  BY DEF RequestsKnow
<1> QED  BY <1>1 DEF Promised

LEMMA ChangeModeKeeps ==
    ASSUME AccessInv, NEW c \in Caller, NEW m \in Mode, ChangeMode(c, m)
    PROVE  AccessInv'
<1> DEFINE x == [pc |-> "registry", kind |-> "mode", to |-> m, alone |-> ~Busy("mode")]
           saved == IF Busy("mode") THEN None ELSE settled.modeSaved
<1>1. /\ call[c] = NoCall /\ call' = [Contest("mode") EXCEPT ![c] = x]
      /\ settled' = [settled EXCEPT !.mode = None, !.modeSaved = saved]
      /\ req' = [r \in Slot |-> IF req[r].pc = "idle" THEN Idle ELSE [req[r] EXCEPT !.mode = None]]
      /\ UNCHANGED <<clock, mode, consent, live, expired, bound>>
  BY DEF ChangeMode, settings, bindings
<1>2. x \in ModeCall /\ x.kind = "mode" /\ x.alone = ~Busy("mode") /\ x.pc = "registry"
  BY DEF ModeCall, Busy
<1>3. settled \in Settled /\ saved \in {None, settled.modeSaved}
  BY DEF AccessInv, SettingsTypeOK
<1> HIDE DEF x, saved
<1>4. settled' \in Settled /\ settled'.mode = None /\ settled'.modeSaved \in {None, settled.modeSaved}
      /\ settled'.refused = settled.refused /\ settled'.refusedSaved = settled.refusedSaved
  BY <1>1, <1>3 DEF Settled
<1>5. /\ AloneIsAlone'
      /\ call' \in [Caller -> {NoCall} \cup ModeCall \cup ConsentCall]
      /\ \A d \in Caller : d # c => call'[d] = Contest("mode")[d]
      /\ call'[c] = x
  BY <1>1, <1>2, AloneBegins
<1>6. ASSUME NEW r \in Slot
      PROVE  /\ req'[r] \in {Idle} \cup Request
             /\ req'[r] # Idle => Promised(req[r])'
  <2>1. req[r] \in {Idle} \cup Request
    BY DEF AccessInv, SettingsTypeOK
  <2>2. CASE req[r] = Idle
    BY <1>1, <2>2, IdleIsNoRequest
  <2>3. CASE req[r] # Idle
    <3> DEFINE q == req[r]
               n == [q EXCEPT !.mode = None]
    <3>1. q \in Request /\ Promised(q)
      BY <2>1, <2>3 DEF AccessInv, RequestsKnow
    <3>2. req'[r] = n
      BY <1>1, <3>1, IdleIsNoRequest
    <3> HIDE DEF q
    <3>3. n \in Request /\ n.mode = None
          /\ n.filter = q.filter /\ n.bound = q.bound /\ n.binding = q.binding
          /\ n.may = q.may /\ n.refused = q.refused /\ n.to = q.to /\ n.pc = q.pc
      BY <3>1 DEF Request
    <3> HIDE DEF n
    <3>5. None # "full"
      BY AccessAssumption DEF Mode
    <3>6. Promised(req[r])'
      BY <3>1, <3>2, <3>3, <3>5 DEF Promised
    <3> QED  BY <3>2, <3>3, <3>6
  <2> QED  BY <2>2, <2>3
<1>7. SettingsTypeOK'
  <2>1. req' = [r \in Slot |-> req'[r]]
    BY <1>1
  <2>2. req' \in [Slot -> {Idle} \cup Request]
    BY <1>6, <2>1
  <2> QED  BY <1>1, <1>4, <1>5, <2>2 DEF AccessInv, SettingsTypeOK
<1>8. RequestsKnow'
  BY <1>6 DEF RequestsKnow
<1>9. BoundIsKept'
  BY <1>1 DEF AccessInv, BoundIsKept
<1>10. ModeSettles'
  <2>1. ASSUME NEW d \in Caller, call'[d] \in ModeCall, call'[d].alone
        PROVE  call'[d].pc \notin {"filter", "persist"}
    <3>1. call'[c].kind = "mode" /\ call'[c].pc # "idle"
      BY <1>2, <1>5
    <3>2. d = c
      <4> SUFFICES ASSUME d # c  PROVE FALSE
        OBVIOUS
      <4>1. call'[d].kind = "mode" /\ call'[d].pc # "idle"
        BY <2>1, IdleIsNoRequest
      <4> QED  BY <1>5, <2>1, <3>1, <4>1 DEF AloneIsAlone
    <3> QED  BY <1>2, <1>5, <3>2
  <2> QED  BY <1>1, <1>4, <2>1 DEF AccessInv, ModeSettles
<1>11. RefusalsSettle'
  <2>1. \A d \in Caller : call'[d] \in ConsentCall => call'[d] = call[d]
    <3> SUFFICES ASSUME NEW d \in Caller, call'[d] \in ConsentCall  PROVE call'[d] = call[d]
      OBVIOUS
    <3>1. d # c
      BY <1>2, <1>5, IdleIsNoRequest
    <3>2. CASE call[d].pc # "idle" /\ call[d].kind = "mode"
      <4>1. call'[d] = [call[d] EXCEPT !.alone = FALSE]
        BY <1>5, <3>1, <3>2, Contested
      <4>2. call[d] \in ModeCall
        BY <3>2, ACall
      <4>3. [call[d] EXCEPT !.alone = FALSE] \in ModeCall
        BY <4>2 DEF ModeCall
      <4> QED  BY <4>1, <4>3, IdleIsNoRequest
    <3>3. CASE ~(call[d].pc # "idle" /\ call[d].kind = "mode")
      BY <1>5, <3>1, <3>3, Contested
    <3> QED  BY <3>2, <3>3
  <2> QED  BY <1>1, <1>4, <2>1 DEF AccessInv, RefusalsSettle
<1> QED  BY <1>5, <1>7, <1>8, <1>9, <1>10, <1>11 DEF AccessInv

LEMMA ModeStepsKeep ==
    ASSUME AccessInv, NEW c \in Caller, SetRegistry(c) \/ SetFilter(c) \/ Persist(c)
    PROVE  AccessInv'
<1> DEFINE x == call[c]
<1>1. /\ x.pc \in {"registry", "filter", "persist"}
      /\ UNCHANGED <<clock, consent, live, expired, bound, req>>
  BY DEF SetRegistry, SetFilter, Persist, bindings
<1>2. x \in ModeCall
  BY <1>1, ACall
<1>3. settled.mode = None /\ \A r \in Slot : req[r] # Idle => req[r].mode = None
  BY <1>2, ModeUnsettled
<1>4. /\ mode \in [registry : Mode, filter : Mode, config : Mode]
      /\ settled \in Settled
      /\ call \in [Caller -> {NoCall} \cup ModeCall \cup ConsentCall]
      /\ AloneIsAlone
  BY DEF AccessInv, SettingsTypeOK
\* What the two kinds of step have in common.
<1>5. ASSUME NEW n, n = NoCall \/ (n \in ModeCall /\ n.alone = x.alone),
             call' = [call EXCEPT ![c] = n],
             mode' \in [registry : Mode, filter : Mode, config : Mode],
             settled' \in Settled, settled'.refused = settled.refused,
             settled'.refusedSaved = settled.refusedSaved,
             settled'.modeSaved # None => mode'.config = settled'.modeSaved,
             settled'.mode # None => /\ mode'.registry = settled'.mode
                                     /\ mode'.filter = settled'.mode
                                     /\ x.alone /\ n = NoCall,
             n # NoCall /\ n.alone =>
                 /\ n.pc \in {"filter", "persist"} => mode'.registry = n.to
                 /\ n.pc = "persist" => mode'.filter = n.to
      PROVE  AccessInv'
  <2>0. n \in ModeCall => n.kind = x.kind /\ n.alone = x.alone
    BY <1>2, <1>5, IdleIsNoRequest
  <2>1. /\ AloneIsAlone'
        /\ call' \in [Caller -> {NoCall} \cup ModeCall \cup ConsentCall]
        /\ \A d \in Caller : d # c => call'[d] = call[d]
        /\ call'[c] = n
    <3>1. x.pc # "idle"
      BY <1>1
    <3> QED  BY <1>5, <2>0, <3>1, AloneStays
  <2>2. SettingsTypeOK'
    BY <1>1, <1>5, <2>1 DEF AccessInv, SettingsTypeOK
  <2>3. RequestsKnow'
    BY <1>1, <1>3, PromisesStay DEF AccessInv
  <2>4. BoundIsKept'
    BY <1>1 DEF AccessInv, BoundIsKept
  <2>5. x.alone => \A d \in Caller : call[d] \in ModeCall => d = c
    BY <1>2, <1>4, IdleIsNoRequest DEF AloneIsAlone
  <2>6. n \in ModeCall \/ n = NoCall
    BY <1>5
  <2>7. RefusalsSettle'
    <3>1. \A d \in Caller : call'[d] \in ConsentCall => call'[d] = call[d]
      BY <2>1, <2>6, IdleIsNoRequest
    <3> QED  BY <1>1, <1>5, <3>1 DEF AccessInv, RefusalsSettle
  <2>8. ModeSettles'
    <3>1. settled'.mode # None => \A d \in Caller : call'[d] \notin ModeCall
      <4> SUFFICES ASSUME settled'.mode # None, NEW d \in Caller  PROVE call'[d] \notin ModeCall
        OBVIOUS
      <4>1. x.alone /\ n = NoCall
        BY <1>5
      <4> QED  BY <2>1, <2>5, <4>1, IdleIsNoRequest
    <3>2. ASSUME NEW d \in Caller, call'[d] \in ModeCall, call'[d].alone  PROVE d = c
      <4> SUFFICES ASSUME d # c  PROVE FALSE
        OBVIOUS
      <4>1. call[d] \in ModeCall /\ call[d].alone
        BY <2>1, <3>2
      <4> QED  BY <1>2, <1>4, <4>1, IdleIsNoRequest DEF AloneIsAlone
    <3>3. ASSUME NEW d \in Caller, call'[d] \in ModeCall, call'[d].alone
          PROVE  /\ call'[d].pc \in {"filter", "persist"} => mode'.registry = call'[d].to
                 /\ call'[d].pc = "persist" => mode'.filter = call'[d].to
      BY <1>5, <2>1, <3>2, <3>3, IdleIsNoRequest
    <3> QED  BY <1>5, <3>1, <3>3 DEF ModeSettles
  <2> QED  BY <2>1, <2>2, <2>3, <2>4, <2>7, <2>8 DEF AccessInv
<1>6. /\ settled.modeSaved # None => mode.config = settled.modeSaved
      /\ x.alone => /\ x.pc \in {"filter", "persist"} => mode.registry = x.to
                    /\ x.pc = "persist" => mode.filter = x.to
  BY <1>2 DEF AccessInv, ModeSettles
<1>7. CASE SetRegistry(c)
  <2> DEFINE n == [x EXCEPT !.pc = "filter"]
             to == x.to
  <2>1. /\ call' = [call EXCEPT ![c] = n] /\ mode' = [mode EXCEPT !.registry = to]
        /\ settled' = settled
    BY <1>7 DEF SetRegistry
  <2> HIDE DEF x
  <2>2. n \in ModeCall /\ n.alone = x.alone /\ n.pc = "filter" /\ n.to = to /\ to \in Mode
    BY <1>2 DEF ModeCall
  <2> HIDE DEF n, to
  <2>3. mode' \in [registry : Mode, filter : Mode, config : Mode]
        /\ mode'.registry = to /\ mode'.config = mode.config
    BY <1>4, <2>1, <2>2
  <2> QED  BY <1>3, <1>4, <1>5, <1>6, <2>1, <2>2, <2>3
<1>8. CASE SetFilter(c)
  <2> DEFINE n == [x EXCEPT !.pc = "persist"]
             to == x.to
  <2>1. /\ call' = [call EXCEPT ![c] = n] /\ mode' = [mode EXCEPT !.filter = to]
        /\ settled' = settled /\ x.pc = "filter"
    BY <1>8 DEF SetFilter
  <2> HIDE DEF x
  <2>2. n \in ModeCall /\ n.alone = x.alone /\ n.pc = "persist" /\ n.to = to /\ to \in Mode
        /\ to = x.to
    BY <1>2 DEF ModeCall
  <2> HIDE DEF n, to
  <2>3. mode' \in [registry : Mode, filter : Mode, config : Mode]
        /\ mode'.registry = mode.registry /\ mode'.filter = to /\ mode'.config = mode.config
    BY <1>4, <2>1, <2>2
  <2> QED  BY <1>3, <1>4, <1>5, <1>6, <2>1, <2>2, <2>3
<1>9. CASE Persist(c)
  <2> DEFINE to == x.to
             now == IF x.alone THEN to ELSE None
  <2>1. /\ call' = [call EXCEPT ![c] = NoCall] /\ x.pc = "persist"
        /\ \/ /\ mode' = [mode EXCEPT !.config = to]
              /\ settled' = [settled EXCEPT !.mode = now, !.modeSaved = now]
           \/ /\ settled' = [settled EXCEPT !.mode = now]
              /\ mode' = mode
    BY <1>9 DEF Persist
  <2>2. to \in Mode /\ (x.alone => now = to) /\ (~x.alone => now = None) /\ to = x.to
    BY <1>2 DEF ModeCall
  <2> HIDE DEF x, to, now
  <2>3. x.alone \in BOOLEAN /\ now \in Mode \cup {None}
    BY <1>2, <2>2 DEF ModeCall
  <2>4. CASE mode' = mode /\ settled' = [settled EXCEPT !.mode = now]
    <3>1. settled' \in Settled /\ settled'.mode = now /\ settled'.modeSaved = settled.modeSaved
          /\ settled'.refused = settled.refused /\ settled'.refusedSaved = settled.refusedSaved
      BY <1>4, <2>3, <2>4 DEF Settled
    <3> QED  BY <1>4, <1>5, <1>6, <2>1, <2>2, <2>3, <2>4, <3>1
  <2>5. CASE /\ mode' = [mode EXCEPT !.config = to]
             /\ settled' = [settled EXCEPT !.mode = now, !.modeSaved = now]
    <3>1. settled' \in Settled /\ settled'.mode = now /\ settled'.modeSaved = now
          /\ settled'.refused = settled.refused /\ settled'.refusedSaved = settled.refusedSaved
      BY <1>4, <2>3, <2>5 DEF Settled
    <3>2. mode' \in [registry : Mode, filter : Mode, config : Mode]
          /\ mode'.registry = mode.registry /\ mode'.filter = mode.filter /\ mode'.config = to
      BY <1>4, <2>2, <2>5
    <3> QED  BY <1>5, <1>6, <2>1, <2>2, <2>3, <3>1, <3>2, ZenonT(60)
  <2> QED  BY <2>1, <2>4, <2>5
<1> QED  BY <1>7, <1>8, <1>9

-----------------------------------------------------------------------------
(* Calls about consent *)

LEMMA ChangeConsentKeeps ==
    ASSUME AccessInv, NEW c \in Caller, NEW b \in Subscription, NEW g \in BOOLEAN,
           ChangeConsent(c, b, g)
    PROVE  AccessInv'
<1> DEFINE x == [pc |-> "answer", kind |-> "consent", backend |-> b, granted |-> g,
                 previous |-> consent.memory, updated |-> {}, alone |-> ~Busy("consent")]
           less == settled.refused \ {b}
<1>1. /\ call[c] = NoCall /\ call' = [Contest("consent") EXCEPT ![c] = x]
      /\ Busy("consent") => settled' = [settled EXCEPT !.refused = {}, !.refusedSaved = {}]
      /\ ~Busy("consent") => settled' = [settled EXCEPT !.refused = less]
      /\ UNCHANGED <<clock, mode, consent, live, expired, bound, req>>
  BY DEF ChangeConsent, settings, bindings
<1>2. settled \in Settled /\ consent \in [memory : SUBSET Subscription, disk : SUBSET Subscription]
  BY DEF AccessInv, SettingsTypeOK
<1>3. x \in ConsentCall /\ x.kind = "consent" /\ x.alone = ~Busy("consent") /\ x.pc = "answer"
      /\ x.backend = b
  BY <1>2 DEF ConsentCall, Busy
<1> HIDE DEF x
<1>4. less \subseteq settled.refused /\ b \notin less
  OBVIOUS
<1> HIDE DEF less
<1>5. /\ settled' \in Settled /\ settled'.mode = settled.mode
      /\ settled'.modeSaved = settled.modeSaved
      /\ settled'.refused \subseteq settled.refused
      /\ settled'.refusedSaved \subseteq settled.refusedSaved
      /\ Busy("consent") => settled'.refused = {} /\ settled'.refusedSaved = {}
      /\ ~Busy("consent") => b \notin settled'.refused
  <2>1. CASE Busy("consent")
    BY <1>1, <1>2, <2>1 DEF Settled
  <2>2. CASE ~Busy("consent")
    BY <1>1, <1>2, <1>4, <2>2 DEF Settled
  <2> QED  BY <2>1, <2>2
<1>6. /\ AloneIsAlone'
      /\ call' \in [Caller -> {NoCall} \cup ModeCall \cup ConsentCall]
      /\ \A d \in Caller : d # c => call'[d] = Contest("consent")[d]
      /\ call'[c] = x
  BY <1>1, <1>3, AloneBegins
<1>7. SettingsTypeOK'
  BY <1>1, <1>5, <1>6 DEF AccessInv, SettingsTypeOK
<1>8. RequestsKnow'
  BY <1>1, <1>5, PromisesStay DEF AccessInv
<1>9. BoundIsKept'
  BY <1>1 DEF AccessInv, BoundIsKept
<1>10. \A d \in Caller : d # c =>
         /\ call'[d] \in ModeCall => call'[d] = call[d]
         /\ call'[d] \in ConsentCall => Busy("consent") /\ ~call'[d].alone
  <2> SUFFICES ASSUME NEW d \in Caller, d # c
               PROVE  /\ call'[d] \in ModeCall => call'[d] = call[d]
                      /\ call'[d] \in ConsentCall => Busy("consent") /\ ~call'[d].alone
    OBVIOUS
  <2>1. CASE call[d].pc # "idle" /\ call[d].kind = "consent"
    <3>1. call'[d] = [call[d] EXCEPT !.alone = FALSE]
      BY <1>6, <2>1, Contested
    <3>2. call[d] \in ConsentCall
      BY <2>1, ACall
    <3>3. [call[d] EXCEPT !.alone = FALSE] \in ConsentCall /\ ~[call[d] EXCEPT !.alone = FALSE].alone
      BY <3>2 DEF ConsentCall
    <3>4. Busy("consent")
      BY <2>1 DEF Busy
    <3> QED  BY <3>1, <3>3, <3>4, IdleIsNoRequest
  <2>2. CASE ~(call[d].pc # "idle" /\ call[d].kind = "consent")
    <3>1. call'[d] = call[d]
      BY <1>6, <2>2, Contested
    <3>2. call[d] \notin ConsentCall
      BY <2>2, IdleIsNoRequest
    <3> QED  BY <3>1, <3>2
  <2> QED  BY <2>1, <2>2
<1>11. ModeSettles'
  <2>1. \A d \in Caller : call'[d] \in ModeCall => call'[d] = call[d]
    BY <1>3, <1>6, <1>10, IdleIsNoRequest
  <2> QED  BY <1>1, <1>5, <2>1 DEF AccessInv, ModeSettles
<1>12. RefusalsSettle'
  <2>1. settled'.refused \cap consent'.memory = {} /\ settled'.refusedSaved \cap consent'.disk = {}
    BY <1>1, <1>5 DEF AccessInv, RefusalsSettle
  <2>2. ASSUME NEW d \in Caller, call'[d] \in ConsentCall
        PROVE  /\ ~call'[d].alone => settled'.refused = {} /\ settled'.refusedSaved = {}
               /\ call'[d].alone /\ call'[d].pc = "answer" => call'[d].backend \notin settled'.refused
               /\ call'[d].alone /\ call'[d].pc = "save" => call'[d].updated = consent'.memory
    <3>1. CASE d = c
      BY <1>3, <1>5, <1>6, <3>1
    <3>2. CASE d # c
      BY <1>5, <1>10, <2>2, <3>2
    <3> QED  BY <3>1, <3>2
  <2> QED  BY <2>1, <2>2 DEF RefusalsSettle
<1> QED  BY <1>6, <1>7, <1>8, <1>9, <1>11, <1>12 DEF AccessInv

LEMMA ConsentStepsKeep ==
    ASSUME AccessInv, NEW c \in Caller, SetConsent(c) \/ Snapshot(c) \/ Save(c)
    PROVE  AccessInv'
<1> DEFINE x == call[c]
<1>1. /\ x.pc \in {"answer", "snapshot", "save"}
      /\ UNCHANGED <<clock, mode, live, expired, bound, req>>
  BY DEF SetConsent, Snapshot, Save, Saved, Return, settings, bindings
<1>2. x \in ConsentCall
  BY <1>1, ACall
<1>3. /\ consent \in [memory : SUBSET Subscription, disk : SUBSET Subscription]
      /\ settled \in Settled
      /\ call \in [Caller -> {NoCall} \cup ModeCall \cup ConsentCall]
      /\ AloneIsAlone
  BY DEF AccessInv, SettingsTypeOK
<1>4. /\ settled.refused \cap consent.memory = {}
      /\ settled.refusedSaved \cap consent.disk = {}
      /\ ~x.alone => settled.refused = {} /\ settled.refusedSaved = {}
      /\ x.alone /\ x.pc = "answer" => x.backend \notin settled.refused
      /\ x.alone /\ x.pc = "save" => x.updated = consent.memory
  BY <1>2 DEF AccessInv, RefusalsSettle
\* What the three kinds of step have in common.
<1>5. ASSUME NEW n, n = NoCall \/ (n \in ConsentCall /\ n.alone = x.alone),
             call' = [call EXCEPT ![c] = n],
             consent' \in [memory : SUBSET Subscription, disk : SUBSET Subscription],
             settled' \in Settled, settled'.mode = settled.mode,
             settled'.modeSaved = settled.modeSaved,
             ~x.alone => settled'.refused = {} /\ settled'.refusedSaved = {},
             settled'.refused \cap consent'.memory = {},
             settled'.refusedSaved \cap consent'.disk = {},
             n # NoCall => /\ n.pc # "answer"
                           /\ n.alone /\ n.pc = "save" => n.updated = consent'.memory
      PROVE  AccessInv'
  <2>0. n \in ConsentCall => n.kind = x.kind /\ n.alone = x.alone
    BY <1>2, <1>5, IdleIsNoRequest
  <2>1. /\ AloneIsAlone'
        /\ call' \in [Caller -> {NoCall} \cup ModeCall \cup ConsentCall]
        /\ \A d \in Caller : d # c => call'[d] = call[d]
        /\ call'[c] = n
    <3>1. x.pc # "idle"
      BY <1>1
    <3> QED  BY <1>5, <2>0, <3>1, AloneStays
  <2>2. SettingsTypeOK'
    BY <1>1, <1>5, <2>1 DEF AccessInv, SettingsTypeOK
  <2>3. RequestsKnow'
    BY <1>1, <1>5, PromisesStay DEF AccessInv
  <2>4. BoundIsKept'
    BY <1>1 DEF AccessInv, BoundIsKept
  <2>5. n \in ConsentCall \/ n = NoCall
    BY <1>5
  <2>6. ModeSettles'
    <3>1. \A d \in Caller : call'[d] \in ModeCall => call'[d] = call[d]
      BY <2>1, <2>5, IdleIsNoRequest
    <3> QED  BY <1>1, <1>5, <3>1 DEF AccessInv, ModeSettles
  <2>7. RefusalsSettle'
    <3>1. ASSUME NEW d \in Caller, call'[d] \in ConsentCall
          PROVE  /\ ~call'[d].alone => settled'.refused = {} /\ settled'.refusedSaved = {}
                 /\ call'[d].alone /\ call'[d].pc = "answer" =>
                        call'[d].backend \notin settled'.refused
                 /\ call'[d].alone /\ call'[d].pc = "save" => call'[d].updated = consent'.memory
      <4>1. CASE d = c
        <5>1. call'[d] = n /\ n # NoCall /\ n.alone = x.alone
          BY <1>5, <2>1, <3>1, <4>1, IdleIsNoRequest
        <5> QED  BY <1>5, <5>1
      <4>2. CASE d # c
        <5>1. call[d] = call'[d] /\ call[d] \in ConsentCall
          BY <2>1, <3>1, <4>2
        <5>2. ~call[d].alone /\ ~x.alone
          BY <1>2, <1>3, <4>2, <5>1, IdleIsNoRequest DEF AloneIsAlone
        <5> QED  BY <1>5, <5>1, <5>2
      <4> QED  BY <4>1, <4>2
    <3> QED  BY <1>5, <3>1 DEF RefusalsSettle
  <2> QED  BY <2>1, <2>2, <2>3, <2>4, <2>6, <2>7 DEF AccessInv
<1>6. CASE SetConsent(c)
  <2> DEFINE n == [x EXCEPT !.pc = "snapshot"]
             memory == Answer(consent.memory, x.backend, x.granted)
  <2>1. /\ call' = [call EXCEPT ![c] = n] /\ consent' = [consent EXCEPT !.memory = memory]
        /\ settled' = settled /\ x.pc = "answer"
    BY <1>6 DEF SetConsent
  <2>2. x.backend \in Subscription
    BY <1>2 DEF ConsentCall
  <2>3. memory \subseteq Subscription /\ memory \subseteq consent.memory \cup {x.backend}
    BY <1>3, <2>2 DEF Answer
  <2> HIDE DEF x, memory
  <2>4. n \in ConsentCall /\ n.alone = x.alone /\ n.pc = "snapshot"
    BY <1>2 DEF ConsentCall
  <2> HIDE DEF n
  <2>5. consent' \in [memory : SUBSET Subscription, disk : SUBSET Subscription]
        /\ consent'.memory = memory /\ consent'.disk = consent.disk
    BY <1>3, <2>1, <2>3
  <2>6. settled'.refused \cap consent'.memory = {}
    BY <1>4, <2>1, <2>3, <2>5
  <2>7. x.alone \in BOOLEAN
    BY <1>2 DEF ConsentCall
  <2> QED  BY <1>3, <1>4, <1>5, <2>1, <2>4, <2>5, <2>6
<1>7. CASE Snapshot(c)
  <2> DEFINE memory == consent.memory
             n == [x EXCEPT !.pc = "save", !.updated = memory]
  <2>1. call' = [call EXCEPT ![c] = n] /\ consent' = consent /\ settled' = settled
    BY <1>7 DEF Snapshot, settings
  <2>2. memory \subseteq Subscription
    BY <1>3
  <2> HIDE DEF x, memory
  <2>3. n \in ConsentCall /\ n.alone = x.alone /\ n.pc = "save" /\ n.updated = memory
    BY <1>2, <2>2 DEF ConsentCall
  <2> HIDE DEF n
  <2> QED  BY <1>3, <1>4, <1>5, <2>1, <2>3 DEF memory
<1>8. CASE Save(c)
  <2>0. x.pc = "save" /\ x.updated \subseteq Subscription /\ x.previous \subseteq Subscription
        /\ x.alone \in BOOLEAN
    BY <1>2, <1>8 DEF Save, ConsentCall
  <2>1. ASSUME NEW standing, standing \subseteq Subscription,
               NEW saved, saved \subseteq Subscription, Return(c, standing, saved),
               consent' \in [memory : SUBSET Subscription, disk : SUBSET Subscription],
               x.alone => consent'.memory = standing /\ saved \cap consent'.disk = {}
        PROVE  AccessInv'
    <3> DEFINE out == Subscription \ standing
    <3>1. /\ call' = [call EXCEPT ![c] = NoCall]
          /\ x.alone => settled' = [settled EXCEPT !.refused = out, !.refusedSaved = saved]
          /\ ~x.alone => settled' = settled
      BY <2>1 DEF Return
    <3>2. out \subseteq Subscription /\ out \cap standing = {}
      OBVIOUS
    <3> HIDE DEF x, out
    <3>3. CASE x.alone
      <4>1. settled' = [settled EXCEPT !.refused = out, !.refusedSaved = saved]
        BY <3>1, <3>3
      <4>2. settled' \in Settled /\ settled'.mode = settled.mode
            /\ settled'.modeSaved = settled.modeSaved
            /\ settled'.refused = out /\ settled'.refusedSaved = saved
        BY <1>3, <2>1, <3>2, <4>1 DEF Settled
      <4>3. settled'.refused \cap consent'.memory = {} /\ settled'.refusedSaved \cap consent'.disk = {}
        BY <2>1, <3>2, <3>3, <4>2
      <4> QED  BY <1>5, <2>1, <3>1, <3>3, <4>2, <4>3
    <3>4. CASE ~x.alone
      <4>1. settled' = settled /\ settled.refused = {} /\ settled.refusedSaved = {}
        BY <1>4, <3>1, <3>4
      <4> QED  BY <1>3, <1>5, <2>1, <3>1, <4>1
    <3> QED  BY <3>3, <3>4
  <2> DEFINE updated == x.updated
             previous == x.previous
  <2>2. CASE Saved(c)
    <3>1. consent' = [consent EXCEPT !.disk = updated] /\ Return(c, updated, Subscription \ updated)
      BY <2>2 DEF Saved
    <3>2. updated \subseteq Subscription /\ (x.alone => updated = consent.memory)
      BY <1>4, <2>0
    <3> HIDE DEF x, updated
    <3>3. consent' \in [memory : SUBSET Subscription, disk : SUBSET Subscription]
          /\ consent'.memory = consent.memory /\ consent'.disk = updated
      BY <1>3, <3>1, <3>2
    <3>4. (Subscription \ updated) \cap consent'.disk = {} /\ Subscription \ updated \subseteq Subscription
      BY <3>3
    <3> QED  BY <2>1, <3>1, <3>2, <3>3, <3>4
  <2>3. CASE consent' = [consent EXCEPT !.memory = previous]
             /\ Return(c, previous, settled.refusedSaved)
    <3>1. previous \subseteq Subscription
      BY <2>0
    <3> HIDE DEF x, previous
    <3>2. consent' \in [memory : SUBSET Subscription, disk : SUBSET Subscription]
          /\ consent'.memory = previous /\ consent'.disk = consent.disk
      BY <1>3, <2>3, <3>1
    <3>3. settled.refusedSaved \subseteq Subscription
      BY <1>3 DEF Settled
    <3> QED  BY <1>4, <2>1, <2>3, <3>1, <3>2, <3>3
  <2> QED  BY <1>8, <2>2, <2>3 DEF Save
<1> QED  BY <1>6, <1>7, <1>8

-----------------------------------------------------------------------------
(* Bindings, time and restarts *)

LEMMA BindingStepsKeep ==
    ASSUME AccessInv,
           \/ \E s \in Session, b \in Chat, l \in 1 .. Life : Register(s, b, clock + l)
           \/ \E s \in Session : Revoke(s)
    PROVE  AccessInv'
<1>0. /\ live \in [Session -> Binding \cup {None}] /\ expired \subseteq Session
      /\ bound \subseteq Session /\ clock \in Nat /\ BoundIsKept
  BY DEF AccessInv, SettingsTypeOK
<1>1. UNCHANGED <<clock, mode, consent, req, call, settled>>
  BY DEF Register, Revoke, settings
\* Whatever the bindings become, as long as what is bound stays bound.
<1>2. ASSUME live' \in [Session -> Binding \cup {None}], expired' \subseteq Session,
             bound' \subseteq Session, BoundIsKept'
      PROVE  AccessInv'
  <2>1. SettingsTypeOK'
    BY <1>1, <1>2 DEF AccessInv, SettingsTypeOK
  <2>2. AloneIsAlone'
    BY <1>1 DEF AccessInv, AloneIsAlone
  <2>3. ModeSettles'
    BY <1>1 DEF AccessInv, ModeSettles
  <2>4. RefusalsSettle'
    BY <1>1 DEF AccessInv, RefusalsSettle
  <2>5. RequestsKnow'
    BY <1>1, PromisesStay DEF AccessInv
  <2> QED  BY <1>2, <2>1, <2>2, <2>3, <2>4, <2>5 DEF AccessInv
<1>3. ASSUME NEW s \in Session, NEW b \in Chat, NEW l \in 1 .. Life, Register(s, b, clock + l)
      PROVE  AccessInv'
  <2>1. PICK f \in Forget :
          LET open == {x \in Session : live[x] # None} \ f.gone
          IN  IF Cardinality(open) >= MaxBindings /\ s \notin open
              THEN /\ live' = [x \in Session |-> IF x \in f.gone THEN None ELSE live[x]]
                   /\ expired' = f.kept
                   /\ UNCHANGED bound
              ELSE /\ live' = [x \in Session |-> IF x = s THEN [backend |-> b, expires |-> clock + l]
                                                 ELSE IF x \in f.gone THEN None ELSE live[x]]
                   /\ expired' = f.kept \ {s}
                   /\ bound' = bound \cup {s}
    BY <1>3 DEF Register
  <2>2. f.gone \subseteq Session /\ f.kept = expired \cup f.gone
    <3>1. PICK n : \E S \in kSubset(n, Lapsed) : f = [gone |-> S, kept |-> expired \cup S]
      BY DEF Forget
    <3>2. PICK S \in kSubset(n, Lapsed) : f = [gone |-> S, kept |-> expired \cup S]
      BY <3>1
    <3>3. S \subseteq Session
      BY DEF kSubset, Lapsed
    <3> QED  BY <3>2, <3>3
  <2> DEFINE e == [backend |-> b, expires |-> clock + l]
  <2>3. e \in Binding /\ e # None
    <3>1. Life \in Nat
      BY AccessAssumption
    <3>2. clock + l \in Nat
      BY <1>0, <3>1
    <3>3. e \in [backend : Chat, expires : Nat]
      BY <3>2
    <3> HIDE DEF e
    <3> QED  BY <3>3, AccessAssumption DEF Binding
  <2> HIDE DEF e
  <2>4. CASE /\ live' = [x \in Session |-> IF x \in f.gone THEN None ELSE live[x]]
             /\ expired' = f.kept
             /\ UNCHANGED bound
    <3>1. live' \in [Session -> Binding \cup {None}]
      BY <1>0, <2>4
    <3>2. BoundIsKept'
      BY <1>0, <2>2, <2>4 DEF BoundIsKept
    <3> QED  BY <1>0, <1>2, <2>2, <2>4, <3>1, <3>2
  <2>5. CASE /\ live' = [x \in Session |-> IF x = s THEN e ELSE IF x \in f.gone THEN None ELSE live[x]]
             /\ expired' = f.kept \ {s}
             /\ bound' = bound \cup {s}
    <3>1. live' \in [Session -> Binding \cup {None}]
      BY <1>0, <2>3, <2>5
    <3>2. BoundIsKept'
      BY <1>0, <2>2, <2>3, <2>5 DEF BoundIsKept
    <3> QED  BY <1>0, <1>2, <2>2, <2>5, <3>1, <3>2
  <2> QED  BY <2>1, <2>4, <2>5 DEF e
<1>4. ASSUME NEW s \in Session, Revoke(s)  PROVE AccessInv'
  <2>1. live' = [live EXCEPT ![s] = None] /\ expired' = expired \ {s} /\ bound' = bound \ {s}
    BY <1>4 DEF Revoke
  <2>2. BoundIsKept'
    BY <1>0, <2>1 DEF BoundIsKept
  <2> QED  BY <1>0, <1>2, <2>1, <2>2
<1> QED  BY <1>3, <1>4

LEMMA TickKeeps ==
    ASSUME AccessInv, Tick  PROVE AccessInv'
<1>1. clock' = clock + 1 /\ UNCHANGED <<mode, consent, live, expired, bound, req, call, settled>>
  BY DEF Tick, settings, bindings
<1>2. SettingsTypeOK'
  BY <1>1 DEF AccessInv, SettingsTypeOK
<1>3. AloneIsAlone' /\ ModeSettles' /\ RefusalsSettle' /\ BoundIsKept'
  BY <1>1 DEF AccessInv, AloneIsAlone, ModeSettles, RefusalsSettle, BoundIsKept
<1>4. RequestsKnow'
  BY <1>1, PromisesStay DEF AccessInv
<1> QED  BY <1>2, <1>3, <1>4 DEF AccessInv

LEMMA RestartKeeps ==
    ASSUME AccessInv, Restart  PROVE AccessInv'
<1> DEFINE kept == mode.config
           onDisk == consent.disk
           saved == settled.modeSaved
           refused == settled.refusedSaved
<1>1. /\ mode' = [mode EXCEPT !.registry = kept, !.filter = kept]
      /\ consent' = [consent EXCEPT !.memory = onDisk]
      /\ live' = [s \in Session |-> None] /\ expired' = {} /\ bound' = {}
      /\ req' = [r \in Slot |-> Idle]
      /\ call' = [c \in Caller |-> NoCall]
      /\ settled' = [settled EXCEPT !.mode = saved, !.refused = refused, !.lost = FALSE]
      /\ UNCHANGED clock
  BY DEF Restart
<1>2. /\ mode \in [registry : Mode, filter : Mode, config : Mode]
      /\ consent \in [memory : SUBSET Subscription, disk : SUBSET Subscription]
      /\ settled \in Settled
  BY DEF AccessInv, SettingsTypeOK
<1>3. /\ kept \in Mode /\ onDisk \subseteq Subscription /\ saved \in Mode \cup {None}
      /\ refused \subseteq Subscription /\ refused \cap onDisk = {}
      /\ saved # None => kept = saved
  BY <1>2 DEF Settled, AccessInv, ModeSettles, RefusalsSettle
<1>4. kept = mode.config /\ onDisk = consent.disk /\ saved = settled.modeSaved
      /\ refused = settled.refusedSaved
  OBVIOUS
<1> HIDE DEF kept, onDisk, saved, refused
<1>5. /\ mode' \in [registry : Mode, filter : Mode, config : Mode]
      /\ mode'.registry = kept /\ mode'.filter = kept /\ mode'.config = kept
  BY <1>1, <1>2, <1>3, <1>4
<1>6. /\ consent' \in [memory : SUBSET Subscription, disk : SUBSET Subscription]
      /\ consent'.memory = onDisk /\ consent'.disk = onDisk
  BY <1>1, <1>2, <1>3, <1>4
<1>7. /\ settled' \in Settled /\ settled'.mode = saved /\ settled'.modeSaved = saved
      /\ settled'.refused = refused /\ settled'.refusedSaved = refused
  BY <1>1, <1>2, <1>3, <1>4 DEF Settled
<1>8. SettingsTypeOK'
  BY <1>1, <1>5, <1>6, <1>7 DEF AccessInv, SettingsTypeOK
<1>9. \A c \in Caller : call'[c] = NoCall
  BY <1>1
<1>10. AloneIsAlone'
  BY <1>9, IdleIsNoRequest DEF AloneIsAlone
<1>11. ModeSettles'
  BY <1>3, <1>5, <1>7, <1>9, IdleIsNoRequest DEF ModeSettles
<1>12. RefusalsSettle'
  BY <1>3, <1>6, <1>7, <1>9, IdleIsNoRequest DEF RefusalsSettle
<1>13. BoundIsKept' /\ RequestsKnow'
  BY <1>1 DEF BoundIsKept, RequestsKnow
<1> QED  BY <1>8, <1>10, <1>11, <1>12, <1>13 DEF AccessInv

LEMMA AccessInvStep ==
    ASSUME AccessInv, [AllNext]_<<access, agents>>  PROVE AccessInv'
<1>1. ASSUME UNCHANGED <<clock, settings, live, expired, bound, req, call, settled>>
      PROVE  AccessInv'
  <2>1. UNCHANGED <<clock, mode, consent, live, expired, bound, req, call, settled>>
    BY <1>1 DEF settings
  <2>2. SettingsTypeOK'
    BY <2>1 DEF AccessInv, SettingsTypeOK
  <2>3. AloneIsAlone' /\ ModeSettles' /\ RefusalsSettle' /\ BoundIsKept'
    BY <2>1 DEF AccessInv, AloneIsAlone, ModeSettles, RefusalsSettle, BoundIsKept
  <2>4. RequestsKnow'
    BY <2>1, PromisesStay DEF AccessInv
  <2> QED  BY <2>2, <2>3, <2>4 DEF AccessInv
<1>2. CASE Step
  BY <1>2, ServedKeeps, TickKeeps, BindingStepsKeep, ChangeModeKeeps, ModeStepsKeep,
     ChangeConsentKeeps, ConsentStepsKeep
  DEF Step, Controlled
<1>3. CASE Wiring
  BY <1>1, <1>3 DEF Wiring, Unscathed, bindings
<1>4. CASE DaemonDies
  BY <1>4, RestartKeeps DEF DaemonDies
<1>5. CASE UNCHANGED <<access, agents>>
  BY <1>1, <1>5 DEF access, settings
<1> QED  BY <1>2, <1>3, <1>4, <1>5 DEF AllNext

-----------------------------------------------------------------------------
(* The theorems *)

LEMMA ControlStepOfSettings ==
    ASSUME [ControlNext]_control  PROVE [AllNext]_<<access, agents>>
BY DEF ControlNext, control

LEMMA AccessInvHolds == ControlSpec => []AccessInv
<1>1. ControlInit => AccessInv
  BY AccessInvInit DEF ControlInit, AllInit
<1>2. AccessInv /\ [ControlNext]_control => AccessInv'
  BY AccessInvStep, ControlStepOfSettings
<1> QED  BY <1>1, <1>2, PTL DEF ControlSpec

\* A request that came in under a mode nothing contests was filtered for it,
\* and one under `full` goes only where the operator is trusted; a consent
\* withdrawn by then keeps its backend out.
THEOREM SettingsObeyed == ControlSpec => []SettingsAreObeyed
<1>1. AccessInv => SettingsAreObeyed
  <2> SUFFICES ASSUME AccessInv, NEW r \in Slot, req[r].pc = "reply"
               PROVE  /\ req[r].mode # None => req[r].filter = req[r].mode
                      /\ req[r].mode = "full" => req[r].to \in Trusted
                      /\ req[r].to \notin req[r].refused
    BY DEF SettingsAreObeyed, Under
  <2>1. Promised(req[r])
    BY GoingOn
  <2> QED  BY <2>1 DEF Promised
<1> QED  BY <1>1, AccessInvHolds, PTL

\* A session whose binding was registered and never revoked goes out with a
\* binding and to the backend it names.
THEOREM StaysBound == ControlSpec => []SessionsStayBound
<1>1. AccessInv => SessionsStayBound
  <2> SUFFICES ASSUME AccessInv, NEW r \in Slot, req[r].pc = "reply", req[r].bound
               PROVE  req[r].binding # None /\ req[r].binding.backend = req[r].to
    BY DEF SessionsStayBound, Under
  <2>1. Promised(req[r])
    BY GoingOn
  <2> QED  BY <2>1 DEF Promised
<1> QED  BY <1>1, AccessInvHolds, PTL

-----------------------------------------------------------------------------
(* Money: the invariant *)

\* The replies of a day that are billed to `b` and not yet written down.
Unwritten(rs, b, d) == {r \in Slot : rs[r].pc = "row" /\ rs[r].to = b /\ rs[r].day = d}

\* A behaviour stays within the days the ledger has room for.
InTime ==
    /\ left \in [Event -> Nat]
    /\ \E p \in Plans : clock + left["tick"] <= p["tick"]

MoneyTypeOK ==
    /\ spend \in [day : Nat, sum : [Metered -> Nat]]
    /\ rows \in [Days -> [Metered -> Nat]]
    /\ spend.day <= Today
    /\ \A r \in Slot : req[r] # Idle => req[r].day <= Today

\* Nothing is written of a day before it comes.
NothingAhead == \A d \in Days : d > Today => \A b \in Metered : rows[d][b] = 0

\* The tracker's day has all its rows, with those still to be written; and no
\* later day has any, unless the tracker went back.
AllIsTracked ==
    ~settled.lost => \A b \in Metered :
        /\ spend.day \in Days =>
              rows[spend.day][b] + Cardinality(Unwritten(req, b, spend.day)) <= spend.sum[b]
        /\ \A d \in Days : d > spend.day => rows[d][b] = 0 /\ Unwritten(req, b, d) = {}

\* What a request may use had not reached its cap.
UnspentOnly ==
    \A r \in Slot : req[r] # Idle /\ req[r].forced = None =>
        req[r].may \cap req[r].spent = {}

MoneyInv == InTime /\ MoneyTypeOK /\ NothingAhead /\ AllIsTracked /\ UnspentOnly

-----------------------------------------------------------------------------
(* Sums: what `Reached` adds up.  The function that MapThenSumSet recurses *)
(* with is there, and grows with what it adds: by the least counterexample *)
(* among the numbers of elements.                                          *)

PickOf(T) == CHOOSE x \in T : TRUE
SumRest(f, T, it) == IF T = {} THEN 0 ELSE f[PickOf(T)] + it[T \ {PickOf(T)}]
SumsUp(f, it) == it = [T \in SUBSET Metered |-> SumRest(f, T, it)]
UpTo(n) == {T \in SUBSET Metered : Cardinality(T) <= n}

LEMMA LeastNatural ==
    ASSUME NEW T, T \subseteq Nat, T # {}
    PROVE  \E x \in T : \A y \in T : x <= y
<1>1. PICK x \in T : \A y \in T : <<y, x>> \notin OpToRel(<, Nat)
  BY NatLessThanWellFounded, WFMin
<1>2. \A y \in T : ~(y < x)
  BY <1>1 DEF OpToRel
<1> QED  BY <1>2

LEMMA OneLess ==
    ASSUME NEW T \in SUBSET Metered, T # {}, IsFiniteSet(Metered)
    PROVE  /\ IsFiniteSet(T) /\ PickOf(T) \in T /\ T \ {PickOf(T)} \in SUBSET Metered
           /\ Cardinality(T) \in Nat \ {0}
           /\ Cardinality(T \ {PickOf(T)}) = Cardinality(T) - 1
<1>1. IsFiniteSet(T)
  BY FS_Subset
<1>2. PickOf(T) \in T
  BY DEF PickOf
<1>3. Cardinality(T) \in Nat /\ Cardinality(T) # 0
  BY <1>1, FS_CardinalityType, FS_EmptySet
<1>4. Cardinality(T \ {PickOf(T)}) = Cardinality(T) - 1
  BY <1>1, <1>2, FS_RemoveElement
<1> QED  BY <1>1, <1>2, <1>3, <1>4

LEMMA SumsExist ==
    ASSUME NEW f, IsFiniteSet(Metered)
    PROVE  \E it : it = [T \in SUBSET Metered |-> SumRest(f, T, it)]
<1> DEFINE Bad == {n \in Nat : ~ \E it : it = [T \in UpTo(n) |-> SumRest(f, T, it)]}
<1>1. ASSUME Bad # {}  PROVE FALSE
  <2>1. PICK m \in Bad : \A n \in Bad : m <= n
    <3>1. Bad \subseteq Nat
      OBVIOUS
    <3> HIDE DEF Bad
    <3> QED  BY <1>1, <3>1, LeastNatural
  <2>2. m \in Nat /\ ~ \E it : it = [T \in UpTo(m) |-> SumRest(f, T, it)]
    OBVIOUS
  <2>3. CASE m = 0
    <3> DEFINE it == [T \in UpTo(0) |-> 0]
    <3>1. \A T \in UpTo(0) : T = {}
      <4> SUFFICES ASSUME NEW T \in SUBSET Metered, Cardinality(T) <= 0, T # {}  PROVE FALSE
        BY DEF UpTo
      <4>1. Cardinality(T) \in Nat \ {0}
        BY OneLess
      <4> QED  BY <4>1
    <3>2. it = [T \in UpTo(0) |-> SumRest(f, T, it)]
      BY <3>1 DEF SumRest
    <3> HIDE DEF it
    <3> QED  BY <2>2, <2>3, <3>2
  <2>4. CASE m # 0
    <3>1. m - 1 \in Nat /\ m - 1 \notin Bad
      BY <2>1, <2>2, <2>4
    <3>2. PICK it : it = [T \in UpTo(m - 1) |-> SumRest(f, T, it)]
      BY <3>1
    <3> DEFINE g == [T \in UpTo(m) |-> SumRest(f, T, it)]
    <3>3. ASSUME NEW T \in UpTo(m)  PROVE SumRest(f, T, it) = SumRest(f, T, g)
      <4>1. CASE T = {}
        BY <4>1 DEF SumRest
      <4>2. CASE T # {}
        <5> DEFINE U == T \ {PickOf(T)}
        <5>1. U \in UpTo(m - 1) /\ U \in UpTo(m)
          BY <2>2, <2>4, <4>2, OneLess DEF UpTo
        <5>2. it[U] = SumRest(f, U, it) /\ g[U] = SumRest(f, U, it)
          <6> HIDE DEF U
          <6> QED  BY <3>2, <5>1
        <5> HIDE DEF g
        <5> QED  BY <4>2, <5>2 DEF SumRest
      <4> QED  BY <4>1, <4>2
    <3>4. g = [T \in UpTo(m) |-> SumRest(f, T, g)]
      <4> HIDE DEF g
      <4>1. g = [T \in UpTo(m) |-> SumRest(f, T, it)]
        BY DEF g
      <4> QED  BY <3>3, <4>1
    <3> HIDE DEF g
    <3> QED  BY <2>2, <3>4
  <2> QED  BY <2>3, <2>4
<1>2. Cardinality(Metered) \in Nat
  BY FS_CardinalityType
<1>3. UpTo(Cardinality(Metered)) = SUBSET Metered
  BY FS_Subset DEF UpTo
<1>4. \E it : it = [T \in UpTo(Cardinality(Metered)) |-> SumRest(f, T, it)]
  BY <1>1, <1>2
<1> QED  BY <1>3, <1>4

LEMMA SumsGrow ==
    ASSUME IsFiniteSet(Metered), NEW f \in [Metered -> Nat], NEW g \in [Metered -> Nat],
           \A x \in Metered : f[x] <= g[x],
           NEW sf, SumsUp(f, sf), NEW sg, SumsUp(g, sg)
    PROVE  sf[Metered] \in Nat /\ sg[Metered] \in Nat /\ sf[Metered] <= sg[Metered]
<1> DEFINE Good(T) == sf[T] \in Nat /\ sg[T] \in Nat /\ sf[T] <= sg[T]
           Bad == {n \in Nat : \E T \in SUBSET Metered : Cardinality(T) = n /\ ~Good(T)}
<1>1. ASSUME Bad # {}  PROVE FALSE
  <2>1. PICK m \in Bad : \A n \in Bad : m <= n
    <3>1. Bad \subseteq Nat
      OBVIOUS
    <3> HIDE DEF Bad
    <3> QED  BY <1>1, <3>1, LeastNatural
  <2>2. PICK T \in SUBSET Metered : Cardinality(T) = m /\ ~Good(T)
    OBVIOUS
  <2>3. sf[T] = SumRest(f, T, sf) /\ sg[T] = SumRest(g, T, sg)
    BY DEF SumsUp
  <2>4. CASE T = {}
    BY <2>2, <2>3, <2>4 DEF SumRest
  <2>5. CASE T # {}
    <3> DEFINE U == T \ {PickOf(T)}
    <3>1. U \in SUBSET Metered /\ Cardinality(U) \in Nat /\ Cardinality(U) < m /\ PickOf(T) \in Metered
      BY <2>2, <2>5, OneLess
    <3>2. Good(U)
      <4> HIDE DEF Good, U
      <4> QED  BY <2>1, <3>1
    <3>3. sf[T] = f[PickOf(T)] + sf[U] /\ sg[T] = g[PickOf(T)] + sg[U]
      BY <2>3, <2>5 DEF SumRest
    <3> QED  BY <2>2, <3>1, <3>2, <3>3
  <2> QED  BY <2>4, <2>5
<1>2. Cardinality(Metered) \in Nat
  BY FS_CardinalityType
<1> QED  BY <1>1, <1>2

LEMMA ReachedGrows ==
    ASSUME NEW f \in [Metered -> Nat], NEW g \in [Metered -> Nat],
           \A x \in Metered : f[x] <= g[x]
    PROVE  Reached(f) \subseteq Reached(g)
<1> DEFINE sf == CHOOSE it : it = [T \in SUBSET Metered |-> SumRest(f, T, it)]
           sg == CHOOSE it : it = [T \in SUBSET Metered |-> SumRest(g, T, it)]
<1>0. IsFiniteSet(Metered) /\ CapFor \in [Metered -> Nat]
  BY AccessAssumption
<1>1. Reached(f) = {b \in Metered : f[b] >= CapFor[b] \/ (GlobalCap /\ sf[Metered] >= CapFor[b])}
  BY DEF Reached, MapThenSumSet, MapThenFoldSet, SumRest, PickOf
<1>2. Reached(g) = {b \in Metered : g[b] >= CapFor[b] \/ (GlobalCap /\ sg[Metered] >= CapFor[b])}
  BY DEF Reached, MapThenSumSet, MapThenFoldSet, SumRest, PickOf
<1>3. SumsUp(f, sf)
  BY <1>0, SumsExist DEF SumsUp
<1>4. SumsUp(g, sg)
  BY <1>0, SumsExist DEF SumsUp
<1> HIDE DEF sf, sg
<1>5. sf[Metered] \in Nat /\ sg[Metered] \in Nat /\ sf[Metered] <= sg[Metered]
  BY <1>0, <1>3, <1>4, SumsGrow
<1> QED  BY <1>0, <1>1, <1>2, <1>5

LEMMA DivGrows ==
    ASSUME NEW a \in Nat, NEW b \in Nat, a <= b, NEW d \in Nat \ {0}
    PROVE  a \div d <= b \div d /\ a \div d \in Nat /\ b \div d \in Nat
OBVIOUS

\* Every day up to today is one the ledger has room for.
LEMMA DaysSoFar ==
    ASSUME AccessInv, InTime
    PROVE  Today \in Nat /\ 0 .. Today \subseteq Days
<1>1. PICK p \in Plans : clock + left["tick"] <= p["tick"]
  BY DEF InTime
<1>2. clock \in Nat /\ left["tick"] \in Nat /\ p["tick"] \in Nat /\ Day \in Nat \ {0}
      /\ 0 .. p["tick"] \div Day \subseteq Days
  BY <1>1, AccessAssumption DEF AccessInv, SettingsTypeOK, InTime, Event
<1> DEFINE last == p["tick"]
<1>3. clock <= last /\ last \in Nat
  BY <1>1, <1>2
<1> HIDE DEF last
<1>4. Today <= last \div Day /\ Today \in Nat /\ last \div Day \in Nat
  BY <1>2, <1>3, DivGrows DEF Today
<1>5. 0 .. Today \subseteq 0 .. last \div Day
  BY <1>4
<1> QED  BY <1>2, <1>4, <1>5 DEF last

\* A step that is no tick takes no time.
Spends == left' = left \/ \E e \in Event : Spare(e)

LEMMA InTimeKept ==
    ASSUME AccessInv, InTime, Spends, clock' = clock  PROVE InTime'
<1>1. left \in [Event -> Nat] /\ clock \in Nat
  BY DEF InTime, AccessInv, SettingsTypeOK
<1>2. left' \in [Event -> Nat] /\ left'["tick"] <= left["tick"]
  <2>1. CASE left' = left
    BY <1>1, <2>1 DEF Event
  <2>2. ASSUME NEW e \in Event, Spare(e)  PROVE left' \in [Event -> Nat] /\ left'["tick"] <= left["tick"]
    BY <1>1, <2>2 DEF Spare, Event
  <2> QED  BY <2>1, <2>2 DEF Spends
<1>3. PICK p \in Plans : clock + left["tick"] <= p["tick"]
  BY DEF InTime
<1>4. p["tick"] \in Nat /\ left["tick"] \in Nat /\ left'["tick"] \in Nat
  BY <1>1, <1>2, AccessAssumption DEF Event
<1>5. clock' + left'["tick"] <= p["tick"]
  BY <1>1, <1>2, <1>3, <1>4
<1> QED  BY <1>2, <1>5 DEF InTime

LEMMA CountsAreFinite ==
    ASSUME NEW rs, NEW b, NEW d
    PROVE  IsFiniteSet(Unwritten(rs, b, d)) /\ Cardinality(Unwritten(rs, b, d)) \in Nat
<1>1. IsFiniteSet(Slot) /\ Unwritten(rs, b, d) \subseteq Slot
  BY AccessAssumption DEF Unwritten
<1> QED  BY <1>1, FS_Subset, FS_CardinalityType

\* What a request owes the ledger is what it owed, and it uses what it may.
Owing(q, n) ==
    /\ n \in {Idle} \cup Request
    /\ n # Idle => /\ n.day <= Today
                   /\ n.pc = "row" /\ n.to \in Metered =>
                         q.pc = "row" /\ n.to = q.to /\ n.day = q.day
                   /\ n.forced = None => n.may \cap n.spent = {}

\* Any step that writes no row and bills no reply; it may roll the window.
LEMMA NothingBilled ==
    ASSUME AccessInv, MoneyInv, Spends, clock' = clock, rows' = rows,
           spend' \in {spend, Roll(Today)}, settled'.lost = settled.lost,
           \A r \in Slot : Owing(req[r], req'[r])
    PROVE  MoneyInv'
<1>1. InTime'
  BY InTimeKept DEF MoneyInv
<1>2. Today' = Today /\ Today \in Nat /\ 0 .. Today \subseteq Days
  BY DaysSoFar DEF MoneyInv, Today
<1>3. spend \in [day : Nat, sum : [Metered -> Nat]] /\ spend.day <= Today
      /\ rows \in [Days -> [Metered -> Nat]]
  BY DEF MoneyInv, MoneyTypeOK
<1>4. Zero \in [Metered -> Nat] /\ \A b \in Metered : Zero[b] = 0
  BY DEF Zero
<1>5. \/ spend' = spend
      \/ spend.day < Today /\ spend' = [day |-> Today, sum |-> Zero]
  <2>1. CASE spend.day = Today
    BY <2>1 DEF Roll
  <2>2. CASE spend.day # Today
    <3> DEFINE d == spend.day
    <3>0. d \in Nat /\ d <= Today /\ d # Today
      BY <1>3, <2>2
    <3> HIDE DEF d
    <3>1. d < Today
      BY <1>2, <3>0
    <3>2. Roll(Today) = [day |-> Today, sum |-> Zero]
      BY <2>2 DEF Roll
    <3> QED  BY <3>1, <3>2 DEF d
  <2> QED  BY <2>1, <2>2
<1>6. spend' \in [day : Nat, sum : [Metered -> Nat]] /\ spend'.day <= Today
  BY <1>2, <1>3, <1>4, <1>5
<1>7. MoneyTypeOK'
  BY <1>2, <1>3, <1>6 DEF MoneyTypeOK, Owing
<1>8. NothingAhead'
  BY <1>2 DEF MoneyInv, NothingAhead
<1>9. \A b \in Metered : \A d : Unwritten(req', b, d) \subseteq Unwritten(req, b, d)
  BY IdleIsNoRequest DEF Unwritten, Owing
<1>10. AllIsTracked'
  <2> SUFFICES ASSUME ~settled.lost, NEW b \in Metered
               PROVE  /\ spend'.day \in Days =>
                            rows[spend'.day][b] + Cardinality(Unwritten(req', b, spend'.day)) <= spend'.sum[b]
                      /\ \A d \in Days : d > spend'.day => rows[d][b] = 0 /\ Unwritten(req', b, d) = {}
    BY DEF AllIsTracked
  <2>1. /\ spend.day \in Days =>
              rows[spend.day][b] + Cardinality(Unwritten(req, b, spend.day)) <= spend.sum[b]
        /\ \A d \in Days : d > spend.day => rows[d][b] = 0 /\ Unwritten(req, b, d) = {}
    BY DEF MoneyInv, AllIsTracked
  <2>2. \A d \in Days : d > spend'.day => d > spend.day
    <3>1. Days \subseteq Nat
      BY AccessAssumption
    <3> QED  BY <1>2, <1>3, <1>5, <1>6, <3>1
  <2>3. \A d \in Days : d > spend'.day => rows[d][b] = 0 /\ Unwritten(req', b, d) = {}
    BY <1>9, <2>1, <2>2
  <2>4. CASE spend' = spend
    <3>0. Unwritten(req', b, spend.day) \subseteq Unwritten(req, b, spend.day)
          /\ IsFiniteSet(Unwritten(req, b, spend.day))
      BY <1>9, CountsAreFinite
    <3>1. Cardinality(Unwritten(req', b, spend.day)) <= Cardinality(Unwritten(req, b, spend.day))
      BY <3>0, FS_Subset
    <3>2. Cardinality(Unwritten(req', b, spend.day)) \in Nat /\ Cardinality(Unwritten(req, b, spend.day)) \in Nat
      BY CountsAreFinite
    <3>3. spend.sum[b] \in Nat /\ (spend.day \in Days => rows[spend.day][b] \in Nat)
      BY <1>3
    <3>4. spend.day \in Days =>
              rows[spend.day][b] + Cardinality(Unwritten(req', b, spend.day)) <= spend.sum[b]
      BY <2>1, <3>1, <3>2, <3>3
    <3> QED  BY <2>3, <2>4, <3>4
  <2>5. CASE spend.day < Today /\ spend' = [day |-> Today, sum |-> Zero]
    <3>1. Today \in Days
      BY <1>2
    <3>2. rows[Today][b] = 0 /\ Unwritten(req', b, Today) = {}
      BY <1>9, <2>1, <2>5, <3>1
    <3>3. spend'.day = Today /\ spend'.sum[b] = 0
      BY <1>4, <2>5
    <3>4. Cardinality(Unwritten(req', b, Today)) = 0
      BY <3>2, FS_EmptySet
    <3> QED  BY <2>3, <3>2, <3>3, <3>4
  <2> QED  BY <1>5, <2>4, <2>5
<1>11. UnspentOnly'
  BY DEF UnspentOnly, Owing
<1> QED  BY <1>1, <1>7, <1>8, <1>10, <1>11 DEF MoneyInv

\* A request that stands as it is owes what it owed.
LEMMA StandingOwes ==
    ASSUME AccessInv, MoneyInv, NEW r \in Slot  PROVE Owing(req[r], req[r])
BY DEF AccessInv, SettingsTypeOK, MoneyInv, MoneyTypeOK, UnspentOnly, Owing

\* A step of one request that bills nothing.
LEMMA OneUnbilled ==
    ASSUME AccessInv, MoneyInv, Spends, UNCHANGED <<clock, rows>>,
           spend' \in {spend, Roll(Today)}, settled'.lost = settled.lost,
           NEW r \in Slot, NEW n, Owing(req[r], n), req' = [req EXCEPT ![r] = n]
    PROVE  MoneyInv'
<1>1. req \in [Slot -> {Idle} \cup Request]
  BY DEF AccessInv, SettingsTypeOK
<1>2. \A x \in Slot : Owing(req[x], req'[x])
  BY <1>1, StandingOwes
<1> QED  BY <1>2, NothingBilled

\* A step that requests take no part in.
LEMMA NoRequest ==
    ASSUME AccessInv, MoneyInv, Spends, UNCHANGED <<clock, rows, spend, req>>,
           settled'.lost = settled.lost
    PROVE  MoneyInv'
BY StandingOwes, NothingBilled

LEMMA IdleOwes == \A q : Owing(q, Idle)
BY DEF Owing

\* Calls about the settings, and bindings.
LEMMA ControlledIsFree ==
    ASSUME AccessInv, MoneyInv, Controlled  PROVE MoneyInv'
<1>0. settled \in Settled /\ req \in [Slot -> {Idle} \cup Request]
  BY DEF AccessInv, SettingsTypeOK
<1>1. ASSUME NEW c \in Caller, NEW m \in Mode, ChangeMode(c, m)  PROVE MoneyInv'
  <2>1. /\ UNCHANGED <<clock, spend, rows>> /\ Spare("mode")
        /\ req' = [r \in Slot |-> IF req[r].pc = "idle" THEN Idle ELSE [req[r] EXCEPT !.mode = None]]
    BY <1>1 DEF ChangeMode, money
  <2>2. Spends
    BY <2>1 DEF Spends, Event
  <2>3. settled'.lost = settled.lost
    BY <1>0, <1>1 DEF ChangeMode, Settled
  <2>4. ASSUME NEW r \in Slot  PROVE Owing(req[r], req'[r])
    <3>1. CASE req[r] = Idle
      BY <2>1, <3>1, IdleIsNoRequest, IdleOwes
    <3>2. CASE req[r] # Idle
      <4> DEFINE q == req[r]
                 n == [q EXCEPT !.mode = None]
      <4>1. q \in Request /\ Owing(q, q) /\ q # Idle
        BY <1>0, <3>2, StandingOwes
      <4>2. req'[r] = n
        BY <2>1, <4>1, IdleIsNoRequest
      <4> HIDE DEF q
      <4>3. n \in Request /\ n.pc = q.pc /\ n.to = q.to /\ n.day = q.day
            /\ n.forced = q.forced /\ n.may = q.may /\ n.spent = q.spent
        BY <4>1 DEF Request
      <4> HIDE DEF n
      <4>4. Owing(q, n)
        BY <4>1, <4>3 DEF Owing
      <4> QED  BY <4>2, <4>4 DEF q
    <3> QED  BY <3>1, <3>2
  <2> QED  BY <2>1, <2>2, <2>3, <2>4, NothingBilled
<1>2. ASSUME NEW c \in Caller, NEW b \in Subscription, NEW g \in BOOLEAN, ChangeConsent(c, b, g)
      PROVE  MoneyInv'
  <2>1. UNCHANGED <<clock, spend, rows, req>> /\ Spare("consent")
    BY <1>2 DEF ChangeConsent, money
  <2>2. Spends
    BY <2>1 DEF Spends, Event
  <2>3. settled'.lost = settled.lost
    BY <1>0, <1>2 DEF ChangeConsent, Settled
  <2> QED  BY <2>1, <2>2, <2>3, NoRequest
<1>3. ASSUME NEW c \in Caller, SetRegistry(c) \/ SetFilter(c) \/ SetConsent(c) \/ Snapshot(c)
      PROVE  MoneyInv'
  <2>1. UNCHANGED <<clock, spend, rows, req, settled, left>>
    BY <1>3 DEF SetRegistry, SetFilter, SetConsent, Snapshot, money
  <2> QED  BY <2>1, NoRequest DEF Spends
<1>4. ASSUME NEW c \in Caller, Persist(c)  PROVE MoneyInv'
  <2>1. UNCHANGED <<clock, spend, rows, req>> /\ (left' = left \/ Spare("fault"))
    BY <1>4 DEF Persist, Fault, money
  <2>2. settled'.lost = settled.lost
    BY <1>0, <1>4 DEF Persist, Settled
  <2> QED  BY <2>1, <2>2, NoRequest DEF Spends, Event
<1>5. ASSUME NEW c \in Caller, Save(c)  PROVE MoneyInv'
  <2>1. UNCHANGED <<clock, spend, rows, req>> /\ (left' = left \/ Spare("fault"))
    BY <1>5 DEF Save, Saved, Return, Fault, money
  <2>2. settled'.lost = settled.lost
    BY <1>0, <1>5 DEF Save, Saved, Return, Settled
  <2> QED  BY <2>1, <2>2, NoRequest DEF Spends, Event
<1>6. ASSUME \/ \E s \in Session, b \in Chat, l \in 1 .. Life : Register(s, b, clock + l)
             \/ \E s \in Session : Revoke(s)
      PROVE  MoneyInv'
  <2>1. UNCHANGED <<clock, spend, rows, req, settled>> /\ Spare("binding")
    BY <1>6 DEF Register, Revoke, money
  <2> QED  BY <2>1, NoRequest DEF Spends, Event
<1> QED  BY <1>1, <1>2, <1>3, <1>4, <1>5, <1>6 DEF Controlled

\* A request on its way to a reply.
LEMMA UnderWayIsFree ==
    ASSUME AccessInv, MoneyInv, NEW r \in Slot,
           \/ \E s \in Session \cup {None}, f \in Backend \cup {None} : Enter(r, s, f)
           \/ Admit(r) \/ Failover(r) \/ \E b \in Backend : Send(r, b)
    PROVE  MoneyInv'
<1> DEFINE q == req[r]
<1>0. req \in [Slot -> {Idle} \cup Request] /\ settled \in Settled
  BY DEF AccessInv, SettingsTypeOK
<1>1. ASSUME NEW n, Owing(q, n), req' = [req EXCEPT ![r] = n], Spends,
             UNCHANGED <<clock, rows, spend, settled>>
      PROVE  MoneyInv'
  BY <1>1, OneUnbilled
<1>2. Owing(q, q)
  BY StandingOwes
<1>3. ASSUME NEW s \in Session \cup {None}, NEW f \in Backend \cup {None}, Enter(r, s, f)
      PROVE  MoneyInv'
  <2> DEFINE n == [pc |-> "admit", session |-> s, forced |-> f,
                   day |-> Today, filter |-> mode.filter, mode |-> settled.mode,
                   binding |-> None, bound |-> FALSE, may |-> {}, to |-> None,
                   refused |-> {}, spent |-> {}]
  <2>1. req' = [req EXCEPT ![r] = n] /\ Spare("request") /\ UNCHANGED <<clock, rows, spend, settled>>
    BY <1>3 DEF Enter, money
  <2>2. mode \in [registry : Mode, filter : Mode, config : Mode]
    BY DEF AccessInv, SettingsTypeOK
  <2>3. Today \in Nat
    BY DaysSoFar DEF MoneyInv
  <2>4. n \in Request
    BY <1>0, <2>2, <2>3 DEF Request, Settled
  <2>5. Owing(q, n)
    BY <2>3, <2>4 DEF Owing
  <2>6. Spends
    BY <2>1 DEF Spends, Event
  <2> HIDE DEF n
  <2> QED  BY <1>1, <2>1, <2>5, <2>6
\* What it becomes differs from what it is in nothing that costs.
<1>4. ASSUME NEW n, q \in Request, n \in Request, n.day = q.day, n.pc # "row",
             n.forced = q.forced, n.may \subseteq q.may, n.spent = q.spent
      PROVE  Owing(q, n)
  BY <1>2, <1>4, IdleIsNoRequest DEF Owing
<1>5. CASE Admit(r)
  <2>1. q.pc = "admit" /\ left' = left /\ UNCHANGED <<clock, rows, spend, settled>>
    BY <1>5 DEF Admit, money
  <2>2. q \in Request
    BY <1>0, <2>1, IdleIsNoRequest
  <2>3. PICK e, t, n : /\ req' = [req EXCEPT ![r] = n]
                       /\ \/ n = Idle
                          \/ n = [q EXCEPT !.pc = "consider"]
                          \/ /\ n = [q EXCEPT !.pc = "consider", !.binding = e, !.bound = t]
                             /\ e \in Binding \cup {None} /\ t \in BOOLEAN
    <3> DEFINE s == q.session
    <3>1. CASE s = None
      BY <1>5, <3>1 DEF Admit
    <3>2. CASE s # None /\ Expired(s)
      BY <1>5, <3>2 DEF Admit, End
    <3>3. CASE s # None /\ ~Expired(s)
      <4>1. s \in Session
        BY <2>2, <3>3 DEF Request
      <4>2. live[s] \in Binding \cup {None} /\ (s \in bound) \in BOOLEAN
        BY <4>1 DEF AccessInv, SettingsTypeOK
      <4>3. req' = [req EXCEPT ![r] = [q EXCEPT !.pc = "consider", !.binding = live[s],
                                                !.bound = s \in bound]]
        BY <1>5, <3>3 DEF Admit
      <4> HIDE DEF q, s
      <4> QED  BY <4>2, <4>3
    <3> QED  BY <3>1, <3>2, <3>3
  <2> HIDE DEF q
  <2>4. CASE n = Idle
    BY <1>1, <2>1, <2>3, <2>4, IdleOwes DEF Spends
  <2>5. CASE n = [q EXCEPT !.pc = "consider"]
    <3>1. n \in Request /\ n.day = q.day /\ n.pc = "consider" /\ n.forced = q.forced
          /\ n.may = q.may /\ n.spent = q.spent
      BY <2>2, <2>5 DEF Request
    <3>2. Owing(q, n)
      BY <1>4, <2>2, <3>1
    <3> QED  BY <1>1, <2>1, <2>3, <3>2 DEF Spends
  <2>6. CASE /\ n = [q EXCEPT !.pc = "consider", !.binding = e, !.bound = t]
             /\ e \in Binding \cup {None} /\ t \in BOOLEAN
    <3>1. n \in Request /\ n.day = q.day /\ n.pc = "consider" /\ n.forced = q.forced
          /\ n.may = q.may /\ n.spent = q.spent
      BY <2>2, <2>6 DEF Request
    <3>2. Owing(q, n)
      BY <1>4, <2>2, <3>1
    <3> QED  BY <1>1, <2>1, <2>3, <3>2 DEF Spends
  <2> QED  BY <2>3, <2>4, <2>5, <2>6
<1>6. ASSUME NEW b \in Backend, Send(r, b)  PROVE MoneyInv'
  <2> DEFINE n == [q EXCEPT !.pc = "reply", !.to = b]
  <2>1. /\ q.pc = "send" /\ left' = left /\ UNCHANGED <<clock, rows, spend, settled>>
        /\ req' = [req EXCEPT ![r] = Idle] \/ req' = [req EXCEPT ![r] = n]
    BY <1>6 DEF Send, End, money
  <2>2. q \in Request
    BY <1>0, <2>1, IdleIsNoRequest
  <2> HIDE DEF q
  <2>3. n \in Request /\ n.day = q.day /\ n.pc = "reply" /\ n.forced = q.forced
        /\ n.may = q.may /\ n.spent = q.spent
    BY <2>2 DEF Request
  <2> HIDE DEF n
  <2>4. Owing(q, n)
    BY <1>4, <2>2, <2>3
  <2> QED  BY <1>1, <2>1, <2>4, IdleOwes DEF Spends
<1>7. CASE Failover(r)
  <2> DEFINE others == q.may \ {q.to}
             n == [q EXCEPT !.pc = "send", !.may = others]
  <2>1. /\ q.pc = "reply" /\ left' = left /\ UNCHANGED <<clock, rows, spend, settled>>
        /\ req' = [req EXCEPT ![r] = Idle] \/ req' = [req EXCEPT ![r] = n]
    BY <1>7 DEF Failover, End, money
  <2>2. q \in Request /\ others \subseteq q.may
    BY <1>0, <2>1, IdleIsNoRequest
  <2> HIDE DEF q, others
  <2>3. n \in Request /\ n.day = q.day /\ n.pc = "send" /\ n.forced = q.forced
        /\ n.may = others /\ n.spent = q.spent
    BY <2>2 DEF Request
  <2> HIDE DEF n
  <2>4. Owing(q, n)
    BY <1>4, <2>2, <2>3
  <2> QED  BY <1>1, <2>1, <2>4, IdleOwes DEF Spends
<1> QED  BY <1>3, <1>5, <1>6, <1>7

\* The caps are read from a window that has today's rows.
LEMMA RowsAreTracked ==
    ASSUME AccessInv, MoneyInv, ~settled.lost
    PROVE  Reached(rows[Today]) \subseteq Reached(Roll(Today).sum)
<1>1. Today \in Days /\ Today \in Nat
  BY DaysSoFar DEF MoneyInv
<1>2. spend \in [day : Nat, sum : [Metered -> Nat]] /\ spend.day <= Today
      /\ rows \in [Days -> [Metered -> Nat]]
  BY DEF MoneyInv, MoneyTypeOK
<1> DEFINE f == rows[Today]
           g == Roll(Today).sum
<1>3. f \in [Metered -> Nat] /\ g \in [Metered -> Nat]
  BY <1>1, <1>2 DEF Roll, Zero
<1>4. \A b \in Metered : f[b] <= g[b]
  <2> SUFFICES ASSUME NEW b \in Metered  PROVE f[b] <= g[b]
    OBVIOUS
  <2>1. CASE spend.day = Today
    <3>1. rows[Today][b] + Cardinality(Unwritten(req, b, Today)) <= spend.sum[b]
      BY <1>1, <2>1 DEF MoneyInv, AllIsTracked
    <3>2. Cardinality(Unwritten(req, b, Today)) \in Nat /\ rows[Today][b] \in Nat /\ spend.sum[b] \in Nat
      BY <1>1, <1>2, CountsAreFinite
    <3>3. Roll(Today) = spend
      BY <2>1 DEF Roll
    <3> QED  BY <3>1, <3>2, <3>3
  <2>2. CASE spend.day # Today
    <3>1. Today > spend.day
      BY <1>1, <1>2, <2>2
    <3>2. rows[Today][b] = 0
      BY <1>1, <3>1 DEF MoneyInv, AllIsTracked
    <3>3. Roll(Today).sum[b] = 0
      BY <2>2 DEF Roll, Zero
    <3> QED  BY <3>2, <3>3
  <2> QED  BY <2>1, <2>2
<1> HIDE DEF f, g
<1>5. Reached(f) \subseteq Reached(g)
  BY <1>3, <1>4, ReachedGrows
<1> QED  BY <1>5 DEF f, g

LEMMA ConsiderIsFree ==
    ASSUME AccessInv, MoneyInv, NEW r \in Slot, Consider(r)  PROVE MoneyInv'
<1> DEFINE q    == req[r]
           full == Reached(Roll(Today).sum)
           some == {b \in Backend : Allowed(r, b)}
           may  == IF q.forced # None THEN some \cap {q.forced} ELSE some \ full
           refused == settled.refused
           spent == IF settled.lost THEN {} ELSE Reached(rows[Today])
           n    == [q EXCEPT !.pc = "send", !.may = may, !.refused = refused, !.spent = spent]
<1>1. /\ q.pc = "consider" /\ spend' = Roll(Today)
      /\ UNCHANGED <<clock, rows, settled, left>>
      /\ req' = [req EXCEPT ![r] = Idle] \/ req' = [req EXCEPT ![r] = n]
  BY DEF Consider, End
<1>2. q \in Request /\ Owing(q, q) /\ settled \in Settled
  BY <1>1, StandingOwes, IdleIsNoRequest DEF AccessInv, SettingsTypeOK
<1>3. /\ may \subseteq Backend
      /\ q.forced = None => may \cap full = {}
  OBVIOUS
<1>4. spent \subseteq full /\ spent \subseteq Metered
  BY RowsAreTracked DEF Reached
<1>5. refused \subseteq Subscription
  BY <1>2 DEF Settled
<1> HIDE DEF q, full, may, refused, spent
<1>6. n \in Request /\ n.pc = "send" /\ n.day = q.day /\ n.forced = q.forced
      /\ n.may = may /\ n.spent = spent
  BY <1>2, <1>3, <1>4, <1>5 DEF Request
<1> HIDE DEF n
<1>7. Owing(q, n)
  BY <1>2, <1>3, <1>4, <1>6, IdleIsNoRequest DEF Owing
<1>8. Spends /\ spend' \in {spend, Roll(Today)} /\ settled'.lost = settled.lost
  BY <1>1 DEF Spends
<1>9. Owing(req[r], Idle) /\ Owing(req[r], n)
  BY <1>7, IdleOwes DEF q
<1> QED  BY <1>1, <1>8, <1>9, OneUnbilled

\* A reply that is billed is one more to write down.
LEMMA BillIsTracked ==
    ASSUME AccessInv, MoneyInv, NEW r \in Slot, Bill(r)  PROVE MoneyInv'
<1> DEFINE q == req[r]
           n == [q EXCEPT !.pc = "row"]
           b == q.to
           d == q.day
<1>1. q.pc = "reply" /\ req' = [req EXCEPT ![r] = n] /\ UNCHANGED <<clock, rows, left>>
  BY DEF Bill
<1>2. /\ q \in Request /\ q # Idle /\ Owing(q, q)
      /\ settled \in Settled /\ req \in [Slot -> {Idle} \cup Request]
  BY <1>1, StandingOwes, IdleIsNoRequest DEF AccessInv, SettingsTypeOK
<1>3. b \notin Metered => spend' = spend /\ settled' = settled
  BY DEF Bill
<1>4. b \in Metered => /\ spend' = Record(b, d)
                       /\ settled' = [settled EXCEPT !.lost = @ \/ d < spend.day]
  BY DEF Bill
<1>5. b \in Backend \cup {None} /\ d \in Nat /\ d <= Today
  BY <1>2 DEF Request, Owing
<1> HIDE DEF q
<1>6. n \in Request /\ n.pc = "row" /\ n.to = b /\ n.day = d /\ n.forced = q.forced
      /\ n.may = q.may /\ n.spent = q.spent
  BY <1>2 DEF Request, b, d
<1> HIDE DEF n
<1>7. CASE b \notin Metered
  <2>1. Owing(q, n)
    BY <1>2, <1>6, <1>7, IdleIsNoRequest DEF Owing, b, d
  <2>2. Owing(req[r], n)
    BY <2>1 DEF q
  <2>3. Spends
    BY <1>1 DEF Spends
  <2> HIDE DEF b, d
  <2> QED  BY <1>1, <1>3, <1>7, <2>2, <2>3, OneUnbilled
<1>8. CASE b \in Metered
  <2>1. /\ spend \in [day : Nat, sum : [Metered -> Nat]] /\ spend.day <= Today
        /\ rows \in [Days -> [Metered -> Nat]] /\ Today \in Nat /\ 0 .. Today \subseteq Days
        /\ Today' = Today
    BY <1>1, DaysSoFar DEF MoneyInv, MoneyTypeOK, Today
  <2>2. q.forced = None => q.may \cap q.spent = {}
    BY <1>2 DEF Owing
  <2>3. /\ req'[r] = n
        /\ \A x \in Slot : x # r => req'[x] = req[x]
        /\ \A x \in Slot : req'[x] \in {Idle} \cup Request
    BY <1>1, <1>2, <1>6
  <2>31. req[r].pc = "reply" /\ req[r] # Idle
    BY <1>1, <1>2 DEF q
  <2> HIDE DEF b, d
  \* The window it is billed to, which is its day's.
  <2>4. /\ spend'.day = d /\ spend' \in [day : Nat, sum : [Metered -> Nat]]
        /\ d = spend.day => spend'.sum = [spend.sum EXCEPT ![b] = @ + 1]
        /\ d # spend.day => spend'.sum = [Zero EXCEPT ![b] = @ + 1]
    <3>1. CASE d = spend.day
      <4>1. spend' = [spend EXCEPT !.sum[b] = @ + 1]
        BY <1>4, <1>8, <3>1 DEF Record, Roll
      <4> QED  BY <1>8, <2>1, <3>1, <4>1
    <3>2. CASE d # spend.day
      <4>1. spend' = [day |-> d, sum |-> [Zero EXCEPT ![b] = @ + 1]]
        BY <1>4, <1>8, <3>2 DEF Record, Roll
      <4>2. Zero \in [Metered -> Nat]
        BY DEF Zero
      <4> QED  BY <1>5, <1>8, <3>2, <4>1, <4>2
    <3> QED  BY <3>1, <3>2
  <2>5. InTime'
    BY <1>1, InTimeKept DEF MoneyInv, Spends
  <2>6. MoneyTypeOK'
    <3>1. \A x \in Slot : req'[x] # Idle => req'[x].day <= Today
      BY <1>5, <1>6, <2>3 DEF MoneyInv, MoneyTypeOK
    <3> QED  BY <1>1, <1>5, <2>1, <2>4, <3>1 DEF MoneyTypeOK
  <2>7. NothingAhead'
    BY <1>1, <2>1 DEF MoneyInv, NothingAhead
  <2>8. UnspentOnly'
    BY <1>6, <2>2, <2>3 DEF MoneyInv, UnspentOnly
  <2>9. /\ r \notin Unwritten(req, b, d)
        /\ Unwritten(req', b, d) = Unwritten(req, b, d) \cup {r}
        /\ \A c, e : <<c, e>> # <<b, d>> => Unwritten(req', c, e) = Unwritten(req, c, e)
    BY <1>6, <2>3, <2>31 DEF Unwritten
  <2>10. Cardinality(Unwritten(req', b, d)) = Cardinality(Unwritten(req, b, d)) + 1
    BY <2>9, CountsAreFinite, FS_AddElement
  <2>11. AllIsTracked'
    <3> SUFFICES ASSUME ~settled'.lost, NEW c \in Metered
                 PROVE  /\ d \in Days =>
                              rows[d][c] + Cardinality(Unwritten(req', c, d)) <= spend'.sum[c]
                        /\ \A e \in Days : e > d => rows[e][c] = 0 /\ Unwritten(req', c, e) = {}
      BY <1>1, <2>4 DEF AllIsTracked
    <3>1. ~settled.lost /\ ~(d < spend.day)
      BY <1>2, <1>4, <1>8 DEF Settled
    <3>2. /\ spend.day \in Days =>
                rows[spend.day][c] + Cardinality(Unwritten(req, c, spend.day)) <= spend.sum[c]
          /\ \A e \in Days : e > spend.day => rows[e][c] = 0 /\ Unwritten(req, c, e) = {}
      BY <3>1 DEF MoneyInv, AllIsTracked
    <3>3. \A e \in Days : e > d => rows[e][c] = 0 /\ Unwritten(req', c, e) = {}
      <4> SUFFICES ASSUME NEW e \in Days, e > d  PROVE rows[e][c] = 0 /\ Unwritten(req', c, e) = {}
        OBVIOUS
      <4>1. e \in Nat /\ spend.day \in Nat
        BY <2>1, AccessAssumption
      <4>2. e > spend.day /\ e # d
        BY <1>5, <3>1, <4>1
      <4> QED  BY <2>9, <3>2, <4>2
    <3>4. Cardinality(Unwritten(req, c, d)) \in Nat
      BY CountsAreFinite
    <3>41. d \in Days
      BY <1>5, <2>1
    <3>42. rows[d][c] \in Nat /\ spend.sum[c] \in Nat
      BY <2>1, <3>41
    <3>43. Cardinality(Unwritten(req', c, d)) =
              IF c = b THEN Cardinality(Unwritten(req, c, d)) + 1 ELSE Cardinality(Unwritten(req, c, d))
      BY <2>9, <2>10
    <3>5. CASE d = spend.day
      <4>1. rows[d][c] + Cardinality(Unwritten(req, c, d)) <= spend.sum[c]
        BY <3>2, <3>41, <3>5
      <4>2. spend'.sum[c] = IF c = b THEN spend.sum[c] + 1 ELSE spend.sum[c]
        BY <1>8, <2>1, <2>4, <3>5
      <4> QED  BY <3>3, <3>4, <3>42, <3>43, <4>1, <4>2
    <3>6. CASE d # spend.day
      <4>0. spend.day \in Nat
        BY <2>1
      <4>1. d > spend.day
        BY <1>5, <3>1, <3>6, <4>0
      <4>2. rows[d][c] = 0 /\ Unwritten(req, c, d) = {}
        BY <3>2, <3>41, <4>1
      <4>3. Cardinality(Unwritten(req, c, d)) = 0
        BY <4>2, FS_EmptySet
      <4>4. spend'.sum[c] = IF c = b THEN 1 ELSE 0
        BY <1>8, <2>4, <3>6 DEF Zero
      <4> QED  BY <3>3, <3>43, <4>2, <4>3, <4>4
    <3> QED  BY <3>5, <3>6
  <2> QED  BY <2>5, <2>6, <2>7, <2>8, <2>11 DEF MoneyInv
<1> QED  BY <1>7, <1>8

\* A row that is written is one less to write.
LEMMA RowIsTracked ==
    ASSUME AccessInv, MoneyInv, NEW r \in Slot, Row(r)  PROVE MoneyInv'
<1> DEFINE q == req[r]
           b == q.to
           d == q.day
<1>1. q.pc = "row" /\ req' = [req EXCEPT ![r] = Idle] /\ UNCHANGED <<clock, spend, settled>>
  BY DEF Row, End
<1>2. /\ \/ /\ b \in Metered /\ rows' = [rows EXCEPT ![d][b] = @ + 1] /\ left' = left
         \/ rows' = rows /\ left' = left
         \/ rows' = rows /\ Spare("fault")
  BY DEF Row, Fault
<1>3. Spends
  BY <1>2 DEF Spends, Event
<1>4. CASE rows' = rows
  <2> HIDE DEF q, b, d
  <2>1. Owing(req[r], Idle)
    BY IdleOwes
  <2> QED  BY <1>1, <1>3, <1>4, <2>1, OneUnbilled
<1>5. CASE b \in Metered /\ rows' = [rows EXCEPT ![d][b] = @ + 1]
  <2>1. /\ spend \in [day : Nat, sum : [Metered -> Nat]] /\ spend.day <= Today
        /\ rows \in [Days -> [Metered -> Nat]] /\ Today \in Nat /\ 0 .. Today \subseteq Days
        /\ Today' = Today /\ req \in [Slot -> {Idle} \cup Request]
    BY <1>1, DaysSoFar DEF MoneyInv, MoneyTypeOK, Today, AccessInv, SettingsTypeOK
  <2>2. q \in Request /\ d \in Nat /\ d <= Today /\ d \in Days
    <3>1. q \in Request /\ Owing(q, q) /\ q # Idle
      BY <1>1, StandingOwes, IdleIsNoRequest DEF AccessInv, SettingsTypeOK
    <3>2. d \in Nat /\ d <= Today
      BY <3>1 DEF Request, Owing
    <3> QED  BY <2>1, <3>1, <3>2
  <2>3. /\ \A x \in Slot : x # r => req'[x] = req[x]
        /\ req'[r] = Idle
        /\ \A x \in Slot : req'[x] # Idle => x # r
    BY <1>1, <2>1
  <2>31. req[r].pc = "row" /\ req[r].to = b /\ req[r].day = d
    BY <1>1
  <2> HIDE DEF q, b, d
  <2>4. /\ rows' \in [Days -> [Metered -> Nat]]
        /\ rows'[d][b] = rows[d][b] + 1
        /\ \A e \in Days, c \in Metered : <<c, e>> # <<b, d>> => rows'[e][c] = rows[e][c]
    BY <1>5, <2>1, <2>2
  <2>5. InTime'
    BY <1>1, <1>3, InTimeKept DEF MoneyInv
  <2>6. MoneyTypeOK'
    <3>1. \A x \in Slot : req'[x] # Idle => req'[x].day <= Today
      BY <2>3 DEF MoneyInv, MoneyTypeOK
    <3> QED  BY <1>1, <2>1, <2>4, <3>1 DEF MoneyTypeOK
  <2>7. NothingAhead'
    <3> SUFFICES ASSUME NEW e \in Days, e > Today, NEW c \in Metered  PROVE rows'[e][c] = 0
      BY <2>1 DEF NothingAhead
    <3>1. rows[e][c] = 0
      BY DEF MoneyInv, NothingAhead
    <3>2. e # d
      BY <2>1, <2>2
    <3> QED  BY <2>4, <3>1, <3>2
  <2>8. UnspentOnly'
    BY <2>3 DEF MoneyInv, UnspentOnly
  <2>9. /\ r \in Unwritten(req, b, d)
        /\ Unwritten(req', b, d) = Unwritten(req, b, d) \ {r}
        /\ \A c, e : <<c, e>> # <<b, d>> => Unwritten(req', c, e) = Unwritten(req, c, e)
    BY <2>3, <2>31, IdleIsNoRequest DEF Unwritten
  <2>10. Cardinality(Unwritten(req', b, d)) = Cardinality(Unwritten(req, b, d)) - 1
    BY <2>9, CountsAreFinite, FS_RemoveElement
  <2>11. AllIsTracked'
    <3> SUFFICES ASSUME ~settled.lost, NEW c \in Metered
                 PROVE  /\ spend.day \in Days =>
                              rows'[spend.day][c] + Cardinality(Unwritten(req', c, spend.day)) <= spend.sum[c]
                        /\ \A e \in Days : e > spend.day => rows'[e][c] = 0 /\ Unwritten(req', c, e) = {}
      BY <1>1 DEF AllIsTracked
    <3>1. /\ spend.day \in Days =>
                rows[spend.day][c] + Cardinality(Unwritten(req, c, spend.day)) <= spend.sum[c]
          /\ \A e \in Days : e > spend.day => rows[e][c] = 0 /\ Unwritten(req, c, e) = {}
      BY DEF MoneyInv, AllIsTracked
    <3>2. \A e \in Days : e > spend.day => rows'[e][c] = 0 /\ Unwritten(req', c, e) = {}
      <4> SUFFICES ASSUME NEW e \in Days, e > spend.day
                   PROVE  rows'[e][c] = 0 /\ Unwritten(req', c, e) = {}
        OBVIOUS
      <4>1. rows[e][c] = 0 /\ Unwritten(req, c, e) = {}
        BY <3>1
      <4>2. <<c, e>> # <<b, d>>
        BY <2>9, <4>1
      <4> QED  BY <2>4, <2>9, <4>1, <4>2
    <3>3. ASSUME spend.day \in Days
          PROVE  rows'[spend.day][c] + Cardinality(Unwritten(req', c, spend.day)) <= spend.sum[c]
      <4> DEFINE e == spend.day
      <4>1. /\ rows[e][c] \in Nat /\ spend.sum[c] \in Nat
            /\ Cardinality(Unwritten(req, c, e)) \in Nat
            /\ rows[e][c] + Cardinality(Unwritten(req, c, e)) <= spend.sum[c]
        BY <2>1, <3>1, <3>3, CountsAreFinite
      <4> HIDE DEF e
      <4>2. CASE <<c, e>> = <<b, d>>
        BY <2>4, <2>10, <4>1, <4>2 DEF e
      <4>3. CASE <<c, e>> # <<b, d>>
        <5>1. rows'[e][c] = rows[e][c] /\ Unwritten(req', c, e) = Unwritten(req, c, e)
          BY <2>4, <2>9, <3>3, <4>3 DEF e
        <5> QED  BY <4>1, <5>1 DEF e
      <4> QED  BY <4>2, <4>3
    <3> QED  BY <3>2, <3>3
  <2> QED  BY <2>5, <2>6, <2>7, <2>8, <2>11 DEF MoneyInv
<1> QED  BY <1>2, <1>4, <1>5

LEMMA TickIsFree ==
    ASSUME AccessInv, MoneyInv, Tick  PROVE MoneyInv'
<1>1. clock' = clock + 1 /\ Spare("tick") /\ UNCHANGED <<spend, rows, req, settled>>
  BY DEF Tick, money
<1>2. clock \in Nat /\ left \in [Event -> Nat] /\ Day \in Nat \ {0}
  BY AccessAssumption DEF AccessInv, SettingsTypeOK, MoneyInv, InTime
<1>3. InTime'
  <2>1. PICK p \in Plans : clock + left["tick"] <= p["tick"]
    BY DEF MoneyInv, InTime
  <2>2. left' \in [Event -> Nat] /\ left'["tick"] = left["tick"] - 1 /\ left["tick"] \in Nat
    BY <1>1, <1>2 DEF Spare, Event
  <2>3. p["tick"] \in Nat
    BY AccessAssumption DEF Event
  <2>4. clock' + left'["tick"] <= p["tick"]
    BY <1>1, <1>2, <2>1, <2>2, <2>3
  <2> QED  BY <2>2, <2>4 DEF InTime
<1>4. Today <= Today' /\ Today \in Nat /\ Today' \in Nat
  <2>1. clock <= clock' /\ clock' \in Nat
    BY <1>1, <1>2
  <2> QED  BY <1>2, <2>1, DivGrows DEF Today
<1>5. MoneyTypeOK'
  <2>1. spend \in [day : Nat, sum : [Metered -> Nat]] /\ rows \in [Days -> [Metered -> Nat]]
    BY DEF MoneyInv, MoneyTypeOK
  <2>2. spend.day <= Today'
    BY <1>4, <2>1 DEF MoneyInv, MoneyTypeOK
  <2>3. ASSUME NEW r \in Slot, req[r] # Idle  PROVE req[r].day <= Today'
    <3>1. req[r].day <= Today
      BY <2>3 DEF MoneyInv, MoneyTypeOK
    <3>2. req[r].day \in Nat
      BY <2>3 DEF AccessInv, SettingsTypeOK, Request
    <3> QED  BY <1>4, <3>1, <3>2
  <2> QED  BY <1>1, <2>1, <2>2, <2>3 DEF MoneyTypeOK
<1>6. NothingAhead'
  <2> SUFFICES ASSUME NEW d \in Days, d > Today', NEW b \in Metered  PROVE rows[d][b] = 0
    BY <1>1 DEF NothingAhead
  <2>1. d \in Nat
    BY AccessAssumption
  <2>2. d > Today
    BY <1>4, <2>1
  <2> QED  BY <2>2 DEF MoneyInv, NothingAhead
<1>7. AllIsTracked' /\ UnspentOnly'
  BY <1>1 DEF MoneyInv, AllIsTracked, UnspentOnly
<1> QED  BY <1>3, <1>5, <1>6, <1>7 DEF MoneyInv

\* The ledger's total for today is where a daemon starts.
LEMMA RestartIsTracked ==
    ASSUME AccessInv, MoneyInv, Restart  PROVE MoneyInv'
<1>1. /\ spend' = [day |-> Today, sum |-> rows[Today]] /\ UNCHANGED <<clock, rows>>
      /\ req' = [r \in Slot |-> Idle] /\ Spare("fault")
  BY DEF Restart, Seed, Fault
<1>2. Today' = Today /\ Today \in Nat /\ Today \in Days
      /\ rows \in [Days -> [Metered -> Nat]]
  BY <1>1, DaysSoFar DEF MoneyInv, MoneyTypeOK, Today
<1>3. InTime'
  BY <1>1, InTimeKept DEF MoneyInv, Spends, Event
<1>4. \A r \in Slot : req'[r] = Idle
  BY <1>1
<1>5. spend' \in [day : Nat, sum : [Metered -> Nat]] /\ spend'.day = Today /\ spend'.sum = rows[Today]
  BY <1>1, <1>2
<1>6. MoneyTypeOK' /\ UnspentOnly'
  BY <1>1, <1>2, <1>4, <1>5 DEF MoneyTypeOK, UnspentOnly
<1>7. NothingAhead'
  BY <1>1, <1>2 DEF MoneyInv, NothingAhead
<1>8. AllIsTracked'
  <2>1. \A b, d : Unwritten(req', b, d) = {}
    BY <1>4, IdleIsNoRequest DEF Unwritten
  <2>2. Cardinality({}) = 0
    BY FS_EmptySet
  <2>3. ASSUME NEW b \in Metered
        PROVE  rows[Today][b] + Cardinality(Unwritten(req', b, Today)) <= spend'.sum[b]
    <3>1. rows[Today][b] \in Nat
      BY <1>2
    <3> QED  BY <1>5, <2>1, <2>2, <3>1
  <2>4. ASSUME NEW b \in Metered, NEW d \in Days, d > Today  PROVE rows[d][b] = 0
    BY <2>4 DEF MoneyInv, NothingAhead
  <2> QED  BY <1>1, <1>5, <2>1, <2>3, <2>4 DEF AllIsTracked
<1> QED  BY <1>3, <1>6, <1>7, <1>8 DEF MoneyInv

LEMMA MoneyInvInit ==
    ASSUME Init  PROVE MoneyInv
<1>1. /\ clock = 0 /\ spend = [day |-> 0, sum |-> Zero] /\ rows = [d \in Days |-> Zero]
      /\ req = [r \in Slot |-> Idle] /\ left \in Plans
  BY DEF Init
<1>2. Zero \in [Metered -> Nat] /\ \A b \in Metered : Zero[b] = 0
  BY DEF Zero
<1>3. left \in [Event -> Nat] /\ left["tick"] \in Nat
  BY <1>1, AccessAssumption DEF Event
<1>4. InTime
  BY <1>1, <1>3 DEF InTime
<1>5. Today \in Nat /\ 0 <= Today
  BY <1>1, DivGrows, AccessAssumption DEF Today
<1>6. \A r \in Slot : req[r] = Idle
  BY <1>1
<1>7. MoneyTypeOK /\ NothingAhead /\ UnspentOnly
  BY <1>1, <1>2, <1>5, <1>6 DEF MoneyTypeOK, NothingAhead, UnspentOnly
<1>8. AllIsTracked
  <2>1. \A b, d : Unwritten(req, b, d) = {}
    BY <1>6, IdleIsNoRequest DEF Unwritten
  <2>2. \A b, d : Cardinality(Unwritten(req, b, d)) = 0
    BY <2>1, FS_EmptySet
  <2> QED  BY <1>1, <1>2, <2>1, <2>2 DEF AllIsTracked
<1> QED  BY <1>4, <1>7, <1>8 DEF MoneyInv

LEMMA MoneyInvStep ==
    ASSUME AccessInv, MoneyInv, [AllNext]_<<access, agents>>  PROVE MoneyInv'
<1>1. CASE Step
  BY <1>1, ControlledIsFree, UnderWayIsFree, ConsiderIsFree, BillIsTracked, RowIsTracked, TickIsFree
  DEF Step, Served
<1>2. CASE Wiring
  <2>1. UNCHANGED <<clock, spend, rows, req, settled>>
    BY <1>2 DEF Wiring, Unscathed, money
  <2>2. Spends
    BY <1>2 DEF Wiring, Preview, Confirm, Apply, Cli, Check, Backup, Write, Interrupt, Edit,
                Fault, Spends, Event
  <2> QED  BY <2>1, <2>2, NoRequest
<1>3. CASE DaemonDies
  BY <1>3, RestartIsTracked DEF DaemonDies
<1>4. CASE UNCHANGED <<access, agents>>
  BY <1>4, NoRequest DEF access, Spends
<1> QED  BY <1>1, <1>2, <1>3, <1>4 DEF AllNext

\* A request that names no backend goes to none whose cap the ledger's rows of
\* the day had reached when it was considered, unless the tracker went back.
THEOREM CapHonoured == ControlSpec => []CapIsHonoured
<1>1. ControlInit => MoneyInv
  BY MoneyInvInit DEF ControlInit, AllInit
<1>2. AccessInv /\ MoneyInv /\ [ControlNext]_control => MoneyInv'
  BY MoneyInvStep, ControlStepOfSettings
<1>3. AccessInv /\ MoneyInv => CapIsHonoured
  <2> SUFFICES ASSUME AccessInv, MoneyInv, NEW r \in Slot, req[r].pc = "reply", req[r].forced = None
               PROVE  req[r].to \notin req[r].spent
    BY DEF CapIsHonoured, Under
  <2>1. req[r] # Idle /\ Promised(req[r])
    BY GoingOn, IdleIsNoRequest
  <2> QED  BY <2>1 DEF Promised, MoneyInv, UnspentOnly
<1> QED  BY <1>1, <1>2, <1>3, AccessInvHolds, PTL DEF ControlSpec

-----------------------------------------------------------------------------
(* The agents' files: the invariant *)

Ours   == {Url(p, a) : p \in Port, a \in Account \cup {None}}
Value  == UserValue \cup Ours \cup {None, Selected, Plain, Inline, Scalar}
Shapely == {None, Plain, Inline, Scalar}

\* A file as the program and its user can leave it: a value of ours is at a
\* setting, and what holds a value is a table that is there.
WellFormed(f) ==
    /\ f \in [Node -> Value]
    /\ \A n \in Table : f[n] \in Shapely
    /\ \A n \in Leaf : f[n] \notin {Plain, Inline, Scalar}
    /\ \A n \in Node : IsOurs(f[n]) => n \in Setting[tool]
    /\ \A n \in Leaf : TableOf[n] # None /\ f[n] # None => f[TableOf[n]] \in {Plain, Inline}
    /\ tool = "codex" =>
           /\ f["block"] \in Ours \cup {None}
           /\ f["note"] \in UserValue \cup {None}
           /\ ~IsOurs(f["provider"])

\* What an edit may not touch.
Keeps(f, g) == \A n \in Node : Users(f[n]) /\ n # "note" => g[n] = f[n]

\* An edit as `plan` worked it out, and what its write still has to respect.
Sound(j, kept) ==
    /\ WellFormed(j.existing) /\ WellFormed(j.contents)
    /\ Keeps(j.existing, j.contents)
    /\ j.pc \in {"backup", "write"} /\ ~j.overtaken =>
           \A n \in Node : kept[n] # None => j.contents[n] = kept[n]

EditJob == [pc : {"check", "backup", "write"}, existing : [Node -> Value],
            contents : [Node -> Value], cli : BOOLEAN, overtaken : BOOLEAN]

FilesInv ==
    /\ tool \in Tool
    /\ WellFormed(file)
    /\ job \in [Caller -> {Idle} \cup EditJob]
    /\ \A c \in Caller : job[c] # Idle => Sound(job[c], theirs)
    /\ theirs \in [Node -> Value]
    /\ \A n \in Node : theirs[n] # None =>
           /\ file[n] = theirs[n]
           /\ Users(theirs[n]) /\ n # "note"

-----------------------------------------------------------------------------
(* The nodes of a file, and the values they take *)

LEMMA ValuesApart ==
    /\ None \notin Ours /\ Selected \notin Ours /\ Plain \notin Ours
    /\ Inline \notin Ours /\ Scalar \notin Ours
    /\ UserValue \cap Ours = {}
    /\ Selected \notin {Plain, Inline, Scalar} /\ Selected \notin Shapely
    /\ Plain # Inline /\ Plain # Scalar /\ Inline # Scalar
    /\ None \notin {Selected, Plain, Inline, Scalar}
    /\ UserValue \cap {None, Selected, Plain, Inline, Scalar} = {}
    /\ \A v : IsOurs(v) <=> v \in Ours
<1>1. \A p, a : Len(Url(p, a)) = 3
  BY DEF Url
<1>2. Len(Selected) = 1 /\ Len(Plain) = 1 /\ Len(Inline) = 1 /\ Len(Scalar) = 1
  BY DEF Selected, Plain, Inline, Scalar
<1>3. Selected[1] = "ironwire" /\ Plain[1] = "table" /\ Inline[1] = "inline" /\ Scalar[1] = "scalar"
  BY DEF Selected, Plain, Inline, Scalar
<1>4. \A v \in Ours : Len(v) = 3
  BY <1>1 DEF Ours
<1>5. \A v : IsOurs(v) <=> v \in Ours
  BY DEF IsOurs, Ours
<1>6. Selected \notin Ours /\ Plain \notin Ours /\ Inline \notin Ours /\ Scalar \notin Ours
  BY <1>2, <1>4
<1>7. UserValue \cap Ours = {} /\ None \notin Ours
  BY <1>5, UsersAreNotOurs
<1> QED  BY <1>3, <1>5, <1>6, <1>7, UsersAreNotOurs DEF Shapely

LEMMA NodesLie ==
    ASSUME tool \in Tool
    PROVE  /\ Setting[tool] \subseteq Leaf
           /\ None \notin Node
           /\ Leaf \cap Table = {} /\ Node = Leaf \cup Table
           /\ \A n \in Node : TableOf[n] # None => TableOf[n] \in Table
           /\ \A t \in Table : TableOf[t] = None /\ t \notin {"provider", "note", "block"}
           /\ \A n \in Leaf : Inside(n) = {}
           /\ \A n \in Node : n \in {"provider", "note", "block"} => n \in Leaf /\ TableOf[n] = None
           /\ tool = "codex" => Setting[tool] = {"provider", "note", "block"}
<1>1. \A n \in Node : /\ n \in DOMAIN TableOf
                      /\ TableOf[n] # None => TableOf[n] \in Own[tool] /\ TableOf[TableOf[n]] = None
                      /\ n \in {"provider", "note", "block"} => TableOf[n] = None
                      /\ TableOf[n] \notin {"provider", "note", "block"}
  BY AgentsAssumption DEF Node
<1>2. None \notin Node
  BY <1>1, AgentsAssumption
<1>3. Setting[tool] \cap Own[tool] = {} /\ (tool = "codex" => Setting[tool] = {"provider", "note", "block"})
  BY AgentsAssumption
<1>4. \A t \in Table : t \in Own[tool] /\ TableOf[t] = None /\ t \notin {"provider", "note", "block"}
  BY <1>1 DEF Table
<1>5. \A n \in Node : TableOf[n] # None => TableOf[n] \in Table
  BY DEF Table
<1>6. Setting[tool] \subseteq Leaf
  BY <1>3, <1>4 DEF Leaf, Node
<1>7. Leaf \cap Table = {} /\ Node = Leaf \cup Table
  BY <1>4 DEF Leaf, Node
<1>8. \A n \in Leaf : Inside(n) = {}
  BY <1>2, <1>5, <1>7 DEF Inside
<1>9. \A n \in Node : n \in {"provider", "note", "block"} => n \in Leaf /\ TableOf[n] = None
  BY <1>1, <1>4, <1>7
<1> QED  BY <1>2, <1>3, <1>4, <1>5, <1>6, <1>7, <1>8, <1>9

LEMMA BindingIsOurs ==
    ASSUME NEW v, NEW p \in Port, NEW a \in Account \cup {None}
    PROVE  KeepBinding(v, p, a) \in Ours
<1>1. CASE a = None /\ IsOurs(v)
  <2>1. PICK q \in Port, b \in Account \cup {None} : v = Url(q, b)
    BY <1>1 DEF IsOurs
  <2>2. v[3] = b
    BY <2>1 DEF Url
  <2> QED  BY <1>1, <2>1, <2>2 DEF KeepBinding, Ours
<1>2. CASE ~(a = None /\ IsOurs(v))
  BY <1>2 DEF KeepBinding, Ours
<1> QED  BY <1>1, <1>2

\* A setting the connect writes lies at top level or in a table it can write in.
Todo(f) == {k \in Setting[tool] :
               Applies(f, k) /\ SlotOf(f, k) \in {"empty", "ours"} /\ Writable(f, k)}
Gone(f) == {k \in Setting[tool] : SlotOf(f, k) = "ours" /\ Writable(f, k)}

LEMMA SlotsRead ==
    ASSUME NEW f, NEW k
    PROVE  /\ SlotOf(f, k) = "ours" <=>
                  InTable(f, k) # Scalar /\ f[k] # None /\ IsOurs(f[k])
           /\ SlotOf(f, k) = "empty" <=> InTable(f, k) # Scalar /\ f[k] = None
BY ValuesApart DEF SlotOf

LEMMA TodoLies ==
    ASSUME tool \in Tool, NEW f, WellFormed(f), NEW k \in Todo(f)
    PROVE  /\ k \in Leaf /\ k \in Setting[tool]
           /\ f[k] = None \/ f[k] \in Ours
           /\ TableOf[k] # None => TableOf[k] \in Table /\ f[TableOf[k]] \in {None, Plain}
<1>1. k \in Setting[tool] /\ SlotOf(f, k) \in {"empty", "ours"} /\ Writable(f, k)
  BY DEF Todo
<1>2. k \in Leaf
  BY <1>1, NodesLie
<1>3. InTable(f, k) # Scalar /\ InTable(f, k) # Inline
  BY <1>1, SlotsRead DEF Writable
<1>4. f[k] = None \/ f[k] \in Ours
  BY <1>1, SlotsRead, ValuesApart
<1>5. ASSUME TableOf[k] # None
      PROVE  TableOf[k] \in Table /\ f[TableOf[k]] \in {None, Plain}
  <2>1. TableOf[k] \in Table
    BY <1>2, <1>5, NodesLie
  <2>2. f[TableOf[k]] \in Shapely
    BY <2>1 DEF WellFormed
  <2> QED  BY <1>3, <1>5, <2>1, <2>2 DEF InTable, Shapely
<1> QED  BY <1>1, <1>2, <1>4, <1>5

LEMMA GoneLies ==
    ASSUME tool \in Tool, NEW f, WellFormed(f), NEW k \in Gone(f)
    PROVE  /\ k \in Leaf /\ k \in Setting[tool] /\ f[k] \in Ours
           /\ TableOf[k] # None => TableOf[k] \in Table /\ f[TableOf[k]] = Plain
<1>1. k \in Setting[tool] /\ SlotOf(f, k) = "ours" /\ Writable(f, k)
  BY DEF Gone
<1>2. k \in Leaf
  BY <1>1, NodesLie
<1>3. InTable(f, k) # Scalar /\ InTable(f, k) # Inline /\ f[k] \in Ours
  BY <1>1, SlotsRead, ValuesApart DEF Writable
<1>4. ASSUME TableOf[k] # None
      PROVE  TableOf[k] \in Table /\ f[TableOf[k]] = Plain
  <2>1. TableOf[k] \in Table
    BY <1>2, <1>4, NodesLie
  <2>2. f[TableOf[k]] \in {Plain, Inline}
    BY <1>2, <1>3, <1>4, ValuesApart DEF WellFormed
  <2> QED  BY <1>3, <1>4, <2>1, <2>2 DEF InTable
<1> QED  BY <1>1, <1>2, <1>3, <1>4

\* A connect puts ours at the settings it can write and the tables they need.
LEMMA SlotsConnect ==
    ASSUME tool \in Tool, NEW f, WellFormed(f), NEW p \in Port, NEW a \in Account \cup {None}
    PROVE  LET h == SlotsConnected(f, p, a)
           IN  /\ h \in [Node -> Value]
               /\ \A n \in Leaf : IF n \in Todo(f) THEN h[n] \in Ours ELSE h[n] = f[n]
               /\ \A n \in Table :
                      IF f[n] = None /\ Todo(f) \cap Inside(n) # {} THEN h[n] = Plain ELSE h[n] = f[n]
<1> DEFINE h == SlotsConnected(f, p, a)
<1>1. h = [n \in Node |-> IF n \in Todo(f) THEN KeepBinding(f[n], p, a)
                          ELSE IF f[n] = None /\ Todo(f) \cap Inside(n) # {} THEN Plain
                          ELSE f[n]]
  BY DEF SlotsConnected, Todo
<1> HIDE DEF h
<1>2. f \in [Node -> Value]
  BY DEF WellFormed
<1>3. \A n : KeepBinding(f[n], p, a) \in Ours
  BY BindingIsOurs
<1>4. h \in [Node -> Value]
  BY <1>1, <1>2, <1>3 DEF Value
<1>5. ASSUME NEW n \in Leaf
      PROVE  IF n \in Todo(f) THEN h[n] \in Ours ELSE h[n] = f[n]
  <2>1. n \in Node /\ Inside(n) = {}
    BY NodesLie
  <2> QED  BY <1>1, <1>3, <2>1
<1>6. ASSUME NEW n \in Table
      PROVE  IF f[n] = None /\ Todo(f) \cap Inside(n) # {} THEN h[n] = Plain ELSE h[n] = f[n]
  <2>1. n \in Node /\ n \notin Todo(f)
    BY TodoLies, NodesLie
  <2> QED  BY <1>1, <2>1
<1> QED  BY <1>4, <1>5, <1>6 DEF h

LEMMA SlotsConnectedFits ==
    ASSUME tool \in Tool, tool # "codex", NEW f, WellFormed(f),
           NEW p \in Port, NEW a \in Account \cup {None}
    PROVE  WellFormed(SlotsConnected(f, p, a)) /\ Keeps(f, SlotsConnected(f, p, a))
<1> DEFINE h == SlotsConnected(f, p, a)
<1>1. /\ h \in [Node -> Value]
      /\ \A n \in Leaf : IF n \in Todo(f) THEN h[n] \in Ours ELSE h[n] = f[n]
      /\ \A n \in Table :
             IF f[n] = None /\ Todo(f) \cap Inside(n) # {} THEN h[n] = Plain ELSE h[n] = f[n]
  BY SlotsConnect
<1> HIDE DEF h
<1>2. \A n \in Table : h[n] \in Shapely
  BY <1>1 DEF WellFormed, Shapely
<1>3. \A n \in Leaf : h[n] \notin {Plain, Inline, Scalar}
  BY <1>1, ValuesApart DEF WellFormed
<1>4. ASSUME NEW n \in Node, IsOurs(h[n])  PROVE n \in Setting[tool]
  <2>1. CASE n \in Leaf
    BY <1>1, <1>4, <2>1, TodoLies, NodesLie DEF WellFormed
  <2>2. CASE n \in Table
    BY <1>2, <1>4, <2>2, ValuesApart DEF Shapely
  <2> QED  BY <2>1, <2>2, NodesLie
<1>5. ASSUME NEW n \in Leaf, TableOf[n] # None, h[n] # None
      PROVE  h[TableOf[n]] \in {Plain, Inline}
  <2>1. TableOf[n] \in Table /\ n \in Inside(TableOf[n])
    BY <1>5, NodesLie DEF Inside
  <2>2. CASE n \in Todo(f)
    <3>1. f[TableOf[n]] \in {None, Plain}
      BY <1>5, <2>2, TodoLies
    <3> QED  BY <1>1, <2>1, <2>2, <3>1
  <2>3. CASE n \notin Todo(f)
    <3>1. f[TableOf[n]] \in {Plain, Inline}
      BY <1>1, <1>5, <2>3 DEF WellFormed
    <3> QED  BY <1>1, <2>1, <3>1, ValuesApart
  <2> QED  BY <2>2, <2>3
<1>6. ASSUME NEW n \in Node, Users(f[n])  PROVE h[n] = f[n]
  <2>1. f[n] # None /\ f[n] \notin Ours
    BY <1>6, ValuesApart DEF Users
  <2> QED  BY <1>1, <2>1, TodoLies, NodesLie
<1>7. WellFormed(h)
  BY <1>1, <1>2, <1>3, <1>4, <1>5 DEF WellFormed
<1> QED  BY <1>6, <1>7 DEF h, Keeps

\* A disconnect takes ours out and the tables that leaves with nothing in them.
LEMMA SlotsDisconnect ==
    ASSUME tool \in Tool, NEW f, WellFormed(f)
    PROVE  LET h == SlotsDisconnected(f)
           IN  /\ h \in [Node -> Value]
               /\ \A n \in Leaf : h[n] = IF n \in Gone(f) THEN None ELSE f[n]
               /\ \A n \in Table :
                      h[n] = IF /\ \E k \in Gone(f) : TableOf[k] = n
                                /\ \A y \in Inside(n) : y \in Gone(f) \/ f[y] = None
                             THEN None ELSE f[n]
<1> DEFINE g == [n \in Node |-> IF n \in Gone(f) THEN None ELSE f[n]]
           empty == {TableOf[k] : k \in {x \in Gone(f) : \A y \in Inside(TableOf[x]) : g[y] = None}}
           h == SlotsDisconnected(f)
<1>1. h = [n \in Node |-> IF n \in empty THEN None ELSE g[n]]
  BY DEF SlotsDisconnected, Gone
<1>2. f \in [Node -> Value]
  BY DEF WellFormed
<1>3. \A n \in Node : g[n] = IF n \in Gone(f) THEN None ELSE f[n]
  OBVIOUS
<1>4. \A n : n \in empty <=> \E x \in Gone(f) : n = TableOf[x] /\ \A y \in Inside(n) : g[y] = None
  OBVIOUS
<1> HIDE DEF h, empty, g
<1>5. h \in [Node -> Value]
  BY <1>1, <1>2, <1>3 DEF Value
<1>6. ASSUME NEW n \in Leaf  PROVE h[n] = IF n \in Gone(f) THEN None ELSE f[n]
  <2>1. n \in Node /\ n \notin Table /\ n # None
    BY NodesLie
  <2>2. n \notin empty
    BY <1>4, <2>1, GoneLies
  <2> QED  BY <1>1, <1>3, <2>1, <2>2
<1>7. ASSUME NEW n \in Table
      PROVE  h[n] = IF /\ \E k \in Gone(f) : TableOf[k] = n
                       /\ \A y \in Inside(n) : y \in Gone(f) \/ f[y] = None
                    THEN None ELSE f[n]
  <2>1. n \in Node /\ n \notin Gone(f) /\ Inside(n) \subseteq Node
    BY GoneLies, NodesLie DEF Inside
  <2>2. \A y \in Inside(n) : g[y] = None <=> y \in Gone(f) \/ f[y] = None
    BY <1>3, <2>1
  <2> QED  BY <1>1, <1>3, <1>4, <2>1, <2>2
<1> QED  BY <1>5, <1>6, <1>7 DEF h

LEMMA SlotsDisconnectedFits ==
    ASSUME tool \in Tool, tool # "codex", NEW f, WellFormed(f)
    PROVE  LET h == SlotsDisconnected(f)
           IN  /\ WellFormed(h) /\ Keeps(f, h)
               /\ \A n \in Node : IsOurs(h[n]) => InTable(f, n) = Inline
<1> DEFINE h == SlotsDisconnected(f)
<1>1. /\ h \in [Node -> Value]
      /\ \A n \in Leaf : h[n] = IF n \in Gone(f) THEN None ELSE f[n]
      /\ \A n \in Table :
             h[n] = IF /\ \E k \in Gone(f) : TableOf[k] = n
                       /\ \A y \in Inside(n) : y \in Gone(f) \/ f[y] = None
                    THEN None ELSE f[n]
  BY SlotsDisconnect
<1> HIDE DEF h
<1>2. \A n \in Table : h[n] \in Shapely
  BY <1>1 DEF WellFormed, Shapely
<1>3. \A n \in Leaf : h[n] \notin {Plain, Inline, Scalar}
  BY <1>1, ValuesApart DEF WellFormed
<1>4. ASSUME NEW n \in Node, IsOurs(h[n])  PROVE n \in Leaf /\ h[n] = f[n] /\ n \notin Gone(f)
  <2>1. h[n] \in Ours
    BY <1>4, ValuesApart
  <2>2. n \notin Table
    BY <1>2, <2>1, ValuesApart DEF Shapely
  <2> QED  BY <1>1, <2>1, <2>2, NodesLie, ValuesApart
<1>5. ASSUME NEW n \in Leaf, TableOf[n] # None, h[n] # None
      PROVE  h[TableOf[n]] \in {Plain, Inline}
  <2>1. TableOf[n] \in Table /\ n \in Inside(TableOf[n])
    BY <1>5, NodesLie DEF Inside
  <2>2. n \notin Gone(f) /\ f[n] # None
    BY <1>1, <1>5
  <2>3. f[TableOf[n]] \in {Plain, Inline}
    BY <1>5, <2>2 DEF WellFormed
  <2> QED  BY <1>1, <2>1, <2>2, <2>3
<1>6. ASSUME NEW n \in Node, Users(f[n])  PROVE h[n] = f[n]
  <2>1. f[n] # None /\ f[n] # Plain /\ f[n] \notin Ours
    BY <1>6, ValuesApart DEF Users
  <2>2. CASE n \in Leaf
    BY <1>1, <2>1, <2>2, GoneLies
  <2>3. CASE n \in Table
    <3>1. \A k \in Gone(f) : TableOf[k] # n
      BY <2>1, <2>3, GoneLies, NodesLie
    <3> QED  BY <1>1, <2>3, <3>1
  <2> QED  BY <2>2, <2>3, NodesLie
<1>7. WellFormed(h)
  <2>1. \A n \in Node : IsOurs(h[n]) => n \in Setting[tool]
    BY <1>4 DEF WellFormed
  <2> QED  BY <1>1, <1>2, <1>3, <1>5, <2>1 DEF WellFormed
<1>8. ASSUME NEW n \in Node, IsOurs(h[n])  PROVE InTable(f, n) = Inline
  <2>1. n \in Leaf /\ IsOurs(f[n]) /\ n \notin Gone(f) /\ n \in Setting[tool]
    BY <1>4, <1>8 DEF WellFormed
  <2>2. f[n] # None
    BY <2>1, ValuesApart
  <2>3. InTable(f, n) \in {Plain, Inline}
    BY <2>1, <2>2 DEF InTable, WellFormed
  <2>4. SlotOf(f, n) = "ours"
    BY <2>1, <2>2, <2>3, SlotsRead, ValuesApart
  <2> QED  BY <2>1, <2>4 DEF Gone, Writable
<1> QED  BY <1>6, <1>7, <1>8 DEF h, Keeps

\* A file with nothing of ours in it, and no empty table of the user's.
Clean(f) ==
    /\ \A n \in Node : ~IsOurs(f[n]) /\ f[n] # Selected
    /\ \A t \in Table : f[t] = Plain => \E k \in Inside(t) : f[k] # None
    /\ "note" \in Node => f["note"] = None

LEMMA SlotsUndone ==
    ASSUME tool \in Tool, tool # "codex", NEW f, WellFormed(f), Clean(f),
           NEW p \in Port, NEW a \in Account \cup {None}
    PROVE  SlotsDisconnected(SlotsConnected(f, p, a)) = f
<1> DEFINE h == SlotsConnected(f, p, a)
           g == SlotsDisconnected(h)
<1>1. /\ h \in [Node -> Value]
      /\ \A n \in Leaf : IF n \in Todo(f) THEN h[n] \in Ours ELSE h[n] = f[n]
      /\ \A n \in Table :
             IF f[n] = None /\ Todo(f) \cap Inside(n) # {} THEN h[n] = Plain ELSE h[n] = f[n]
  BY SlotsConnect
<1>2. WellFormed(h)
  BY SlotsConnectedFits
<1>3. /\ g \in [Node -> Value]
      /\ \A n \in Leaf : g[n] = IF n \in Gone(h) THEN None ELSE h[n]
      /\ \A n \in Table :
             g[n] = IF /\ \E k \in Gone(h) : TableOf[k] = n
                       /\ \A y \in Inside(n) : y \in Gone(h) \/ h[y] = None
                    THEN None ELSE h[n]
  <2> HIDE DEF h
  <2> QED  BY <1>2, SlotsDisconnect
<1> HIDE DEF g, h
<1>4. \A n \in Leaf : f[n] \notin Ours
  BY ValuesApart, NodesLie DEF Clean
<1>5. \A k \in Todo(f) : k \in Leaf /\ k \in Setting[tool] /\ f[k] = None
  BY <1>4, TodoLies
<1>6. ASSUME NEW k \in Todo(f)  PROVE k \in Gone(h)
  <2>1. h[k] \in Ours /\ k \in Setting[tool] /\ k \in Leaf
    BY <1>1, <1>5
  <2>2. InTable(h, k) = Plain
    <3>1. CASE TableOf[k] = None
      BY <3>1 DEF InTable
    <3>2. CASE TableOf[k] # None
      <4>1. TableOf[k] \in Table /\ f[TableOf[k]] \in {None, Plain} /\ k \in Inside(TableOf[k])
        BY <2>1, <3>2, TodoLies DEF Inside
      <4>2. h[TableOf[k]] = Plain
        BY <1>1, <4>1
      <4> QED  BY <3>2, <4>2 DEF InTable
    <3> QED  BY <3>1, <3>2
  <2>3. SlotOf(h, k) = "ours" /\ Writable(h, k)
    BY <2>1, <2>2, SlotsRead, ValuesApart DEF Writable
  <2> QED  BY <2>1, <2>3 DEF Gone
<1>7. ASSUME NEW k \in Gone(h)  PROVE k \in Todo(f)
  <2>1. k \in Leaf /\ h[k] \in Ours
    BY <1>2, GoneLies
  <2> QED  BY <1>1, <1>4, <2>1
<1>8. ASSUME NEW n \in Leaf  PROVE g[n] = f[n]
  BY <1>1, <1>3, <1>5, <1>6, <1>7
<1>9. ASSUME NEW n \in Table  PROVE g[n] = f[n]
  <2>1. \A y \in Inside(n) : y \in Leaf /\ TableOf[y] = n /\ TableOf[y] # None
    BY NodesLie DEF Inside
  <2>2. \A y \in Inside(n) : y \in Gone(h) \/ h[y] = None <=> f[y] = None
    BY <1>1, <1>5, <1>6, <1>7, <2>1
  <2>3. \A k \in Gone(h) : TableOf[k] = n => k \in Todo(f) /\ k \in Inside(n) /\ f[n] \in {None, Plain}
    <3> SUFFICES ASSUME NEW k \in Gone(h), TableOf[k] = n
                 PROVE  k \in Todo(f) /\ k \in Inside(n) /\ f[n] \in {None, Plain}
      OBVIOUS
    <3>1. k \in Todo(f) /\ k \in Leaf
      BY <1>5, <1>7
    <3>2. n # None
      BY NodesLie
    <3> QED  BY <3>1, <3>2, TodoLies DEF Inside
  <2>4. CASE \A y \in Inside(n) : f[y] = None
    <3>1. f[n] # Plain
      BY <2>4 DEF Clean
    <3>2. CASE \E k \in Gone(h) : TableOf[k] = n
      BY <1>3, <2>2, <2>3, <2>4, <3>1, <3>2
    <3>3. CASE ~ \E k \in Gone(h) : TableOf[k] = n
      <4>1. Todo(f) \cap Inside(n) = {}
        BY <1>6, <2>1, <3>3
      <4> QED  BY <1>1, <1>3, <3>3, <4>1
    <3> QED  BY <3>2, <3>3
  <2>5. CASE \E y \in Inside(n) : f[y] # None
    <3>1. f[n] \in {Plain, Inline}
      BY <2>1, <2>5 DEF WellFormed
    <3>2. h[n] = f[n]
      BY <1>1, <3>1, ValuesApart
    <3> QED  BY <1>3, <2>2, <2>5, <3>2
  <2> QED  BY <2>4, <2>5
<1>10. f \in [Node -> Value]
  BY DEF WellFormed
<1>11. \A n \in Node : g[n] = f[n]
  BY <1>8, <1>9, NodesLie
<1>12. g = f
  BY <1>3, <1>10, <1>11
<1> QED  BY <1>12 DEF g, h

-----------------------------------------------------------------------------
(* Codex's provider, note and block *)

LEMMA CodexNodes ==
    ASSUME tool \in Tool, tool = "codex"
    PROVE  \A n \in {"provider", "note", "block"} :
               n \in Node /\ n \in Leaf /\ n \in Setting[tool] /\ TableOf[n] = None
BY NodesLie

LEMMA CodexConnect ==
    ASSUME tool \in Tool, tool = "codex", NEW f, WellFormed(f),
           NEW p \in Port, NEW a \in Account \cup {None}
    PROVE  LET h == CodexConnected(f, p, a)
           IN  /\ h \in [Node -> Value]
               /\ \A n \in Node \ {"provider", "note", "block"} : h[n] = f[n]
               /\ h["block"] \in Ours
               /\ h["provider"] = IF f["provider"] = None THEN Selected ELSE f["provider"]
               /\ h["note"] = IF f["provider"] \in {None, Selected} THEN f["note"]
                              ELSE f["provider"]
<1> DEFINE b == KeepBinding(f["block"], p, a)
           h == CodexConnected(f, p, a)
<1>1. f \in [Node -> Value] /\ b \in Ours
  BY BindingIsOurs DEF WellFormed
<1>2. h = [f EXCEPT !["block"] = b,
                    !["provider"] = IF f["provider"] = None THEN Selected ELSE f["provider"],
                    !["note"] = IF f["provider"] \in {None, Selected} THEN f["note"]
                                ELSE f["provider"]]
  <2>1. "block" # "provider" /\ "block" # "note" /\ "provider" # "note"
    OBVIOUS
  <2> QED  BY <1>1, CodexNodes, <2>1 DEF CodexConnected
<1> HIDE DEF b, h
<1>3. f["provider"] \in Value /\ f["note"] \in Value /\ b \in Value /\ Selected \in Value
  BY <1>1, CodexNodes DEF Value
<1> QED  BY <1>1, <1>2, <1>3, CodexNodes DEF h

LEMMA CodexDisconnect ==
    ASSUME tool \in Tool, tool = "codex", NEW f, WellFormed(f)
    PROVE  LET h == CodexDisconnected(f)
           IN  /\ h \in [Node -> Value]
               /\ \A n \in Node \ {"provider", "note", "block"} : h[n] = f[n]
               /\ h["block"] = None /\ h["note"] = None
               /\ h["provider"] = IF f["provider"] = Selected THEN f["note"] ELSE f["provider"]
<1> DEFINE h == CodexDisconnected(f)
<1>1. f \in [Node -> Value] /\ None \in Value
  BY DEF WellFormed, Value
<1>2. h = [f EXCEPT !["block"] = None,
                    !["provider"] = IF f["provider"] = Selected THEN f["note"] ELSE f["provider"],
                    !["note"] = None]
  <2>1. "block" # "provider" /\ "block" # "note" /\ "provider" # "note"
    OBVIOUS
  <2> QED  BY <1>1, CodexNodes, <2>1 DEF CodexDisconnected
<1> HIDE DEF h
<1>3. f["provider"] \in Value /\ f["note"] \in Value
  BY <1>1, CodexNodes
<1> QED  BY <1>1, <1>2, <1>3, CodexNodes DEF h

\* What a file is beside Codex's three settings decides nothing else.
LEMMA CodexFits ==
    ASSUME tool \in Tool, tool = "codex", NEW f, WellFormed(f),
           NEW h \in [Node -> Value],
           \A n \in Node \ {"provider", "note", "block"} : h[n] = f[n],
           h["block"] \in Ours \cup {None}, h["note"] \in UserValue \cup {None},
           h["provider"] \in Value \ (Ours \cup {Plain, Inline, Scalar})
    PROVE  WellFormed(h)
<1>1. \A n \in Table : n \notin {"provider", "note", "block"} /\ n \in Node
  BY NodesLie
<1>2. \A n \in {"provider", "note", "block"} : h[n] \notin {Plain, Inline, Scalar}
  BY ValuesApart
<1>3. \A n \in Node : IsOurs(h[n]) => n \in Setting[tool]
  BY CodexNodes DEF WellFormed
<1>4. \A n \in Table : h[n] = f[n]
  BY <1>1
<1>5. \A n \in Table : h[n] \in Shapely
  BY <1>4 DEF WellFormed
<1>6. \A n \in Leaf : h[n] \notin {Plain, Inline, Scalar}
  BY <1>2, NodesLie DEF WellFormed
<1>7. ASSUME NEW n \in Leaf, TableOf[n] # None, h[n] # None
      PROVE  h[TableOf[n]] \in {Plain, Inline}
  <2>1. n \notin {"provider", "note", "block"} /\ n \in Node /\ TableOf[n] \in Table
    BY <1>7, CodexNodes, NodesLie
  <2>2. h[n] = f[n] /\ h[TableOf[n]] = f[TableOf[n]]
    BY <1>4, <2>1
  <2> QED  BY <1>7, <2>2 DEF WellFormed
<1>8. ~IsOurs(h["provider"])
  BY ValuesApart
<1> QED  BY <1>3, <1>5, <1>6, <1>7, <1>8 DEF WellFormed

LEMMA CodexReads ==
    ASSUME tool \in Tool, tool = "codex", NEW f, WellFormed(f)
    PROVE  /\ f["provider"] \in UserValue \cup {None, Selected}
           /\ f["note"] \in UserValue \cup {None}
           /\ f["block"] \in Ours \cup {None}
<1>1. f["provider"] \in Value /\ f["provider"] \notin Ours
  BY CodexNodes, ValuesApart DEF WellFormed
<1>2. f["provider"] \notin {Plain, Inline, Scalar}
  BY CodexNodes DEF WellFormed
<1> QED  BY <1>1, <1>2 DEF WellFormed, Value

LEMMA CodexConnectedFits ==
    ASSUME tool \in Tool, tool = "codex", NEW f, WellFormed(f),
           NEW p \in Port, NEW a \in Account \cup {None}
    PROVE  WellFormed(CodexConnected(f, p, a)) /\ Keeps(f, CodexConnected(f, p, a))
<1> DEFINE h == CodexConnected(f, p, a)
<1>1. /\ h \in [Node -> Value]
      /\ \A n \in Node \ {"provider", "note", "block"} : h[n] = f[n]
      /\ h["block"] \in Ours
      /\ h["provider"] = IF f["provider"] = None THEN Selected ELSE f["provider"]
      /\ h["note"] = IF f["provider"] \in {None, Selected} THEN f["note"] ELSE f["provider"]
  BY CodexConnect
<1> HIDE DEF h
<1>2. h["note"] \in UserValue \cup {None}
  BY <1>1, CodexReads
<1>3. h["provider"] \in UserValue \cup {Selected}
  BY <1>1, CodexReads
<1>4. h["provider"] \in Value \ (Ours \cup {Plain, Inline, Scalar})
  BY <1>3, ValuesApart DEF Value
<1>5. WellFormed(h)
  BY <1>1, <1>2, <1>4, CodexFits
<1>6. ASSUME NEW n \in Node, Users(f[n]), n # "note"  PROVE h[n] = f[n]
  <2>1. f[n] # None /\ f[n] \notin Ours
    BY <1>6, ValuesApart DEF Users
  <2> QED  BY <1>1, <1>6, <2>1, CodexReads
<1> QED  BY <1>5, <1>6 DEF h, Keeps

LEMMA CodexDisconnectedFits ==
    ASSUME tool \in Tool, tool = "codex", NEW f, WellFormed(f)
    PROVE  LET h == CodexDisconnected(f)
           IN  WellFormed(h) /\ Keeps(f, h) /\ \A n \in Node : ~IsOurs(h[n])
<1> DEFINE h == CodexDisconnected(f)
<1>1. /\ h \in [Node -> Value]
      /\ \A n \in Node \ {"provider", "note", "block"} : h[n] = f[n]
      /\ h["block"] = None /\ h["note"] = None
      /\ h["provider"] = IF f["provider"] = Selected THEN f["note"] ELSE f["provider"]
  BY CodexDisconnect
<1> HIDE DEF h
<1>2. h["provider"] \in UserValue \cup {None}
  BY <1>1, CodexReads
<1>3. h["provider"] \in Value \ (Ours \cup {Plain, Inline, Scalar})
  BY <1>2, ValuesApart DEF Value
<1>4. WellFormed(h)
  BY <1>1, <1>3, CodexFits
<1>5. ASSUME NEW n \in Node, Users(f[n]), n # "note"  PROVE h[n] = f[n]
  <2>1. f[n] # None /\ f[n] \notin Ours /\ f[n] # Selected
    BY <1>5, ValuesApart DEF Users
  <2> QED  BY <1>1, <1>5, <2>1, CodexReads
<1>6. ASSUME NEW n \in Node  PROVE ~IsOurs(h[n])
  <2>1. CASE n \in {"provider", "note", "block"}
    BY <1>1, <1>3, <2>1, ValuesApart
  <2>2. CASE n \notin {"provider", "note", "block"}
    <3>1. n \notin Setting[tool]
      BY <2>2, NodesLie
    <3> QED  BY <1>4, <3>1 DEF WellFormed
  <2> QED  BY <2>1, <2>2
<1> QED  BY <1>4, <1>5, <1>6 DEF h, Keeps

LEMMA CodexUndone ==
    ASSUME tool \in Tool, tool = "codex", NEW f, WellFormed(f), Clean(f),
           NEW p \in Port, NEW a \in Account \cup {None}
    PROVE  CodexDisconnected(CodexConnected(f, p, a)) = f
<1> DEFINE h == CodexConnected(f, p, a)
           g == CodexDisconnected(h)
<1>1. /\ h \in [Node -> Value]
      /\ \A n \in Node \ {"provider", "note", "block"} : h[n] = f[n]
      /\ h["block"] \in Ours
      /\ h["provider"] = IF f["provider"] = None THEN Selected ELSE f["provider"]
      /\ h["note"] = IF f["provider"] \in {None, Selected} THEN f["note"] ELSE f["provider"]
  BY CodexConnect
<1>2. WellFormed(h)
  BY CodexConnectedFits
<1>3. /\ g \in [Node -> Value]
      /\ \A n \in Node \ {"provider", "note", "block"} : g[n] = h[n]
      /\ g["block"] = None /\ g["note"] = None
      /\ g["provider"] = IF h["provider"] = Selected THEN h["note"] ELSE h["provider"]
  <2> HIDE DEF h
  <2> QED  BY <1>2, CodexDisconnect
<1> HIDE DEF h, g
<1>4. f["note"] = None /\ f["provider"] # Selected /\ f["block"] \notin Ours
  BY CodexNodes, ValuesApart DEF Clean
<1>5. f["block"] = None
  BY <1>4, CodexReads
<1>6. \A n \in Node : g[n] = f[n]
  BY <1>1, <1>3, <1>4, <1>5
<1>7. f \in [Node -> Value]
  BY DEF WellFormed
<1>8. g = f
  BY <1>3, <1>6, <1>7
<1> QED  BY <1>8 DEF g, h

-----------------------------------------------------------------------------
(* Any edit *)

LEMMA ConnectedFits ==
    ASSUME tool \in Tool, NEW f, WellFormed(f), NEW p \in Port, NEW a \in Account \cup {None}
    PROVE  WellFormed(Connected(f, p, a)) /\ Keeps(f, Connected(f, p, a))
BY SlotsConnectedFits, CodexConnectedFits DEF Connected

LEMMA DisconnectedFits ==
    ASSUME tool \in Tool, NEW f, WellFormed(f)
    PROVE  WellFormed(Disconnected(f)) /\ Keeps(f, Disconnected(f))
BY SlotsDisconnectedFits, CodexDisconnectedFits DEF Disconnected

LEMMA PlansFit ==
    ASSUME tool \in Tool, NEW f, WellFormed(f), NEW g, g \in EditPlans(f) \/ g \in CliPlans(f)
    PROVE  WellFormed(g) /\ Keeps(f, g)
BY ConnectedFits, DisconnectedFits DEF EditPlans, CliPlans

LEMMA Undone ==
    ASSUME tool \in Tool, WellFormed(file)  PROVE UndoLeavesNoTrace
<1>1. \A n \in Node : IsOurs(Disconnected(file)[n]) => InTable(file, n) = Inline
  BY SlotsDisconnectedFits, CodexDisconnectedFits DEF Disconnected
<1>2. \A n \in Node : Users(file[n]) /\ n # "note" => Disconnected(file)[n] = file[n]
  BY DisconnectedFits DEF Keeps
<1>3. Clean(file) => \A p \in Port, a \in Account \cup {None} :
                         Disconnected(Connected(file, p, a)) = file
  BY SlotsUndone, CodexUndone DEF Disconnected, Connected
<1> QED  BY <1>1, <1>2, <1>3 DEF UndoLeavesNoTrace, Clean

-----------------------------------------------------------------------------
(* The invariant is inductive *)

\* One agent, one file: nothing a step does gives its nodes other names.
LEMMA FilesInvPrimed ==
    ASSUME tool' = tool, tool \in Tool, WellFormed(file'),
           job' \in [Caller -> {Idle} \cup EditJob],
           \A c \in Caller : job'[c] # Idle => Sound(job'[c], theirs'),
           theirs' \in [Node -> Value],
           \A n \in Node : theirs'[n] # None =>
               file'[n] = theirs'[n] /\ Users(theirs'[n]) /\ n # "note"
    PROVE  FilesInv'
<1>1. Node' = Node
  BY DEF Node
<1>2. Table' = Table
  BY <1>1 DEF Table
<1>3. Leaf' = Leaf
  BY <1>1, <1>2 DEF Leaf
<1>4. EditJob' = EditJob
  BY <1>1 DEF EditJob
<1>5. ASSUME NEW g, WellFormed(g)
      PROVE  /\ g \in [Node' -> Value]
             /\ \A n \in Table' : g[n] \in Shapely
             /\ \A n \in Leaf' : g[n] \notin {Plain, Inline, Scalar}
             /\ \A n \in Node' : IsOurs(g[n]) => n \in Setting[tool']
             /\ \A n \in Leaf' : TableOf[n] # None /\ g[n] # None => g[TableOf[n]] \in {Plain, Inline}
             /\ tool' = "codex" =>
                    /\ g["block"] \in Ours \cup {None}
                    /\ g["note"] \in UserValue \cup {None}
                    /\ ~IsOurs(g["provider"])
  BY <1>1, <1>2, <1>3, <1>5 DEF WellFormed
<1>6. WellFormed(file)'
  BY <1>5 DEF WellFormed
<1>7. ASSUME NEW c \in Caller, job'[c] # Idle  PROVE Sound(job[c], theirs)'
  <2>1. Sound(job'[c], theirs')
    BY <1>7
  <2>2. WellFormed(job[c].existing)' /\ WellFormed(job[c].contents)'
    BY <1>5, <2>1 DEF Sound, WellFormed
  <2>3. Keeps(job[c].existing, job[c].contents)'
    BY <1>1, <2>1 DEF Sound, Keeps
  <2> QED  BY <1>1, <2>1, <2>2, <2>3 DEF Sound
<1> QED  BY <1>1, <1>4, <1>6, <1>7 DEF FilesInv

LEMMA BlankFits ==
    ASSUME tool \in Tool  PROVE WellFormed(Blank)
<1>1. \A n \in Node : Blank[n] = None /\ ~IsOurs(Blank[n])
  BY ValuesApart DEF Blank
<1>2. Leaf \subseteq Node /\ Table \subseteq Node
  BY NodesLie
<1>3. \A n \in Leaf : Blank[n] \notin {Plain, Inline, Scalar}
  BY <1>1, <1>2, ValuesApart
<1>4. Blank \in [Node -> Value]
  BY DEF Blank, Value
<1>5. tool = "codex" => \A n \in {"provider", "note", "block"} : n \in Node
  BY CodexNodes
<1> QED  BY <1>1, <1>2, <1>3, <1>4, <1>5 DEF WellFormed, Shapely

LEMMA FilesInvInit ==
    ASSUME AllInit  PROVE FilesInv
<1>1. tool \in Tool
  <2>1. (CHOOSE t \in Tool : TRUE) \in Tool
    BY AgentsAssumption
  <2> QED  BY <2>1 DEF AllInit
<1>2. file = Blank /\ theirs = Blank /\ job = [c \in Caller |-> Idle]
  BY DEF AllInit
<1>3. Blank \in [Node -> Value] /\ \A n \in Node : Blank[n] = None
  BY DEF Blank, Value
<1> QED  BY <1>1, <1>2, <1>3, BlankFits DEF FilesInv

\* What becomes of one edit, the file and what the user put in it aside.
LEMMA OneEdit ==
    ASSUME FilesInv, UNCHANGED <<tool, file, theirs>>, NEW c \in Caller,
           NEW j, j = Idle \/ (j \in EditJob /\ Sound(j, theirs)),
           job' = [job EXCEPT ![c] = j]
    PROVE  FilesInv'
<1>1. job' \in [Caller -> {Idle} \cup EditJob]
  BY DEF FilesInv
<1>2. \A d \in Caller : job'[d] # Idle => Sound(job'[d], theirs')
  BY DEF FilesInv
<1> QED  BY <1>1, <1>2, FilesInvPrimed DEF FilesInv

LEMMA Editing ==
    ASSUME FilesInv, NEW c \in Caller, job[c].pc # "idle"
    PROVE  job[c] \in EditJob /\ Sound(job[c], theirs) /\ job[c] # Idle
<1>1. job[c] # Idle
  BY DEF Idle
<1> QED  BY <1>1 DEF FilesInv

LEMMA StartKeeps ==
    ASSUME FilesInv, NEW c \in Caller, NEW pc \in {"check", "backup"}, NEW cli \in BOOLEAN,
           NEW to, to \in EditPlans(file) \/ to \in CliPlans(file), Start(c, pc, to, cli),
           UNCHANGED <<tool, file, theirs>>
    PROVE  FilesInv'
<1> DEFINE j == [pc |-> pc, existing |-> file, contents |-> to, cli |-> cli, overtaken |-> FALSE]
<1>1. job' = [job EXCEPT ![c] = j]
  BY DEF Start
<1>2. /\ j.pc = pc /\ j.existing = file /\ j.contents = to /\ ~j.overtaken
  OBVIOUS
<1>3. WellFormed(file) /\ WellFormed(to) /\ Keeps(file, to)
  BY PlansFit DEF FilesInv
<1>4. j \in EditJob
  BY <1>3 DEF EditJob, WellFormed
<1> HIDE DEF j
<1>5. \A n \in Node : theirs[n] # None => to[n] = theirs[n]
  BY <1>3 DEF FilesInv, Keeps
<1>6. Sound(j, theirs)
  BY <1>2, <1>3, <1>5 DEF Sound
<1> QED  BY <1>1, <1>4, <1>6, OneEdit

LEMMA CheckKeeps ==
    ASSUME FilesInv, NEW c \in Caller, Check(c)  PROVE FilesInv'
<1> DEFINE q == job[c]
           n == [q EXCEPT !.pc = "backup"]
<1>1. q.pc = "check" /\ UNCHANGED <<tool, file, theirs>>
  BY DEF Check
<1>2. q \in EditJob /\ Sound(q, theirs)
  BY <1>1, Editing
<1>3. CASE file = q.existing
  <2>1. job' = [job EXCEPT ![c] = n]
    BY <1>3 DEF Check, FilesInv
  <2> HIDE DEF q
  <2>2. n \in EditJob /\ n.existing = q.existing /\ n.contents = q.contents
    BY <1>2 DEF EditJob
  <2>3. \A k \in Node : theirs[k] # None => q.contents[k] = theirs[k]
    BY <1>2, <1>3 DEF FilesInv, Sound, Keeps
  <2> HIDE DEF n
  <2>4. Sound(n, theirs)
    BY <1>2, <2>2, <2>3 DEF Sound
  <2> QED  BY <1>1, <2>1, <2>2, <2>4, OneEdit
<1>4. CASE file # q.existing
  <2>1. job' = [job EXCEPT ![c] = Idle]
    BY <1>4 DEF Check, FilesInv
  <2> QED  BY <1>1, <2>1, OneEdit
<1> QED  BY <1>3, <1>4

LEMMA BackupKeeps ==
    ASSUME FilesInv, NEW c \in Caller, Backup(c)  PROVE FilesInv'
<1> DEFINE q == job[c]
           n == [q EXCEPT !.pc = "write"]
<1>1. q.pc = "backup" /\ UNCHANGED <<tool, file, theirs>>
  BY DEF Backup
<1>2. q \in EditJob /\ Sound(q, theirs)
  BY <1>1, Editing
<1>3. job' = [job EXCEPT ![c] = n]
  BY DEF Backup, FilesInv
<1> HIDE DEF q
<1>4. /\ n \in EditJob /\ n.existing = q.existing /\ n.contents = q.contents
      /\ n.overtaken = q.overtaken
  BY <1>2 DEF EditJob
<1> HIDE DEF n
<1>5. Sound(n, theirs)
  BY <1>1, <1>2, <1>4 DEF Sound
<1> QED  BY <1>1, <1>3, <1>4, <1>5, OneEdit

\* What an edit nobody overtook writes has all the user put there.
LEMMA WriteKeeps ==
    ASSUME FilesInv, NEW c \in Caller, Write(c)  PROVE FilesInv'
<1> DEFINE q == job[c]
<1>1. q.pc = "write" /\ file' = q.contents /\ tool' = tool /\ job' = [job EXCEPT ![c] = Idle]
  BY DEF Write
<1>2. q \in EditJob /\ Sound(q, theirs)
  BY <1>1, Editing
<1>3. WellFormed(file')
  BY <1>1, <1>2 DEF Sound
<1>4. theirs \in [Node -> Value] /\ None \in Value
  BY DEF FilesInv, Value
<1>5. /\ theirs' \in [Node -> Value]
      /\ \A n \in Node : theirs'[n] # None => theirs'[n] = theirs[n] /\ file'[n] = theirs[n]
  <2>1. CASE ~q.overtaken
    <3>1. theirs' = theirs
      BY <2>1 DEF Write
    <3> QED  BY <1>1, <1>2, <1>4, <2>1, <3>1 DEF Sound
  <2>2. CASE q.overtaken
    <3>1. theirs' = [n \in Node |-> IF file'[n] = theirs[n] THEN theirs[n] ELSE None]
      BY <2>2 DEF Write
    <3> QED  BY <1>4, <3>1
  <2> QED  BY <2>1, <2>2
<1> HIDE DEF q
<1>6. job' \in [Caller -> {Idle} \cup EditJob]
  BY <1>1 DEF FilesInv
<1>7. ASSUME NEW d \in Caller, job'[d] # Idle  PROVE Sound(job'[d], theirs')
  <2>1. job'[d] = job[d] /\ Sound(job[d], theirs)
    BY <1>1, <1>7 DEF FilesInv
  <2> QED  BY <1>5, <2>1 DEF Sound
<1> QED  BY <1>1, <1>3, <1>5, <1>6, <1>7, FilesInvPrimed DEF FilesInv

\* The user's hand: a value, and the table it needs.
LEMMA SetFits ==
    ASSUME tool \in Tool, WellFormed(file), NEW n \in Node, NEW v \in Values(n),
           n \notin {"note", "block"}
    PROVE  WellFormed(Set(file, n, v))
<1> DEFINE g == Set(file, n, v)
<1>1. v \in Value /\ v \notin Ours
  BY ValuesApart DEF Values, Value
<1>2. file \in [Node -> Value] /\ \A k \in Table : file[k] \in Shapely
  BY DEF WellFormed
<1>3. \A k \in Node : g[k] = IF k = n THEN v
                    ELSE IF n \in Leaf /\ v # None /\ k = TableOf[n] /\ file[k] \in {None, Scalar}
                         THEN Plain
                    ELSE IF n \in Table /\ v \in {None, Scalar} /\ k \in Inside(n) THEN None
                    ELSE file[k]
  BY DEF Set
<1>4. g \in [Node -> Value]
  BY <1>1, <1>2 DEF Set, Value
<1> HIDE DEF g
<1>5. n \in Table => v \in Shapely
  BY DEF Values, Shapely
<1>6. n \in Leaf => v \in UserValue \cup {None, Selected}
  BY NodesLie DEF Values
<1>7. \A k \in Table : k \in Node /\ \A t : k \notin Inside(t)
  BY NodesLie DEF Inside
<1>8. \A k \in Table : g[k] \in Shapely
  BY <1>2, <1>3, <1>5, <1>7 DEF Shapely
<1>9. \A k \in Leaf : k \in Node /\ (n \in Leaf => k # TableOf[n])
  <2>1. \A k \in Leaf : k \in Node /\ k \notin Table /\ k # None
    BY NodesLie
  <2> QED  BY <2>1, NodesLie
<1>10. \A k \in Leaf : g[k] = v \/ g[k] = None \/ g[k] = file[k]
  BY <1>3, <1>9
<1>11. ASSUME NEW k \in Leaf  PROVE g[k] \notin {Plain, Inline, Scalar}
  <2>1. k # n => g[k] = None \/ g[k] = file[k]
    BY <1>3, <1>9
  <2>2. k = n => g[k] = v
    BY <1>3, <1>9
  <2>3. k # n => g[k] \notin {Plain, Inline, Scalar}
    BY <2>1, ValuesApart DEF WellFormed
  <2>4. k = n => g[k] \notin {Plain, Inline, Scalar}
    BY <1>6, <2>2, ValuesApart
  <2> QED  BY <2>3, <2>4
<1>12. ASSUME NEW k \in Node, IsOurs(g[k])  PROVE k \in Setting[tool]
  <2>1. g[k] = file[k]
    BY <1>1, <1>3, <1>12, ValuesApart
  <2> QED  BY <1>12, <2>1 DEF WellFormed
<1>13. ASSUME NEW k \in Leaf, TableOf[k] # None, g[k] # None
       PROVE  g[TableOf[k]] \in {Plain, Inline}
  <2> DEFINE t == TableOf[k]
  <2>1. t \in Table /\ t \in Node /\ k \in Inside(t) /\ k \in Node
    BY <1>13, NodesLie DEF Inside
  <2> HIDE DEF t
  <2>2. CASE n = k
    <3>1. v # None /\ t # n
      BY <1>3, <1>13, <2>1, <2>2, NodesLie
    <3>2. file[t] \in {None, Scalar} => g[t] = Plain
      BY <1>3, <2>1, <2>2, <3>1 DEF t
    <3>3. file[t] \notin {None, Scalar} => g[t] = file[t]
      BY <1>3, <2>1, <2>2, <3>1, NodesLie
    <3> QED  BY <1>2, <2>1, <3>2, <3>3 DEF Shapely, t
  <2>3. CASE n = t
    <3>1. v \notin {None, Scalar}
      BY <1>3, <1>9, <1>13, <2>1, <2>3, NodesLie
    <3> QED  BY <1>3, <1>5, <2>1, <2>3, <3>1 DEF Shapely, t
  <2>4. CASE n # k /\ n # t
    <3>1. g[k] = file[k]
      BY <1>3, <1>9, <1>13, <2>1, <2>4
    <3>2. file[t] \in {Plain, Inline}
      BY <1>13, <3>1 DEF WellFormed, t
    <3>3. g[t] = file[t]
      BY <1>3, <1>7, <2>1, <2>4, <3>2, ValuesApart
    <3> QED  BY <3>2, <3>3 DEF t
  <2> QED  BY <2>2, <2>3, <2>4
<1>14. ASSUME tool = "codex"
       PROVE  /\ g["block"] \in Ours \cup {None}
              /\ g["note"] \in UserValue \cup {None}
              /\ ~IsOurs(g["provider"])
  <2>1. \A k \in {"block", "note"} : k # n /\ k \in Leaf /\ k \in Node
    BY <1>14, CodexNodes
  <2>2. \A k \in {"block", "note"} : g[k] = None \/ g[k] = file[k]
    BY <1>3, <1>9, <2>1
  <2>3. "provider" \in Leaf
    BY <1>14, CodexNodes
  <2>4. ~IsOurs(g["provider"])
    BY <1>1, <1>10, <1>14, <2>3, ValuesApart DEF WellFormed
  <2> QED  BY <1>14, <2>2, <2>4 DEF WellFormed
<1>15. WellFormed(g)
  BY <1>4, <1>8, <1>11, <1>12, <1>13, <1>14 DEF WellFormed
<1> QED  BY <1>15 DEF g

LEMMA EditKeeps ==
    ASSUME FilesInv, NEW n \in Node, NEW v \in Values(n), Edit(n, v)  PROVE FilesInv'
<1>1. /\ tool' = tool /\ tool \in Tool /\ file' = Set(file, n, v) /\ n \notin {"note", "block"}
      /\ theirs' = [k \in Node |-> IF Users(file'[k]) /\ k # "note" THEN file'[k] ELSE None]
  BY DEF Edit, FilesInv
<1>2. WellFormed(file')
  BY <1>1, SetFits DEF FilesInv
<1>3. file' \in [Node -> Value] /\ None \in Value
  BY <1>2 DEF WellFormed, Value
<1>4. /\ theirs' \in [Node -> Value]
      /\ \A k \in Node : theirs'[k] # None =>
             file'[k] = theirs'[k] /\ Users(theirs'[k]) /\ k # "note"
  BY <1>1, <1>3
<1>5. job' = [c \in Caller |-> IF job[c].pc \in {"backup", "write"}
                               THEN [job[c] EXCEPT !.overtaken = TRUE] ELSE job[c]]
  BY DEF Edit
<1>6. ASSUME NEW c \in Caller
      PROVE  /\ job'[c] \in {Idle} \cup EditJob
             /\ job'[c] # Idle => Sound(job'[c], theirs')
  <2>1. CASE job[c].pc \in {"backup", "write"}
    <3> DEFINE q == job[c]
               m == [q EXCEPT !.overtaken = TRUE]
    <3>1. q \in EditJob /\ Sound(q, theirs)
      BY <2>1, Editing
    <3>2. job'[c] = m
      BY <1>5, <2>1
    <3> HIDE DEF q
    <3>3. m \in EditJob /\ m.existing = q.existing /\ m.contents = q.contents /\ m.overtaken
      BY <3>1 DEF EditJob
    <3> HIDE DEF m
    <3>4. Sound(m, theirs')
      BY <3>1, <3>3 DEF Sound
    <3> QED  BY <3>2, <3>3, <3>4
  <2>2. CASE job[c].pc \notin {"backup", "write"}
    <3>1. job'[c] = job[c]
      BY <1>5, <2>2
    <3>2. job[c] # Idle => Sound(job[c], theirs')
      BY <2>2 DEF FilesInv, Sound
    <3> QED  BY <3>1, <3>2 DEF FilesInv
  <2> QED  BY <2>1, <2>2
<1>7. job' \in [Caller -> {Idle} \cup EditJob]
  BY <1>5, <1>6
<1> QED  BY <1>1, <1>2, <1>4, <1>6, <1>7, FilesInvPrimed

LEMMA FilesInvStep ==
    ASSUME FilesInv, [AllNext]_<<access, agents>>  PROVE FilesInv'
<1>1. ASSUME UNCHANGED <<tool, file, job, theirs>>  PROVE FilesInv'
  BY <1>1, FilesInvPrimed DEF FilesInv
<1>2. CASE (Step /\ UNCHANGED agents) \/ UNCHANGED <<access, agents>>
  BY <1>1, <1>2 DEF agents
<1>3. ASSUME NEW c \in Caller, NEW to \in EditPlans(file), Preview(c, to) \/ Confirm(c, to) \/ Apply(c, to)
      PROVE  FilesInv'
  <2>1. CASE Preview(c, to)
    BY <1>1, <2>1 DEF Preview
  <2>2. CASE Confirm(c, to)
    BY <2>2, StartKeeps DEF Confirm
  <2>3. CASE Apply(c, to)
    BY <2>3, StartKeeps DEF Apply
  <2> QED  BY <1>3, <2>1, <2>2, <2>3
<1>4. ASSUME NEW c \in Caller, NEW to \in CliPlans(file), Cli(c, to)  PROVE FilesInv'
  BY <1>4, StartKeeps DEF Cli
<1>5. ASSUME NEW c \in Caller, Interrupt(c)  PROVE FilesInv'
  BY <1>5, OneEdit DEF Interrupt
<1>6. CASE Wiring
  BY <1>3, <1>4, <1>5, <1>6, CheckKeeps, BackupKeeps, WriteKeeps, EditKeeps DEF Wiring
<1>7. CASE DaemonDies
  <2>1. /\ job' = [c \in Caller |-> IF job[c] # Idle /\ ~job[c].cli THEN Idle ELSE job[c]]
        /\ UNCHANGED <<tool, file, theirs>>
    BY <1>7 DEF DaemonDies
  <2>2. \A c \in Caller : job'[c] = Idle \/ job'[c] = job[c]
    BY <2>1
  <2>3. job' \in [Caller -> {Idle} \cup EditJob]
    BY <2>1 DEF FilesInv
  <2> QED  BY <2>1, <2>2, <2>3, FilesInvPrimed DEF FilesInv
<1> QED  BY <1>2, <1>6, <1>7 DEF AllNext

\* What the user put in an agent's file stays there through every connect and
\* disconnect; of ours, a disconnect leaves only what lies in a table TOML keeps
\* on one line, and after a connect it gives the file back as it was.
THEOREM FilesStayTheirs == ControlSpec => []FilesStayTheUsers
<1>1. ControlInit => FilesInv
  BY FilesInvInit DEF ControlInit
<1>2. FilesInv /\ [ControlNext]_control => FilesInv'
  <2>1. ASSUME [ControlNext]_control  PROVE [AllNext]_<<access, agents>>
    BY <2>1 DEF ControlNext, control
  <2> QED  BY <2>1, FilesInvStep
<1>3. FilesInv => FilesStayTheUsers
  BY Undone DEF FilesInv, FilesStayTheUsers, OwnValuesSurvive
<1> QED  BY <1>1, <1>2, <1>3, PTL DEF ControlSpec

-----------------------------------------------------------------------------
(* Logins: the invariant *)

USE LoginsAssumption, EditsAreEntries, WordsAreWords

LoginRecord == [id : Id, at : Place, on : BOOLEAN]
Consents == [Id -> Place \cup {"no"}]
DaemonState == [logins : SUBSET LoginRecord, consent : Consents, home : Place]
Question == [command : {"connect", "init"}, asks : SUBSET LoginRecord, ledger : Consents]

\* A record whose every entry was agreed to.
Backed(ledger) == \A i \in Id : ledger[i] # "no" => <<i, ledger[i]>> \in agreed

Shapes ==
    /\ LoginsTypeOK
    /\ room \in [{"edit", "command", "call", "start"} -> Nat]
    /\ daemon # Void => daemon \in DaemonState
    /\ term # Void => term \in Question
    /\ prompt # Void => prompt.id \in Id

AllBacked ==
    /\ Backed(disk)
    /\ daemon # Void => Backed(daemon.consent)
    /\ term # Void => Backed(term.ledger)

\* What a daemon has registered, of a configuration it could start with.
Registered ==
    daemon # Void =>
        /\ NoLoginTwice
        /\ \A l \in daemon.logins : l.at = Void => l.id = DefaultId
        /\ daemon.home # Void => ~Claude /\ daemon.home = exported

\* What a waiting `connect` is about to forget has been said.
Told ==
    term # Void /\ term.command = "connect" =>
        \A l \in term.asks : \A d \in LeftBehind(l, term.ledger) :
            client[d] = l.id => <<l.id, d>> \in said

LoginsInv == Shapes /\ AllBacked /\ Registered /\ Told

-----------------------------------------------------------------------------
(* config.toml and what it declares *)

LEMMA WorldShape ==
    ASSUME LoginsTypeOK
    PROVE  /\ exported \in Place
           /\ Claude \in BOOLEAN /\ PerSpelling \in BOOLEAN
           /\ world.keychain \in BOOLEAN
BY DEF LoginsTypeOK, exported, Place, Claude, PerSpelling

LEMMA LoadedIsEntries ==
    ASSUME LoginsTypeOK  PROVE  Loaded \subseteq Entry
BY DEF LoginsTypeOK, Loaded

LEMMA DefaultIsALogin ==
    ASSUME NEW c, c \subseteq Entry
    PROVE  /\ DefaultLogin(c) \in LoginRecord
           /\ DefaultLogin(c).id = DefaultId
           /\ DefaultLogin(c).at # Void =>
                  \E e \in Placed(c) : e.id = DefaultId /\ e.dir = DefaultLogin(c).at
<1>1. CASE \E e \in c : e.id = DefaultId
  <2> DEFINE e == CHOOSE x \in c : x.id = DefaultId
  <2>1. e \in c /\ e.id = DefaultId
    BY <1>1
  <2>2. DefaultLogin(c) = Login(DefaultId, e.dir, e.on)
    BY <1>1 DEF DefaultLogin
  <2> HIDE DEF e
  <2>3. e \in Entry
    BY <2>1
  <2> QED  BY <2>1, <2>2, <2>3 DEF Login, LoginRecord, Entry, Placed
<1>2. CASE ~ \E e \in c : e.id = DefaultId
  BY <1>2 DEF DefaultLogin, Login, LoginRecord, Place
<1> QED  BY <1>1, <1>2

LEMMA AdditionalAreLogins ==
    ASSUME NEW c, c \subseteq Entry, NEW l \in Additional(c)
    PROVE  /\ l \in LoginRecord
           /\ l.at # Void /\ l.id \notin {DefaultId, MeteredId}
           /\ \E e \in Placed(c) : /\ e.kind = "login" /\ e.id = l.id /\ e.dir = l.at
                                   /\ e.on = l.on
<1>1. PICK e \in Placed(c) : /\ e.kind = "login" /\ e.id \notin {DefaultId, MeteredId}
                             /\ l = Login(e.id, e.dir, e.on)
  BY DEF Additional
<1>2. e \in Entry /\ e.dir # Void
  BY <1>1 DEF Placed
<1> QED  BY <1>1, <1>2 DEF Login, LoginRecord, Entry

LEMMA ConfiguredAreLogins ==
    ASSUME NEW c, c \subseteq Entry
    PROVE  /\ Configured(c) \subseteq LoginRecord
           /\ \A l \in Configured(c) : l.at = Void => l = DefaultLogin(c)
           /\ \A l \in Configured(c) : l.id = DefaultId => l = DefaultLogin(c)
           /\ \A l \in Configured(c) : l.at # Void =>
                  \E e \in Placed(c) : e.id = l.id /\ e.dir = l.at
BY DefaultIsALogin, AdditionalAreLogins DEF Configured

\* A valid file declares no login twice, by id or by directory.
LEMMA ValidNamesOne ==
    ASSUME NEW c, c \subseteq Entry, Valid(c),
           NEW l \in Configured(c), NEW m \in Configured(c)
    PROVE  /\ l.id = m.id => l = m
           /\ l.at # Void /\ m.at # Void /\ SameDir(l.at, m.at) => l = m
           /\ l.at # Void /\ m.at = Void => DirOf[l.at] # UsualDir
<1> USE DefaultIsALogin, AdditionalAreLogins
<1>1. CASE l = DefaultLogin(c) /\ m = DefaultLogin(c)
  BY <1>1
<1>2. CASE l \in Additional(c) /\ m \in Additional(c)
  <2>1. PICK e \in Placed(c) : e.kind = "login" /\ e.id = l.id /\ e.dir = l.at /\ e.on = l.on
    BY <1>2
  <2>2. PICK f \in Placed(c) : f.kind = "login" /\ f.id = m.id /\ f.dir = m.at /\ f.on = m.on
    BY <1>2
  <2>3. l \in LoginRecord /\ m \in LoginRecord /\ l.at # Void /\ m.at # Void
    BY <1>2
  <2>4. e = f => l = m
    BY <2>1, <2>2, <2>3 DEF LoginRecord
  <2>5. e.id = f.id => e = f
    BY <2>1, <2>2 DEF Valid, Placed
  <2>6. SameDir(e.dir, f.dir) => e = f
    BY <2>1, <2>2 DEF Valid
  <2> QED  BY <2>1, <2>2, <2>3, <2>4, <2>5, <2>6
<1>3. ASSUME NEW x \in Additional(c)
      PROVE  /\ x.id # DefaultLogin(c).id
             /\ DefaultLogin(c).at # Void => ~SameDir(x.at, DefaultLogin(c).at)
             /\ DirOf[x.at] # UsualDir
  <2>1. PICK e \in Placed(c) : e.kind = "login" /\ e.id = x.id /\ e.dir = x.at
    OBVIOUS
  <2>2. x.id # DefaultId
    OBVIOUS
  <2>3. EntryStands(e) /\ e.dir # Void
    BY <2>1 DEF Valid, Placed
  <2>4. DirOf[x.at] # UsualDir
    BY <2>1, <2>2, <2>3 DEF EntryStands, SameDir
  <2>5. ASSUME DefaultLogin(c).at # Void, SameDir(x.at, DefaultLogin(c).at)  PROVE FALSE
    <3>1. PICK f \in Placed(c) : f.id = DefaultId /\ f.dir = DefaultLogin(c).at
      BY <2>5
    <3>2. e = f
      BY <2>1, <2>5, <3>1 DEF Valid
    <3> QED  BY <2>1, <2>2, <3>1, <3>2
  <2> QED  BY <2>2, <2>4, <2>5
<1>4. (l \in Additional(c) /\ m = DefaultLogin(c)) \/ (l = DefaultLogin(c) /\ m \in Additional(c))
         \/ (l = DefaultLogin(c) /\ m = DefaultLogin(c))
         \/ (l \in Additional(c) /\ m \in Additional(c))
  BY DEF Configured
<1> QED  BY <1>1, <1>2, <1>3, <1>4 DEF SameDir

\* What a command says it is about is a login, and one the file declares if it says so.
LEMMA NamedIsALogin ==
    ASSUME NEW c, c \subseteq Entry, NEW by \in Spelling, NEW id \in Id \cup {Void},
           NEW connecting, NEW m \in NamedByDir(c, by, id, connecting)
    PROVE  /\ m.login \in LoginRecord
           /\ m.declared => m.login \in Configured(c)
           /\ m.login.at # Void
<1> DEFINE known == ByDir(c, by)
           derived == IF id # Void THEN {id}
                      ELSE IF known # {} THEN {l.id : l \in known}
                      ELSE {NameOf[by]} \ {DefaultId, MeteredId}
           means(n) == IF \E l \in known : l.id = n
                       THEN Means(CHOOSE l \in known : l.id = n, TRUE)
                       ELSE Means(Login(n, by, TRUE), FALSE)
<1>1. /\ known \subseteq Configured(c) /\ known \subseteq LoginRecord
      /\ \A l \in known : l.at # Void
  BY ConfiguredAreLogins DEF ByDir
<1>2. by # Void
  OBVIOUS
<1>3. CASE m \in InTheUsualPlace(c, by, id, connecting)
  BY <1>2, <1>3, DefaultIsALogin DEF InTheUsualPlace, Means, Login, LoginRecord, Place
<1>4. CASE m \in {means(n) : n \in derived}
  <2>1. PICK n \in derived : m = means(n)
    BY <1>4
  <2>2. n \in Id
    BY <1>1 DEF LoginRecord
  <2>3. CASE \E l \in known : l.id = n
    <3> DEFINE k == CHOOSE l \in known : l.id = n
    <3>1. k \in known
      BY <2>3
    <3>2. m = Means(k, TRUE)
      BY <2>1, <2>3
    <3> HIDE DEF k, known
    <3> QED  BY <1>1, <3>1, <3>2 DEF Means
  <2>4. CASE ~ \E l \in known : l.id = n
    <3>1. m = Means(Login(n, by, TRUE), FALSE)
      BY <2>1, <2>4
    <3> HIDE DEF known, derived
    <3> QED  BY <1>2, <2>2, <3>1 DEF Means, Login, LoginRecord, Place
  <2> QED  BY <2>3, <2>4
<1>5. m \in {} \/ m \in InTheUsualPlace(c, by, id, connecting) \/ m \in {means(n) : n \in derived}
  BY DEF NamedByDir
<1> QED  BY <1>3, <1>4, <1>5

LEMMA ResolvedIsALogin ==
    ASSUME LoginsTypeOK, NEW c, c \subseteq Entry, NEW dir \in Place, NEW id \in Id \cup {Void},
           NEW connecting, NEW m \in Resolve(c, dir, id, connecting)
    PROVE  /\ m.login \in LoginRecord
           /\ m.declared => m.login \in Configured(c)
           /\ m.login.at = Void => m.login = DefaultLogin(c)
<1> DEFINE by == IF dir = Void /\ id = Void THEN FromShell(c) ELSE dir
<1>1. by \in Place
  BY WorldShape DEF FromShell, Place
<1>2. CASE by # Void
  <2>1. m \in NamedByDir(c, by, id, connecting)
    BY <1>2 DEF Resolve
  <2>2. by \in Spelling
    BY <1>1, <1>2 DEF Place
  <2> HIDE DEF by
  <2> QED  BY <2>1, <2>2, NamedIsALogin
<1>3. CASE by = Void /\ id \notin {Void, DefaultId}
  <2>1. m \in {Means(l, TRUE) : l \in {x \in Configured(c) : x.id = id}}
    BY <1>3 DEF Resolve
  <2> QED  BY <2>1, ConfiguredAreLogins DEF Means
<1>4. CASE by = Void /\ id \in {Void, DefaultId}
  <2>1. m = Means(DefaultLogin(c), TRUE)
    BY <1>4 DEF Resolve
  <2> QED  BY <2>1, DefaultIsALogin DEF Means, Configured
<1> QED  BY <1>2, <1>3, <1>4

\* The file `connect` leaves declares the login, keeps what was there, and
\* is one a daemon starts with if it was.
LEMMA EnsuredDeclares ==
    ASSUME NEW c, c \subseteq Entry, NEW l \in LoginRecord, NEW d \in Ensure(c, l)
    PROVE  /\ c \subseteq d /\ d \subseteq Entry
           /\ Valid(c) => Valid(d)
           /\ \E e \in d : e.id = l.id /\ e.kind = "login" /\ e.dir = l.at
<1> DEFINE same == {e \in c : e.id = l.id}
           new  == [id |-> l.id, kind |-> "login", dir |-> l.at, on |-> TRUE]
<1>1. CASE same # {}
  BY <1>1 DEF Ensure
<1>2. CASE same = {}
  <2>1. d = c \cup {new} /\ Valid(d)
    BY <1>2 DEF Ensure
  <2>2. new \in Entry /\ new.id = l.id /\ new.kind = "login" /\ new.dir = l.at
    BY DEF Entry, LoginRecord
  <2> HIDE DEF new
  <2>3. new \in d /\ c \subseteq d /\ d \subseteq Entry
    BY <2>1, <2>2
  <2> QED  BY <2>1, <2>2, <2>3
<1> QED  BY <1>1, <1>2

\* A login that a file a daemon starts with declares by an entry is configured.
LEMMA DeclaredIsConfigured ==
    ASSUME NEW c, c \subseteq Entry, Valid(c), NEW e \in c, e.kind = "login", e.dir # Void
    PROVE  \E l \in Configured(c) : l.id = e.id /\ l.at = e.dir
<1>1. EntryStands(e) /\ e \in Placed(c)
  BY DEF Valid, Placed
<1>2. CASE e.id = DefaultId
  <2>1. (CHOOSE x \in c : x.id = DefaultId) = e
    BY <1>2 DEF Valid
  <2>2. DefaultLogin(c) = Login(DefaultId, e.dir, e.on)
    BY <1>2, <2>1 DEF DefaultLogin
  <2> QED  BY <1>2, <2>2 DEF Login, Configured
<1>3. CASE e.id # DefaultId
  <2>1. e.id # MeteredId
    BY <1>1, <1>3 DEF EntryStands, Discovered
  <2>2. Login(e.id, e.dir, e.on) \in Additional(c)
    BY <1>1, <1>3, <2>1 DEF Additional
  <2> QED  BY <2>2 DEF Login, Configured
<1> QED  BY <1>2, <1>3

-----------------------------------------------------------------------------
(* Clients' files and records *)

LEMMA ClientDirs ==
    /\ \A at \in Place, home \in Place : ClientDir(at, home) \in Dir
    /\ \A home \in Place : \A at \in Spelling : ClientDir(at, home) = DirOf[at]
    /\ \A home \in Place : Claude \/ home = Void => ClientDir(Void, home) = UsualDir
<1>1. ASSUME NEW home \in Place, NEW at \in Spelling  PROVE  ClientDir(at, home) = DirOf[at]
  <2>1. at # Void
    OBVIOUS
  <2> QED  BY <2>1 DEF ClientDir
<1>2. ASSUME NEW home \in Place, Claude \/ home = Void  PROVE  ClientDir(Void, home) = UsualDir
  BY <1>2 DEF ClientDir
<1>3. ASSUME NEW home \in Place  PROVE  ClientDir(Void, home) \in Dir
  <2>1. home # Void => DirOf[home] \in Dir
    BY DEF Place
  <2>2. UsualDir \in Dir
    OBVIOUS
  <2> QED  BY <2>1, <2>2 DEF ClientDir
<1> QED  BY <1>1, <1>2, <1>3 DEF Place

Written == Id \cup {Void, "theirs", "plain"}

LEMMA AccountIsWritten ==
    ASSUME NEW l \in LoginRecord  PROVE  AccountOf(l) \in Id \cup {"plain"}
BY DEF AccountOf, LoginRecord

LEMMA WiredText ==
    ASSUME NEW now \in Written, NEW url \in Id \cup {"plain"}
    PROVE  /\ Wire(now, url) \in Written /\ Unwire(now) \in Written
           /\ Wire(now, url) \in {now, url}
           /\ Unwire(now) \in {now, Void}
           /\ Unwire(now) \notin Id
           /\ now \in Id => Wire(now, "plain") = now
BY DEF Wire, Unwire, Written

LEMMA RecordedIsARecord ==
    ASSUME NEW ledger \in Consents, NEW logins \in SUBSET LoginRecord
    PROVE  /\ Recorded(ledger, logins) \in Consents
           /\ \A i \in Id : \/ Recorded(ledger, logins)[i] = ledger[i]
                            \/ \E l \in logins : l.id = i /\ Recorded(ledger, logins)[i] = l.at
<1> DEFINE rec(i) == IF \E l \in logins : l.id = i
                     THEN (CHOOSE l \in logins : l.id = i).at ELSE ledger[i]
<1>1. Recorded(ledger, logins) = [i \in Id |-> rec(i)]
  BY DEF Recorded
<1>2. ASSUME NEW i \in Id
      PROVE  /\ rec(i) \in Place \cup {"no"}
             /\ rec(i) = ledger[i] \/ \E l \in logins : l.id = i /\ rec(i) = l.at
  <2>1. CASE \E l \in logins : l.id = i
    <3> DEFINE k == CHOOSE l \in logins : l.id = i
    <3>1. k \in logins /\ k.id = i
      BY <2>1
    <3>2. rec(i) = k.at
      BY <2>1
    <3> HIDE DEF k
    <3> QED  BY <3>1, <3>2 DEF LoginRecord
  <2>2. CASE ~ \E l \in logins : l.id = i
    BY <2>2 DEF Consents
  <2> QED  BY <2>1, <2>2
<1> HIDE DEF rec
<1> QED  BY <1>1, <1>2 DEF Consents

LEMMA LeftBehindAreDirs ==
    ASSUME LoginsTypeOK, NEW l, NEW ledger
    PROVE  LeftBehind(l, ledger) \subseteq Dir
BY WorldShape, ClientDirs DEF LeftBehind, Place

-----------------------------------------------------------------------------
(* The invariant *)

LEMMA LoginsInvInit ==
    ASSUME LoginsInit  PROVE  LoginsInv
<1> USE DEF LoginsInit
<1>1. disk \in Consents /\ \A i \in Id : disk[i] = "no"
  BY DEF Consents
<1>2. client \in [Dir -> Written]
  BY DEF Written
<1>3. LoginsTypeOK
  BY <1>1, <1>2 DEF LoginsTypeOK, Consents, Written
<1>4. room \in [{"edit", "command", "call", "start"} -> Nat]
  OBVIOUS
<1> QED  BY <1>1, <1>3, <1>4 DEF LoginsInv, Shapes, AllBacked, Backed, Registered, Told

LEMMA RoomIsCounted ==
    ASSUME Shapes, NEW e \in {"edit", "command", "call", "start"}, May(e)
    PROVE  /\ room' \in [{"edit", "command", "call", "start"} -> Nat]
           /\ room'[e] # room[e]
           /\ \A f \in {"edit", "command", "call", "start"} : f # e => room'[f] = room[f]
<1>1. room \in [{"edit", "command", "call", "start"} -> Nat] /\ room[e] > 0
  BY DEF Shapes, May
<1>2. room' = [room EXCEPT ![e] = room[e] - 1]
  BY DEF May
<1>3. room[e] - 1 \in Nat /\ room[e] - 1 # room[e]
  BY <1>1
<1> QED  BY <1>1, <1>2, <1>3

\* What the warnings of a command about `logins` leave said.
LEMMA WarningsAreSaid ==
    ASSUME LoginsTypeOK, NEW logins \in SUBSET LoginRecord, NEW ledger, NEW files
    PROVE  /\ Warnings(logins, ledger, files) \subseteq Id \X Dir
           /\ \A l \in logins : \A d \in LeftBehind(l, ledger) :
                  files[d] = l.id => <<l.id, d>> \in Warnings(logins, ledger, files)
<1>1. Warnings(logins, ledger, files) \subseteq Id \X Dir
  BY DEF Warnings
<1>2. ASSUME NEW l \in logins, NEW d \in LeftBehind(l, ledger), files[d] = l.id
      PROVE  <<l.id, d>> \in Warnings(logins, ledger, files)
  <2>1. l.id \in Id /\ d \in Dir
    BY LeftBehindAreDirs DEF LoginRecord
  <2> DEFINE w == <<l.id, d>>
  <2>2. w \in Id \X Dir /\ w[1] = l.id /\ w[2] = d
    BY <2>1
  <2>3. w \in {<<x.id, y>> : x \in logins, y \in Dir}
    BY <2>1
  <2> HIDE DEF w
  <2>4. w \in {v \in Id \X Dir : files[v[2]] = v[1] /\ \E k \in logins :
                   k.id = v[1] /\ v[2] \in LeftBehind(k, ledger)}
    BY <1>2, <2>2
  <2> QED  BY <2>3, <2>4 DEF Warnings, w
<1> QED  BY <1>1, <1>2

\* A step that leaves the command, and no client newly on a login, forgets nothing.
LEMMA ToldStays ==
    ASSUME Shapes, Told, UNCHANGED world, term' = term,
           \A d \in Dir : client'[d] \in Id => client'[d] = client[d],
           StillSaid(client') \subseteq said'
    PROVE  Told'
<1> SUFFICES ASSUME term # Void, term.command = "connect",
                    NEW l \in term.asks, NEW d \in LeftBehind(l, term.ledger),
                    client'[d] = l.id
             PROVE  <<l.id, d>> \in said'
  <2>1. \A l, ledger : LeftBehind(l, ledger)' = LeftBehind(l, ledger)
    BY DEF LeftBehind, ClientDir, exported, Claude
  <2> QED  BY <2>1 DEF Told
<1>1. l \in LoginRecord /\ l.id \in Id
  BY DEF Shapes, Question, LoginRecord
<1>2. d \in Dir
  BY LeftBehindAreDirs DEF Shapes
<1>3. client[d] = l.id
  BY <1>1, <1>2
<1> DEFINE w == <<l.id, d>>
<1>4. w \in said /\ w[1] = l.id /\ w[2] = d
  BY <1>3 DEF Told
<1> HIDE DEF w
<1>5. w \in StillSaid(client')
  BY <1>4 DEF StillSaid
<1> QED  BY <1>5 DEF w

\* What a command writes into a client's file.
LEMMA WiringOfOne ==
    ASSUME LoginsTypeOK, NEW l \in LoginRecord, NEW d \in Dir,
           client' = [client EXCEPT ![d] = Wire(@, AccountOf(l))]
    PROVE  /\ client' \in [Dir -> Written]
           /\ \A x \in Dir : \/ client'[x] = client[x]
                             \/ x = d /\ client'[x] = AccountOf(l)
<1>1. AccountOf(l) \in Id \cup {"plain"}
  BY AccountIsWritten
<1>2. client \in [Dir -> Written]
  BY DEF LoginsTypeOK, Written
<1>3. Wire(client[d], AccountOf(l)) \in Written /\ Wire(client[d], AccountOf(l)) \in {client[d], AccountOf(l)}
  BY <1>1, <1>2, WiredText
<1> QED  BY <1>2, <1>3

LEMMA WiringOfAll ==
    ASSUME LoginsTypeOK, NEW logins \in SUBSET LoginRecord, client' = WireAll(logins)
    PROVE  /\ client' \in [Dir -> Written]
           /\ \A x \in Dir : \/ client'[x] = client[x]
                             \/ \E l \in logins : /\ ClientDir(l.at, exported) = x
                                                  /\ client'[x] = AccountOf(l)
<1> DEFINE wired(d) == IF \E l \in logins : ClientDir(l.at, exported) = d
                       THEN Wire(client[d], AccountOf(CHOOSE l \in logins :
                                                        ClientDir(l.at, exported) = d))
                       ELSE client[d]
<1>1. client' = [d \in Dir |-> wired(d)]
  BY DEF WireAll
<1>2. client \in [Dir -> Written]
  BY DEF LoginsTypeOK, Written
<1>3. ASSUME NEW x \in Dir
      PROVE  /\ wired(x) \in Written
             /\ \/ wired(x) = client[x]
                \/ \E l \in logins : /\ ClientDir(l.at, exported) = x
                                     /\ wired(x) = AccountOf(l)
  <2>1. CASE \E l \in logins : ClientDir(l.at, exported) = x
    <3> DEFINE k == CHOOSE l \in logins : ClientDir(l.at, exported) = x
    <3>1. k \in logins /\ ClientDir(k.at, exported) = x
      BY <2>1
    <3>2. wired(x) = Wire(client[x], AccountOf(k))
      BY <2>1
    <3> HIDE DEF k, wired
    <3>3. AccountOf(k) \in Id \cup {"plain"}
      BY <3>1, AccountIsWritten
    <3>4. client[x] \in Written
      BY <1>2
    <3>5. wired(x) \in Written /\ wired(x) \in {client[x], AccountOf(k)}
      BY <3>2, <3>3, <3>4, WiredText
    <3> QED  BY <3>1, <3>5
  <2>2. CASE ~ \E l \in logins : ClientDir(l.at, exported) = x
    BY <1>2, <2>2
  <2> QED  BY <2>1, <2>2
<1> HIDE DEF wired
<1> QED  BY <1>1, <1>3

LEMMA ToWireAreLogins ==
    ASSUME LoginsTypeOK, NEW c, c \subseteq Entry, NEW installed
    PROVE  ToWire(c, installed) \subseteq Configured(c) /\ ToWire(c, installed) \subseteq LoginRecord
BY ConfiguredAreLogins DEF ToWire

LEMMA RegisteredStays ==
    ASSUME Registered, UNCHANGED world,
           daemon # Void \/ daemon' = daemon,
           daemon' # Void => /\ daemon'.logins = daemon.logins
                             /\ daemon'.home = daemon.home
    PROVE  Registered'
BY DEF Registered, NoLoginTwice, Running, ClientDir, Claude, exported

LEMMA SaidIsTyped ==
    ASSUME LoginsTypeOK, NEW files  PROVE  StillSaid(files) \subseteq Id \X Dir
BY DEF LoginsTypeOK, StillSaid

LEMMA ConnectKeepsInv ==
    ASSUME LoginsInv, NEW dir \in Place, NEW id \in Id \cup {Void}, NEW subscription \in BOOLEAN,
           Connect(dir, id, subscription)
    PROVE  LoginsInv'
<1> USE DEF LoginsInv
<1>0. LoginsTypeOK /\ term = Void /\ May("command")
  BY DEF Shapes, Connect, Ready
<1>1. PICK m \in Resolve(Loaded, dir, id, TRUE) :
        LET l == m.login
            d == ClientDir(l.at, exported)
        IN  /\ config' \in IF m.declared \/ l.at = Void THEN {config} ELSE Ensure(config, l)
            /\ client' = [client EXCEPT ![d] = Wire(@, AccountOf(l))]
            /\ said' = StillSaid(client') \cup Warnings({l}, disk, client')
            /\ term' = IF subscription /\ Usable(l.at) /\ ~Granted(disk, l)
                       THEN [command |-> "connect", asks |-> {l}, ledger |-> disk] ELSE Void
  BY DEF Connect
<1> DEFINE l == m.login
           d == ClientDir(l.at, exported)
<1>2. l \in LoginRecord
  BY <1>0, LoadedIsEntries, ResolvedIsALogin
<1>3. d \in Dir
  BY <1>0, <1>2, WorldShape, ClientDirs DEF LoginRecord
<1>4. config' \subseteq Entry
  <2>1. config \subseteq Entry
    BY <1>0 DEF LoginsTypeOK
  <2>2. config' = config \/ config' \in Ensure(config, l)
    BY <1>1
  <2> HIDE DEF l
  <2> QED  BY <1>2, <2>1, <2>2, EnsuredDeclares
<1>5. client' \in [Dir -> Written]
  <2>1. client' = [client EXCEPT ![d] = Wire(@, AccountOf(l))]
    BY <1>1
  <2> HIDE DEF l, d
  <2> QED  BY <1>0, <1>2, <1>3, <2>1, WiringOfOne
<1>6. said' = StillSaid(client') \cup Warnings({l}, disk, client')
  BY <1>1
<1>7. term' = Void \/ term' = [command |-> "connect", asks |-> {l}, ledger |-> disk]
  BY <1>1
<1>8. UNCHANGED <<world, disk, daemon, prompt, agreed>>
  BY DEF Connect
<1> HIDE DEF l, d
<1>9. /\ Warnings({l}, disk, client') \subseteq Id \X Dir
      /\ \A x \in LeftBehind(l, disk) :
             client'[x] = l.id => <<l.id, x>> \in Warnings({l}, disk, client')
  BY <1>0, <1>2, WarningsAreSaid
<1>10. disk \in Consents
  BY <1>0 DEF LoginsTypeOK, Consents
<1>11. room' \in [{"edit", "command", "call", "start"} -> Nat]
  BY <1>0, RoomIsCounted
<1>12. said' \subseteq Id \X Dir
  BY <1>0, <1>6, <1>9, SaidIsTyped
<1>13. term' # Void => term' \in Question
  BY <1>2, <1>7, <1>10 DEF Question
<1>14. LoginsTypeOK'
  BY <1>0, <1>4, <1>5, <1>8, <1>10, <1>12 DEF LoginsTypeOK, Written, Consents
<1>15. Shapes'
  BY <1>8, <1>11, <1>13, <1>14 DEF Shapes
<1>16. AllBacked'
  BY <1>7, <1>8 DEF AllBacked, Backed
<1>17. Registered'
  BY <1>8, RegisteredStays
<1>18. Told'
  <2> SUFFICES ASSUME term' # Void, NEW x \in LeftBehind(l, disk), client'[x] = l.id
               PROVE  <<l.id, x>> \in said'
    <3>1. \A k, ledger : LeftBehind(k, ledger)' = LeftBehind(k, ledger)
      BY <1>8 DEF LeftBehind, ClientDir, exported, Claude
    <3>2. term' # Void => term'.asks = {l} /\ term'.ledger = disk
      BY <1>7
    <3> QED  BY <3>1, <3>2 DEF Told
  <2> QED  BY <1>6, <1>9
<1> QED  BY <1>15, <1>16, <1>17, <1>18

\* What leaves no command waiting has nothing left to say.
LEMMA NoQuestionNothingTold ==
    ASSUME term' = Void  PROVE  Told'
BY DEF Told

LEMMA AnswersKeepInv ==
    ASSUME LoginsInv, Accept \/ Decline
    PROVE  LoginsInv'
<1> USE DEF LoginsInv
<1>1. CASE Decline
  BY <1>1, RegisteredStays, NoQuestionNothingTold
     DEF Decline, Shapes, LoginsTypeOK, AllBacked, Backed
<1>2. CASE Accept
  <2>0. term # Void /\ term \in Question /\ term.ledger \in Consents
        /\ term.asks \in SUBSET LoginRecord /\ Backed(term.ledger)
    BY <1>2 DEF Accept, Shapes, Question, AllBacked
  <2> DEFINE asks == term.asks
             ledger == term.ledger
  <2>1. /\ disk' = Recorded(ledger, asks)
        /\ agreed' = agreed \cup {<<l.id, l.at>> : l \in asks}
        /\ term' = Void
        /\ UNCHANGED <<world, config, client, daemon, prompt, room, said>>
    BY <1>2 DEF Accept
  <2>2. ledger \in Consents /\ asks \in SUBSET LoginRecord
        /\ \A i \in Id : ledger[i] # "no" => <<i, ledger[i]>> \in agreed
    BY <2>0 DEF Backed
  <2> HIDE DEF asks, ledger
  <2>3. disk' \in Consents
    BY <2>1, <2>2, RecordedIsARecord
  <2>4. agreed' \subseteq Id \X Place
    BY <2>1, <2>2 DEF Shapes, LoginsTypeOK, LoginRecord
  <2>5. LoginsTypeOK'
    BY <2>1, <2>3, <2>4 DEF Shapes, LoginsTypeOK, Consents
  <2>6. Shapes'
    BY <2>1, <2>5 DEF Shapes
  <2>7. Backed(disk)'
    <3> SUFFICES ASSUME NEW i \in Id, disk'[i] # "no"  PROVE <<i, disk'[i]>> \in agreed'
      BY DEF Backed
    <3>1. disk'[i] = ledger[i] \/ \E l \in asks : l.id = i /\ disk'[i] = l.at
      BY <2>1, <2>2, RecordedIsARecord
    <3> QED  BY <2>1, <2>2, <3>1
  <2>8. AllBacked'
    BY <2>1, <2>7 DEF AllBacked, Backed
  <2> QED  BY <2>1, <2>6, <2>8, RegisteredStays, NoQuestionNothingTold
<1> QED  BY <1>1, <1>2

\* One file written, and not with a login it did not name before.
LEMMA OneFileWritten ==
    ASSUME NEW files \in [Dir -> Written], NEW d,
           NEW text \in {Unwire(files[d]), Wire(files[d], "plain")}
    PROVE  /\ [files EXCEPT ![d] = text] \in [Dir -> Written]
           /\ \A x \in Dir : [files EXCEPT ![d] = text][x] \in Id =>
                             [files EXCEPT ![d] = text][x] = files[x]
<1>1. CASE d \in Dir
  <2>1. files[d] \in Written
    BY <1>1
  <2>2. text \in Written /\ (text \in Id => text = files[d])
    BY <2>1, WiredText
  <2> HIDE DEF Written
  <2> QED  BY <1>1, <2>2
<1>2. CASE d \notin Dir
  <2>1. [files EXCEPT ![d] = text] = files
    BY <1>2
  <2> QED  BY <2>1
<1> QED  BY <1>1, <1>2

\* A step of the clients' files alone, that points no client at a login.
LEMMA FilesAloneKeepInv ==
    ASSUME LoginsInv, UNCHANGED <<world, config, disk, daemon, term, prompt, agreed>>,
           room' \in [{"edit", "command", "call", "start"} -> Nat],
           NEW d, NEW text \in {Unwire(client[d]), Wire(client[d], "plain")},
           client' = [client EXCEPT ![d] = text], said' = StillSaid(client')
    PROVE  LoginsInv'
<1> USE DEF LoginsInv
<1>1. client \in [Dir -> Written]
  BY DEF Shapes, LoginsTypeOK, Written
<1>2. client' \in [Dir -> Written] /\ \A x \in Dir : client'[x] \in Id => client'[x] = client[x]
  BY <1>1, OneFileWritten
<1>3. Shapes'
  BY <1>2, SaidIsTyped DEF Shapes, LoginsTypeOK, Written
<1>4. AllBacked'
  BY DEF AllBacked, Backed
<1> QED  BY <1>2, <1>3, <1>4, RegisteredStays, ToldStays

LEMMA CommandsKeepInv ==
    ASSUME LoginsInv, NEW dir \in Place, NEW id \in Id \cup {Void},
           Disconnect(dir, id) \/ RevokeLogin(dir, id) \/ Doctor
    PROVE  LoginsInv'
<1> USE DEF LoginsInv
<1>0. LoginsTypeOK /\ term = Void /\ May("command")
  BY DEF Shapes, Disconnect, RevokeLogin, Doctor, Ready
<1>1. room' \in [{"edit", "command", "call", "start"} -> Nat]
  BY <1>0, RoomIsCounted
<1>2. CASE Disconnect(dir, id)
  <2>1. PICK d : client' = [client EXCEPT ![d] = Unwire(client[d])]
    BY <1>2 DEF Disconnect
  <2> QED  BY <1>1, <1>2, <2>1, FilesAloneKeepInv DEF Disconnect
<1>3. CASE RevokeLogin(dir, id)
  <2>1. PICK i : disk' = [disk EXCEPT ![i] = "no"]
    BY <1>3 DEF RevokeLogin
  <2>2. disk \in Consents
    BY <1>0 DEF LoginsTypeOK, Consents
  <2>3. disk' \in Consents /\ \A j \in Id : disk'[j] # "no" => disk'[j] = disk[j]
    BY <2>1, <2>2 DEF Consents
  <2>4. UNCHANGED <<world, config, client, daemon, term, prompt, agreed, said>>
    BY <1>3 DEF RevokeLogin
  <2>5. Shapes'
    BY <1>1, <2>3, <2>4 DEF Shapes, LoginsTypeOK, Consents
  <2>6. AllBacked'
    BY <2>3, <2>4 DEF AllBacked, Backed
  <2> QED  BY <1>0, <2>4, <2>5, <2>6, RegisteredStays, NoQuestionNothingTold
<1>4. CASE Doctor
  <2>1. /\ said' = said \cup Warnings(Configured(Loaded), disk, client)
        /\ UNCHANGED <<world, config, client, disk, daemon, term, prompt, agreed>>
    BY <1>4 DEF Doctor
  <2>2. Configured(Loaded) \in SUBSET LoginRecord
    BY <1>0, LoadedIsEntries, ConfiguredAreLogins
  <2>3. said' \subseteq Id \X Dir
    BY <1>0, <2>1, <2>2, WarningsAreSaid DEF LoginsTypeOK
  <2>4. Shapes'
    BY <1>1, <2>1, <2>3 DEF Shapes, LoginsTypeOK
  <2>5. AllBacked'
    BY <2>1 DEF AllBacked, Backed
  <2> QED  BY <1>0, <2>1, <2>4, <2>5, RegisteredStays, NoQuestionNothingTold
<1> QED  BY <1>2, <1>3, <1>4

\* What the second half of `init` leaves in the clients' files.
LEMMA WiredByInit ==
    ASSUME LoginsTypeOK, NEW c, c \subseteq Entry, NEW ledger, WireAgents(c, ledger)
    PROVE  /\ client' \in [Dir -> Written]
           /\ said' \subseteq Id \X Dir
           /\ \A x \in Dir : \/ client'[x] = client[x]
                             \/ \E l \in Configured(c) : /\ ClientDir(l.at, exported) = x
                                                         /\ client'[x] = AccountOf(l)
<1>1. PICK installed \in BOOLEAN :
        /\ client' = WireAll(ToWire(c, installed))
        /\ said' = StillSaid(client') \cup Warnings(ToWire(c, installed), ledger, client')
  BY DEF WireAgents
<1> DEFINE these == ToWire(c, installed)
<1>2. these \in SUBSET LoginRecord /\ these \subseteq Configured(c)
  BY ToWireAreLogins
<1>3. client' = WireAll(these) /\ said' = StillSaid(client') \cup Warnings(these, ledger, client')
  BY <1>1
<1> HIDE DEF these
<1>4. Warnings(these, ledger, client') \subseteq Id \X Dir
  BY <1>2, WarningsAreSaid
<1> QED  BY <1>2, <1>3, <1>4, WiringOfAll, SaidIsTyped

LEMMA InitKeepsInv ==
    ASSUME LoginsInv, InitCommand \/ \E yes \in BOOLEAN : InitAnswer(yes)
    PROVE  LoginsInv'
<1> USE DEF LoginsInv
<1>0. LoginsTypeOK /\ Loaded \subseteq Entry /\ disk \in Consents /\ Backed(disk)
  BY LoadedIsEntries DEF Shapes, AllBacked, LoginsTypeOK, Consents
<1>1. CASE InitCommand
  <2>0. term = Void /\ May("command")
    BY <1>1 DEF InitCommand, Ready
  <2>1. room' \in [{"edit", "command", "call", "start"} -> Nat]
    BY <2>0, RoomIsCounted
  <2>2. UNCHANGED <<world, config, disk, daemon, prompt, agreed>>
    BY <1>1 DEF InitCommand
  <2>3. CASE Pending(Loaded, disk) # {}
    <3>1. /\ term' = [command |-> "init", asks |-> Pending(Loaded, disk), ledger |-> disk]
          /\ UNCHANGED <<client, said>>
      BY <1>1, <2>3 DEF InitCommand
    <3>2. Pending(Loaded, disk) \in SUBSET LoginRecord
      BY <1>0, ConfiguredAreLogins DEF Pending, FoundLogins
    <3>3. term' \in Question /\ term'.command = "init" /\ term'.ledger = disk
      BY <1>0, <3>1, <3>2 DEF Question
    <3>4. Shapes'
      BY <2>1, <2>2, <3>1, <3>3 DEF Shapes, LoginsTypeOK
    <3>5. AllBacked'
      BY <2>2, <3>3 DEF AllBacked, Backed
    <3>6. Told'
      BY <3>3 DEF Told
    <3> QED  BY <2>2, <3>4, <3>5, <3>6, RegisteredStays
  <2>4. CASE Pending(Loaded, disk) = {}
    <3>1. WireAgents(Loaded, disk) /\ UNCHANGED term
      BY <1>1, <2>4 DEF InitCommand
    <3>2. client' \in [Dir -> Written] /\ said' \subseteq Id \X Dir
      BY <1>0, <3>1, WiredByInit
    <3>3. Shapes'
      BY <2>1, <2>2, <3>1, <3>2 DEF Shapes, LoginsTypeOK, Written
    <3>4. AllBacked'
      BY <2>2, <3>1 DEF AllBacked, Backed
    <3> QED  BY <2>0, <2>2, <3>1, <3>3, <3>4, RegisteredStays, NoQuestionNothingTold
  <2> QED  BY <2>3, <2>4
<1>2. ASSUME NEW yes \in BOOLEAN, InitAnswer(yes)  PROVE LoginsInv'
  <2>0. term # Void /\ term \in Question /\ Backed(term.ledger)
    BY <1>2 DEF InitAnswer, Shapes, AllBacked
  <2> DEFINE asks == term.asks
             ledger == term.ledger
  <2>1. /\ disk' = IF yes THEN Recorded(ledger, asks) ELSE disk
        /\ agreed' = agreed \cup {<<l.id, l.at>> : l \in {x \in asks : yes}}
        /\ term' = Void
        /\ WireAgents(Loaded, disk')
        /\ UNCHANGED <<world, config, daemon, prompt, room>>
    BY <1>2 DEF InitAnswer
  <2>2. ledger \in Consents /\ asks \in SUBSET LoginRecord
        /\ \A i \in Id : ledger[i] # "no" => <<i, ledger[i]>> \in agreed
    BY <2>0 DEF Backed, Question
  <2> HIDE DEF asks, ledger
  <2>3. disk' \in Consents
    BY <1>0, <2>1, <2>2, RecordedIsARecord
  <2>4. agreed' \subseteq Id \X Place
    BY <1>0, <2>1, <2>2 DEF LoginsTypeOK, LoginRecord
  <2>5. client' \in [Dir -> Written] /\ said' \subseteq Id \X Dir
    BY <1>0, <2>1, WiredByInit
  <2>6. LoginsTypeOK'
    BY <1>0, <2>1, <2>3, <2>4, <2>5 DEF LoginsTypeOK, Consents, Written
  <2>7. Shapes'
    BY <2>1, <2>6 DEF Shapes
  <2>8. Backed(disk)'
    <3> SUFFICES ASSUME NEW i \in Id, disk'[i] # "no"  PROVE <<i, disk'[i]>> \in agreed'
      BY DEF Backed
    <3>1. CASE yes
      <4>1. disk'[i] = ledger[i] \/ \E l \in asks : l.id = i /\ disk'[i] = l.at
        BY <2>1, <2>2, <3>1, RecordedIsARecord
      <4> QED  BY <2>1, <2>2, <3>1, <4>1
    <3>2. CASE ~yes
      BY <1>0, <2>1, <3>2 DEF Backed
    <3> QED  BY <3>1, <3>2
  <2>9. AllBacked'
    BY <2>1, <2>8 DEF AllBacked, Backed
  <2> QED  BY <2>1, <2>7, <2>9, RegisteredStays, NoQuestionNothingTold
<1> QED  BY <1>1, <1>2

LEMMA EditKeepsInv ==
    ASSUME LoginsInv, EditConfig
    PROVE  LoginsInv'
<1> USE DEF LoginsInv
<1>1. /\ term = Void /\ May("edit")
      /\ UNCHANGED <<world, client, disk, daemon, term, prompt, agreed, said>>
  BY DEF EditConfig
<1>2. config' \subseteq Entry
  <2>1. PICK old \in SUBSET config, new \in SUBSET Edits : config' = (config \ old) \cup new
    BY DEF EditConfig
  <2> QED  BY <2>1 DEF Shapes, LoginsTypeOK
<1>3. room' \in [{"edit", "command", "call", "start"} -> Nat]
  BY <1>1, RoomIsCounted
<1>4. Shapes'
  BY <1>1, <1>2, <1>3 DEF Shapes, LoginsTypeOK
<1>5. AllBacked'
  BY <1>1 DEF AllBacked, Backed
<1> QED  BY <1>1, <1>4, <1>5, RegisteredStays, NoQuestionNothingTold

\* What build_registry makes of a file a daemon starts with.
LEMMA RegistryReadsApart ==
    ASSUME NEW c, c \subseteq Entry, Valid(c), NEW locked
    PROVE  /\ Registry(c, locked) \subseteq LoginRecord
           /\ \A l \in Registry(c, locked) : l.at = Void => l.id = DefaultId
           /\ \A l, m \in Registry(c, locked) :
                  ClientDir(l.at, Void) = ClientDir(m.at, Void) => l = m
<1>1. Registry(c, locked) \subseteq Configured(c)
  BY DEF Registry, Configured
<1>2. /\ Registry(c, locked) \subseteq LoginRecord
      /\ \A l \in Registry(c, locked) : l.at = Void => l = DefaultLogin(c)
      /\ \A l \in Registry(c, locked) : l.at = Void => l.id = DefaultId
  BY <1>1, ConfiguredAreLogins, DefaultIsALogin
<1>3. ASSUME NEW l \in Registry(c, locked), NEW m \in Registry(c, locked),
             ClientDir(l.at, Void) = ClientDir(m.at, Void)
      PROVE  l = m
  <2>1. l.at \in Place /\ m.at \in Place
    BY <1>2 DEF LoginRecord
  <2>2. \A at \in Spelling : at # Void /\ ClientDir(at, Void) = DirOf[at]
    BY ClientDirs DEF Place
  <2>3. ClientDir(Void, Void) = UsualDir
    BY ClientDirs DEF Place
  <2>4. CASE l.at # Void /\ m.at # Void
    BY <1>1, <1>3, <2>1, <2>2, <2>4, ValidNamesOne DEF Place, SameDir
  <2>5. CASE l.at # Void /\ m.at = Void
    BY <1>1, <1>3, <2>1, <2>2, <2>3, <2>5, ValidNamesOne DEF Place
  <2>6. CASE l.at = Void /\ m.at # Void
    BY <1>1, <1>3, <2>1, <2>2, <2>3, <2>6, ValidNamesOne DEF Place
  <2>7. CASE l.at = Void /\ m.at = Void
    BY <1>2, <2>7
  <2> QED  BY <2>4, <2>5, <2>6, <2>7
<1> QED  BY <1>2, <1>3

LEMMA StartKeepsInv ==
    ASSUME LoginsInv, StartDaemon
    PROVE  LoginsInv'
<1> USE DEF LoginsInv
<1>1. UNCHANGED <<world, config, client, disk, term, prompt, agreed, said>> /\ May("start")
  BY DEF StartDaemon
<1>2. room' \in [{"edit", "command", "call", "start"} -> Nat]
  BY <1>1, RoomIsCounted
<1>3. LoginsTypeOK /\ config \subseteq Entry /\ disk \in Consents /\ Backed(disk)
  BY DEF Shapes, LoginsTypeOK, Consents, AllBacked
<1>4. daemon' = Void \/ \E home \in {Void, exported}, locked \in {FALSE, PerSpelling} :
          /\ Valid(config)
          /\ daemon' = [logins |-> Registry(config, locked), consent |-> disk,
                        home |-> IF Claude THEN Void ELSE home]
  BY DEF StartDaemon
<1>5. ASSUME NEW home \in {Void, exported}, NEW locked \in {FALSE, PerSpelling}, Valid(config),
             daemon' = [logins |-> Registry(config, locked), consent |-> disk,
                        home |-> IF Claude THEN Void ELSE home]
      PROVE  daemon' \in DaemonState /\ Backed(disk) /\ daemon'.consent = disk /\ Registered'
  <2> DEFINE reg == Registry(config, locked)
             h == IF Claude THEN Void ELSE home
  <2>1. /\ reg \subseteq LoginRecord
        /\ \A l \in reg : l.at = Void => l.id = DefaultId
        /\ \A l, m \in reg : ClientDir(l.at, Void) = ClientDir(m.at, Void) => l = m
    BY <1>3, <1>5, RegistryReadsApart
  <2>2. h \in Place /\ (h # Void => ~Claude /\ h = exported)
    BY <1>3, WorldShape DEF Place
  <2>3. daemon' = [logins |-> reg, consent |-> disk, home |-> h]
    BY <1>5
  <2> HIDE DEF reg, h
  <2>4. daemon' \in DaemonState
    BY <1>3, <2>1, <2>2, <2>3 DEF DaemonState
  <2>5. daemon'.logins = reg /\ daemon'.home = h /\ daemon'.consent = disk
    BY <2>3
  <2>6. \A at : ClientDir(at, Void)' = ClientDir(at, Void)
    BY <1>1 DEF ClientDir, Claude
  <2>7. NoLoginTwice'
    BY <2>1, <2>5, <2>6 DEF NoLoginTwice
  <2>8. Registered'
    BY <1>1, <2>1, <2>2, <2>5, <2>7 DEF Registered, Claude, exported
  <2> QED  BY <1>3, <2>4, <2>5, <2>8
<1>6. daemon' # Void => daemon' \in DaemonState /\ daemon'.consent = disk /\ Registered'
  BY <1>4, <1>5
<1>7. Shapes'
  BY <1>1, <1>2, <1>6 DEF Shapes, LoginsTypeOK
<1>8. AllBacked'
  BY <1>1, <1>6 DEF AllBacked, Backed
<1>9. Registered'
  BY <1>6 DEF Registered
<1>10. Told'
  BY <1>1, ToldStays DEF StillSaid
<1> QED  BY <1>7, <1>8, <1>9, <1>10

\* A change of the daemon's record that is saved at once.
LEMMA SavedKeepsInv ==
    ASSUME LoginsInv, daemon # Void, NEW i \in Id, NEW at \in Place \cup {"no"},
           daemon' = [daemon EXCEPT !.consent[i] = at], disk' = daemon'.consent,
           agreed' = agreed \cup {<<i, x>> : x \in {y \in Place : y = at}} \/ (agreed' = agreed /\ at = "no"),
           room' \in [{"edit", "command", "call", "start"} -> Nat],
           UNCHANGED <<world, config, client, term, prompt, said>>
    PROVE  LoginsInv'
<1> USE DEF LoginsInv
<1>1. daemon \in DaemonState /\ daemon.consent \in Consents /\ Backed(daemon.consent)
  BY DEF Shapes, AllBacked, DaemonState
<1> DEFINE now == [daemon.consent EXCEPT ![i] = at]
<1>2. daemon' = [daemon EXCEPT !.consent = now]
  OBVIOUS
<1>3. now \in Consents /\ now[i] = at /\ \A j \in Id : j # i => now[j] = daemon.consent[j]
  BY <1>1 DEF Consents
<1> HIDE DEF now
<1>4. /\ daemon' \in DaemonState
      /\ daemon'.logins = daemon.logins /\ daemon'.home = daemon.home
      /\ daemon'.consent = now /\ disk' = now
  BY <1>1, <1>2, <1>3 DEF DaemonState
<1>5. agreed \subseteq agreed' /\ agreed' \subseteq Id \X Place /\ (at # "no" => <<i, at>> \in agreed')
  BY DEF Shapes, LoginsTypeOK
<1>6. \A j \in Id : now[j] # "no" => <<j, now[j]>> \in agreed'
  BY <1>1, <1>3, <1>5 DEF Backed
<1>7. Shapes'
  BY <1>3, <1>4, <1>5 DEF Shapes, LoginsTypeOK, Consents
<1>8. AllBacked'
  <2>1. term' # Void => Backed(term.ledger)
    BY DEF AllBacked
  <2> QED  BY <1>4, <1>5, <1>6, <2>1 DEF AllBacked, Backed
<1>9. Registered'
  BY <1>4, RegisteredStays
<1>10. Told'
  BY ToldStays DEF StillSaid
<1> QED  BY <1>7, <1>8, <1>9, <1>10

LEMMA GuiKeepsInv ==
    ASSUME LoginsInv, Consent \/ \E id \in Id : Show(id) \/ Withdraw(id)
    PROVE  LoginsInv'
<1> USE DEF LoginsInv
<1>0. daemon # Void /\ daemon \in DaemonState
  BY DEF Consent, Show, Withdraw, Running, Shapes
<1>00. \A id : Asked(id) \subseteq Place
  BY <1>0 DEF Asked, DaemonState, LoginRecord, Place
<1>1. ASSUME NEW id \in Id, Show(id)  PROVE LoginsInv'
  <2>1. UNCHANGED <<world, config, client, disk, daemon, term, room, agreed, said>>
    BY <1>1 DEF Show
  <2>2. prompt'.id = id
    BY <1>1 DEF Show
  <2>3. Shapes'
    BY <2>1, <2>2 DEF Shapes, LoginsTypeOK
  <2>4. AllBacked'
    BY <2>1 DEF AllBacked, Backed
  <2> QED  BY <2>1, <2>3, <2>4, RegisteredStays, ToldStays DEF StillSaid
<1>2. ASSUME NEW id \in Id, Withdraw(id)  PROVE LoginsInv'
  <2>1. /\ May("call")
        /\ daemon' = [daemon EXCEPT !.consent[id] = "no"]
        /\ disk' = daemon'.consent
        /\ UNCHANGED <<world, config, client, term, prompt, agreed, said>>
    BY <1>2 DEF Withdraw
  <2> QED  BY <1>0, <2>1, RoomIsCounted, SavedKeepsInv
<1>3. CASE Consent
  <2>1. /\ prompt # Void /\ May("call")
        /\ disk' = daemon'.consent
        /\ agreed' = agreed \cup {<<prompt.id, prompt.at>>}
        /\ UNCHANGED <<world, config, client, term, prompt, said>>
    BY <1>3 DEF Consent
  <2>2. PICK at \in Asked(prompt.id) :
          prompt.at = at /\ daemon' = [daemon EXCEPT !.consent[prompt.id] = at]
    BY <1>3 DEF Consent, SameQuestion
  <2> DEFINE i == prompt.id
  <2>3. i \in Id /\ at \in Place
    BY <1>00, <2>1 DEF Shapes
  <2>4. daemon' = [daemon EXCEPT !.consent[i] = at] /\ agreed' = agreed \cup {<<i, at>>}
    BY <2>1, <2>2
  <2> HIDE DEF i
  <2>5. agreed' = agreed \cup {<<i, x>> : x \in {y \in Place : y = at}}
    BY <2>3, <2>4
  <2> QED  BY <1>0, <2>1, <2>3, <2>4, <2>5, RoomIsCounted, SavedKeepsInv
<1> QED  BY <1>1, <1>2, <1>3

LEMMA ToolsKeepInv ==
    ASSUME LoginsInv, ToolConnect \/ ToolDisconnect
    PROVE  LoginsInv'
<1>1. May("call")
  BY DEF ToolConnect, ToolDisconnect
<1>2. room' \in [{"edit", "command", "call", "start"} -> Nat]
  BY <1>1, RoomIsCounted DEF LoginsInv
<1>3. CASE ToolConnect
  <2>1. PICK d : client' = [client EXCEPT ![d] = Wire(client[d], "plain")]
    BY <1>3 DEF ToolConnect
  <2> QED  BY <1>2, <1>3, <2>1, FilesAloneKeepInv DEF ToolConnect
<1>4. CASE ToolDisconnect
  <2>1. PICK d : client' = [client EXCEPT ![d] = Unwire(client[d])]
    BY <1>4 DEF ToolDisconnect
  <2> QED  BY <1>2, <1>4, <2>1, FilesAloneKeepInv DEF ToolDisconnect
<1> QED  BY <1>3, <1>4

LEMMA LoginsInvStep ==
    ASSUME LoginsInv, [LoginsNext]_loginVars  PROVE LoginsInv'
<1>1. ASSUME NEW dir \in Place, NEW id \in Id \cup {Void},
             NEW subscription \in BOOLEAN, Connect(dir, id, subscription)
      PROVE  LoginsInv'
  BY <1>1, ConnectKeepsInv
<1>2. ASSUME NEW dir \in Place, NEW id \in Id \cup {Void},
             Disconnect(dir, id) \/ RevokeLogin(dir, id)
      PROVE  LoginsInv'
  BY <1>2, CommandsKeepInv
<1>3. CASE Doctor
  BY <1>3, CommandsKeepInv DEF Place
<1>4. CASE UNCHANGED loginVars
  <2> USE <1>4 DEF LoginsInv, loginVars
  <2>1. Shapes'
    BY DEF Shapes, LoginsTypeOK
  <2>2. AllBacked'
    BY DEF AllBacked, Backed
  <2>3. Registered'
    BY RegisteredStays
  <2> QED  BY <2>1, <2>2, <2>3, ToldStays DEF StillSaid
<1> QED
  BY <1>1, <1>2, <1>3, <1>4, AnswersKeepInv, InitKeepsInv, EditKeepsInv, StartKeepsInv,
     GuiKeepsInv, ToolsKeepInv
  DEF LoginsNext

-----------------------------------------------------------------------------
(* The theorems *)

LEMMA ControlStepOfLogins ==
    ASSUME [ControlNext]_control  PROVE [LoginsNext]_loginVars
BY DEF ControlNext, control, loginVars

LEMMA LoginsInvHolds == ControlSpec => []LoginsInv
<1>1. ControlInit => LoginsInv
  BY LoginsInvInit DEF ControlInit
<1>2. LoginsInv /\ [ControlNext]_control => LoginsInv'
  BY LoginsInvStep, ControlStepOfLogins
<1> QED  BY <1>1, <1>2, PTL DEF ControlSpec

\* A daemon reads no login twice, and uses a subscription only if the user
\* said yes to a question that named its id and the place it is read from.
THEOREM AgreedTo == ControlSpec => []ConsentNamesOneLogin
<1>1. LoginsInv => ConsentNamesOneLogin
  <2> SUFFICES ASSUME LoginsInv  PROVE ConsentNamesOneLogin
    OBVIOUS
  <2>1. NoLoginTwice
    BY DEF LoginsInv, Registered, NoLoginTwice, Running
  <2>2. OnlyTheLoginAgreedTo
    <3> SUFFICES ASSUME Running, NEW l \in daemon.logins, daemon.consent[l.id] = l.at
                 PROVE  <<l.id, l.at>> \in agreed
      BY DEF OnlyTheLoginAgreedTo, Granted, Answers
    <3>1. daemon \in DaemonState /\ Backed(daemon.consent)
      BY DEF LoginsInv, Shapes, AllBacked, Running
    <3>2. l.id \in Id /\ l.at \in Place
      BY <3>1 DEF DaemonState, LoginRecord
    <3>3. daemon.consent[l.id] # "no"
      BY <3>2
    <3> QED  BY <3>1, <3>2, <3>3 DEF Backed
  <2> QED  BY <2>1, <2>2 DEF ConsentNamesOneLogin
<1> QED  BY <1>1, LoginsInvHolds, PTL

\* Whoever changes config.toml but the user, adds to it, and leaves a file
\* that a daemon starts with if it was one.
THEOREM ConfigStaysStartable == ControlSpec => StaysStartable
<1> DEFINE Kept == config' # config /\ room'.edit = room.edit =>
                       (Valid(config) => Valid(config')) /\ config \subseteq config'
<1>1. ASSUME LoginsInv, [ControlNext]_control  PROVE [Kept]_loginVars
  <2> SUFFICES ASSUME config' # config, room'.edit = room.edit
               PROVE  (Valid(config) => Valid(config')) /\ config \subseteq config'
    OBVIOUS
  <2>1. LoginsNext
    BY <1>1, ControlStepOfLogins DEF loginVars
  <2>2. ~EditConfig
    BY <1>1, RoomIsCounted DEF EditConfig, LoginsInv
  <2>3. PICK dir \in Place, id \in Id \cup {Void}, subscription \in BOOLEAN :
          Connect(dir, id, subscription)
    BY <2>1, <2>2
    DEF LoginsNext, Disconnect, RevokeLogin, Accept, Decline, InitCommand, InitAnswer, Doctor,
        StartDaemon, Show, Withdraw, Consent, ToolConnect, ToolDisconnect
  <2>4. PICK m \in Resolve(Loaded, dir, id, TRUE) :
          config' \in IF m.declared \/ m.login.at = Void THEN {config} ELSE Ensure(config, m.login)
    BY <2>3 DEF Connect
  <2>5. config' \in Ensure(config, m.login)
    BY <2>4
  <2>6. config \subseteq Entry /\ m.login \in LoginRecord
    BY <1>1, LoadedIsEntries, ResolvedIsALogin DEF LoginsInv, Shapes, LoginsTypeOK
  <2> QED  BY <2>5, <2>6, EnsuredDeclares
<1> QED  BY <1>1, LoginsInvHolds, PTL DEF ControlSpec, StaysStartable

\* `connect` has named the client a moved login leaves behind by the time the
\* yes makes the ledger forget where the login was.
THEOREM SaidBeforeForgotten == ControlSpec => ConnectSaysFirst
<1>1. ASSUME LoginsInv, [ControlNext]_control  PROVE [Accept => Tells(said)]_loginVars
  <2> SUFFICES ASSUME Accept, NEW i \in Id, disk'[i] \in Place,
                      term.ledger[i] \in Spelling, disk'[i] # term.ledger[i]
               PROVE  LET d == DirOf[term.ledger[i]]
                      IN  \/ d = ClientDir(disk'[i], exported)
                          \/ client[d] # i
                          \/ <<i, d>> \in said
    BY DEF Tells
  <2>1. /\ term \in Question /\ Told /\ term # Void /\ term.command = "connect"
        /\ disk' = Recorded(term.ledger, term.asks)
    BY <1>1 DEF Accept, LoginsInv, Shapes
  <2> DEFINE ledger == term.ledger
             asks == term.asks
             d == DirOf[ledger[i]]
  <2>2. /\ ledger \in Consents /\ asks \in SUBSET LoginRecord
        /\ disk' = Recorded(ledger, asks)
        /\ ledger[i] \in Spelling /\ disk'[i] # ledger[i]
    BY <2>1 DEF Question
  <2>3. \A l \in asks : \A x \in LeftBehind(l, ledger) : client[x] = l.id => <<l.id, x>> \in said
    BY <2>1 DEF Told
  <2> SUFFICES d = ClientDir(disk'[i], exported) \/ client[d] # i \/ <<i, d>> \in said
    OBVIOUS
  <2> HIDE DEF ledger, asks
  <2>4. PICK l \in asks : l.id = i /\ disk'[i] = l.at
    BY <2>2, RecordedIsARecord
  <2>5. d \in {DirOf[s] : s \in {x \in Spelling : x = ledger[l.id]}}
    BY <2>2, <2>4
  <2> HIDE DEF d
  <2>6. d = ClientDir(l.at, exported) \/ d \in LeftBehind(l, ledger)
    BY <2>5 DEF LeftBehind
  <2> QED  BY <2>3, <2>4, <2>6
<1> QED  BY <1>1, LoginsInvHolds, PTL DEF ControlSpec, ConnectSaysFirst

-----------------------------------------------------------------------------
(* The URL a client is given is that of the login beside it *)

\* In a file a daemon starts with, the URL of a login reaches the directory
\* the login is kept in, and nothing else.
LEMMA AccountReaches ==
    ASSUME LoginsTypeOK, Claude \/ exported = Void,
           NEW c, c \subseteq Entry, Valid(c),
           NEW l \in Configured(c), NEW d, d = ClientDir(l.at, exported)
    PROVE  ReachesItsOwn(Configured(c), d, AccountOf(l), exported)
<1> DEFINE logins == Configured(c)
<1>1. \A x \in logins : x \in LoginRecord /\ (x.id = DefaultId => x = DefaultLogin(c))
                         /\ (x.at = Void => x = DefaultLogin(c))
  BY ConfiguredAreLogins
<1>2. l.id \in Id /\ l.id # "plain"
  BY <1>1 DEF LoginRecord
<1>3. DefaultLogin(c).id = DefaultId
  BY DefaultIsALogin
<1>4. \A x \in logins : x.id = l.id => x = l
  BY ValidNamesOne
<1>5. CASE OwnsThePlainUrl(l)
  <2>1. AccountOf(l) = "plain"
    BY <1>5 DEF AccountOf
  <2>2. Serves(logins, "plain") = {x \in logins : x.id = DefaultId /\ x.at = Void}
    BY DEF Serves
  <2>3. l.id = DefaultId /\ l.at = Void
    BY <1>5 DEF OwnsThePlainUrl
  <2>4. l \in Serves(logins, "plain") /\ \A x \in Serves(logins, "plain") : x = l
    BY <1>4, <2>2, <2>3
  <2> QED  BY <2>1, <2>4 DEF ReachesItsOwn
<1>6. CASE ~OwnsThePlainUrl(l)
  <2>1. AccountOf(l) = l.id
    BY <1>6 DEF AccountOf
  <2>2. Serves(logins, l.id) = {x \in logins : x.id = l.id}
    BY <1>2 DEF Serves
  <2>3. l \in Serves(logins, l.id) /\ \A x \in Serves(logins, l.id) : x = l
    BY <1>4, <2>2
  <2> QED  BY <2>1, <2>3 DEF ReachesItsOwn
<1> QED  BY <1>5, <1>6

LEMMA ConnectReaches ==
    ASSUME LoginsInv, Claude \/ exported = Void,
           NEW dir \in Place, NEW id \in Id \cup {Void}, NEW subscription \in BOOLEAN,
           Connect(dir, id, subscription), Valid(config'),
           NEW d \in Dir, client'[d] # client[d]
    PROVE  ReachesItsOwn(Configured(config'), d, client'[d], exported)
<1>0. LoginsTypeOK
  BY DEF LoginsInv, Shapes
<1>1. PICK m \in Resolve(Loaded, dir, id, TRUE) :
        /\ config' \in IF m.declared \/ m.login.at = Void THEN {config} ELSE Ensure(config, m.login)
        /\ client' = [client EXCEPT ![ClientDir(m.login.at, exported)] = Wire(@, AccountOf(m.login))]
  BY DEF Connect
<1> DEFINE l == m.login
<1>2. /\ l \in LoginRecord
      /\ m.declared => l \in Configured(Loaded)
      /\ l.at = Void => l = DefaultLogin(Loaded)
  BY <1>0, LoadedIsEntries, ResolvedIsALogin
<1>3. ClientDir(l.at, exported) \in Dir
  BY <1>0, <1>2, WorldShape, ClientDirs DEF LoginRecord
<1>4. client' = [client EXCEPT ![ClientDir(l.at, exported)] = Wire(@, AccountOf(l))]
  BY <1>1
<1>5. config' \in IF m.declared \/ l.at = Void THEN {config} ELSE Ensure(config, l)
  BY <1>1
<1> HIDE DEF l
<1>6. d = ClientDir(l.at, exported) /\ client'[d] = AccountOf(l)
  BY <1>0, <1>2, <1>3, <1>4, WiringOfOne
<1>7. config \subseteq Entry
  BY <1>0 DEF LoginsTypeOK
<1>8. CASE m.declared \/ l.at = Void
  <2>1. config' = config /\ Loaded = config
    BY <1>5, <1>8 DEF Loaded
  <2>2. l \in Configured(config)
    BY <1>2, <1>8, <2>1 DEF Configured
  <2>3. Valid(config)
    BY <2>1
  <2> QED  BY <1>0, <1>6, <1>7, <2>1, <2>2, <2>3, AccountReaches
<1>9. CASE ~m.declared /\ l.at # Void
  <2>1. config' \in Ensure(config, l)
    BY <1>5, <1>9
  <2>2. config' \subseteq Entry
    BY <1>2, <1>7, <2>1, EnsuredDeclares
  <2>3. PICK e \in config' : e.id = l.id /\ e.kind = "login" /\ e.dir = l.at
    BY <1>2, <1>7, <2>1, EnsuredDeclares
  <2>4. PICK k \in Configured(config') : k.id = l.id /\ k.at = l.at
    BY <1>9, <2>2, <2>3, DeclaredIsConfigured
  <2>5. AccountOf(k) = AccountOf(l)
    BY <2>4 DEF AccountOf, OwnsThePlainUrl
  <2> DEFINE c == config'
  <2>6. /\ c \subseteq Entry /\ Valid(c) /\ k \in Configured(c)
        /\ d = ClientDir(k.at, exported) /\ client'[d] = AccountOf(k)
    BY <1>6, <2>2, <2>4, <2>5
  <2> HIDE DEF c
  <2>7. ReachesItsOwn(Configured(c), d, client'[d], exported)
    BY <1>0, <2>6, AccountReaches
  <2> QED  BY <2>7 DEF c
<1> QED  BY <1>8, <1>9

LEMMA InitReaches ==
    ASSUME LoginsInv, Claude \/ exported = Void, NEW ledger, WireAgents(Loaded, ledger),
           config' = config, Valid(config'), NEW d \in Dir, client'[d] # client[d]
    PROVE  ReachesItsOwn(Configured(config'), d, client'[d], exported)
<1>1. LoginsTypeOK /\ Valid(config) /\ Loaded = config /\ config \subseteq Entry
  BY DEF LoginsInv, Shapes, LoginsTypeOK, Loaded
<1>2. PICK l \in Configured(config) :
        ClientDir(l.at, exported) = d /\ client'[d] = AccountOf(l)
  BY <1>1, WiredByInit
<1> QED  BY <1>1, <1>2, AccountReaches

LEMMA ToolReaches ==
    ASSUME LoginsInv, Claude \/ exported = Void, ToolConnect,
           NEW d \in Dir, client'[d] # client[d]
    PROVE  \/ ReachesItsOwn(daemon.logins, d, client'[d], daemon.home)
           \/ \E l \in daemon.logins : l.at # Void /\ DirOf[l.at] = d /\ l.at # ToolPlace
<1> SUFFICES ASSUME \A l \in daemon.logins : l.at # Void /\ DirOf[l.at] = d => l.at = ToolPlace
             PROVE  ReachesItsOwn(daemon.logins, d, client'[d], daemon.home)
  OBVIOUS
<1>0. /\ LoginsTypeOK /\ daemon \in DaemonState /\ exported \in Place
      /\ \A l \in daemon.logins : l.at = Void => l.id = DefaultId
      /\ daemon.home = Void
  BY WorldShape DEF LoginsInv, Shapes, ToolConnect, Running, Registered
<1>1. client' = [client EXCEPT ![DirOf[ToolPlace]] = Wire(@, "plain")]
      /\ (client[DirOf[ToolPlace]] \notin Id => \A l \in daemon.logins : l.at # ToolPlace)
  BY DEF ToolConnect
<1>2. ToolPlace = UsualSpelling /\ DirOf[ToolPlace] = UsualDir
  BY <1>0 DEF ToolPlace
<1>3. client \in [Dir -> Written]
  BY <1>0 DEF LoginsTypeOK, Written
<1>4. d = UsualDir /\ client'[d] = Wire(client[d], "plain")
  BY <1>1, <1>2, <1>3
<1>5. client[d] \notin Id /\ client'[d] = "plain"
  BY <1>3, <1>4, WiredText
<1>6. \A l \in daemon.logins : l.at # ToolPlace
  BY <1>1, <1>2, <1>4, <1>5
<1>7. \A l \in daemon.logins : l.at \in Place
  BY <1>0 DEF DaemonState, LoginRecord
<1>8. /\ \A at \in Spelling : at # Void /\ ClientDir(at, Void) = DirOf[at]
      /\ ClientDir(Void, Void) = UsualDir
  BY ClientDirs DEF Place
<1>9. \A l \in daemon.logins : ClientDir(l.at, Void) = d => l.at = Void /\ l.id = DefaultId
  BY <1>0, <1>6, <1>7, <1>8 DEF Place
<1>10. Serves(daemon.logins, "plain") = {l \in daemon.logins : l.id = DefaultId /\ l.at = Void}
  BY DEF Serves
<1>11. ReachesItsOwn(daemon.logins, d, "plain", Void)
  BY <1>4, <1>8, <1>9, <1>10 DEF ReachesItsOwn
<1> QED  BY <1>0, <1>5, <1>11

\* The URL written into a client's file is that of the login kept beside it.
THEOREM WiredRight == ControlSpec => WiredToItsOwn
<1> DEFINE Wired ==
      Claude \/ exported = Void =>
        \A d \in Dir : client'[d] # client[d] /\ client'[d] # Void =>
            IF room'.command # room.command \/ term' # term
            THEN Valid(config') => ReachesItsOwn(Configured(config'), d, client'[d], exported)
            ELSE \/ ReachesItsOwn(daemon.logins, d, client'[d], daemon.home)
                 \/ \E l \in daemon.logins : l.at # Void /\ DirOf[l.at] = d
                                             /\ l.at # ToolPlace
<1>1. ASSUME LoginsInv, [ControlNext]_control  PROVE [Wired]_loginVars
  <2> SUFFICES ASSUME Claude \/ exported = Void, NEW d \in Dir,
                      client'[d] # client[d], client'[d] # Void
               PROVE  IF room'.command # room.command \/ term' # term
                      THEN Valid(config') =>
                               ReachesItsOwn(Configured(config'), d, client'[d], exported)
                      ELSE \/ ReachesItsOwn(daemon.logins, d, client'[d], daemon.home)
                           \/ \E l \in daemon.logins : l.at # Void /\ DirOf[l.at] = d
                                                       /\ l.at # ToolPlace
    OBVIOUS
  <2>0. Shapes
    BY <1>1 DEF LoginsInv
  <2>1. LoginsNext
    BY <1>1, ControlStepOfLogins DEF loginVars
  <2>2. CASE ToolConnect
    <3>1. term' = term /\ May("call")
      BY <2>2 DEF ToolConnect
    <3>2. room'.command = room.command
      BY <2>0, <3>1, RoomIsCounted
    <3> QED  BY <1>1, <2>2, <3>1, <3>2, ToolReaches
  <2>3. ASSUME NEW dir \in Place, NEW id \in Id \cup {Void}, NEW subscription \in BOOLEAN,
               Connect(dir, id, subscription)
        PROVE  room'.command # room.command
               /\ (Valid(config') => ReachesItsOwn(Configured(config'), d, client'[d], exported))
    <3>1. room'.command # room.command
      BY <2>0, <2>3, RoomIsCounted DEF Connect, Ready
    <3> QED  BY <1>1, <2>3, <3>1, ConnectReaches
  <2>4. CASE InitCommand
    <3>1. room'.command # room.command /\ config' = config
      BY <2>0, <2>4, RoomIsCounted DEF InitCommand, Ready
    <3>2. WireAgents(Loaded, disk)
      BY <2>4 DEF InitCommand
    <3> QED  BY <1>1, <3>1, <3>2, InitReaches
  <2>5. ASSUME NEW yes \in BOOLEAN, InitAnswer(yes)
        PROVE  term' # term
               /\ (Valid(config') => ReachesItsOwn(Configured(config'), d, client'[d], exported))
    <3>1. term' # term /\ config' = config /\ WireAgents(Loaded, disk')
      BY <2>5 DEF InitAnswer
    <3> DEFINE ledger == disk'
    <3>2. WireAgents(Loaded, ledger)
      BY <3>1
    <3> HIDE DEF ledger
    <3> QED  BY <1>1, <3>1, <3>2, InitReaches
  <2>6. ASSUME NEW f, NEW e, client' = [client EXCEPT ![e] = Unwire(client[e])]
        PROVE  FALSE
    <3>1. client \in [Dir -> Written]
      BY <2>0 DEF Shapes, LoginsTypeOK, Written
    <3>2. d = e /\ client'[d] = Unwire(client[d])
      BY <2>6, <3>1
    <3> QED  BY <3>1, <3>2, WiredText
  <2>7. ~ToolDisconnect
    BY <2>6 DEF ToolDisconnect
  <2>8. \A dir \in Place, id \in Id \cup {Void} : ~Disconnect(dir, id)
    BY <2>6 DEF Disconnect
  <2>9. client' # client
    OBVIOUS
  <2>10. /\ \A dir \in Place, id \in Id \cup {Void} : ~RevokeLogin(dir, id)
         /\ ~Accept /\ ~Decline /\ ~Doctor /\ ~EditConfig /\ ~StartDaemon /\ ~Consent
         /\ \A id \in Id : ~Show(id) /\ ~Withdraw(id)
    BY <2>9 DEF RevokeLogin, Accept, Decline, Doctor, EditConfig, StartDaemon, Show, Withdraw, Consent
  <2>11. \/ \E dir \in Place, id \in Id \cup {Void}, subscription \in BOOLEAN :
              Connect(dir, id, subscription)
         \/ InitCommand \/ (\E yes \in BOOLEAN : InitAnswer(yes)) \/ ToolConnect
    BY <2>1, <2>7, <2>8, <2>10 DEF LoginsNext
  <2> QED  BY <2>2, <2>3, <2>4, <2>5, <2>11
<1> QED  BY <1>1, LoginsInvHolds, PTL DEF ControlSpec, WiredToItsOwn
=============================================================================
