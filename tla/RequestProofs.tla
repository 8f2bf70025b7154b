--------------------------- MODULE RequestProofs ---------------------------
(***************************************************************************)
(* What a request is promised of the account lock (Origins), for any       *)
(* number of conversations, candidates and accounts and any capacity of    *)
(* the records; of the providers (Upstream), for any adapters, callers and *)
(* bounds on what they do at once; and of the store its cost is recorded   *)
(* in (Spool), for any captures, leases and clocks.                        *)
(***************************************************************************)
EXTENDS Request, Spool, FiniteSetTheorems, SequenceTheorems, WellFoundedInduction, TLAPS

-----------------------------------------------------------------------------
(* The account lock *)

Someone == Holder \cup {Nobody}
Cipher  == [id : Convo \X Nat, by : Someone]

AnyTurn == [pc : {"decide", "send", "reply"}, failed : SUBSET Candidate, to : Candidate \cup {Nobody},
            at : Someone, scope : [Candidate -> Someone], replays : SUBSET Cipher]

OriginsTyped ==
    /\ account \in [Candidate -> Someone]
    /\ past \in [Convo -> Seq(Cipher)] /\ replies \in [Convo -> Nat]
    /\ turn \in [Convo -> {Resting} \cup AnyTurn]
    /\ \A c \in Convo : turn[c].pc \in {"send", "reply"} => turn[c].to \in Candidate

Noting(by) == by = Contended \/ by \in Candidate \X Someone
RecordsTyped(r) == \A k \in DOMAIN r : DOMAIN r[k] = {"by", "seen"} /\ Noting(r[k].by)

\* No ciphertext yet to come has a record.
DigestsArePast(r) ==
    \A c \in Convo, n \in Nat : <<"reasoning", <<c, n>>>> \in DOMAIN r => n < replies[c]

PastInOrder ==
    \A c \in Convo : \A i \in 1 .. Len(past[c]) :
        /\ past[c][i].id[1] = c /\ past[c][i].id[2] < replies[c]
        /\ \A j \in 1 .. Len(past[c]) : i < j => past[c][i].id[2] < past[c][j].id[2]

ReplaysThePast ==
    \A c \in Convo : turn[c].pc # "rest" =>
        /\ turn[c].replays \subseteq Ids(c)
        /\ past[c] # <<>> => past[c][Len(past[c])] \in turn[c].replays

\* Of a conversation that has lost no record: one account minted all it has, and
\* the records it rests on say so, or name nobody.
MintedAlike(c) == \A x, y \in Ids(c) : x.by = y.by
KeyIsTrue(c, r) ==
    past[c] # <<>> =>
        /\ KeyFor(c) \in DOMAIN r
        /\ r[KeyFor(c)].by # Contended /\ r[KeyFor(c)].by[2] # Nobody =>
               \A x \in Ids(c) : x.by = r[KeyFor(c)].by[2]
DigestsAreTrue(c, r) ==
    \A x \in Ids(c) : DigestOf(x) \in DOMAIN r =>
        r[DigestOf(x)].by = Contended \/ r[DigestOf(x)].by[2] = x.by

\* Where its turn was routed is noted under its key, or is where all it replays
\* was minted.
RouteIsHome(c, r) ==
    turn[c].pc \in {"send", "reply"} /\ turn[c].to \in Native =>
        IF turn[c].replays = {}
        THEN /\ KeyFor(c) \in DOMAIN r
             /\ r[KeyFor(c)].by \in {<<turn[c].to, turn[c].scope[turn[c].to]>>, Contended}
        ELSE /\ turn[c].scope[turn[c].to] # Nobody
             /\ \A x \in turn[c].replays : x.by = turn[c].scope[turn[c].to]

Sure(c, r) == MintedAlike(c) /\ KeyIsTrue(c, r) /\ DigestsAreTrue(c, r) /\ RouteIsHome(c, r)

\* The sender's check: whoever answers is who was routed to, if that was known.
SentWhereRouted ==
    \A c \in Convo : turn[c].pc = "reply" /\ turn[c].scope[turn[c].to] # Nobody =>
        turn[c].at = turn[c].scope[turn[c].to]

OriginsInv ==
    /\ OriginsTyped /\ RecordsTyped(record) /\ DigestsArePast(record)
    /\ PastInOrder /\ ReplaysThePast /\ SentWhereRouted
    /\ \A c \in Convo \ unsure : Sure(c, record)

-----------------------------------------------------------------------------
(* Keys and records *)

LEMMA KeysDiffer ==
    ASSUME NEW c, NEW d, NEW x
    PROVE  /\ DigestOf(x) # KeyFor(c)
           /\ KeyFor(c) = KeyFor(d) => Sessionless(c) = Sessionless(d) /\ (c = d \/ Sessionless(c))
<1>1. \A y, z, w : <<"session", y, z>> # <<"conversation", w>> /\ <<"session", y, z>> # <<"reasoning", w>>
  OBVIOUS
<1>2. \A y, z : <<"conversation", y>> # <<"reasoning", z>>
  OBVIOUS
<1>3. \A y, z, v, w : <<"session", y, z>> = <<"session", v, w>> => y = v
  OBVIOUS
<1> QED  BY <1>1, <1>2, <1>3 DEF KeyFor, DigestOf, Sessionless

LEMMA BoundedIsPart ==
    ASSUME NEW r, NEW s \in Bounded(r)
    PROVE  /\ DOMAIN s \subseteq DOMAIN r
           /\ \A k \in DOMAIN s : s[k] = r[k]
  BY DEF Bounded, Without

\* What noting a turn does to the records.
LEMMA NotedIs ==
    ASSUME NEW c \in Convo, NEW b \in Candidate, NEW r, NEW s \in Noted(c, b, r),
           RecordsTyped(r), Noting(<<b, turn[c].scope[b]>>)
    PROVE  /\ RecordsTyped(s)
           /\ DOMAIN s \subseteq Noticed(c, b, r)
           /\ \A k \in DOMAIN s : b \notin Native \/ k # NotedUnder(c) =>
                  k \in DOMAIN r /\ s[k].by = r[k].by
           /\ \A k \in DOMAIN s : b \in Native /\ k = NotedUnder(c) =>
                  s[k].by = IF Sessionless(c) /\ k \in DOMAIN r /\ r[k].by # <<b, turn[c].scope[b]>>
                            THEN Contended ELSE <<b, turn[c].scope[b]>>
<1> DEFINE t == Touch(r, Rested(c))
           mine == <<b, turn[c].scope[b]>>
           u == NotedUnder(c)
           by == IF Sessionless(c) /\ Has(t, u) /\ t[u].by # mine THEN Contended ELSE mine
           p == Put(t, u, by)
<1>1. /\ DOMAIN t = DOMAIN r
      /\ \A k \in DOMAIN r : t[k].by = r[k].by /\ DOMAIN t[k] = {"by", "seen"}
  BY DEF Touch, RecordsTyped
<1>2. CASE b \notin Native
  BY <1>1, <1>2 DEF Noted, Noticed, RecordsTyped
<1>3. CASE b \in Native
  <2>1. s \in Bounded(p)
    BY <1>3 DEF Noted
  <2> HIDE DEF t
  <2>2. DOMAIN p = DOMAIN r \cup {u} /\ p[u] = [by |-> by, seen |-> now]
        /\ \A k \in DOMAIN r : k # u => p[k] = t[k]
    BY <1>1 DEF Put
  <2>3. by = IF Sessionless(c) /\ u \in DOMAIN r /\ r[u].by # mine THEN Contended ELSE mine
    BY <1>1 DEF Has
  <2>4. Noting(by) /\ DOMAIN p[u] = {"by", "seen"} /\ p[u].by = by
    <3>1. Noting(by)
      BY <2>3 DEF Noting
    <3> HIDE DEF p, by, u, mine
    <3> QED  BY <2>2, <3>1
  <2> HIDE DEF p, by, u, mine
  <2>5. DOMAIN s \subseteq DOMAIN p /\ \A k \in DOMAIN s : s[k] = p[k]
    BY <2>1, BoundedIsPart
  <2>6. RecordsTyped(s)
    BY <1>1, <2>2, <2>4, <2>5 DEF RecordsTyped
  <2>7. DOMAIN s \subseteq Noticed(c, b, r)
    BY <1>3, <2>2, <2>5 DEF Noticed, u
  <2>8. \A k \in DOMAIN s : k # u => k \in DOMAIN r /\ s[k].by = r[k].by
    BY <1>1, <2>2, <2>5
  <2>9. \A k \in DOMAIN s : k = u => s[k].by = by
    BY <2>4, <2>5
  <2> QED  BY <1>3, <2>3, <2>6, <2>7, <2>8, <2>9 DEF u, mine
<1> QED  BY <1>2, <1>3

-----------------------------------------------------------------------------
(* A decision *)

\* The newest ciphertext a turn replays is one of them.
LEMMA NewestIsReplayed ==
    ASSUME OriginsInv, NEW c \in Convo, turn[c].pc # "rest", turn[c].replays # {}
    PROVE  /\ past[c] # <<>>
           /\ Newest(c) \in Ids(c)
           /\ \E n \in Nat : DigestOf(Newest(c)) = <<"reasoning", <<c, n>>>> /\ n < replies[c]
<1> DEFINE l == past[c][Len(past[c])]
<1>1. past[c] \in Seq(Cipher) /\ turn[c].replays \subseteq Ids(c) /\ replies[c] \in Nat
  BY DEF OriginsInv, OriginsTyped, ReplaysThePast
<1>2. past[c] # <<>> /\ Len(past[c]) \in Nat \ {0}
  <2>1. Len(past[c]) \in Nat /\ \E i \in 1 .. Len(past[c]) : TRUE
    BY <1>1, LenProperties DEF Ids
  <2> QED  BY <1>1, <2>1, EmptySeq
<1>3. l \in turn[c].replays
  BY <1>2 DEF OriginsInv, ReplaysThePast
<1>4. \A i \in 1 .. Len(past[c]) :
        past[c][i] \in Cipher /\ past[c][i].id[1] = c /\ past[c][i].id[2] < replies[c]
  BY <1>1, ElementOfSeq DEF OriginsInv, PastInOrder
<1>5. \A y \in turn[c].replays : y.id[2] <= l.id[2]
  <2> SUFFICES ASSUME NEW i \in 1 .. Len(past[c])  PROVE past[c][i].id[2] <= l.id[2]
    BY <1>1 DEF Ids
  <2>1. past[c][i].id[2] \in Nat /\ l.id[2] \in Nat
    BY <1>2, <1>4 DEF Cipher
  <2>2. i < Len(past[c]) => past[c][i].id[2] < l.id[2]
    BY <1>2 DEF OriginsInv, PastInOrder
  <2> QED  BY <1>2, <2>1, <2>2
<1> HIDE DEF l
<1>6. Newest(c) \in turn[c].replays
  BY <1>3, <1>5 DEF Newest
<1>7. PICK i \in 1 .. Len(past[c]) : Newest(c) = past[c][i]
  BY <1>1, <1>6 DEF Ids
<1>8. Newest(c).id = <<c, Newest(c).id[2]>> /\ Newest(c).id[2] \in Nat /\ Newest(c).id[2] < replies[c]
  BY <1>4, <1>7 DEF Cipher
<1> QED  BY <1>1, <1>2, <1>6, <1>8 DEF DigestOf

\* A native backend is given what was minted for the account it was seen to have.
LEMMA GateIsHome ==
    ASSUME OriginsInv, NEW c \in Convo \ unsure, NEW b \in Native, NEW r \in Bounded(record),
           turn[c].pc # "rest", turn[c].replays # {}, MayReplay(c, b, OriginOf(c, r)),
           past[c] # <<>> => KeyFor(c) \in DOMAIN r
    PROVE  /\ past[c] # <<>> /\ turn[c].scope[b] # Nobody
           /\ \A x \in Ids(c) : x.by = turn[c].scope[b]
<1> DEFINE o == OriginOf(c, r)
           s == turn[c].scope[b]
<1>1. past[c] # <<>> /\ turn[c].replays \subseteq Ids(c)
  BY NewestIsReplayed DEF OriginsInv, ReplaysThePast
<1>2. o.origin = "known" /\ o.scope = s /\ s # Nobody
  BY DEF MayReplay
<1>3. Sure(c, record) /\ KeyFor(c) \in DOMAIN r
  BY <1>1 DEF OriginsInv
<1>4. \A k \in DOMAIN r : k \in DOMAIN record /\ r[k] = record[k]
  BY BoundedIsPart
<1>5. \A by : o = FromRecord(by) => by # Contended /\ by[2] = s
  BY <1>2 DEF FromRecord, Ambiguous, Known
<1> DEFINE seen == {r[k].by : k \in {DigestOf(x) : x \in turn[c].replays} \cap DOMAIN r}
<1>6. CASE Sessionless(c) /\ seen # {}
  <2> DEFINE by == CHOOSE v \in seen : TRUE
  <2>1. o = FromRecord(by)
    BY <1>2, <1>6 DEF OriginOf, Ambiguous
  <2>2. by \in seen
    BY <1>6
  <2>3. PICK x \in turn[c].replays : DigestOf(x) \in DOMAIN r /\ by = r[DigestOf(x)].by
    BY <2>2
  <2> HIDE DEF by
  <2>4. x.by = s /\ x \in Ids(c)
    BY <1>1, <1>3, <1>4, <1>5, <2>1, <2>3 DEF Sure, DigestsAreTrue
  <2> QED  BY <1>1, <1>2, <1>3, <2>4 DEF Sure, MintedAlike
<1>7. CASE ~(Sessionless(c) /\ seen # {})
  <2>1. o = FromRecord(r[KeyFor(c)].by)
    BY <1>3, <1>7 DEF OriginOf, Has
  <2> QED  BY <1>1, <1>2, <1>3, <1>4, <1>5, <2>1 DEF Sure, KeyIsTrue
<1> QED  BY <1>6, <1>7

\* A conversation stays sure of records that still say what they said, or doubt it.
LEMMA SureKeeps ==
    ASSUME OriginsInv, NEW d \in Convo \ unsure, UNCHANGED <<client, past>>,
           turn'[d] = turn[d] \/ turn'[d].pc \notin {"send", "reply"},
           (past[d] # <<>> \/ turn[d].pc # "rest") /\ KeyFor(d) \in DOMAIN record =>
               /\ KeyFor(d) \in DOMAIN record'
               /\ record'[KeyFor(d)].by \in {record[KeyFor(d)].by, Contended},
           \A x \in Ids(d) : DigestOf(x) \in DOMAIN record' =>
               record'[DigestOf(x)].by = Contended \/ record'[DigestOf(x)].by[2] = x.by
    PROVE  Sure(d, record)'
<1>1. Sure(d, record)
  BY DEF OriginsInv
<1>2. Ids(d)' = Ids(d) /\ KeyFor(d)' = KeyFor(d) /\ \A x : DigestOf(x)' = DigestOf(x)
  BY DEF Ids, KeyFor, DigestOf, Sessionless
<1>3. MintedAlike(d)' /\ DigestsAreTrue(d, record)'
  BY <1>1, <1>2 DEF Sure, MintedAlike, DigestsAreTrue
<1>4. KeyIsTrue(d, record)'
  BY <1>1, <1>2 DEF Sure, KeyIsTrue
<1>5. RouteIsHome(d, record)'
  BY <1>1, <1>2 DEF Sure, RouteIsHome
<1> QED  BY <1>3, <1>4, <1>5 DEF Sure

LEMMA DecideIsHome ==
    ASSUME OriginsInv, NEW c \in Convo, NEW b \in Candidate, Decide(c, b)
    PROVE  OriginsInv'
<1> DEFINE mine == <<b, turn[c].scope[b]>>
           u == NotedUnder(c)
<1>1. PICK r \in Bounded(record) :
        /\ b \in Eligible(c, r)
        /\ \E s \in Noted(c, b, r) :
               record' = s /\ Lose(Gone(record, r) \cup (Noticed(c, b, r) \ DOMAIN s))
  BY DEF Decide
<1>2. /\ record' \in Noted(c, b, r)
      /\ Lose(Gone(record, r) \cup (Noticed(c, b, r) \ DOMAIN record'))
  BY <1>1
<1>3. /\ turn[c].pc = "decide" /\ turn[c] \in AnyTurn
      /\ turn' = [turn EXCEPT ![c] = [@ EXCEPT !.pc = "send", !.to = b]]
      /\ UNCHANGED <<fallback, client, now, account, past, replies, happens>>
  BY DEF Decide, OriginsInv, OriginsTyped, Resting, AnyTurn, fixed
<1>4. /\ turn'[c] = [turn[c] EXCEPT !.pc = "send", !.to = b]
      /\ turn'[c] \in AnyTurn /\ turn'[c].pc = "send" /\ turn'[c].to = b
      /\ turn'[c].scope = turn[c].scope /\ turn'[c].replays = turn[c].replays
      /\ \A d \in Convo : d # c => turn'[d] = turn[d]
  BY <1>3 DEF OriginsInv, OriginsTyped, AnyTurn
<1>5. /\ DOMAIN r \subseteq DOMAIN record /\ \A k \in DOMAIN r : r[k] = record[k]
      /\ RecordsTyped(r)
  BY BoundedIsPart DEF OriginsInv, RecordsTyped
<1>6. Noting(mine)
  BY <1>3 DEF Noting, AnyTurn
<1>7. /\ RecordsTyped(record)'
      /\ DOMAIN record' \subseteq Noticed(c, b, r)
      /\ \A k \in DOMAIN record' : b \notin Native \/ k # u =>
             k \in DOMAIN r /\ record'[k].by = r[k].by
      /\ \A k \in DOMAIN record' : b \in Native /\ k = u =>
             record'[k].by = IF Sessionless(c) /\ k \in DOMAIN r /\ r[k].by # mine
                             THEN Contended ELSE mine
  <2>1. RecordsTyped(record')
    BY <1>2, <1>5, <1>6, NotedIs
  <2> QED  BY <1>2, <1>5, <1>6, <2>1, NotedIs DEF RecordsTyped, Noting, Contended, Someone
<1>8. OriginsTyped'
  BY <1>3, <1>4 DEF OriginsInv, OriginsTyped
<1>9. u = KeyFor(c) \/ (turn[c].replays # {} /\ \E n \in Nat : u = <<"reasoning", <<c, n>>>> /\ n < replies[c])
  BY <1>3, NewestIsReplayed DEF NotedUnder
<1>10. DigestsArePast(record)'
  <2> SUFFICES ASSUME NEW d \in Convo, NEW n \in Nat, <<"reasoning", <<d, n>>>> \in DOMAIN record'
               PROVE  n < replies[d]
    BY <1>3 DEF DigestsArePast
  <2>1. CASE <<"reasoning", <<d, n>>>> \in DOMAIN r
    BY <1>5, <2>1 DEF OriginsInv, DigestsArePast
  <2>2. CASE <<"reasoning", <<d, n>>>> = u
    <3>1. u # KeyFor(c)
      BY <2>2, KeysDiffer DEF DigestOf, KeyFor
    <3> QED  BY <1>9, <2>2, <3>1
  <2> QED  BY <1>7, <2>1, <2>2 DEF Noticed
<1>11. PastInOrder' /\ ReplaysThePast' /\ SentWhereRouted'
  <2>1. \A d : Ids(d)' = Ids(d)
    BY <1>3 DEF Ids
  <2>2. PastInOrder'
    BY <1>3 DEF OriginsInv, PastInOrder
  <2>3. ReplaysThePast'
    <3> SUFFICES ASSUME NEW d \in Convo, turn'[d].pc # "rest"
                 PROVE  /\ turn'[d].replays \subseteq Ids(d)
                        /\ past[d] # <<>> => past[d][Len(past[d])] \in turn'[d].replays
      BY <1>3, <2>1 DEF ReplaysThePast
    <3>1. turn[d].pc # "rest" /\ turn'[d].replays = turn[d].replays
      BY <1>3, <1>4
    <3> QED  BY <3>1 DEF OriginsInv, ReplaysThePast
  <2>4. SentWhereRouted'
    BY <1>4 DEF OriginsInv, SentWhereRouted
  <2> QED  BY <2>2, <2>3, <2>4
<1>12. /\ unsure \subseteq unsure'
       /\ \A d \in Convo \ unsure' :
            (past[d] # <<>> \/ turn[d].pc # "rest") /\ KeyFor(d) \in DOMAIN record =>
                KeyFor(d) \in DOMAIN r /\ KeyFor(d) \in DOMAIN record'
       /\ c \notin unsure' /\ b \in Native /\ u = KeyFor(c) => KeyFor(c) \in DOMAIN record'
  BY <1>2, <1>3 DEF Lose, Gone, Noticed, Resting
<1>13. ASSUME c \notin unsure', b \in Native, turn[c].replays # {}
       PROVE  /\ past[c] # <<>> /\ turn[c].scope[b] # Nobody
              /\ \A x \in Ids(c) : x.by = turn[c].scope[b]
  <2>1. c \notin unsure /\ MayReplay(c, b, OriginOf(c, r))
    BY <1>1, <1>12, <1>13 DEF Eligible
  <2>2. past[c] # <<>> => KeyFor(c) \in DOMAIN r
    BY <1>12, <1>13, <2>1 DEF OriginsInv, Sure, KeyIsTrue
  <2> QED  BY <1>3, <1>13, <2>1, <2>2, GateIsHome
<1>14. ASSUME NEW d \in Convo \ unsure', NEW x \in Ids(d), DigestOf(x) \in DOMAIN record'
       PROVE  record'[DigestOf(x)].by = Contended \/ record'[DigestOf(x)].by[2] = x.by
  <2>1. CASE DigestOf(x) # u \/ b \notin Native
    BY <1>5, <1>7, <1>12, <1>14, <2>1 DEF OriginsInv, Sure, DigestsAreTrue
  <2>2. CASE DigestOf(x) = u /\ b \in Native
    <3>1. turn[c].replays # {} /\ x.id[1] = c
      <4>1. u # KeyFor(c)
        BY <2>2, KeysDiffer
      <4> QED  BY <1>9, <2>2, <4>1 DEF DigestOf
    <3>2. x.id[1] = d
      BY DEF Ids, OriginsInv, PastInOrder
    <3>3. x.by = turn[c].scope[b]
      BY <1>13, <2>2, <3>1, <3>2
    <3> QED  BY <1>7, <1>14, <2>2, <3>3
  <2> QED  BY <2>1, <2>2
<1>15. ASSUME NEW d \in Convo \ unsure', d # c  PROVE Sure(d, record)'
  <2>1. ASSUME past[d] # <<>> \/ turn[d].pc # "rest", KeyFor(d) \in DOMAIN record
        PROVE  KeyFor(d) \in DOMAIN record' /\ record'[KeyFor(d)].by \in {record[KeyFor(d)].by, Contended}
    <3>1. KeyFor(d) \in DOMAIN r /\ KeyFor(d) \in DOMAIN record'
      BY <1>12, <2>1
    <3>2. CASE KeyFor(d) # u \/ b \notin Native
      BY <1>5, <1>7, <3>1, <3>2
    <3>3. CASE KeyFor(d) = u /\ b \in Native
      <4>1. u = KeyFor(c)
        BY <1>9, <3>3, KeysDiffer DEF DigestOf, KeyFor
      <4>2. Sessionless(c)
        BY <1>15, <3>3, <4>1, KeysDiffer
      <4> QED  BY <1>5, <1>7, <3>1, <3>3, <4>2
    <3> QED  BY <3>1, <3>2, <3>3
  <2> QED  BY <1>3, <1>4, <1>12, <1>14, <1>15, <2>1, SureKeeps
<1>16. ASSUME c \notin unsure'  PROVE Sure(c, record)'
  <2>1. Ids(c)' = Ids(c) /\ KeyFor(c)' = KeyFor(c) /\ \A x : DigestOf(x)' = DigestOf(x)
    BY <1>3 DEF Ids, KeyFor, DigestOf, Sessionless
  <2>2. Sure(c, record)
    BY <1>12, <1>16 DEF OriginsInv
  <2>3. MintedAlike(c)' /\ DigestsAreTrue(c, record)'
    BY <1>14, <1>16, <2>1, <2>2 DEF Sure, MintedAlike, DigestsAreTrue
  <2>4. KeyIsTrue(c, record)'
    <3> SUFFICES ASSUME past[c] # <<>>
                 PROVE  /\ KeyFor(c) \in DOMAIN record'
                        /\ record'[KeyFor(c)].by # Contended /\ record'[KeyFor(c)].by[2] # Nobody =>
                               \A x \in Ids(c) : x.by = record'[KeyFor(c)].by[2]
      BY <1>3, <2>1 DEF KeyIsTrue
    <3>1. KeyFor(c) \in DOMAIN r /\ KeyFor(c) \in DOMAIN record'
      BY <1>12, <1>16, <2>2 DEF Sure, KeyIsTrue
    <3>2. CASE KeyFor(c) # u \/ b \notin Native
      BY <1>5, <1>7, <2>2, <3>1, <3>2 DEF Sure, KeyIsTrue
    <3>3. CASE KeyFor(c) = u /\ b \in Native
      <4>1. turn[c].replays # {}
        BY <1>3 DEF OriginsInv, ReplaysThePast
      <4>2. \A x \in Ids(c) : x.by = mine[2]
        BY <1>13, <1>16, <3>3, <4>1
      <4> QED  BY <1>7, <3>1, <3>3, <4>2
    <3> QED  BY <3>2, <3>3
  <2>5. RouteIsHome(c, record)'
    <3>1. CASE b \in Native /\ turn[c].replays = {}
      <4>1. u = KeyFor(c)
        BY <3>1 DEF NotedUnder
      <4> QED  BY <1>4, <1>7, <1>12, <1>16, <2>1, <3>1, <4>1 DEF RouteIsHome
    <3>2. CASE b \in Native /\ turn[c].replays # {}
      <4>1. turn[c].replays \subseteq Ids(c)
        BY <1>3 DEF OriginsInv, ReplaysThePast
      <4> QED  BY <1>4, <1>13, <1>16, <2>1, <3>2, <4>1 DEF RouteIsHome
    <3> QED  BY <1>4, <3>1, <3>2 DEF RouteIsHome
  <2> QED  BY <2>3, <2>4, <2>5 DEF Sure
<1> QED  BY <1>7, <1>8, <1>10, <1>11, <1>15, <1>16 DEF OriginsInv

\* A turn that moves on, no record being touched.
LEMMA TurnMovesOn ==
    ASSUME OriginsInv, NEW c \in Convo, NEW t \in {Resting} \cup AnyTurn,
           turn' = [turn EXCEPT ![c] = t],
           UNCHANGED <<client, account, record, past, replies, unsure>>,
           t.pc # "rest" => /\ t.replays \subseteq Ids(c)
                            /\ past[c] # <<>> => past[c][Len(past[c])] \in t.replays,
           t.pc \in {"send", "reply"} =>
               /\ turn[c].pc = "send" /\ t.to = turn[c].to
               /\ t.scope = turn[c].scope /\ t.replays = turn[c].replays,
           t.pc = "reply" /\ t.scope[t.to] # Nobody => t.at = t.scope[t.to]
    PROVE  OriginsInv'
<1>1. turn'[c] = t /\ \A d \in Convo : d # c => turn'[d] = turn[d]
  BY DEF OriginsInv, OriginsTyped
<1>2. \A d : Ids(d)' = Ids(d) /\ KeyFor(d)' = KeyFor(d) /\ DigestOf(d)' = DigestOf(d)
  BY DEF Ids, KeyFor, DigestOf, Sessionless
<1>3. OriginsTyped'
  BY <1>1 DEF OriginsInv, OriginsTyped
<1>4. RecordsTyped(record)' /\ DigestsArePast(record)' /\ PastInOrder'
  BY DEF OriginsInv, RecordsTyped, Noting, Contended, Someone, DigestsArePast, PastInOrder
<1>5. ReplaysThePast'
  <2> SUFFICES ASSUME NEW d \in Convo, turn'[d].pc # "rest"
               PROVE  /\ turn'[d].replays \subseteq Ids(d)
                      /\ past[d] # <<>> => past[d][Len(past[d])] \in turn'[d].replays
    BY <1>2 DEF ReplaysThePast
  <2> QED  BY <1>1 DEF OriginsInv, ReplaysThePast
<1>6. SentWhereRouted'
  BY <1>1 DEF OriginsInv, SentWhereRouted
<1>7. ASSUME NEW d \in Convo \ unsure  PROVE Sure(d, record)'
  <2>1. Sure(d, record)
    BY DEF OriginsInv
  <2>2. \A x \in Ids(d) : DigestOf(x) \in DOMAIN record' =>
          record'[DigestOf(x)].by = Contended \/ record'[DigestOf(x)].by[2] = x.by
    BY <2>1 DEF Sure, DigestsAreTrue
  <2>3. CASE d # c \/ t.pc \notin {"send", "reply"}
    BY <1>1, <2>2, <2>3, SureKeeps
  <2>4. CASE d = c /\ t.pc \in {"send", "reply"}
    <3>1. RouteIsHome(c, record)'
      BY <1>1, <1>2, <2>1, <2>4 DEF Sure, RouteIsHome
    <3> QED  BY <1>2, <2>1, <2>4, <3>1 DEF Sure, MintedAlike, KeyIsTrue, DigestsAreTrue
  <2> QED  BY <2>3, <2>4
<1> QED  BY <1>3, <1>4, <1>5, <1>6, <1>7 DEF OriginsInv

\* Records that are dropped, and known to be.
LEMMA DroppedIsKnown ==
    ASSUME OriginsInv, turn' \in [Convo -> {Resting} \cup AnyTurn],
           \A d \in Convo : turn'[d] \in {turn[d], Resting},
           DOMAIN record' \subseteq DOMAIN record, \A k \in DOMAIN record' : record'[k] = record[k],
           Lose(Gone(record, record')), UNCHANGED <<client, account, past, replies>>
    PROVE  OriginsInv'
<1>1. \A d : Ids(d)' = Ids(d)
  BY DEF Ids
<1>2. Resting.pc = "rest"
  BY DEF Resting
<1>3. OriginsTyped'
  BY <1>2 DEF OriginsInv, OriginsTyped
<1>4. RecordsTyped(record)' /\ DigestsArePast(record)' /\ PastInOrder'
  BY DEF OriginsInv, RecordsTyped, Noting, Contended, Someone, DigestsArePast, PastInOrder
<1>5. ReplaysThePast' /\ SentWhereRouted'
  BY <1>1, <1>2 DEF OriginsInv, ReplaysThePast, SentWhereRouted
<1>6. ASSUME NEW d \in Convo \ unsure'  PROVE Sure(d, record)'
  <2>1. d \in Convo \ unsure /\ Sure(d, record)
    BY DEF OriginsInv, Lose
  <2>2. (past[d] # <<>> \/ turn[d].pc # "rest") /\ KeyFor(d) \in DOMAIN record => KeyFor(d) \in DOMAIN record'
    BY <1>2 DEF Lose, Gone
  <2>3. \A x \in Ids(d) : DigestOf(x) \in DOMAIN record' =>
          record'[DigestOf(x)].by = Contended \/ record'[DigestOf(x)].by[2] = x.by
    BY <2>1 DEF Sure, DigestsAreTrue
  <2> QED  BY <1>2, <2>1, <2>2, <2>3, SureKeeps
<1> QED  BY <1>3, <1>4, <1>5, <1>6 DEF OriginsInv

\* A ciphertext more: minted where the turn was routed, which is where the others were.
LEMMA ReplyIsHome ==
    ASSUME OriginsInv, NEW c \in Convo, Reply(c)
    PROVE  OriginsInv'
<1>1. /\ turn[c].pc = "reply" /\ turn[c] \in AnyTurn /\ turn[c].to \in Candidate
      /\ turn' = [turn EXCEPT ![c] = Resting]
      /\ UNCHANGED <<client, account, record, unsure>>
  BY DEF Reply, OriginsInv, OriginsTyped, Resting, AnyTurn, fixed
<1>2. CASE turn[c].to \notin Native
  <2>1. UNCHANGED <<past, replies>> /\ Resting.pc = "rest"
    BY <1>2 DEF Reply, Resting
  <2> QED  BY <1>1, <2>1, TurnMovesOn
<1>3. CASE turn[c].to \in Native
  <2> DEFINE x == [id |-> <<c, replies[c]>>, by |-> turn[c].at]
             q == past[c]
  <2>1. /\ past' = [past EXCEPT ![c] = Append(q, x)]
        /\ replies' = [replies EXCEPT ![c] = @ + 1]
    BY <1>1, <1>3 DEF Reply
  <2>2. x \in Cipher /\ q \in Seq(Cipher) /\ replies[c] \in Nat
    BY <1>1 DEF OriginsInv, OriginsTyped, Cipher, AnyTurn
  <2>3. /\ x.by = turn[c].at /\ x.id = <<c, replies[c]>> /\ x.id[1] = c /\ x.id[2] = replies[c]
        /\ DigestOf(x) = <<"reasoning", <<c, replies[c]>>>>
    BY DEF DigestOf
  <2> HIDE DEF x
  <2>4. /\ past'[c] = Append(q, x) /\ past'[c] \in Seq(Cipher)
        /\ replies'[c] = replies[c] + 1
        /\ turn'[c] = Resting /\ Resting.pc = "rest"
        /\ \A d \in Convo : d # c => past'[d] = past[d] /\ replies'[d] = replies[d] /\ turn'[d] = turn[d]
    BY <1>1, <2>1, <2>2, AppendProperties DEF OriginsInv, OriginsTyped, Resting
  <2>5. /\ Len(q) \in Nat /\ Len(past'[c]) = Len(q) + 1 /\ past'[c][Len(q) + 1] = x
        /\ \A i \in 1 .. Len(q) : past'[c][i] = q[i]
    BY <2>2, <2>4, AppendProperties, LenProperties
  <2>6. Ids(c)' = Ids(c) \cup {x} /\ \A d \in Convo : d # c => Ids(d)' = Ids(d)
    BY <2>4, <2>5 DEF Ids
  <2>7. OriginsTyped'
    BY <1>1, <2>1, <2>2, <2>4, AppendProperties DEF OriginsInv, OriginsTyped
  <2>8. RecordsTyped(record)'
    BY <1>1 DEF OriginsInv, RecordsTyped, Noting, Contended, Someone
  <2>9. DigestsArePast(record)'
    BY <1>1, <2>2, <2>4 DEF OriginsInv, DigestsArePast
  <2>10. PastInOrder'
    <3> SUFFICES ASSUME NEW d \in Convo, NEW i \in 1 .. Len(past'[d])
                 PROVE  /\ past'[d][i].id[1] = d /\ past'[d][i].id[2] < replies'[d]
                        /\ \A j \in 1 .. Len(past'[d]) : i < j => past'[d][i].id[2] < past'[d][j].id[2]
      BY DEF PastInOrder
    <3>1. CASE d # c
      BY <2>4, <3>1 DEF OriginsInv, PastInOrder
    <3>2. CASE d = c
      <4>1. \A k \in 1 .. Len(q) : q[k].id[1] = c /\ q[k].id[2] \in Nat /\ q[k].id[2] < replies[c]
        <5> SUFFICES ASSUME NEW k \in 1 .. Len(q)
                     PROVE  q[k].id[1] = c /\ q[k].id[2] \in Nat /\ q[k].id[2] < replies[c]
          OBVIOUS
        <5>1. q[k] \in Cipher
          BY <2>2, ElementOfSeq
        <5>2. q[k].id[2] \in Nat
          BY <5>1 DEF Cipher
        <5> QED  BY <5>2 DEF OriginsInv, PastInOrder
      <4>2. \A k, j \in 1 .. Len(q) : k < j => q[k].id[2] < q[j].id[2]
        BY DEF OriginsInv, PastInOrder
      <4>3. \A k \in 1 .. Len(past'[c]) : k \in 1 .. Len(q) \/ k = Len(q) + 1
        BY <2>5
      <4>4. CASE i \in 1 .. Len(q)
        <5>1. past'[c][i] = q[i] /\ q[i].id[1] = c /\ q[i].id[2] \in Nat /\ q[i].id[2] < replies[c]
          BY <2>5, <4>1, <4>4
        <5>2. \A j \in 1 .. Len(q) : i < j => q[i].id[2] < past'[c][j].id[2]
          BY <2>5, <4>2, <4>4
        <5>3. q[i].id[2] < past'[c][Len(q) + 1].id[2]
          BY <2>3, <2>5, <5>1
        <5>4. q[i].id[2] < replies'[c]
          BY <2>2, <2>4, <5>1
        <5> QED  BY <3>2, <4>3, <5>1, <5>2, <5>3, <5>4
      <4>5. CASE i = Len(q) + 1
        <5>1. past'[c][i] = x /\ \A j \in 1 .. Len(past'[c]) : ~(i < j)
          BY <2>5, <4>5
        <5> QED  BY <2>2, <2>3, <2>4, <3>2, <5>1
      <4> QED  BY <3>2, <4>3, <4>4, <4>5
    <3> QED  BY <3>1, <3>2
  <2>11. ReplaysThePast' /\ SentWhereRouted'
    BY <2>4, <2>6 DEF OriginsInv, ReplaysThePast, SentWhereRouted
  <2>12. ASSUME NEW d \in Convo \ unsure  PROVE Sure(d, record)'
    <3>1. Sure(d, record)
      BY DEF OriginsInv
    <3>2. KeyFor(d)' = KeyFor(d) /\ \A y : DigestOf(y)' = DigestOf(y)
      BY <1>1 DEF KeyFor, DigestOf, Sessionless
    <3>3. CASE d # c
      BY <1>1, <2>4, <2>6, <3>1, <3>2, <3>3
         DEF Sure, MintedAlike, KeyIsTrue, DigestsAreTrue, RouteIsHome
    <3>4. CASE d = c
      <4>1. turn[c].replays \subseteq Ids(c) /\ (past[c] # <<>> => turn[c].replays # {})
        BY <1>1 DEF OriginsInv, ReplaysThePast
      <4>2. past[c] = <<>> => Ids(c) = {}
        BY DEF Ids
      <4>3. turn[c].replays # {} => \A y \in Ids(c) : y.by = x.by
        <5> SUFFICES ASSUME NEW z \in turn[c].replays, NEW y \in Ids(c)  PROVE y.by = x.by
          OBVIOUS
        <5>1. z.by = turn[c].scope[turn[c].to] /\ turn[c].scope[turn[c].to] # Nobody
          BY <1>1, <1>3, <3>1, <3>4 DEF Sure, RouteIsHome
        <5>2. x.by = turn[c].scope[turn[c].to]
          BY <1>1, <2>3, <5>1 DEF OriginsInv, SentWhereRouted
        <5> QED  BY <3>1, <3>4, <4>1, <5>1, <5>2 DEF Sure, MintedAlike
      <4>4. \A y \in Ids(c) : y.by = x.by
        BY <4>1, <4>2, <4>3
      <4>5. MintedAlike(c)'
        BY <2>6, <4>4 DEF MintedAlike
      <4>6. DigestsAreTrue(c, record)'
        <5>1. DigestOf(x) \notin DOMAIN record
          BY <2>2, <2>3 DEF OriginsInv, DigestsArePast
        <5> QED  BY <1>1, <2>6, <3>1, <3>2, <3>4, <5>1 DEF Sure, DigestsAreTrue
      <4>7. KeyIsTrue(c, record)'
        <5>1. CASE turn[c].replays # {}
          BY <1>1, <2>6, <3>1, <3>2, <3>4, <4>1, <4>2, <4>4, <5>1 DEF Sure, KeyIsTrue
        <5>2. CASE turn[c].replays = {}
          <6>1. /\ KeyFor(c) \in DOMAIN record
                /\ record[KeyFor(c)].by \in {<<turn[c].to, turn[c].scope[turn[c].to]>>, Contended}
            BY <1>1, <1>3, <3>1, <3>4, <5>2 DEF Sure, RouteIsHome
          <6>2. turn[c].scope[turn[c].to] # Nobody => x.by = turn[c].scope[turn[c].to]
            BY <1>1, <2>3 DEF OriginsInv, SentWhereRouted
          <6> QED  BY <1>1, <2>6, <3>2, <3>4, <4>4, <6>1, <6>2 DEF KeyIsTrue
        <5> QED  BY <5>1, <5>2
      <4>8. RouteIsHome(c, record)'
        BY <2>4 DEF RouteIsHome
      <4> QED  BY <3>4, <4>5, <4>6, <4>7, <4>8 DEF Sure
    <3> QED  BY <3>3, <3>4
  <2> QED  BY <1>1, <2>7, <2>8, <2>9, <2>10, <2>11, <2>12 DEF OriginsInv
<1> QED  BY <1>2, <1>3

LEMMA CompactIsHome ==
    ASSUME OriginsInv, NEW c \in Convo, Compact(c)
    PROVE  OriginsInv'
<1>1. /\ turn[c].pc = "rest" /\ past' = [past EXCEPT ![c] = <<>>] /\ unsure' = unsure \ {c}
      /\ UNCHANGED <<client, account, record, turn, replies>>
  BY DEF Compact, fixed, Resting
<1>2. past'[c] = <<>> /\ \A d \in Convo : d # c => past'[d] = past[d]
  BY <1>1 DEF OriginsInv, OriginsTyped
<1>3. Len(past'[c]) = 0 /\ past'[c] \in Seq(Cipher)
  BY <1>2, EmptySeq
<1>4. Ids(c)' = {} /\ \A d \in Convo : d # c => Ids(d)' = Ids(d)
  BY <1>2, <1>3 DEF Ids
<1>5. OriginsTyped'
  BY <1>1, <1>3 DEF OriginsInv, OriginsTyped
<1>6. RecordsTyped(record)' /\ DigestsArePast(record)'
  BY <1>1 DEF OriginsInv, RecordsTyped, Noting, Contended, Someone, DigestsArePast
<1>7. PastInOrder'
  BY <1>1, <1>2, <1>3 DEF OriginsInv, PastInOrder
<1>8. ReplaysThePast' /\ SentWhereRouted'
  BY <1>1, <1>2, <1>4 DEF OriginsInv, ReplaysThePast, SentWhereRouted
<1>9. ASSUME NEW d \in Convo \ unsure'  PROVE Sure(d, record)'
  <2>1. KeyFor(d)' = KeyFor(d) /\ \A y : DigestOf(y)' = DigestOf(y)
    BY <1>1 DEF KeyFor, DigestOf, Sessionless
  <2>2. CASE d = c
    BY <1>1, <1>2, <1>4, <2>2 DEF Sure, MintedAlike, KeyIsTrue, DigestsAreTrue, RouteIsHome
  <2>3. CASE d # c
    <3>1. Sure(d, record)
      BY <1>1, <2>3 DEF OriginsInv
    <3> QED
      BY <1>1, <1>2, <1>4, <2>1, <2>3, <3>1
         DEF Sure, MintedAlike, KeyIsTrue, DigestsAreTrue, RouteIsHome
  <2> QED  BY <2>2, <2>3
<1> QED  BY <1>5, <1>6, <1>7, <1>8, <1>9 DEF OriginsInv

LEMMA TurnsAreHome ==
    ASSUME OriginsInv, NEW c \in Convo, Ask(c) \/ SendTurn(c) \/ Fail(c)
    PROVE  OriginsInv'
<1>1. turn[c] \in {Resting} \cup AnyTurn /\ past[c] \in Seq(Cipher) /\ Resting.pc = "rest"
  BY DEF OriginsInv, OriginsTyped, Resting
<1>2. CASE Ask(c)
  <2> DEFINE carried == IF client[c].latest /\ past[c] # <<>> THEN {past[c][Len(past[c])]} ELSE Ids(c)
             t == [pc |-> "decide", failed |-> {}, to |-> Nobody, at |-> Nobody,
                   scope |-> [b \in Candidate |-> Scope(account[b])], replays |-> carried]
  <2>1. turn' = [turn EXCEPT ![c] = t] /\ UNCHANGED <<client, account, record, past, replies, unsure>>
    BY <1>2 DEF Ask, fixed
  <2>2. past[c] # <<>> => Len(past[c]) \in 1 .. Len(past[c])
    <3>1. past[c] # <<>> => Len(past[c]) \in Nat \ {0}
      BY <1>1, EmptySeq, LenProperties
    <3> QED  BY <3>1
  <2>3. carried \subseteq Ids(c) /\ (past[c] # <<>> => past[c][Len(past[c])] \in carried)
    BY <2>2 DEF Ids
  <2>4. Ids(c) \subseteq Cipher
    BY <1>1, ElementOfSeq DEF Ids
  <2>5. [b \in Candidate |-> Scope(account[b])] \in [Candidate -> Someone]
    BY DEF Scope, Someone, OriginsInv, OriginsTyped
  <2> HIDE DEF carried
  <2>6. t \in AnyTurn /\ t.pc = "decide" /\ t.replays = carried
    BY <2>3, <2>4, <2>5 DEF AnyTurn, Someone
  <2> QED  BY <2>1, <2>3, <2>6, TurnMovesOn
<1>3. ASSUME NEW failed \in SUBSET Candidate, Again(c, failed), turn[c].pc \in {"send", "reply"},
             UNCHANGED <<client, account, record, past, replies, unsure>>
      PROVE  OriginsInv'
  <2> DEFINE t == [turn[c] EXCEPT !.pc = "decide", !.failed = failed, !.to = Nobody, !.at = Nobody]
  <2>1. turn' = [turn EXCEPT ![c] = t]
    BY <1>3 DEF Again
  <2>2. t \in AnyTurn /\ t.pc = "decide" /\ t.replays = turn[c].replays
    BY <1>1, <1>3 DEF AnyTurn, Someone, Resting
  <2>3. /\ turn[c].replays \subseteq Ids(c)
        /\ past[c] # <<>> => past[c][Len(past[c])] \in turn[c].replays
    BY <1>3 DEF OriginsInv, ReplaysThePast
  <2> QED  BY <1>3, <2>1, <2>2, <2>3, TurnMovesOn
<1>4. CASE SendTurn(c) /\ ~Matches(c)
  <2>1. turn[c].failed \cup {turn[c].to} \in SUBSET Candidate
    BY <1>1, <1>4 DEF SendTurn, OriginsInv, OriginsTyped, AnyTurn, Resting
  <2> QED  BY <1>3, <1>4, <2>1 DEF SendTurn, fixed
<1>5. CASE SendTurn(c) /\ Matches(c)
  <2> DEFINE b == turn[c].to
             t == [turn[c] EXCEPT !.pc = "reply", !.at = account[b]]
  <2>1. /\ turn[c].pc = "send" /\ turn[c] \in AnyTurn /\ b \in Candidate
        /\ turn' = [turn EXCEPT ![c] = t]
        /\ UNCHANGED <<client, account, record, past, replies, unsure>>
    <3>1. turn[c].pc = "send" /\ turn' = [turn EXCEPT ![c] = t]
      BY <1>5 DEF SendTurn
    <3>2. UNCHANGED <<client, account, record, past, replies, unsure>>
      BY <1>5 DEF SendTurn, fixed
    <3>3. turn[c] \in AnyTurn /\ b \in Candidate
      BY <1>1, <3>1 DEF OriginsInv, OriginsTyped, Resting
    <3> QED  BY <3>1, <3>2, <3>3
  <2>2. /\ t \in AnyTurn /\ t.pc = "reply" /\ t.at = account[b]
        /\ t.replays = turn[c].replays /\ t.to = turn[c].to /\ t.scope = turn[c].scope
    BY <2>1 DEF OriginsInv, OriginsTyped, AnyTurn
  <2>3. turn[c].scope[b] # Nobody => account[b] = turn[c].scope[b]
    BY <1>5 DEF Matches, Scope
  <2>4. /\ turn[c].replays \subseteq Ids(c)
        /\ past[c] # <<>> => past[c][Len(past[c])] \in turn[c].replays
    BY <2>1 DEF OriginsInv, ReplaysThePast
  <2> QED  BY <2>1, <2>2, <2>3, <2>4, TurnMovesOn
<1>6. CASE Fail(c)
  <2>1. turn[c].failed \in SUBSET Candidate /\ turn[c].to \in Candidate
    BY <1>1, <1>6 DEF Fail, OriginsInv, OriginsTyped, AnyTurn, Resting
  <2> QED  BY <1>3, <1>6, <2>1 DEF Fail, fixed
<1> QED  BY <1>2, <1>4, <1>5, <1>6

LEMMA OriginsStep ==
    ASSUME OriginsInv, [OriginsNext]_origins
    PROVE  OriginsInv'
<1>1. CASE \E c \in Convo, b \in Candidate : Decide(c, b)
  BY <1>1, DecideIsHome
<1>2. CASE \E c \in Convo : Ask(c) \/ SendTurn(c) \/ Fail(c)
  BY <1>2, TurnsAreHome
<1>3. CASE \E c \in Convo : Reply(c)
  BY <1>3, ReplyIsHome
<1>4. CASE \E c \in Convo : Compact(c)
  BY <1>4, CompactIsHome
<1>5. CASE \E c \in Convo : RefuseTurn(c)
  <2>1. PICK c \in Convo : RefuseTurn(c)
    BY <1>5
  <2>2. \A d \in Convo : turn'[d] \in {turn[d], Resting}
    BY <2>1 DEF RefuseTurn, OriginsInv, OriginsTyped
  <2>3. turn' \in [Convo -> {Resting} \cup AnyTurn]
    BY <2>1 DEF RefuseTurn, OriginsInv, OriginsTyped
  <2>4. DOMAIN record' \subseteq DOMAIN record /\ \A k \in DOMAIN record' : record'[k] = record[k]
    BY <2>1, BoundedIsPart DEF RefuseTurn
  <2> QED  BY <2>1, <2>2, <2>3, <2>4, DroppedIsKnown DEF RefuseTurn, fixed
<1>6. CASE Die
  <2>1. DOMAIN record' = {}
    BY <1>6 DEF Die, Without
  <2>2. Gone(record, record') = DOMAIN record
    BY <2>1 DEF Gone
  <2>3. turn' \in [Convo -> {Resting} \cup AnyTurn] /\ \A d \in Convo : turn'[d] = Resting
    BY <1>6 DEF Die
  <2> QED  BY <1>6, <2>1, <2>2, <2>3, DroppedIsKnown DEF Die, fixed
<1>7. CASE (\E b \in Candidate, a \in Holder \cup {Nobody} : Relogin(b, a)) \/ Hours \/ UNCHANGED origins
  <2>1. /\ account' \in [Candidate -> Someone]
        /\ UNCHANGED <<client, record, turn, past, replies, unsure>>
    BY <1>7 DEF Relogin, Hours, origins, fixed, OriginsInv, OriginsTyped, Someone
  <2>2. \A d : Ids(d)' = Ids(d) /\ KeyFor(d)' = KeyFor(d) /\ DigestOf(d)' = DigestOf(d)
    BY <2>1 DEF Ids, KeyFor, DigestOf, Sessionless
  <2>3. OriginsTyped' /\ RecordsTyped(record)' /\ DigestsArePast(record)' /\ PastInOrder'
    BY <2>1 DEF OriginsInv, OriginsTyped, RecordsTyped, Noting, Contended, Someone, DigestsArePast, PastInOrder
  <2>4. ReplaysThePast' /\ SentWhereRouted'
    BY <2>1, <2>2 DEF OriginsInv, ReplaysThePast, SentWhereRouted
  <2>5. \A d \in Convo \ unsure' : Sure(d, record)'
    BY <2>1, <2>2 DEF OriginsInv, Sure, MintedAlike, KeyIsTrue, DigestsAreTrue, RouteIsHome
  <2> QED  BY <2>3, <2>4, <2>5 DEF OriginsInv
<1> QED  BY <1>1, <1>2, <1>3, <1>4, <1>5, <1>6, <1>7 DEF OriginsNext

LEMMA OriginsStart == RequestInit => OriginsInv
<1> SUFFICES ASSUME RequestInit  PROVE OriginsInv
  OBVIOUS
<1>1. PICK accounts \in {[Candidate -> Holder], {[b \in Candidate |-> Nobody]}} : OriginsInit(accounts)
  BY DEF RequestInit
<1>2. /\ account \in [Candidate -> Someone]
      /\ DOMAIN record = {} /\ turn = [c \in Convo |-> Resting]
      /\ past = [c \in Convo |-> <<>>] /\ replies = [c \in Convo |-> 0]
  BY <1>1 DEF OriginsInit, Someone
<1>3. \A c \in Convo : turn[c].pc = "rest" /\ past[c] = <<>> /\ Len(past[c]) = 0 /\ past[c] \in Seq(Cipher)
  BY <1>2, EmptySeq DEF Resting
<1>4. \A c \in Convo : Ids(c) = {}
  BY <1>3 DEF Ids
<1>5. OriginsTyped
  BY <1>2, <1>3 DEF OriginsTyped
<1>6. RecordsTyped(record) /\ DigestsArePast(record) /\ PastInOrder /\ ReplaysThePast /\ SentWhereRouted
  BY <1>2, <1>3 DEF RecordsTyped, DigestsArePast, PastInOrder, ReplaysThePast, SentWhereRouted
<1>7. \A c \in Convo : Sure(c, record)
  BY <1>3, <1>4 DEF Sure, MintedAlike, KeyIsTrue, DigestsAreTrue, RouteIsHome
<1> QED  BY <1>5, <1>6, <1>7 DEF OriginsInv

(***************************************************************************)
(* Encrypted reasoning goes back to the account that minted it or nowhere, *)
(* for any number of conversations, logins and keys: through failures,     *)
(* translated detours, relogins and a slot several conversations share, as *)
(* long as no record it rests on has lapsed, was evicted or died (policy.rs *)
(* origin_of, note_reasoning_account).                                     *)
(***************************************************************************)
THEOREM GoesHome == RequestSpec => []ReasoningGoesHome
<1>1. OriginsInv /\ [RequestNext]_request => OriginsInv'
  <2> SUFFICES ASSUME OriginsInv, [RequestNext]_request  PROVE OriginsInv'
    OBVIOUS
  <2>1. [OriginsNext]_origins
    BY DEF RequestNext, request
  <2> QED  BY <2>1, OriginsStep
<1>2. OriginsInv => ReasoningGoesHome
  <2> SUFFICES ASSUME OriginsInv, NEW c \in Convo \ unsure, turn[c].pc = "reply", turn[c].to \in Native,
                      NEW x \in turn[c].replays
               PROVE  x.by = turn[c].at
    BY DEF ReasoningGoesHome
  <2>1. turn[c].scope[turn[c].to] # Nobody /\ x.by = turn[c].scope[turn[c].to]
    BY DEF OriginsInv, Sure, RouteIsHome
  <2> QED  BY <2>1 DEF OriginsInv, SentWhereRouted
<1> QED  BY <1>1, <1>2, OriginsStart, PTL DEF RequestSpec

-----------------------------------------------------------------------------
(* Upstream: what a call for a provider may look like at any moment *)

Tokens == [of : Adapter, serial : Nat, who : {1, 2}, until : Nat \cup {Nothing}]
Kinds  == {"turn", "listing", "probe", "models"}
Phases == {"status", "send", "again", "probe", "models"}
Stages == {"statusSlot", "probeSlot", "permit", "queued", "keychain", "file", "dial", "dialled",
           "learn", "keep"}
News   == {"none", "rotated", "trouble"}
Stored == [keychain : Tokens \cup {Nothing}, file : Tokens \cup {Nothing}, locked : BOOLEAN]

Asking   == [at : Stages, of : Adapter, kind : Kinds, phase : Phases, expected : {Nothing, 1, 2},
             token : Tokens \cup {Nothing}, tried : SUBSET Tokens, list : Models \cup {Nothing},
             news : News]
Finished == [at : {"done"}, of : Adapter, kind : Kinds, news : News,
             verdict : {"ok", "unusable", "moved", "misplaced", "rejected", "limited", "refused", "down"}]

\* A turn on Claude Code's login that nothing worse than a refresh has befallen.
Spared(q) == Wire[q.of] = "claude" /\ q.kind = "turn" /\ q.news # "trouble"

\* Whatever is read of its credential until then can be used, and a token that
\* was denied is not the one that is there now.
SparedIsSound(q) ==
    /\ Sound(q.of)
    /\ q.at = "file" => store[q.of].keychain = Nothing
    /\ q.at \in {"dial", "dialled"} /\ (q.news = "none" \/ q.phase = "again") => q.token = Current(q.of)
    /\ q.phase = "again" => q.news = "rotated"
    /\ q.phase = "again" /\ q.at # "dialled" => Current(q.of) \notin q.tried

TriedOnce(q) ==
    /\ q.phase # "again" /\ q.at \notin {"dialled", "learn", "keep"} => q.tried = {}
    /\ q.phase # "again" /\ q.at = "dialled" => q.tried = {q.token}
    /\ q.at = "dial" => q.token \notin q.tried
    /\ q.at \in {"dial", "dialled"} => q.token \in Tokens

Placed(q) ==
    /\ q.at \in {"permit", "queued", "keychain"} => Wire[q.of] # "chat"
    /\ q.at = "keychain" => Wire[q.of] = "claude"
    /\ q.kind = "turn" => q.phase \in {"status", "send", "again"}
    /\ q.kind = "turn" => q.at \notin {"learn", "keep"}
    /\ q.kind = "turn" /\ q.at \in {"dial", "dialled"} => q.phase # "status"

Standing(q) ==
    \/ q = Unasked
    \/ q \in Finished /\ (Spared(q) => q.verdict # "rejected")
    \/ q \in Asking /\ Placed(q) /\ TriedOnce(q) /\ (Spared(q) => SparedIsSound(q))

UpstreamTyped ==
    /\ registry \subseteq Adapter /\ minute \in Nat /\ issued \in Nat
    /\ store \in [Adapter -> Stored]
    /\ inquiry = [c \in Inquirer |-> inquiry[c]]
    /\ Nothing \notin honoured

\* A token is kept where the login it is of is kept.
StoredAtHome ==
    \A a \in Adapter : /\ store[a].keychain # Nothing => store[a].keychain.of = a
                       /\ store[a].file # Nothing => store[a].file.of = a

UpstreamInv == UpstreamTyped /\ StoredAtHome /\ \A c \in Inquirer : Standing(inquiry[c])

LEMMA NothingIsNoToken == Nothing \notin Tokens
BY UpstreamAssumption DEF Tokens

LEMMA CurrentIsStored ==
    ASSUME UpstreamTyped, StoredAtHome, NEW a \in Adapter
    PROVE  /\ Current(a) \in Tokens \cup {Nothing}
           /\ Current(a) # Nothing => Current(a).of = a
<1>1. /\ store[a].keychain \in Tokens \cup {Nothing}
      /\ store[a].file \in Tokens \cup {Nothing}
  BY DEF UpstreamTyped, Stored
<1> QED  BY <1>1 DEF Current, StoredAtHome

\* What one call does to itself leaves the others as they are.
LEMMA OneCallMoves ==
    ASSUME UpstreamInv, NEW c \in Inquirer, NEW q, Standing(q),
           inquiry' = [inquiry EXCEPT ![c] = q],
           UNCHANGED <<registry, minute, store, honoured, issued>>
    PROVE  UpstreamInv'
<1>1. UpstreamTyped' /\ StoredAtHome'
  BY DEF UpstreamInv, UpstreamTyped, StoredAtHome
<1>2. ASSUME NEW d \in Inquirer  PROVE Standing(inquiry[d])'
  <2>1. inquiry'[d] = IF d = c THEN q ELSE inquiry[d]
    BY DEF UpstreamInv, UpstreamTyped
  <2>2. Standing(inquiry'[d])
    BY <2>1 DEF UpstreamInv
  <2>3. \A a : (Sound(a)' <=> Sound(a)) /\ Current(a)' = Current(a)
    BY DEF Sound, Current, Past
  <2>4. SparedIsSound(inquiry'[d]) => SparedIsSound(inquiry[d])'
    BY <2>3 DEF SparedIsSound
  <2> QED
    BY <2>2, <2>4 DEF Standing, Spared, Placed, TriedOnce
<1> QED  BY <1>1, <1>2 DEF UpstreamInv

\* A login that is sound yields the very token the product would use.
LEMMA SoundIsRead ==
    ASSUME UpstreamInv, NEW c \in Inquirer, inquiry[c] \in Asking, Spared(inquiry[c]),
           SparedIsSound(inquiry[c])
    PROVE  LET a == inquiry[c].of
           IN  /\ Current(a) \in Tokens /\ Taken(Current(a)) /\ ~store[a].locked
               /\ Yields(a, Current(a)) = Current(a)
<1> DEFINE a == inquiry[c].of
<1>1. a \in Adapter /\ Wire[a] = "claude" /\ Sound(a)
  BY DEF Asking, Spared, SparedIsSound
<1>2. Current(a) \in honoured /\ ~Past(a, Current(a)) /\ ~store[a].locked
  BY <1>1 DEF Sound
<1>3. Current(a) \in Tokens
  BY <1>1, <1>2, CurrentIsStored DEF UpstreamInv, UpstreamTyped
<1>4. Taken(Current(a))
  BY <1>1, <1>2, <1>3 DEF Past, Taken, Tokens, UpstreamInv, UpstreamTyped
<1> QED  BY <1>2, <1>3, <1>4 DEF Yields

LEMMA EndedStands ==
    ASSUME NEW call \in Asking, NEW v \in {"ok", "unusable", "moved", "misplaced", "rejected", "limited", "refused", "down"},
           Spared(call) => v # "rejected"
    PROVE  Standing(Ended(call, v))
<1>1. Ended(call, v) \in Finished
  BY DEF Ended, Finished, Asking
<1>2. Spared(Ended(call, v)) => v # "rejected"
  BY DEF Ended, Spared
<1> QED  BY <1>1, <1>2 DEF Standing, Ended

\* A read moves its call on, to a refusal only if it is not spared.
LEMMA GotStands ==
    ASSUME UpstreamInv, NEW c \in Inquirer, At(c) \in {"keychain", "file"}, inquiry[c] \in Asking,
           NEW x \in Tokens \cup {Nothing}, Spared(inquiry[c]) => x = Current(inquiry[c].of)
    PROVE  Standing(Got(c, x))
<1> DEFINE call == inquiry[c]
           a    == inquiry[c].of
<1>1. /\ call \in Asking /\ a \in Adapter /\ call.at \in {"keychain", "file"}
      /\ Placed(call) /\ TriedOnce(call) /\ (Spared(call) => SparedIsSound(call))
  BY DEF UpstreamInv, Standing, Unasked, Finished, Asking, At
<1>2. ASSUME NEW v \in {"ok", "unusable", "moved", "misplaced"}  PROVE Standing(Ended(call, v))
  BY <1>1, EndedStands
<1>3. CASE x = Nothing
  BY <1>2, <1>3 DEF Got
<1>4. CASE x # Nothing /\ call.phase = "status" /\ call.kind = "listing"
  BY <1>2, <1>4 DEF Got
<1>5. CASE x # Nothing /\ call.phase = "status" /\ call.kind # "listing"
  <2> DEFINE q == [call EXCEPT !.at = IF Wire[a] = "chat" THEN "file" ELSE "permit",
                               !.phase = "send", !.expected = ScopeOf(a, x)]
  <2>1. Got(c, x) = q
    BY <1>5 DEF Got
  <2>2. ScopeOf(a, x) \in {Nothing, 1, 2}
    BY <1>5 DEF ScopeOf, Tokens
  <2>2a. q \in Asking
    BY <1>1, <2>2 DEF Asking, Stages, Phases
  <2>3. /\ q.at = (IF Wire[a] = "chat" THEN "file" ELSE "permit") /\ q.phase = "send"
        /\ q.of = a /\ q.kind = call.kind /\ q.news = call.news /\ q.tried = call.tried
    BY <1>1 DEF Asking
  <2> HIDE DEF q
  <2>4. Placed(q) /\ TriedOnce(q)
    BY <1>1, <1>5, <2>3 DEF Placed, TriedOnce
  <2>5. Spared(q) => SparedIsSound(q)
    BY <1>1, <1>5, <2>3 DEF Spared, SparedIsSound
  <2> QED  BY <2>1, <2>2a, <2>4, <2>5 DEF Standing
<1>6. CASE /\ x # Nothing /\ call.phase # "status"
           /\ \/ call.phase = "send" /\ call.expected # Nothing /\ call.expected # ScopeOf(a, x)
              \/ ~HostOk(a)
  BY <1>2, <1>6 DEF Got
<1>7. CASE /\ x # Nothing /\ call.phase # "status"
           /\ ~(call.phase = "send" /\ call.expected # Nothing /\ call.expected # ScopeOf(a, x))
           /\ HostOk(a) /\ call.phase = "again" /\ x \in call.tried
  <2>1. ~Spared(call)
    BY <1>1, <1>7 DEF SparedIsSound
  <2> QED  BY <1>1, <1>7, <2>1, EndedStands DEF Got
<1>8. CASE /\ x # Nothing /\ call.phase # "status"
           /\ ~(call.phase = "send" /\ call.expected # Nothing /\ call.expected # ScopeOf(a, x))
           /\ HostOk(a) /\ ~(call.phase = "again" /\ x \in call.tried)
  <2> DEFINE q == [call EXCEPT !.at = "dial", !.token = x]
  <2>1. Got(c, x) = q
    BY <1>8 DEF Got
  <2>2. q \in Asking
    BY <1>1 DEF Asking, Stages
  <2>3. /\ q.at = "dial" /\ q.token = x /\ q.phase = call.phase
        /\ q.of = a /\ q.kind = call.kind /\ q.news = call.news /\ q.tried = call.tried
    BY <1>1 DEF Asking
  <2> HIDE DEF q
  <2>4. Placed(q) /\ TriedOnce(q)
    BY <1>1, <1>8, <2>3 DEF Placed, TriedOnce
  <2>5. Spared(q) => SparedIsSound(q)
    BY <1>1, <1>8, <2>3 DEF Spared, SparedIsSound
  <2> QED  BY <2>1, <2>2, <2>4, <2>5 DEF Standing
<1> QED  BY <1>3, <1>4, <1>5, <1>6, <1>7, <1>8

\* An asking call that only moves from one step to another.
LEMMA MovesTo ==
    ASSUME NEW q \in Asking, NEW at \in Stages
    PROVE  LET n == [q EXCEPT !.at = at]
           IN  /\ n \in Asking /\ n.at = at
               /\ n.of = q.of /\ n.kind = q.kind /\ n.phase = q.phase /\ n.tried = q.tried
               /\ n.token = q.token /\ n.news = q.news
BY DEF Asking

LEMMA BeginStands ==
    ASSUME UpstreamInv, NEW c \in Inquirer, NEW a \in registry, NEW kind \in Kinds, Begin(c, a, kind)
    PROVE  UpstreamInv'
<1> DEFINE q == [at |-> CASE kind = "models" -> "permit" [] kind = "probe" -> "probeSlot"
                         [] OTHER -> "statusSlot",
                 of |-> a, kind |-> kind,
                 phase |-> IF kind \in {"turn", "listing"} THEN "status" ELSE kind,
                 expected |-> Nothing, token |-> Nothing, tried |-> {}, list |-> Nothing,
                 news |-> IF Sound(a) THEN "none" ELSE "trouble"]
<1>1. a \in Adapter
  BY DEF UpstreamInv, UpstreamTyped
<1>2. q \in Asking
  BY <1>1 DEF Asking, Kinds, Phases, Stages, News
<1>3. /\ q.at \in {"permit", "probeSlot", "statusSlot"} /\ q.of = a /\ q.kind = kind
      /\ q.phase = (IF kind \in {"turn", "listing"} THEN "status" ELSE kind)
      /\ q.tried = {} /\ q.news = (IF Sound(a) THEN "none" ELSE "trouble")
      /\ q.at = "permit" => kind = "models"
  BY DEF Kinds
<1>4. /\ inquiry' = [inquiry EXCEPT ![c] = q]
      /\ kind = "models" => Wire[a] \in {"codex", "key"}
      /\ UNCHANGED <<registry, minute, store, honoured, issued>>
  BY DEF Begin, World
<1> HIDE DEF q
<1>5. Placed(q) /\ TriedOnce(q)
  BY <1>1, <1>3, <1>4 DEF Placed, TriedOnce, Kinds
<1>6. Spared(q) => SparedIsSound(q)
  BY <1>3 DEF Spared, SparedIsSound, Kinds
<1> QED  BY <1>2, <1>4, <1>5, <1>6, OneCallMoves DEF Standing

\* On to a step at which nothing is read, sent or judged.
LEMMA WaitStands ==
    ASSUME UpstreamInv, NEW c \in Inquirer, TakeSlot(c) \/ TakePermit(c) \/ StartRead(c)
    PROVE  UpstreamInv'
<1> DEFINE q == inquiry[c]
           at == CASE At(c) = "permit" -> "queued"
                   [] At(c) = "queued" -> IF Wired(c) = "claude" THEN "keychain" ELSE "file"
                   [] OTHER -> IF Wired(c) = "chat" THEN "file" ELSE "permit"
           n  == [q EXCEPT !.at = at]
<1>1. /\ q.at \in {"statusSlot", "probeSlot", "permit", "queued"}
      /\ inquiry' = [inquiry EXCEPT ![c] = n]
      /\ UNCHANGED <<registry, minute, store, honoured, issued>>
  BY DEF TakeSlot, SlotFree, TakePermit, PermitFree, StartRead, Go, World, At, UpstreamInv, UpstreamTyped
<1>2. q \in Asking /\ Placed(q) /\ TriedOnce(q) /\ (Spared(q) => SparedIsSound(q))
  BY <1>1 DEF UpstreamInv, Standing, Unasked, Finished
<1>3. at \in {"queued", "keychain", "file", "permit"} /\ at \in Stages
      /\ (at = "keychain" => Wire[q.of] = "claude")
      /\ (at # "file" => Wire[q.of] # "chat")
      /\ (at = "file" => Wire[q.of] # "claude")
  BY <1>1, <1>2 DEF At, Wired, Stages, Placed
<1>4. /\ n \in Asking /\ n.at = at
      /\ n.of = q.of /\ n.kind = q.kind /\ n.phase = q.phase /\ n.tried = q.tried
      /\ n.token = q.token /\ n.news = q.news
  BY <1>2, <1>3, MovesTo
<1> HIDE DEF n, at
<1>5. Placed(n) /\ TriedOnce(n)
  BY <1>1, <1>2, <1>3, <1>4 DEF Placed, TriedOnce
<1>6. Spared(n) => SparedIsSound(n)
  BY <1>1, <1>2, <1>3, <1>4 DEF Spared, SparedIsSound
<1> QED  BY <1>1, <1>4, <1>5, <1>6, OneCallMoves DEF Standing

LEMMA ReadStands ==
    ASSUME UpstreamInv, NEW c \in Inquirer, LookInKeychain(c) \/ LookInFile(c)
    PROVE  UpstreamInv'
<1> DEFINE q == inquiry[c]
           a == inquiry[c].of
<1>1. /\ q.at \in {"keychain", "file"} /\ At(c) = q.at
      /\ UNCHANGED <<registry, minute, store, honoured, issued>>
  BY DEF LookInKeychain, LookInFile, World, At
<1>2. /\ q \in Asking /\ Placed(q) /\ TriedOnce(q) /\ (Spared(q) => SparedIsSound(q)) /\ a \in Adapter
  BY <1>1 DEF UpstreamInv, Standing, Unasked, Finished, Asking
<1>3. /\ store[a].keychain \in Tokens \cup {Nothing} /\ store[a].file \in Tokens \cup {Nothing}
      /\ \A t \in Tokens \cup {Nothing} : Yields(a, t) \in Tokens \cup {Nothing}
  BY <1>2 DEF UpstreamInv, UpstreamTyped, Stored, Yields
<1>4. Spared(q) => /\ Current(a) # Nothing /\ ~store[a].locked /\ Yields(a, Current(a)) = Current(a)
                   /\ Current(a) = (IF store[a].keychain # Nothing THEN store[a].keychain ELSE store[a].file)
  BY <1>2, SoundIsRead, NothingIsNoToken DEF Current
<1>5. CASE At(c) = "keychain" /\ ~(store[a].locked \/ store[a].keychain = Nothing) /\ LookInKeychain(c)
  <2>1. inquiry' = [inquiry EXCEPT ![c] = Got(c, Yields(a, store[a].keychain))]
    BY <1>5 DEF LookInKeychain
  <2>2. Spared(q) => Yields(a, store[a].keychain) = Current(a)
    BY <1>4, <1>5
  <2>3. Standing(Got(c, Yields(a, store[a].keychain)))
    BY <1>1, <1>2, <1>3, <2>2, GotStands
  <2> QED  BY <1>1, <2>1, <2>3, OneCallMoves
<1>6. CASE At(c) = "keychain" /\ (store[a].locked \/ store[a].keychain = Nothing) /\ LookInKeychain(c)
  <2> DEFINE n == [q EXCEPT !.at = "file"]
  <2>1. inquiry' = [inquiry EXCEPT ![c] = n]
    BY <1>6 DEF LookInKeychain, Go, At, UpstreamInv, UpstreamTyped
  <2>2. "file" \in Stages
    BY DEF Stages
  <2>3. /\ n \in Asking /\ n.at = "file"
        /\ n.of = q.of /\ n.kind = q.kind /\ n.phase = q.phase /\ n.tried = q.tried
        /\ n.token = q.token /\ n.news = q.news
    BY <1>2, <2>2, MovesTo
  <2> HIDE DEF n
  <2>4. Placed(n) /\ TriedOnce(n)
    BY <1>1, <1>2, <2>3 DEF Placed, TriedOnce
  <2>5. Spared(n) => SparedIsSound(n)
    BY <1>1, <1>2, <1>4, <1>6, <2>3 DEF Spared, SparedIsSound
  <2> QED  BY <1>1, <2>1, <2>3, <2>4, <2>5, OneCallMoves DEF Standing
<1>7. CASE /\ At(c) = "file"
           /\ inquiry' = [inquiry EXCEPT ![c] = Got(c, Yields(a, store[a].file))]
  <2>1. Spared(q) => Yields(a, store[a].file) = Current(a)
    BY <1>1, <1>2, <1>4, <1>7 DEF SparedIsSound
  <2>2. Standing(Got(c, Yields(a, store[a].file)))
    BY <1>1, <1>2, <1>3, <2>1, GotStands
  <2> QED  BY <1>1, <1>7, <2>2, OneCallMoves
<1>8. CASE inquiry' = [inquiry EXCEPT ![c] = [Got(c, Nothing) EXCEPT !.news = "trouble"]]
  <2> DEFINE n == [Got(c, Nothing) EXCEPT !.news = "trouble"]
  <2>1. n \in Finished /\ n.verdict = "unusable"
    BY <1>2 DEF Got, Ended, Finished, Asking, News
  <2>2. Standing(n)
    BY <2>1 DEF Standing
  <2> QED  BY <1>1, <1>8, <2>2, OneCallMoves
<1> QED
  <2>1. CASE LookInKeychain(c)
    BY <1>5, <1>6, <2>1 DEF LookInKeychain
  <2>2. CASE LookInFile(c)
    BY <1>7, <1>8, <2>2 DEF LookInFile
  <2> QED  BY <2>1, <2>2

LEMMA DialStands ==
    ASSUME UpstreamInv, NEW c \in Inquirer, Dial(c)
    PROVE  UpstreamInv'
<1> DEFINE q == inquiry[c]
           n == [q EXCEPT !.at = "dialled", !.tried = @ \cup {q.token}]
<1>1. /\ q.at = "dial" /\ inquiry' = [inquiry EXCEPT ![c] = n]
      /\ UNCHANGED <<registry, minute, store, honoured, issued>>
  <2>1. q.at = "dial" /\ UNCHANGED <<registry, minute, store, honoured, issued>>
    BY DEF Dial, World, At
  <2>2. inquiry' = [inquiry EXCEPT ![c] = n]
    BY Zenon DEF Dial
  <2> QED  BY <2>1, <2>2
<1>2. q \in Asking /\ Placed(q) /\ TriedOnce(q) /\ (Spared(q) => SparedIsSound(q))
  BY <1>1 DEF UpstreamInv, Standing, Unasked, Finished
<1>3. q.token \in Tokens
  BY <1>1, <1>2 DEF TriedOnce
<1>4. /\ n \in Asking /\ n.at = "dialled" /\ n.tried = q.tried \cup {q.token}
      /\ n.of = q.of /\ n.kind = q.kind /\ n.phase = q.phase
      /\ n.token = q.token /\ n.news = q.news
  BY <1>2, <1>3 DEF Asking, Stages
<1> HIDE DEF n
<1>5. Placed(n) /\ TriedOnce(n)
  BY <1>1, <1>2, <1>3, <1>4 DEF Placed, TriedOnce
<1>6. Spared(n) => SparedIsSound(n)
  BY <1>1, <1>2, <1>4 DEF Spared, SparedIsSound
<1> QED  BY <1>1, <1>4, <1>5, <1>6, OneCallMoves DEF Standing

(***************************************************************************)
(* Why one refresh cannot lose a spared turn: the token it sent is the one *)
(* that is there, which the provider takes, unless the refresh came        *)
(* between; then the denied one is another, and it reads once more.        *)
(***************************************************************************)
LEMMA AnswerStands ==
    ASSUME UpstreamInv, NEW c \in Inquirer, NEW answer \in {"ok", "denied", "limited", "refused", "down"},
           NEW report \in Reports, Answered(c, answer, report)
    PROVE  UpstreamInv'
<1> DEFINE q == inquiry[c]
           a == inquiry[c].of
<1>1. /\ q.at = "dialled" /\ inquiry' = [inquiry EXCEPT ![c] = Verdict(c, answer)]
      /\ UNCHANGED <<registry, minute, store, honoured, issued>>
      /\ answer = "denied" => ~Taken(q.token)
  BY DEF Answered, World, At, MayAnswer
<1>2. /\ q \in Asking /\ Placed(q) /\ TriedOnce(q) /\ (Spared(q) => SparedIsSound(q))
  BY <1>1 DEF UpstreamInv, Standing, Unasked, Finished
<1>3. Spared(q) => Taken(Current(a))
  BY <1>2, SoundIsRead
<1>4. Spared(q) /\ answer = "denied" => q.phase = "send" /\ q.news = "rotated" /\ Current(a) # q.token
  <2> SUFFICES ASSUME Spared(q), answer = "denied"
               PROVE  q.phase = "send" /\ q.news = "rotated" /\ Current(a) # q.token
    OBVIOUS
  <2>1. Current(a) # q.token
    BY <1>1, <1>3
  <2>2. q.phase # "again" /\ q.news # "none"
    BY <1>1, <1>2, <2>1 DEF SparedIsSound
  <2>3. q.phase = "send" /\ q.news = "rotated"
    BY <1>1, <1>2, <2>2 DEF Placed, Spared, Asking, News
  <2> QED  BY <2>1, <2>3
<1>5. CASE answer = "denied" /\ Wired(c) = "claude" /\ q.phase = "send"
  <2> DEFINE n == [q EXCEPT !.at = "permit", !.phase = "again", !.token = Nothing]
  <2>1. Verdict(c, answer) = n
    BY <1>5 DEF Verdict
  <2>2. /\ n \in Asking /\ n.at = "permit" /\ n.phase = "again" /\ n.tried = q.tried
        /\ n.of = a /\ n.kind = q.kind /\ n.news = q.news
    BY <1>2 DEF Asking, Stages, Phases
  <2> HIDE DEF n
  <2>3. Placed(n) /\ TriedOnce(n)
    BY <1>2, <1>5, <2>2 DEF Placed, TriedOnce, Wired
  <2>4. q.tried = {q.token}
    BY <1>1, <1>2, <1>5 DEF TriedOnce
  <2>5. Spared(n) => SparedIsSound(n)
    BY <1>2, <1>4, <1>5, <2>2, <2>4 DEF Spared, SparedIsSound
  <2> QED  BY <1>1, <2>1, <2>2, <2>3, <2>5, OneCallMoves DEF Standing
<1>6. CASE answer = "denied" /\ ~(Wired(c) = "claude" /\ q.phase = "send")
  <2>1. ~Spared(q)
    BY <1>4, <1>6 DEF Spared, Wired
  <2>2. Standing(Ended(q, "rejected"))
    BY <1>2, <2>1, EndedStands
  <2> QED  BY <1>1, <1>6, <2>2, OneCallMoves DEF Verdict
<1>7. CASE answer = "ok" /\ q.phase \in {"probe", "models"}
  <2> DEFINE n == [q EXCEPT !.at = "learn"]
  <2>1. Verdict(c, answer) = n
    BY <1>7 DEF Verdict
  <2>2. "learn" \in Stages
    BY DEF Stages
  <2>3. /\ n \in Asking /\ n.at = "learn" /\ n.phase = q.phase /\ n.kind = q.kind
    BY <1>2, <2>2, MovesTo
  <2> HIDE DEF n
  <2>4. n.kind # "turn"
    BY <1>2, <1>7, <2>3 DEF Placed
  <2>5. Placed(n) /\ TriedOnce(n) /\ ~Spared(n)
    BY <2>3, <2>4 DEF Placed, TriedOnce, Spared
  <2> QED  BY <1>1, <2>1, <2>3, <2>5, OneCallMoves DEF Standing
<1>8. CASE answer # "denied" /\ ~(answer = "ok" /\ q.phase \in {"probe", "models"})
  <2>1. Standing(Ended(q, answer))
    BY <1>2, <1>8, EndedStands
  <2> QED  BY <1>1, <1>8, <2>1, OneCallMoves DEF Verdict
<1> QED  BY <1>5, <1>6, <1>7, <1>8

LEMMA LearnStands ==
    ASSUME UpstreamInv, NEW c \in Inquirer, Learn(c) \/ Keep(c)
    PROVE  UpstreamInv'
<1> DEFINE q == inquiry[c]
<1>1. q.at \in {"learn", "keep"} /\ UNCHANGED <<registry, minute, store, honoured, issued>>
  BY DEF Learn, Keep, World, At
<1>2. q \in Asking /\ Placed(q)
  BY <1>1 DEF UpstreamInv, Standing, Unasked, Finished
<1>3. Standing(Ended(q, "ok"))
  BY <1>2, EndedStands
<1>4. CASE inquiry' = [inquiry EXCEPT ![c] = Ended(@, "ok")]
  <2>1. inquiry' = [inquiry EXCEPT ![c] = Ended(q, "ok")]
    BY <1>4 DEF UpstreamInv, UpstreamTyped
  <2> QED  BY <1>1, <1>3, <2>1, OneCallMoves
<1>5. ASSUME NEW m \in Models, inquiry' = [inquiry EXCEPT ![c] = [@ EXCEPT !.at = "keep", !.list = m]]
      PROVE  UpstreamInv'
  <2> DEFINE n == [q EXCEPT !.at = "keep", !.list = m]
  <2>1. inquiry' = [inquiry EXCEPT ![c] = n]
    BY <1>5 DEF UpstreamInv, UpstreamTyped
  <2>2. n \in Asking /\ n.at = "keep" /\ n.kind = q.kind
    BY <1>2 DEF Asking, Stages
  <2> HIDE DEF n
  <2>3. n.kind # "turn"
    BY <1>1, <1>2, <2>2 DEF Placed
  <2>4. Placed(n) /\ TriedOnce(n) /\ ~Spared(n)
    BY <2>2, <2>3 DEF Placed, TriedOnce, Spared
  <2> QED  BY <1>1, <2>1, <2>2, <2>4, OneCallMoves DEF Standing
<1>6. CASE Learn(c)
  <2>1. \/ inquiry' = [inquiry EXCEPT ![c] = Ended(@, "ok")]
        \/ \E m \in Models : inquiry' = [inquiry EXCEPT ![c] = [@ EXCEPT !.at = "keep", !.list = m]]
    BY <1>6 DEF Learn, UpstreamInv, UpstreamTyped
  <2> QED  BY <1>4, <1>5, <2>1
<1>7. CASE Keep(c)
  BY <1>4, <1>7 DEF Keep
<1> QED  BY <1>6, <1>7

LEMMA LeaveStands ==
    ASSUME UpstreamInv, NEW c \in Inquirer, Return(c) \/ GiveUp(c)
    PROVE  UpstreamInv'
<1>1. inquiry' = [inquiry EXCEPT ![c] = Unasked] /\ UNCHANGED <<registry, minute, store, honoured, issued>>
  BY DEF Return, GiveUp, World
<1>2. Standing(Unasked)
  BY DEF Standing
<1> QED  BY <1>1, <1>2, OneCallMoves

\* What news changes of a call: nothing but how spared it is.
LEMMA ToldIsNews ==
    ASSUME UpstreamInv, NEW d \in Inquirer, inquiry[d].at # "idle", NEW news \in News
    PROVE  LET q == inquiry[d]
               n == [q EXCEPT !.news = news]
           IN  /\ n.at = q.at /\ n.of = q.of /\ n.kind = q.kind /\ n.news = news
               /\ q \in Finished => n \in Finished /\ n.verdict = q.verdict
               /\ q \in Asking => /\ n \in Asking /\ n.phase = q.phase /\ n.tried = q.tried
                                  /\ n.token = q.token
               /\ q \in Asking /\ Placed(q) => Placed(n)
               /\ q \in Asking /\ TriedOnce(q) => TriedOnce(n)
               /\ q \in Finished \/ (q \in Asking /\ Placed(q) /\ TriedOnce(q))
<1> DEFINE q == inquiry[d]
           n == [q EXCEPT !.news = news]
<1>1. q \in Finished \/ (q \in Asking /\ Placed(q) /\ TriedOnce(q))
  BY DEF UpstreamInv, Standing, Unasked
<1>2. q \in Finished => n \in Finished /\ n.verdict = q.verdict
  BY DEF Finished
<1>3. /\ n.at = q.at /\ n.of = q.of /\ n.kind = q.kind /\ n.news = news
  BY <1>1 DEF Finished, Asking
<1>4. q \in Asking => /\ n \in Asking /\ n.phase = q.phase /\ n.tried = q.tried
                      /\ n.token = q.token
  BY DEF Asking
<1> HIDE DEF n
<1>5. q \in Asking /\ Placed(q) => Placed(n)
  BY <1>3, <1>4 DEF Placed
<1>6. q \in Asking /\ TriedOnce(q) => TriedOnce(n)
  BY <1>3, <1>4 DEF TriedOnce
<1> QED  BY <1>1, <1>2, <1>3, <1>4, <1>5, <1>6 DEF n

\* A call that has heard the worst is spared no more.
LEMMA TroubledStands ==
    ASSUME UpstreamInv, NEW d \in Inquirer, inquiry[d].at # "idle"
    PROVE  LET n == [inquiry[d] EXCEPT !.news = "trouble"]
           IN  /\ n \in Finished \/ (n \in Asking /\ Placed(n) /\ TriedOnce(n))
               /\ ~Spared(n)
<1> DEFINE n == [inquiry[d] EXCEPT !.news = "trouble"]
<1>1. "trouble" \in News
  BY DEF News
<1>2. /\ n.news = "trouble"
      /\ n \in Finished \/ (n \in Asking /\ Placed(n) /\ TriedOnce(n))
  BY <1>1, ToldIsNews
<1> QED  BY <1>2 DEF Spared

LEMMA WorldStands ==
    ASSUME UpstreamInv,
           \/ \E a \in registry :
                \/ \E who \in {1, 2}, life \in Lifetimes : Refresh(a, who, life)
                \/ Revoked(a)
                \/ LockKeychain(a)
           \/ Passes
    PROVE  UpstreamInv'
<1> USE NothingIsNoToken
<1>1. /\ registry' = registry /\ \A a \in registry : a \in Adapter
      /\ \A a \in Adapter : /\ store[a] \in Stored
                            /\ Current(a) \in Tokens \cup {Nothing}
                            /\ Current(a) # Nothing => Current(a).of = a
  BY CurrentIsStored DEF UpstreamInv, UpstreamTyped, Refresh, Revoked, LockKeychain, Passes
<1>0. \A a, b \in Adapter : a # b /\ Current(b) # Nothing => Current(b) # Current(a)
  <2>1. \A a \in Adapter : Current(a) # Nothing => Current(a).of = a
    BY CurrentIsStored DEF UpstreamInv
  <2> QED  BY <2>1
<1>2. CASE Passes
  <2>1. /\ UNCHANGED <<registry, store, honoured, issued>> /\ minute' = minute + 1
        /\ inquiry' = [c \in Inquirer |-> IF At(c) # "idle" THEN [inquiry[c] EXCEPT !.news = "trouble"]
                                          ELSE inquiry[c]]
    BY <1>2 DEF Passes
  <2>2. UpstreamTyped' /\ StoredAtHome'
    BY <2>1 DEF UpstreamInv, UpstreamTyped, StoredAtHome
  <2>3. ASSUME NEW d \in Inquirer  PROVE Standing(inquiry[d])'
    <3>1. CASE At(d) = "idle"
      <4>1. inquiry'[d] = Unasked
        BY <2>1, <3>1 DEF At, UpstreamInv, Standing, Finished, Asking, Stages
      <4> QED  BY <4>1 DEF Standing, Unasked
    <3>2. CASE At(d) # "idle"
      <4>1. /\ inquiry'[d] \in Finished \/ (inquiry'[d] \in Asking /\ Placed(inquiry'[d]) /\ TriedOnce(inquiry'[d]))
            /\ ~Spared(inquiry'[d])
        BY <2>1, <3>2, TroubledStands DEF At
      <4> QED  BY <4>1 DEF Standing, Placed, TriedOnce, Spared
    <3> QED  BY <3>1, <3>2
  <2> QED  BY <2>2, <2>3 DEF UpstreamInv
<1>3. ASSUME NEW a \in Adapter, NEW mild \in BOOLEAN, Told(a, mild), UNCHANGED minute,
             UpstreamTyped', StoredAtHome',
             \A b \in Adapter \ {a} : store'[b] = store[b] /\ (Sound(b) => Current(b) \in honoured'),
             mild /\ Wire[a] = "claude" =>
                 (Sound(a) => Sound(a)') /\ (store[a].keychain = Nothing => store'[a].keychain = Nothing)
      PROVE  UpstreamInv'
  <2>1. ASSUME NEW d \in Inquirer  PROVE Standing(inquiry[d])'
    <3> DEFINE q == inquiry[d]
    <3>1. inquiry'[d] = IF q.at # "idle" /\ q.of = a
                        THEN [q EXCEPT !.news = IF mild /\ q.news = "none" THEN "rotated" ELSE "trouble"]
                        ELSE q
      BY <1>3 DEF Told, At
    <3>2. CASE q.at = "idle"
      <4>1. q = Unasked
        BY <3>2 DEF UpstreamInv, Standing, Finished, Asking, Stages
      <4> QED  BY <3>1, <3>2, <4>1 DEF Standing, Unasked
    <3>3. CASE q.at # "idle" /\ q.of # a
      <4>1. q.of \in Adapter \ {a}
        BY <3>3 DEF UpstreamInv, Standing, Unasked, Finished, Asking
      <4>2. ASSUME NEW b \in Adapter \ {a}
            PROVE  store'[b] = store[b] /\ (Sound(b) => Sound(b)')
        BY <1>3, <4>2 DEF Sound, Current, Past
      <4>3. inquiry'[d] = q
        BY <3>1, <3>3
      <4>4. Standing(q)
        BY DEF UpstreamInv
      <4>5. Spared(q) /\ SparedIsSound(q) => SparedIsSound(q)'
        BY <4>1, <4>2, <4>3 DEF SparedIsSound, Current
      <4> QED  BY <4>3, <4>4, <4>5 DEF Standing, Placed, TriedOnce, Spared
    <3>4. CASE q.at # "idle" /\ q.of = a /\ ~(mild /\ q.news = "none")
      <4>1. /\ inquiry'[d] \in Finished \/ (inquiry'[d] \in Asking /\ Placed(inquiry'[d]) /\ TriedOnce(inquiry'[d]))
            /\ ~Spared(inquiry'[d])
        BY <3>1, <3>4, TroubledStands
      <4> QED  BY <4>1 DEF Standing, Placed, TriedOnce, Spared
    <3>5. CASE q.at # "idle" /\ q.of = a /\ mild /\ q.news = "none"
      <4> DEFINE n == [q EXCEPT !.news = "rotated"]
      <4>1. inquiry'[d] = n
        BY <3>1, <3>5
      <4>2. "rotated" \in News
        BY DEF News
      <4>3. n.at = q.at /\ n.of = a /\ n.kind = q.kind /\ n.news = "rotated"
        BY <3>5, <4>2, ToldIsNews
      <4>4. q \in Finished \/ q \in Asking
        BY <3>5 DEF UpstreamInv, Standing, Unasked
      <4>5. CASE q \in Finished
        <5>1. n \in Finished /\ n.verdict = q.verdict
          BY <3>5, <4>2, <4>5, ToldIsNews
        <5>2. Spared(q) => q.verdict # "rejected"
          BY <3>5, <4>5 DEF UpstreamInv, Standing, Finished, Asking, Stages, Unasked
        <5>3. Spared(n) => Spared(q)
          BY <3>5, <4>3 DEF Spared
        <5> HIDE DEF n
        <5> QED  BY <4>1, <5>1, <5>2, <5>3 DEF Standing, Spared
      <4>6. CASE q \in Asking
        <5>1. Placed(q) /\ TriedOnce(q) /\ (Spared(q) => SparedIsSound(q))
          BY <3>5, <4>6 DEF UpstreamInv, Standing, Finished, Asking, Stages, Unasked
        <5>2. n \in Asking /\ n.phase = q.phase /\ n.tried = q.tried /\ n.token = q.token
          BY <3>5, <4>2, <4>6, ToldIsNews
        <5>3. Placed(n) /\ TriedOnce(n)
          BY <3>5, <4>2, <4>6, <5>1, ToldIsNews
        <5> HIDE DEF n
        <5>4. ASSUME Spared(n)  PROVE SparedIsSound(inquiry[d])'
          <6>1. Spared(q) /\ SparedIsSound(q) /\ Wire[a] = "claude"
            BY <3>5, <4>3, <5>1, <5>4 DEF Spared
          <6>2. Sound(a)' /\ (q.at = "file" => store'[a].keychain = Nothing) /\ q.phase # "again"
            <7>1. Sound(a) /\ (q.at = "file" => store[a].keychain = Nothing) /\ q.phase # "again"
              BY <3>5, <6>1 DEF SparedIsSound
            <7> QED  BY <1>3, <3>5, <6>1, <7>1
          <6> QED  BY <4>1, <4>3, <5>2, <6>2 DEF SparedIsSound
        <5> QED  BY <4>1, <5>2, <5>3, <5>4 DEF Standing, Placed, TriedOnce, Spared
      <4> QED  BY <4>4, <4>5, <4>6
    <3> QED  BY <3>2, <3>3, <3>4, <3>5
  <2> QED  BY <1>3, <2>1 DEF UpstreamInv
<1>4. ASSUME NEW a \in registry, NEW who \in {1, 2}, NEW life \in Lifetimes, Refresh(a, who, life)
      PROVE  UpstreamInv'
  <2> DEFINE t    == Mint(a, who, life)
             old  == Current(a)
             slot == IF store[a].keychain # Nothing THEN "keychain" ELSE "file"
             same == old # Nothing /\ old.who = who
  <2>1. /\ store' = [store EXCEPT ![a][slot] = t]
        /\ honoured' = honoured \cup {t} \/ honoured' = (honoured \ {old}) \cup {t}
        /\ Told(a, same)
        /\ issued' = issued + 1 /\ minute' = minute /\ registry' = registry /\ ~store[a].locked
    BY <1>4 DEF Refresh
  <2>2. a \in Adapter /\ minute \in Nat /\ issued \in Nat /\ store \in [Adapter -> Stored]
    BY <1>1 DEF UpstreamInv, UpstreamTyped
  <2>3. t \in Tokens /\ t.of = a /\ (t.until = Nothing \/ (t.until \in Nat /\ t.until > minute))
    BY <2>2, UpstreamAssumption DEF Mint, Tokens
  <2> HIDE DEF t
  <2>4. /\ store' \in [Adapter -> Stored]
        /\ \A b \in Adapter \ {a} : store'[b] = store[b]
        /\ store[a].keychain = Nothing =>
              store'[a].keychain = Nothing /\ store'[a].file = t
        /\ store[a].keychain # Nothing =>
              store'[a].keychain = t /\ store'[a].file = store[a].file
        /\ store'[a].locked = store[a].locked
    <3>1. store[a] \in Stored
      BY <2>2
    <3>2. CASE store[a].keychain = Nothing
      <4>1. store' = [store EXCEPT ![a] = [store[a] EXCEPT !.file = t]]
        BY <2>1, <3>2
      <4>2. [store[a] EXCEPT !.file = t] \in Stored
        BY <2>3, <3>1 DEF Stored
      <4> QED  BY <2>2, <3>1, <3>2, <4>1, <4>2 DEF Stored
    <3>3. CASE store[a].keychain # Nothing
      <4>1. store' = [store EXCEPT ![a] = [store[a] EXCEPT !.keychain = t]]
        BY <2>1, <3>3
      <4>2. [store[a] EXCEPT !.keychain = t] \in Stored
        BY <2>3, <3>1 DEF Stored
      <4> QED  BY <2>2, <3>1, <3>3, <4>1, <4>2 DEF Stored
    <3> QED  BY <3>2, <3>3
  <2>5. StoredAtHome'
    BY <2>3, <2>4 DEF UpstreamInv, StoredAtHome
  <2>6. t # Nothing /\ Current(a)' = t
    BY <2>3, <2>4 DEF Current
  <2>7. UpstreamTyped'
    <3>1. inquiry' = [c \in Inquirer |-> inquiry'[c]]
      BY <2>1 DEF Told
    <3> QED  BY <2>1, <2>2, <2>4, <2>6, <3>1 DEF UpstreamInv, UpstreamTyped
  <2>8. ASSUME NEW b \in Adapter \ {a}, Sound(b)  PROVE Current(b) \in honoured'
    <3>1. Current(b) \in honoured /\ Current(b) # Nothing
      BY <2>8 DEF Sound, UpstreamInv, UpstreamTyped
    <3>2. Current(b) # old
      BY <1>0, <2>2, <3>1
    <3> QED  BY <2>1, <3>1, <3>2
  <2>9. Wire[a] = "claude" => Sound(a)'
    <3>1. t \in honoured' /\ ~store'[a].locked
      BY <2>1, <2>4
    <3>2. Wire[a] = "claude" => ~Past(a, Current(a))'
      BY <2>1, <2>2, <2>3, <2>6 DEF Past
    <3> QED  BY <2>6, <3>1, <3>2 DEF Sound
  <2>10. same \in BOOLEAN
    OBVIOUS
  <2> QED  BY <1>3, <2>1, <2>2, <2>4, <2>5, <2>7, <2>8, <2>9, <2>10
<1>5. ASSUME NEW a \in registry, Revoked(a)
      PROVE  UpstreamInv'
  <2>1. a \in Adapter /\ store \in [Adapter -> Stored]
    BY <1>1 DEF UpstreamInv, UpstreamTyped
  <2>2. /\ UNCHANGED <<registry, minute, issued>> /\ Told(a, FALSE)
        /\ \/ honoured' = honoured \ {Current(a)} /\ store' = store
           \/ /\ honoured' = honoured
              /\ store' = [store EXCEPT ![a].keychain = Nothing,
                                        ![a].file = IF @ = Current(a) THEN Nothing ELSE @]
    BY <1>5 DEF Revoked
  <2>3. /\ store' \in [Adapter -> Stored]
        /\ \A b \in Adapter \ {a} : store'[b] = store[b]
        /\ store'[a].keychain \in {store[a].keychain, Nothing}
        /\ store'[a].file \in {store[a].file, Nothing}
    BY <2>1, <2>2 DEF Stored
  <2>4. StoredAtHome'
    BY <2>3 DEF UpstreamInv, StoredAtHome
  <2>5. UpstreamTyped'
    <3>1. inquiry' = [c \in Inquirer |-> inquiry'[c]]
      BY <2>2 DEF Told
    <3> QED  BY <2>2, <2>3, <3>1 DEF UpstreamInv, UpstreamTyped
  <2>6. ASSUME NEW b \in Adapter \ {a}, Sound(b)  PROVE Current(b) \in honoured'
    <3>1. Current(b) \in honoured /\ Current(b) # Nothing
      BY <2>6 DEF Sound, UpstreamInv, UpstreamTyped
    <3>2. Current(b) # Current(a)
      BY <1>0, <2>1, <3>1
    <3> QED  BY <2>2, <3>1, <3>2
  <2> QED  BY <1>3, <2>1, <2>2, <2>3, <2>4, <2>5, <2>6
<1>6. ASSUME NEW a \in registry, LockKeychain(a)
      PROVE  UpstreamInv'
  <2>1. a \in Adapter /\ store \in [Adapter -> Stored]
    BY <1>1 DEF UpstreamInv, UpstreamTyped
  <2>2. /\ UNCHANGED <<registry, minute, honoured, issued>> /\ Told(a, FALSE)
        /\ store' = [store EXCEPT ![a].locked = ~@]
    BY <1>6 DEF LockKeychain
  <2>3. /\ store' \in [Adapter -> Stored]
        /\ \A b \in Adapter \ {a} : store'[b] = store[b]
        /\ store'[a].keychain = store[a].keychain /\ store'[a].file = store[a].file
    BY <2>1, <2>2 DEF Stored
  <2>4. StoredAtHome'
    BY <2>3 DEF UpstreamInv, StoredAtHome
  <2>5. UpstreamTyped'
    <3>1. inquiry' = [c \in Inquirer |-> inquiry'[c]]
      BY <2>2 DEF Told
    <3> QED  BY <2>2, <2>3, <3>1 DEF UpstreamInv, UpstreamTyped
  <2>6. ASSUME NEW b \in Adapter \ {a}, Sound(b)  PROVE Current(b) \in honoured'
    BY <2>2, <2>6 DEF Sound
  <2> QED  BY <1>3, <2>1, <2>2, <2>3, <2>4, <2>5, <2>6
<1> QED  BY <1>2, <1>4, <1>5, <1>6

LEMMA UpstreamStep == UpstreamInv /\ [UpstreamNext]_upstream => UpstreamInv'
<1> SUFFICES ASSUME UpstreamInv, [UpstreamNext]_upstream  PROVE UpstreamInv'
  OBVIOUS
<1>1. CASE \E c \in Inquirer : \/ TakeSlot(c) \/ TakePermit(c) \/ StartRead(c)
                               \/ LookInKeychain(c) \/ LookInFile(c) \/ Dial(c)
                               \/ Learn(c) \/ Keep(c) \/ Return(c) \/ GiveUp(c)
  BY <1>1, WaitStands, ReadStands, DialStands, LearnStands, LeaveStands
<1>2. CASE \E c \in Inquirer, answer \in {"ok", "denied", "limited", "refused", "down"}, report \in Reports :
               Answered(c, answer, report)
  BY <1>2, AnswerStands
<1>3. CASE OrphanStarts \/ OrphanEnds \/ UNCHANGED upstream
  <2>1. UNCHANGED <<registry, minute, store, honoured, issued, inquiry>>
    BY <1>3 DEF OrphanStarts, OrphanEnds, upstream, World
  <2> QED
    BY <2>1 DEF UpstreamInv, UpstreamTyped, StoredAtHome, Standing, Spared, SparedIsSound, Sound,
                Current, Past, Placed, TriedOnce
<1>4. CASE \E c \in Inquirer, a \in registry, kind \in {"turn", "listing", "probe", "models"} :
               Begin(c, a, kind)
  BY <1>4, BeginStands DEF Kinds
<1>5. CASE \/ \E a \in registry :
                \/ \E who \in {1, 2}, life \in Lifetimes : Refresh(a, who, life)
                \/ Revoked(a)
                \/ LockKeychain(a)
           \/ Passes
  BY <1>5, WorldStands
<1> QED  BY <1>1, <1>2, <1>3, <1>4, <1>5 DEF UpstreamNext, Proceeds

LEMMA UpstreamStart == RequestInit => UpstreamInv
<1> SUFFICES ASSUME RequestInit  PROVE UpstreamInv
  OBVIOUS
<1>1. /\ registry \in Registries /\ minute = 0 /\ issued = 0
      /\ store \in Stores /\ honoured = {Current(a) : a \in Adapter}
      /\ inquiry = [c \in Inquirer |-> Unasked]
  BY DEF RequestInit, UpstreamInit
<1>2. PICK chain \in SUBSET {a \in Adapter : Wire[a] = "claude"} :
           store = [a \in Adapter |-> [keychain |-> IF a \in chain THEN Given(a) ELSE Nothing,
                                       locked |-> FALSE,
                                       file |-> IF a \in chain THEN Nothing ELSE Given(a)]]
  BY <1>1 DEF Stores
<1>3. \A a \in Adapter : Given(a) \in Tokens /\ Given(a) # Nothing /\ Given(a).of = a
  BY NothingIsNoToken DEF Given, Tokens
<1>4. \A a \in Adapter : Current(a) # Nothing
  BY <1>2, <1>3 DEF Current
<1>5. store \in [Adapter -> Stored]
  BY <1>2, <1>3 DEF Stored
<1>6. StoredAtHome
  BY <1>2, <1>3 DEF StoredAtHome
<1>7. registry \subseteq Adapter
  BY <1>1, UpstreamAssumption
<1>8. UpstreamTyped
  BY <1>1, <1>4, <1>5, <1>7 DEF UpstreamTyped
<1>9. \A c \in Inquirer : Standing(inquiry[c])
  BY <1>1 DEF Standing
<1> QED  BY <1>6, <1>8, <1>9 DEF UpstreamInv

(***************************************************************************)
(* A turn that began on a sound login of Claude Code survives one refresh  *)
(* of its token, at whatever step it comes, and sends no token twice: for  *)
(* any number of calls, logins and tokens (anthropic.rs send).             *)
(***************************************************************************)
THEOREM RefreshIsSurvived == RequestSpec => []RotationIsSurvived
<1>1. UpstreamInv /\ [RequestNext]_request => UpstreamInv'
  <2> SUFFICES ASSUME UpstreamInv, [RequestNext]_request  PROVE UpstreamInv'
    OBVIOUS
  <2>1. [UpstreamNext]_upstream
    BY DEF RequestNext, request
  <2> QED  BY <2>1, UpstreamStep
<1>2. UpstreamInv => RotationIsSurvived
  <2> SUFFICES ASSUME UpstreamInv, NEW c \in Inquirer, At(c) # "idle"
               PROVE  /\ At(c) = "dial" => inquiry[c].token \notin inquiry[c].tried
                      /\ At(c) = "done" /\ Wired(c) = "claude" /\ inquiry[c].kind = "turn" =>
                           inquiry[c].verdict # "rejected" \/ inquiry[c].news = "trouble"
    BY DEF RotationIsSurvived
  <2>1. CASE inquiry[c] \in Finished
    BY <2>1 DEF UpstreamInv, Standing, Finished, Asking, Stages, Unasked, Spared, At, Wired
  <2>2. CASE inquiry[c] \in Asking
    BY <2>2 DEF UpstreamInv, Standing, Finished, Asking, Stages, Unasked, TriedOnce, At
  <2> QED  BY <2>1, <2>2 DEF UpstreamInv, Standing, Unasked, At
<1> QED  BY <1>1, <1>2, UpstreamStart, PTL DEF RequestSpec

-----------------------------------------------------------------------------
(* The permits: each is free, or with a call, or with a job nobody waits for *)

WithPermit(q) == q.at = "queued" \/ (q.at \in {"keychain", "file"} /\ Wire[q.of] # "chat")
HeldPermits   == {c \in Inquirer : WithPermit(inquiry[c])}

PermitsInv ==
    /\ permits \in Nat /\ orphans \in [queued : Nat, running : Nat]
    /\ Cardinality(HeldPermits) + orphans.running + orphans.queued + permits = Reads

LEMMA HeldIsFinite == IsFiniteSet(HeldPermits) /\ Cardinality(HeldPermits) \in Nat
BY UpstreamAssumption, FS_Subset, FS_CardinalityType DEF HeldPermits

LEMMA HeldMoves ==
    ASSUME UpstreamInv, NEW c \in Inquirer, NEW q, inquiry' = [inquiry EXCEPT ![c] = q]
    PROVE  /\ WithPermit(q) /\ ~WithPermit(inquiry[c]) =>
                  Cardinality(HeldPermits)' = Cardinality(HeldPermits) + 1
           /\ ~WithPermit(q) /\ WithPermit(inquiry[c]) =>
                  Cardinality(HeldPermits)' = Cardinality(HeldPermits) - 1
           /\ (WithPermit(q) <=> WithPermit(inquiry[c])) => HeldPermits' = HeldPermits
<1>1. \A d \in Inquirer : inquiry'[d] = IF d = c THEN q ELSE inquiry[d]
  BY DEF UpstreamInv, UpstreamTyped
<1>2. c \in HeldPermits <=> WithPermit(inquiry[c])
  BY DEF HeldPermits
<1>3. WithPermit(q) => HeldPermits' = HeldPermits \cup {c}
  BY <1>1 DEF HeldPermits, WithPermit
<1>4. ~WithPermit(q) => HeldPermits' = HeldPermits \ {c}
  BY <1>1 DEF HeldPermits, WithPermit
<1>5. /\ c \notin HeldPermits => Cardinality(HeldPermits \cup {c}) = Cardinality(HeldPermits) + 1
      /\ c \in HeldPermits => Cardinality(HeldPermits \ {c}) = Cardinality(HeldPermits) - 1
  BY HeldIsFinite, FS_AddElement, FS_RemoveElement
<1> QED  BY <1>2, <1>3, <1>4, <1>5

\* A call that has read holds no permit any longer.
LEMMA GotLetsGo ==
    ASSUME NEW c \in Inquirer, NEW x, inquiry[c] \in Asking
    PROVE  ~WithPermit(Got(c, x)) /\ ~WithPermit([Got(c, Nothing) EXCEPT !.news = "trouble"])
<1> DEFINE call == inquiry[c]
           a    == inquiry[c].of
<1>1. \A v : ~WithPermit(Ended(call, v))
  BY DEF WithPermit, Ended
<1>2. ~WithPermit([Got(c, Nothing) EXCEPT !.news = "trouble"])
  BY DEF WithPermit, Got, Ended
<1>3. ~WithPermit([call EXCEPT !.at = "dial", !.token = x])
  BY DEF WithPermit, Asking
<1>4. ~WithPermit([call EXCEPT !.at = IF Wire[a] = "chat" THEN "file" ELSE "permit",
                               !.phase = "send", !.expected = ScopeOf(a, x)])
  BY DEF WithPermit, Asking
<1> QED  BY <1>1, <1>2, <1>3, <1>4 DEF Got

LEMMA PermitsStep == UpstreamInv /\ PermitsInv /\ [UpstreamNext]_upstream => PermitsInv'
<1> SUFFICES ASSUME UpstreamInv, PermitsInv, [UpstreamNext]_upstream  PROVE PermitsInv'
  OBVIOUS
<1> USE HeldIsFinite
<1>1. \A c \in Inquirer : \/ inquiry[c] = Unasked
                            \/ inquiry[c] \in Finished
                            \/ (inquiry[c] \in Asking /\ Placed(inquiry[c]))
  BY DEF UpstreamInv, Standing
<1>2. \A c \in Inquirer : inquiry[c].at \notin {"idle", "done"} => inquiry[c] \in Asking /\ Placed(inquiry[c])
  BY <1>1 DEF Unasked, Finished
<1>3. ASSUME NEW c \in Inquirer, NEW q, inquiry' = [inquiry EXCEPT ![c] = q],
             WithPermit(q) <=> WithPermit(inquiry[c]), UNCHANGED <<orphans, permits>>
      PROVE  PermitsInv'
  <2>1. HeldPermits' = HeldPermits
    BY <1>3, HeldMoves
  <2> QED  BY <1>3, <2>1 DEF PermitsInv
<1>4. ASSUME NEW c \in Inquirer, TakeSlot(c)  PROVE PermitsInv'
  <2> DEFINE q == [inquiry[c] EXCEPT !.at = IF Wired(c) = "chat" THEN "file" ELSE "permit"]
  <2>1. /\ inquiry' = [inquiry EXCEPT ![c] = q] /\ UNCHANGED <<orphans, permits>>
        /\ inquiry[c].at \in {"statusSlot", "probeSlot"}
    BY <1>4 DEF TakeSlot, SlotFree, Go, At
  <2>2. ~WithPermit(q) /\ ~WithPermit(inquiry[c])
    BY <1>2, <2>1 DEF WithPermit, Wired, Asking
  <2> QED  BY <1>3, <2>1, <2>2
<1>5. ASSUME NEW c \in Inquirer, TakePermit(c)  PROVE PermitsInv'
  <2> DEFINE q == [inquiry[c] EXCEPT !.at = "queued"]
  <2>1. /\ inquiry' = [inquiry EXCEPT ![c] = q] /\ UNCHANGED orphans
        /\ inquiry[c].at = "permit" /\ permits > 0 /\ permits' = permits - 1
    BY <1>5 DEF TakePermit, PermitFree, Go, At
  <2>2. WithPermit(q) /\ ~WithPermit(inquiry[c])
    BY <1>2, <2>1 DEF WithPermit, Asking
  <2>3. Cardinality(HeldPermits)' = Cardinality(HeldPermits) + 1
    BY <2>1, <2>2, HeldMoves
  <2> QED  BY <2>1, <2>3 DEF PermitsInv
<1>6. ASSUME NEW c \in Inquirer, StartRead(c)  PROVE PermitsInv'
  <2> DEFINE q == [inquiry[c] EXCEPT !.at = IF Wired(c) = "claude" THEN "keychain" ELSE "file"]
  <2>1. /\ inquiry' = [inquiry EXCEPT ![c] = q] /\ UNCHANGED <<orphans, permits>>
        /\ inquiry[c].at = "queued"
    BY <1>6 DEF StartRead, Go, At
  <2>2. WithPermit(q) /\ WithPermit(inquiry[c])
    BY <1>2, <2>1 DEF WithPermit, Wired, Asking, Placed
  <2> QED  BY <1>3, <2>1, <2>2
<1>7. ASSUME NEW c \in Inquirer, LookInKeychain(c) \/ LookInFile(c)  PROVE PermitsInv'
  <2>1. /\ inquiry[c].at \in {"keychain", "file"} /\ UNCHANGED orphans
        /\ inquiry[c] \in Asking /\ Placed(inquiry[c])
    BY <1>2, <1>7 DEF LookInKeychain, LookInFile, At
  <2>2. ASSUME NEW q, inquiry' = [inquiry EXCEPT ![c] = q], ~WithPermit(q), GiveBack(c)
        PROVE  PermitsInv'
    <3>1. WithPermit(inquiry[c]) <=> Wired(c) # "chat"
      BY <2>1 DEF WithPermit, Wired
    <3>2. CASE Wired(c) = "chat"
      BY <1>3, <2>1, <2>2, <3>1, <3>2 DEF GiveBack
    <3>3. CASE Wired(c) # "chat"
      <4>1. Cardinality(HeldPermits)' = Cardinality(HeldPermits) - 1
        BY <2>2, <3>1, <3>3, HeldMoves
      <4>2. permits' = permits + 1
        BY <2>2, <3>3 DEF GiveBack
      <4> QED  BY <2>1, <4>1, <4>2 DEF PermitsInv
    <3> QED  BY <3>2, <3>3
  <2>3. CASE LookInFile(c)
    <3>1. GiveBack(c)
      BY <2>3 DEF LookInFile
    <3>2. \/ inquiry' = [inquiry EXCEPT ![c] = Got(c, Yields(inquiry[c].of, store[inquiry[c].of].file))]
          \/ inquiry' = [inquiry EXCEPT ![c] = [Got(c, Nothing) EXCEPT !.news = "trouble"]]
      BY <2>3 DEF LookInFile
    <3> QED  BY <2>1, <2>2, <3>1, <3>2, GotLetsGo
  <2>4. CASE /\ LookInKeychain(c)
             /\ ~(store[inquiry[c].of].locked \/ store[inquiry[c].of].keychain = Nothing)
    <3>1. /\ GiveBack(c)
          /\ inquiry' = [inquiry EXCEPT ![c] = Got(c, Yields(inquiry[c].of, store[inquiry[c].of].keychain))]
      BY <2>4 DEF LookInKeychain
    <3> QED  BY <2>1, <2>2, <3>1, GotLetsGo
  <2>5. CASE /\ LookInKeychain(c)
             /\ store[inquiry[c].of].locked \/ store[inquiry[c].of].keychain = Nothing
    <3> DEFINE q == [inquiry[c] EXCEPT !.at = "file"]
    <3>1. /\ inquiry' = [inquiry EXCEPT ![c] = q] /\ UNCHANGED <<orphans, permits>>
          /\ inquiry[c].at = "keychain"
      BY <2>5 DEF LookInKeychain, Go, At
    <3>2. WithPermit(q) /\ WithPermit(inquiry[c])
      BY <2>1, <3>1 DEF WithPermit, Asking, Placed
    <3> QED  BY <1>3, <3>1, <3>2
  <2> QED  BY <1>7, <2>3, <2>4, <2>5
<1>8. ASSUME NEW c \in Inquirer,
             \/ Dial(c) \/ Learn(c) \/ Keep(c) \/ Return(c)
             \/ \E answer \in {"ok", "denied", "limited", "refused", "down"}, report \in Reports :
                    Answered(c, answer, report)
      PROVE  PermitsInv'
  <2>1. UNCHANGED <<orphans, permits>> /\ inquiry[c].at \in {"dial", "dialled", "learn", "keep", "done"}
    BY <1>8 DEF Dial, Learn, Keep, Return, Answered, At
  <2>2. ~WithPermit(inquiry[c])
    BY <2>1 DEF WithPermit
  <2>3. PICK q : inquiry' = [inquiry EXCEPT ![c] = q] /\ ~WithPermit(q)
    <3>1. CASE Dial(c)
      <4> DEFINE q == [inquiry[c] EXCEPT !.at = "dialled", !.tried = inquiry[c].tried \cup {inquiry[c].token}]
      <4>1. inquiry' = [inquiry EXCEPT ![c] = q]
        BY <3>1, Zenon DEF Dial
      <4>2. ~WithPermit(q)
        BY <1>2, <2>1, <3>1 DEF WithPermit, Asking, Dial, At
      <4> QED  BY <4>1, <4>2
    <3>2. CASE Return(c)
      <4>1. inquiry' = [inquiry EXCEPT ![c] = Unasked]
        BY <3>2 DEF Return
      <4>2. ~WithPermit(Unasked)
        BY DEF WithPermit, Unasked
      <4> QED  BY <4>1, <4>2
    <3>3. CASE Keep(c)
      <4>1. inquiry' = [inquiry EXCEPT ![c] = Ended(inquiry[c], "ok")]
        BY <3>3 DEF Keep
      <4>2. ~WithPermit(Ended(inquiry[c], "ok"))
        BY DEF WithPermit, Ended
      <4> QED  BY <4>1, <4>2
    <3>4. CASE Learn(c)
      <4>1. \/ inquiry' = [inquiry EXCEPT ![c] = Ended(inquiry[c], "ok")]
            \/ \E m \in Models : inquiry' = [inquiry EXCEPT ![c] = [inquiry[c] EXCEPT !.at = "keep", !.list = m]]
        BY <3>4 DEF Learn
      <4>2. ~WithPermit(Ended(inquiry[c], "ok"))
        BY DEF WithPermit, Ended
      <4>3. \A m : ~WithPermit([inquiry[c] EXCEPT !.at = "keep", !.list = m])
        BY <1>2, <2>1, <3>4 DEF WithPermit, Asking, Learn, At
      <4> QED  BY <4>1, <4>2, <4>3
    <3>5. ASSUME NEW answer, NEW report, Answered(c, answer, report)
          PROVE  \E q : inquiry' = [inquiry EXCEPT ![c] = q] /\ ~WithPermit(q)
      <4>1. inquiry' = [inquiry EXCEPT ![c] = Verdict(c, answer)] /\ inquiry[c] \in Asking
        BY <1>2, <3>5 DEF Answered, At
      <4>2. ~WithPermit(Verdict(c, answer))
        BY <4>1 DEF Verdict, WithPermit, Ended, Asking
      <4> QED  BY <4>1, <4>2
    <3> QED  BY <1>8, <3>1, <3>2, <3>3, <3>4, <3>5
  <2> QED  BY <1>3, <2>1, <2>2, <2>3
<1>9. ASSUME NEW c \in Inquirer, GiveUp(c)  PROVE PermitsInv'
  <2>1. /\ inquiry' = [inquiry EXCEPT ![c] = Unasked] /\ permits' = permits
        /\ inquiry[c].at \notin {"idle", "done"}
        /\ inquiry[c].at = "queued" => orphans' = [orphans EXCEPT !.queued = @ + 1]
        /\ Reading(c) => orphans' = [orphans EXCEPT !.running = @ + 1]
        /\ inquiry[c].at # "queued" /\ ~Reading(c) => orphans' = orphans
    BY <1>9 DEF GiveUp, At, Reading
  <2>2. WithPermit(inquiry[c]) <=> inquiry[c].at = "queued" \/ Reading(c)
    BY DEF WithPermit, Reading, At, Wired
  <2>3. ~WithPermit(Unasked)
    BY DEF WithPermit, Unasked
  <2>4. /\ WithPermit(inquiry[c]) => Cardinality(HeldPermits)' = Cardinality(HeldPermits) - 1
        /\ ~WithPermit(inquiry[c]) => HeldPermits' = HeldPermits
    BY <2>1, <2>3, HeldMoves
  <2>5. ~(inquiry[c].at = "queued" /\ Reading(c))
    BY DEF Reading, At
  <2> QED  BY <2>1, <2>2, <2>4, <2>5 DEF PermitsInv
<1>10. ASSUME NEW c \in Inquirer, NEW a \in registry, NEW kind, Begin(c, a, kind)  PROVE PermitsInv'
  <2> DEFINE q == [at |-> CASE kind = "models" -> "permit" [] kind = "probe" -> "probeSlot"
                           [] OTHER -> "statusSlot",
                   of |-> a, kind |-> kind,
                   phase |-> IF kind \in {"turn", "listing"} THEN "status" ELSE kind,
                   expected |-> Nothing, token |-> Nothing, tried |-> {}, list |-> Nothing,
                   news |-> IF Sound(a) THEN "none" ELSE "trouble"]
  <2>1. inquiry' = [inquiry EXCEPT ![c] = q] /\ q.at \in {"permit", "probeSlot", "statusSlot"}
    BY <1>10 DEF Begin
  <2> HIDE DEF q
  <2>2. UNCHANGED <<orphans, permits>> /\ inquiry[c].at = "idle"
    BY <1>10 DEF Begin, Unasked
  <2>3. ~WithPermit(q) /\ ~WithPermit(inquiry[c])
    BY <2>1, <2>2 DEF WithPermit
  <2> QED  BY <1>3, <2>1, <2>2, <2>3
<1>11. ASSUME OrphanStarts \/ OrphanEnds  PROVE PermitsInv'
  <2>1. inquiry' = inquiry
    BY <1>11 DEF OrphanStarts, OrphanEnds
  <2>2. HeldPermits' = HeldPermits
    BY <2>1 DEF HeldPermits, WithPermit
  <2>3. CASE OrphanStarts
    BY <2>2, <2>3 DEF OrphanStarts, PermitsInv
  <2>4. CASE OrphanEnds
    BY <2>2, <2>4 DEF OrphanEnds, PermitsInv
  <2> QED  BY <1>11, <2>3, <2>4
<1>12. ASSUME \/ Passes \/ UNCHANGED upstream
              \/ \E a \in registry : \/ \E who \in {1, 2}, life \in Lifetimes : Refresh(a, who, life)
                                     \/ Revoked(a) \/ LockKeychain(a)
       PROVE  PermitsInv'
  <2>1. UNCHANGED <<orphans, permits>>
    BY <1>12 DEF Passes, Refresh, Revoked, LockKeychain, Calls, upstream
  <2>2. \A c \in Inquirer : inquiry'[c].at = inquiry[c].at
                                /\ (inquiry[c].at # "idle" => inquiry'[c].of = inquiry[c].of)
    <3>1. \A c \in Inquirer : \A news :
              inquiry[c].at # "idle" => /\ [inquiry[c] EXCEPT !.news = news].at = inquiry[c].at
                                        /\ [inquiry[c] EXCEPT !.news = news].of = inquiry[c].of
      BY <1>1 DEF Unasked, Finished, Asking
    <3>2. CASE UNCHANGED upstream
      BY <3>2 DEF upstream
    <3>3. CASE Passes
      BY <3>1, <3>3 DEF Passes, At
    <3>4. ASSUME NEW a, NEW mild, Told(a, mild)
          PROVE  \A c \in Inquirer : inquiry'[c].at = inquiry[c].at
                                /\ (inquiry[c].at # "idle" => inquiry'[c].of = inquiry[c].of)
      BY <3>1, <3>4 DEF Told, At
    <3> QED  BY <1>12, <3>2, <3>3, <3>4 DEF Refresh, Revoked, LockKeychain
  <2>3. HeldPermits' = HeldPermits
    BY <2>2 DEF HeldPermits, WithPermit
  <2> QED  BY <2>1, <2>3 DEF PermitsInv
<1> QED
  BY <1>4, <1>5, <1>6, <1>7, <1>8, <1>9, <1>10, <1>11, <1>12 DEF UpstreamNext, Proceeds

LEMMA PermitsStart == RequestInit => PermitsInv
<1> SUFFICES ASSUME RequestInit  PROVE PermitsInv
  OBVIOUS
<1>1. /\ inquiry = [c \in Inquirer |-> Unasked]
      /\ orphans = [queued |-> 0, running |-> 0] /\ permits = Reads
  BY DEF RequestInit, UpstreamInit
<1>2. HeldPermits = {}
  BY <1>1 DEF HeldPermits, WithPermit, Unasked
<1>3. Cardinality(HeldPermits) = 0
  BY <1>2, FS_EmptySet
<1> QED  BY <1>1, <1>3, UpstreamAssumption DEF PermitsInv

\* The permits held are those of the calls that wait for a thread or have one.
LEMMA HeldAreCounted ==
    LET waiting == {c \in Inquirer : At(c) = "queued"}
        reading == {c \in Inquirer : Reading(c)}
    IN  /\ Cardinality(HeldPermits) = Cardinality(waiting) + Cardinality(reading)
        /\ Cardinality(waiting) \in Nat /\ Cardinality(reading) \in Nat
<1> DEFINE waiting == {c \in Inquirer : At(c) = "queued"}
           reading == {c \in Inquirer : Reading(c)}
<1>1. IsFiniteSet(waiting) /\ IsFiniteSet(reading)
  BY UpstreamAssumption, FS_Subset
<1>2. Cardinality(waiting) \in Nat /\ Cardinality(reading) \in Nat
  BY <1>1, FS_CardinalityType
<1>3. HeldPermits = waiting \cup reading /\ waiting \cap reading = {}
  BY DEF HeldPermits, WithPermit, Reading, At, Wired
<1> HIDE DEF waiting, reading
<1>4. Cardinality(waiting \cup reading) = Cardinality(waiting) + Cardinality(reading) - Cardinality({})
  BY <1>1, <1>3, FS_Union
<1>5. Cardinality(HeldPermits) = Cardinality(waiting) + Cardinality(reading)
  BY <1>2, <1>3, <1>4, FS_EmptySet
<1> QED  BY <1>2, <1>5 DEF waiting, reading

(***************************************************************************)
(* No caller that gives up takes a permit with it or leaves one too many,  *)
(* and slot, permit and thread never wait for one another in a circle: for *)
(* any number of calls, permits, threads and slots (credential_read.rs,    *)
(* state.rs checked_status).                                               *)
(***************************************************************************)
THEOREM ReadsAreBounded == RequestSpec => []ReadsGoOnWithinBounds
<1> DEFINE waiting == {c \in Inquirer : At(c) = "queued"}
           reading == {c \in Inquirer : Reading(c)}
<1>1. UpstreamInv /\ PermitsInv /\ [RequestNext]_request => UpstreamInv' /\ PermitsInv'
  <2> SUFFICES ASSUME UpstreamInv, PermitsInv, [RequestNext]_request  PROVE UpstreamInv' /\ PermitsInv'
    OBVIOUS
  <2>1. [UpstreamNext]_upstream
    BY DEF RequestNext, request
  <2> QED  BY <2>1, UpstreamStep, PermitsStep
<1>2. UpstreamInv /\ PermitsInv => ReadsGoOnWithinBounds
  <2> SUFFICES ASSUME UpstreamInv, PermitsInv  PROVE ReadsGoOnWithinBounds
    OBVIOUS
  <2>1. /\ Cardinality(HeldPermits) = Cardinality(waiting) + Cardinality(reading)
        /\ Cardinality(waiting) \in Nat /\ Cardinality(reading) \in Nat
    BY HeldAreCounted
  <2>2. Running = Cardinality(reading) + orphans.running
    BY DEF Running
  <2>3. Running + orphans.queued + Cardinality(waiting) + permits <= Reads
    <3> HIDE DEF waiting, reading
    <3> QED  BY <2>1, <2>2, UpstreamAssumption DEF PermitsInv
  <2>4. ASSUME \A c \in Inquirer : ~MayGoOn(c), ~OrphanMayGoOn
        PROVE  \A c \in Inquirer : At(c) = "idle"
    <3>1. \A c \in Inquirer : At(c) \in {"idle", "statusSlot", "probeSlot", "permit", "queued"}
      BY <2>4 DEF MayGoOn, UpstreamInv, Standing, Unasked, Finished, Asking, Stages, At
    <3>2. reading = {}
      BY <3>1 DEF Reading
    <3>3. Cardinality(reading) = 0
      BY <3>2, FS_EmptySet
    <3>4. orphans.running = 0
      BY <2>4 DEF OrphanMayGoOn, PermitsInv
    <3>5. ThreadFree
      BY <2>2, <3>3, <3>4, UpstreamAssumption DEF ThreadFree
    <3>6. orphans.queued = 0
      BY <2>4, <3>5 DEF OrphanMayGoOn, PermitsInv
    <3>7. waiting = {}
      BY <2>4, <3>5 DEF MayGoOn
    <3>8. Cardinality(waiting) = 0
      BY <3>7, FS_EmptySet
    <3>9. permits > 0
      <4> HIDE DEF waiting, reading
      <4> QED  BY <2>1, <3>3, <3>4, <3>6, <3>8, UpstreamAssumption DEF PermitsInv
    <3>10. \A c \in Inquirer : At(c) \in {"idle", "statusSlot", "probeSlot"}
      BY <2>4, <3>1, <3>7, <3>9 DEF MayGoOn, PermitFree
    <3>11. \A ph : {c \in Inquirer : At(c) \notin {"idle", "done", "statusSlot", "probeSlot"}
                                          /\ inquiry[c].phase = ph} = {}
      BY <3>10
    <3>12. Holding("status") = 0 /\ Holding("probe") = 0
      BY <3>11, FS_EmptySet DEF Holding
    <3> QED  BY <2>4, <3>10, <3>12, UpstreamAssumption DEF MayGoOn, SlotFree
  <2> QED  BY <2>3, <2>4 DEF ReadsGoOnWithinBounds
<1> QED  BY <1>1, <1>2, UpstreamStart, PermitsStart, PTL DEF RequestSpec

-----------------------------------------------------------------------------
(* The token spool, for every store, budget, retention and lateness.  That *)
(* a lease pins its snapshot is not inductive.  It rests on which files    *)
(* can be missing (those of a capture that is queued for deletion or past  *)
(* its retention), on what a prune under way may take (what no lease       *)
(* granted in time holds), and on identities that are drawn once, so that  *)
(* a new capture is in no lease granted before it.                         *)

USE SpoolAssumption, NoneAssumption

\* A lease granted and renewed in time, that has not lapsed.
Pins(l) == Live(l, 0) /\ ~leases[l].stale

DrawnOnce ==
    /\ Rows \subseteq drawn
    /\ \A l \in Lease : leases[l] # None => l \in drawn /\ leases[l].of \subseteq drawn

\* What is being recorded is known to nobody yet.
RecordIsNew ==
    UnderWay("record") =>
        /\ op.id \in drawn \ Rows
        /\ \A l \in Lease : leases[l] # None => op.id \notin leases[l].of

\* A row that may still be acquired has both its files.
RowsAreWhole ==
    \A c \in Rows : ~rows[c].deleting /\ ~Expired(c, 0) => Bodies(c) \subseteq files

Pinned == \A l \in Lease : Pins(l) => \A c \in leases[l].of : Readable(c)

\* What a prune under way takes.
DoomedIsUnpinned ==
    UnderWay("prune") =>
        \A c \in op.doomed :
            /\ c \in Rows /\ (rows[c].deleting \/ Expired(c, 0))
            /\ \A l \in Lease : Pins(l) => c \notin leases[l].of

\* "Hard maximum retention, including renewed leases."
CeilingHolds ==
    \A l \in Lease : Live(l, 0) =>
        \A c \in Kept(l) : leases[l].left + rows[c].age <= MaxLifetime

IInv == TypeOK /\ DrawnOnce /\ RecordIsNew /\ RowsAreWhole /\ Pinned /\ DoomedIsUnpinned /\ CeilingHolds

-----------------------------------------------------------------------------
(* The least of a set of numbers *)

LEMMA LeastNatural ==
    ASSUME NEW T, T \subseteq Nat, T # {}
    PROVE  \E x \in T : \A y \in T : x <= y
<1>1. PICK x \in T : \A y \in T : <<y, x>> \notin OpToRel(<, Nat)
  BY NatLessThanWellFounded, WFMin
<1>2. \A y \in T : ~(y < x)
  BY <1>1 DEF OpToRel
<1> QED  BY <1>2

LEMMA LeastInteger ==
    ASSUME NEW T, T \subseteq Int, T # {}, NEW low \in Int, \A y \in T : low <= y
    PROVE  Min(T) \in T /\ \A y \in T : Min(T) <= y
<1> DEFINE S == {y - low : y \in T}
<1>0. S \subseteq Nat
  OBVIOUS
<1>3. S # {}
  <2>1. PICK y \in T : TRUE
    OBVIOUS
  <2>2. y - low \in S
    OBVIOUS
  <2> QED  BY <2>2
<1>1. PICK m \in S : \A y \in S : m <= y
  BY <1>0, <1>3, LeastNatural
<1>2. m + low \in T /\ \A y \in T : m + low <= y
  BY <1>1
<1> QED  BY <1>2 DEF Min

LEMMA LeastOfTwo ==
    ASSUME NEW a \in Int, NEW b \in Int
    PROVE  /\ Min({a, b}) \in {a, b} /\ Min({a, b}) <= a /\ Min({a, b}) <= b
           /\ Max({a, b}) \in {a, b} /\ Max({a, b}) >= a /\ Max({a, b}) >= b
<1>1. \E x \in {a, b} : \A y \in {a, b} : x <= y
  OBVIOUS
<1>2. \E x \in {a, b} : \A y \in {a, b} : x >= y
  OBVIOUS
<1> QED  BY <1>1, <1>2 DEF Min, Max

\* No capture of S outlives the ceiling of S.
LEMMA CeilingBounds ==
    ASSUME TypeOK, NEW S \in SUBSET Capture, S # {}, S \subseteq Rows, NEW late \in 0 .. MaxLate
    PROVE  /\ Ceiling(S, late) \in Int
           /\ \A c \in S : Ceiling(S, late) <= MaxLifetime - (rows[c].age - late)
<1> DEFINE T == {MaxLifetime - (rows[c].age - late) : c \in S}
<1>1. \A c \in S : rows[c].age \in 0 .. Oldest
  BY DEF TypeOK, Rows, Row
<1>2. T \subseteq Int /\ T # {} /\ \A y \in T : MaxLifetime - Oldest <= y
  BY <1>1 DEF Oldest
<1>3. MaxLifetime - Oldest \in Int
  BY DEF Oldest
<1> HIDE DEF T
<1>4. Min(T) \in T /\ \A y \in T : Min(T) <= y
  BY <1>2, <1>3, LeastInteger
<1> QED  BY <1>2, <1>4 DEF Ceiling, T

-----------------------------------------------------------------------------
(* One step per call, and per file *)

LEMMA InitHolds == SpoolInit => IInv
BY DEF SpoolInit, IInv, TypeOK, DrawnOnce, RecordIsNew, RowsAreWhole, Pinned, DoomedIsUnpinned,
       CeilingHolds, Rows, UnderWay, Pins, Live

LEMMA RecordBeginHolds ==
    ASSUME IInv, NEW late \in 0 .. MaxLate, NEW c \in Capture, RecordBegin(c, late)
    PROVE  IInv'
<1> USE DEF RecordBegin
<1>1. TypeOK'
  BY DEF IInv, TypeOK, Op, Oldest
<1>2. DrawnOnce'
  BY DEF IInv, DrawnOnce, Rows
<1>3. RecordIsNew'
  BY DEF IInv, DrawnOnce, RecordIsNew, Rows
<1>4. (RowsAreWhole /\ Pinned /\ DoomedIsUnpinned /\ CeilingHolds)'
  BY DEF IInv, RowsAreWhole, Pinned, DoomedIsUnpinned, CeilingHolds, Rows, UnderWay, Pins, Live,
         Expired, Readable, Kept
<1> QED  BY <1>1, <1>2, <1>3, <1>4 DEF IInv

\* A step that only adds files, or only takes those of captures without a row
\* or doomed.
LEMMA FilesHold ==
    ASSUME IInv, UNCHANGED <<rows, leases, drawn>>, files' \in SUBSET Body,
           op' = op \/ op' = None,
           \A f \in files \ files' : \/ f[1] \notin Rows
                                     \/ UnderWay("prune") /\ f[1] \in op.doomed
    PROVE  IInv'
<1>1. TypeOK' /\ DrawnOnce' /\ RecordIsNew' /\ DoomedIsUnpinned' /\ CeilingHolds'
  BY DEF IInv, TypeOK, DrawnOnce, RecordIsNew, DoomedIsUnpinned, CeilingHolds, Rows, UnderWay,
         Pins, Live, Expired, Kept
<1>2. ASSUME NEW c \in Capture, c \in Rows, Bodies(c) \subseteq files,
             ~(UnderWay("prune") /\ c \in op.doomed)
      PROVE  Bodies(c) \subseteq files'
  BY <1>2 DEF Bodies, Suffix
<1>3. RowsAreWhole'
  BY <1>2 DEF IInv, RowsAreWhole, DoomedIsUnpinned, Rows, Expired
<1>4. ASSUME NEW l \in Lease, Pins(l), NEW c \in leases[l].of
      PROVE  Readable(c)'
  <2>1. c \in Capture /\ Readable(c) /\ ~(UnderWay("prune") /\ c \in op.doomed)
    BY <1>4 DEF IInv, TypeOK, LeaseRow, Pins, Live, Pinned, DoomedIsUnpinned
  <2> QED  BY <1>2, <2>1 DEF Readable, Rows
<1>5. Pinned'
  BY <1>4 DEF Pinned, Pins, Live
<1> QED  BY <1>1, <1>3, <1>5 DEF IInv

LEMMA RecordCommitHolds ==
    ASSUME IInv, RecordCommit
    PROVE  IInv'
<1>1. op \in Op /\ op.kind = "record" /\ op.id \in Capture /\ op.age \in 0 .. Oldest
  BY DEF RecordCommit, UnderWay, IInv, TypeOK, Op
<1> DEFINE new == [age |-> op.age, deleting |-> FALSE]
<1>2. new \in Row
  BY <1>1 DEF Row
<1>3. /\ rows' = [rows EXCEPT ![op.id] = new] /\ op' = None
      /\ UNCHANGED <<leases, files, drawn>> /\ Bodies(op.id) \subseteq files
  BY DEF RecordCommit
<1>4. TypeOK'
  BY <1>1, <1>2, <1>3 DEF IInv, TypeOK
<1>5. UnderWay("record")
  BY DEF RecordCommit
<1>6. Rows' = Rows \cup {op.id} /\ \A c \in Capture \ {op.id} : rows'[c] = rows[c]
  BY <1>1, <1>2, <1>3, <1>4 DEF IInv, TypeOK, Rows
<1>7. \A l \in Lease : leases[l] # None => op.id \notin leases[l].of
  BY <1>5 DEF IInv, RecordIsNew
<1>8. DrawnOnce' /\ RecordIsNew' /\ DoomedIsUnpinned'
  BY <1>3, <1>5, <1>6 DEF IInv, DrawnOnce, RecordIsNew, DoomedIsUnpinned, UnderWay
<1>9. RowsAreWhole'
  BY <1>3, <1>6 DEF IInv, RowsAreWhole, Expired
<1>10. \A l \in Lease : leases[l] # None => leases[l].of \subseteq Capture
  BY DEF IInv, TypeOK, LeaseRow
<1>11. Pinned'
  BY <1>3, <1>6, <1>7, <1>10 DEF IInv, Pinned, Pins, Live, Readable
<1>12. CeilingHolds'
  BY <1>3, <1>6, <1>7, <1>10 DEF IInv, CeilingHolds, Live, Kept
<1> QED  BY <1>4, <1>8, <1>9, <1>11, <1>12 DEF IInv

LEMMA AcquireHolds ==
    ASSUME IInv, NEW late \in 0 .. MaxLate, NEW l \in Lease, NEW S \in SUBSET Capture,
           NEW term \in Terms, Acquire(l, S, term, late)
    PROVE  IInv'
<1> DEFINE granted == Min({term, Ceiling(S, late)})
           new == [of |-> S, left |-> granted - late, released |-> FALSE,
                   stale |-> \E c \in S : Expired(c, 0)]
<1>1. /\ op = None /\ l \notin drawn /\ S # {} /\ granted > 0
      /\ \A c \in S : c \in Rows /\ ~rows[c].deleting
      /\ leases' = [leases EXCEPT ![l] = new] /\ drawn' = drawn \cup {l}
      /\ UNCHANGED <<rows, files, op>>
  BY DEF Acquire, Rows
<1>2. TypeOK
  BY DEF IInv
<1>3. /\ granted \in Int /\ granted <= term
      /\ \A c \in S : granted <= MaxLifetime - (rows[c].age - late)
  <2>1. /\ Ceiling(S, late) \in Int
        /\ \A c \in S : Ceiling(S, late) <= MaxLifetime - (rows[c].age - late)
    BY <1>1, <1>2, CeilingBounds
  <2>2. \A c \in S : rows[c].age \in Int
    BY <1>1, <1>2 DEF TypeOK, Rows, Row
  <2>3. term \in Int
    OBVIOUS
  <2>4. granted \in Int /\ granted <= term /\ granted <= Ceiling(S, late)
    BY <2>1, <2>3, LeastOfTwo
  <2> HIDE DEF granted
  <2> QED  BY <2>1, <2>2, <2>4
<1>4. new \in LeaseRow
  <2>1. granted - late \in -MaxLate .. MaxLifetime
    <3> HIDE DEF granted
    <3>1. late \in 0 .. MaxLate /\ term \in Terms /\ granted \in Int /\ granted > 0 /\ granted <= term
      BY <1>1, <1>3
    <3> QED  BY ONLY <3>1, SpoolAssumption
  <2> QED  BY <2>1 DEF LeaseRow
<1> HIDE DEF granted
<1>5. TypeOK'
  BY <1>1, <1>2, <1>4 DEF TypeOK
<1>6. \A k \in Lease \ {l} : leases'[k] = leases[k]
  BY <1>1, <1>2 DEF TypeOK
<1>7. leases'[l] = new
  BY <1>1, <1>2 DEF TypeOK
<1>8. Rows' = Rows
  BY <1>1 DEF Rows
<1>9. DrawnOnce' /\ RecordIsNew' /\ RowsAreWhole' /\ DoomedIsUnpinned'
  BY <1>1, <1>6, <1>7, <1>8 DEF IInv, DrawnOnce, RecordIsNew, RowsAreWhole, DoomedIsUnpinned,
     UnderWay, Expired
<1>10. Pinned'
  <2>1. ASSUME NEW c \in S, ~new.stale
        PROVE  Readable(c)'
    BY <1>1, <2>1 DEF IInv, RowsAreWhole, Readable, Rows
  <2> QED  BY <1>1, <1>6, <1>7, <2>1 DEF IInv, Pinned, Pins, Live, Readable
<1>11. CeilingHolds'
  <2>1. \A c \in S : (granted - late) + rows[c].age <= MaxLifetime
    <3>1. \A c \in S : rows[c].age \in Int
      BY <1>1, <1>2 DEF TypeOK, Rows, Row
    <3> QED  BY <1>3, <3>1
  <2> QED  BY <1>1, <1>6, <1>7, <2>1 DEF IInv, CeilingHolds, Live, Kept
<1> QED  BY <1>5, <1>9, <1>10, <1>11 DEF IInv

LEMMA RenewHolds ==
    ASSUME IInv, NEW late \in 0 .. MaxLate, NEW l \in Lease, NEW term \in Terms,
           Renew(l, term, late)
    PROVE  IInv'
<1> DEFINE granted == Renewed(l, term, late)
           old == leases[l]
           new == [[old EXCEPT !.left = granted - late] EXCEPT !.stale = @ \/ old.left <= 0]
<1>1. /\ op = None /\ Live(l, late) /\ Kept(l) # {} /\ granted > 0
      /\ leases' = [leases EXCEPT ![l] = new]
      /\ UNCHANGED <<rows, files, drawn, op>>
  BY DEF Renew
<1>2. TypeOK
  BY DEF IInv
<1>3. old \in LeaseRow
  BY <1>1, <1>2 DEF TypeOK, Live
<1>4. Kept(l) \subseteq Rows /\ Kept(l) \in SUBSET Capture
  BY <1>3 DEF Kept, Rows, LeaseRow
<1>5. \A c \in Kept(l) : rows[c].age \in Int
  BY <1>2, <1>4 DEF TypeOK, Rows, Row
<1>6. /\ granted \in Int /\ (granted <= old.left + late \/ granted <= term)
      /\ \A c \in Kept(l) : granted <= MaxLifetime - (rows[c].age - late)
  <2>1. /\ Ceiling(Kept(l), late) \in Int
        /\ \A c \in Kept(l) : Ceiling(Kept(l), late) <= MaxLifetime - (rows[c].age - late)
    BY <1>1, <1>2, <1>4, CeilingBounds
  <2>2. old.left + late \in Int /\ term \in Int
    <3>1. late \in 0 .. MaxLate /\ term \in Terms
      OBVIOUS
    <3> QED  BY ONLY <1>3, <3>1, SpoolAssumption DEF LeaseRow
  <2> DEFINE most == Max({old.left + late, term})
  <2>3. most \in {old.left + late, term}
    BY <2>2, LeastOfTwo
  <2> HIDE DEF most
  <2>4. granted = Min({most, Ceiling(Kept(l), late)})
    BY DEF Renewed, most
  <2>5. most \in Int
    BY <2>2, <2>3
  <2> HIDE DEF granted
  <2>6. granted \in Int /\ granted <= most /\ granted <= Ceiling(Kept(l), late)
    BY <2>1, <2>4, <2>5, LeastOfTwo
  <2> QED  BY <1>5, <2>1, <2>2, <2>3, <2>6
<1> HIDE DEF granted
<1>7. /\ new.of = old.of /\ new.left = granted - late /\ new.released = old.released
      /\ new.stale = (old.stale \/ old.left <= 0) /\ new \in LeaseRow
  <2>1. granted - late \in -MaxLate .. MaxLifetime
    BY <1>1, <1>3, <1>6 DEF LeaseRow
  <2> QED  BY <1>3, <2>1 DEF LeaseRow
<1> HIDE DEF new
<1>8. TypeOK'
  BY <1>1, <1>2, <1>7 DEF TypeOK
<1>9. leases'[l] = new /\ \A k \in Lease \ {l} : leases'[k] = leases[k]
  BY <1>1, <1>2 DEF TypeOK
<1>10. DrawnOnce' /\ RecordIsNew' /\ RowsAreWhole' /\ DoomedIsUnpinned'
  BY <1>1, <1>7, <1>9 DEF IInv, DrawnOnce, RecordIsNew, RowsAreWhole, DoomedIsUnpinned,
     UnderWay, Expired, Live, Rows
<1>11. ~new.stale => Pins(l)
  BY <1>1, <1>3, <1>7 DEF Pins, Live, LeaseRow
<1>12. Pinned'
  BY <1>1, <1>7, <1>9, <1>11 DEF IInv, Pinned, Pins, Live, Readable
<1>13. CeilingHolds'
  <2>1. \A c \in Kept(l) : new.left + rows[c].age <= MaxLifetime
    BY <1>5, <1>6, <1>7
  <2> QED  BY <1>1, <1>7, <1>9, <2>1 DEF IInv, CeilingHolds, Live, Kept
<1> QED  BY <1>8, <1>10, <1>12, <1>13 DEF IInv

LEMMA ReleaseHolds ==
    ASSUME IInv, NEW late \in 0 .. MaxLate, NEW l \in Lease, Release(l, late)
    PROVE  IInv'
<1> DEFINE queued == Rows \cap Unheld(l, late)
<1>1. /\ op = None /\ leases[l] # None /\ UNCHANGED <<files, drawn, op>>
      /\ leases' = [leases EXCEPT ![l].released = TRUE]
      /\ rows' = [c \in Capture |-> IF c \in queued
                                    THEN [rows[c] EXCEPT !.deleting = TRUE] ELSE rows[c]]
  BY DEF Release
<1>2. TypeOK
  BY DEF IInv
<1>3. ASSUME NEW c \in Rows
      PROVE  [rows[c] EXCEPT !.deleting = TRUE] \in Row
  BY <1>2 DEF TypeOK, Rows, Row
<1>4. /\ leases'[l] \in LeaseRow /\ leases'[l].of = leases[l].of /\ leases'[l].released
      /\ \A k \in Lease \ {l} : leases'[k] = leases[k]
  BY <1>1, <1>2 DEF TypeOK, LeaseRow
<1>5. TypeOK'
  <2>1. leases' \in [Lease -> LeaseRow \cup {None}]
    BY <1>1, <1>2, <1>4 DEF TypeOK
  <2>2. rows' \in [Capture -> Row \cup {None}]
    BY <1>1, <1>2, <1>3 DEF TypeOK
  <2> QED  BY <1>1, <1>2, <2>1, <2>2 DEF TypeOK
<1>6. Rows' = Rows /\ \A c \in Rows : rows'[c].age = rows[c].age
                                       /\ (rows[c].deleting => rows'[c].deleting)
  BY <1>1, <1>2, <1>3 DEF TypeOK, Rows, Row
<1>7. \A c \in Capture : c \notin queued => rows'[c] = rows[c]
  BY <1>1
<1>8. DrawnOnce' /\ RecordIsNew' /\ RowsAreWhole' /\ DoomedIsUnpinned'
  BY <1>1, <1>4, <1>6 DEF IInv, DrawnOnce, RecordIsNew, RowsAreWhole, DoomedIsUnpinned,
     UnderWay, Expired
<1>9. ASSUME NEW k \in Lease, Live(k, 0)'
      PROVE  /\ k # l /\ leases'[k] = leases[k] /\ leases[k] \in LeaseRow
             /\ \A c \in leases[k].of : c \in Capture \ queued
  <2>1. k # l /\ leases'[k] = leases[k]
    BY <1>4, <1>9 DEF Live
  <2>2. leases[k] \in LeaseRow /\ Live(k, late)
    BY <1>2, <1>9, <2>1 DEF Live, TypeOK, LeaseRow
  <2> QED  BY <2>1, <2>2 DEF Unheld, LeaseRow
<1>10. Pinned'
  BY <1>1, <1>7, <1>9 DEF IInv, Pinned, Pins, Live, Readable
<1>11. CeilingHolds'
  BY <1>1, <1>7, <1>9 DEF IInv, CeilingHolds, Live, Kept
<1> QED  BY <1>5, <1>8, <1>10, <1>11 DEF IInv

LEMMA PruneBeginHolds ==
    ASSUME IInv, NEW late \in 0 .. MaxLate, PruneBegin(late)
    PROVE  IInv'
<1> DEFINE gone == {c \in Rows : rows[c].deleting \/ (Expired(c, late) /\ ~Held(c, late))}
           over == {l \in Lease : leases[l] # None /\ leases[l].left + late <= 0}
<1>1. op' = [kind |-> "prune", doomed |-> gone, lapsed |-> over]
  BY DEF PruneBegin
<1>2. UNCHANGED <<rows, leases, files, drawn>>
  BY DEF PruneBegin
<1>3. gone \subseteq Capture /\ over \subseteq Lease
  BY DEF Rows
<1>4. TypeOK'
  BY <1>1, <1>2, <1>3 DEF IInv, TypeOK, Op
<1>5. (DrawnOnce /\ RecordIsNew /\ RowsAreWhole /\ Pinned /\ CeilingHolds)'
  BY <1>1, <1>2 DEF IInv, DrawnOnce, RecordIsNew, RowsAreWhole, Pinned, CeilingHolds, Rows,
     UnderWay, Expired, Pins, Live, Readable, Kept
<1>6. ASSUME NEW c \in gone
      PROVE  /\ c \in Rows /\ (rows[c].deleting \/ Expired(c, 0))
             /\ \A l \in Lease : Pins(l) => c \notin leases[l].of
  <2>1. rows[c] \in Row
    BY DEF IInv, TypeOK, Rows
  <2>2. rows[c].deleting \/ Expired(c, 0)
    BY <2>1 DEF Expired, Row
  <2>3. \A l \in Lease : Pins(l) => Live(l, late)
    BY DEF IInv, TypeOK, LeaseRow, Pins, Live
  <2>4. \A l \in Lease : Pins(l) /\ c \in leases[l].of => ~rows[c].deleting
    BY DEF IInv, Pinned, Readable
  <2> QED  BY <2>2, <2>3, <2>4 DEF Held
<1> HIDE DEF gone
<1>7. DoomedIsUnpinned'
  BY <1>1, <1>2, <1>6 DEF DoomedIsUnpinned, Rows, Expired, Pins, Live
<1> QED  BY <1>4, <1>5, <1>7 DEF IInv

LEMMA PruneCommitHolds ==
    ASSUME IInv, PruneCommit
    PROVE  IInv'
<1>1. /\ UnderWay("prune") /\ op' = None /\ UNCHANGED <<files, drawn>>
      /\ rows' = [c \in Capture |-> IF c \in op.doomed THEN None ELSE rows[c]]
      /\ leases' = [l \in Lease |-> IF l \in op.lapsed THEN None ELSE leases[l]]
  BY DEF PruneCommit
<1>2. TypeOK'
  BY <1>1 DEF IInv, TypeOK
<1>3. \A c \in Capture : rows'[c] = rows[c] \/ (rows'[c] = None /\ c \in op.doomed)
  BY <1>1
<1>4. \A l \in Lease : leases'[l] = leases[l] \/ leases'[l] = None
  BY <1>1
<1>5. (DrawnOnce /\ RecordIsNew /\ DoomedIsUnpinned)'
  BY <1>1, <1>3, <1>4 DEF IInv, DrawnOnce, RecordIsNew, DoomedIsUnpinned, Rows, UnderWay
<1>6. RowsAreWhole' /\ CeilingHolds'
  BY <1>1, <1>3, <1>4 DEF IInv, RowsAreWhole, CeilingHolds, Rows, Expired, Live, Kept, TypeOK,
     LeaseRow
<1>7. ASSUME NEW l \in Lease, Pins(l)', NEW c \in leases'[l].of
      PROVE  Readable(c)'
  <2>1. Pins(l) /\ leases'[l] = leases[l] /\ leases[l] \in LeaseRow
    BY <1>4, <1>7 DEF IInv, TypeOK, Pins, Live
  <2>2. c \in Capture /\ Readable(c) /\ c \notin op.doomed
    BY <1>1, <1>7, <2>1 DEF IInv, Pinned, DoomedIsUnpinned, LeaseRow
  <2> QED  BY <1>1, <2>2 DEF Readable
<1>8. Pinned'
  BY <1>7 DEF Pinned
<1> QED  BY <1>2, <1>5, <1>6, <1>8 DEF IInv

\* Time passes: captures age, leases run down, and nothing is pinned anew.
LEMMA TickHolds ==
    ASSUME IInv, Tick
    PROVE  IInv'
<1>1. ASSUME NEW c \in Capture
      PROVE  \/ rows[c] = None /\ rows'[c] = None
             \/ /\ rows[c] \in Row /\ rows'[c] \in Row
                /\ rows'[c].deleting = rows[c].deleting
                /\ rows'[c].age \in {rows[c].age, rows[c].age + 1}
  BY DEF Tick, IInv, TypeOK, Row, Older, Oldest
<1>2. ASSUME NEW l \in Lease
      PROVE  \/ leases[l] = None /\ leases'[l] = None
             \/ /\ leases[l] \in LeaseRow /\ leases'[l] \in LeaseRow
                /\ leases'[l].of = leases[l].of /\ leases'[l].released = leases[l].released
                /\ leases'[l].stale = leases[l].stale
                /\ leases'[l].left <= leases[l].left
                /\ leases[l].left > 0 => leases'[l].left = leases[l].left - 1
  BY DEF Tick, IInv, TypeOK, LeaseRow, Less
<1>3. \/ op' = op /\ ~UnderWay("record")
      \/ UnderWay("record") /\ op' \in Op /\ op'.kind = "record" /\ op'.id = op.id
  BY DEF Tick, IInv, TypeOK, Op, UnderWay, Older, Oldest
<1>4. UNCHANGED <<files, drawn>>
  BY DEF Tick
<1>5. TypeOK'
  <2>1. rows' \in [Capture -> Row \cup {None}] /\ leases' \in [Lease -> LeaseRow \cup {None}]
    BY <1>1, <1>2 DEF Tick
  <2> QED  BY <1>3, <1>4, <2>1 DEF IInv, TypeOK
<1>6. Rows' = Rows
  BY <1>1 DEF Rows
<1>7. \A l \in Lease : /\ leases'[l] # None => leases[l] # None /\ leases'[l].of = leases[l].of
                       /\ Pins(l)' => Pins(l)
                       /\ Live(l, 0)' => Live(l, 0) /\ leases'[l].left = leases[l].left - 1
  BY <1>2 DEF Pins, Live, LeaseRow
<1>8. \A c \in Rows : /\ rows'[c].deleting = rows[c].deleting
                      /\ Expired(c, 0) => Expired(c, 0)'
                      /\ rows'[c].age <= rows[c].age + 1
                      /\ rows[c].age \in Int /\ rows'[c].age \in Int
  BY <1>1 DEF Rows, Expired, Row
<1>9. DrawnOnce' /\ RecordIsNew' /\ RowsAreWhole'
  BY <1>3, <1>4, <1>6, <1>7, <1>8 DEF IInv, DrawnOnce, RecordIsNew, RowsAreWhole, UnderWay
<1>10. DoomedIsUnpinned'
  BY <1>3, <1>4, <1>6, <1>7, <1>8 DEF IInv, DoomedIsUnpinned, UnderWay, Op, Pins, Live
<1>11. Pinned'
  <2>1. ASSUME NEW l \in Lease, Pins(l)', NEW c \in leases'[l].of
        PROVE  Readable(c)'
    <3>1. Pins(l) /\ c \in leases[l].of /\ leases[l] \in LeaseRow
      BY <1>2, <1>7, <2>1 DEF Pins, Live
    <3>2. Readable(c) /\ c \in Rows
      BY <3>1 DEF IInv, Pinned, Readable, Rows, LeaseRow
    <3> QED  BY <1>1, <1>4, <1>8, <3>2 DEF Readable, Rows
  <2> QED  BY <2>1 DEF Pinned
<1>12. CeilingHolds'
  <2>1. ASSUME NEW l \in Lease, Live(l, 0)', NEW c \in Kept(l)'
        PROVE  leases'[l].left + rows'[c].age <= MaxLifetime
    <3>1. /\ Live(l, 0) /\ leases'[l].left = leases[l].left - 1
          /\ leases[l] \in LeaseRow /\ leases'[l].of = leases[l].of
      BY <1>2, <1>7, <2>1 DEF Live
    <3>2. c \in Kept(l) /\ c \in Rows
      BY <1>1, <2>1, <3>1 DEF Kept, Rows, LeaseRow
    <3>3. leases[l].left + rows[c].age <= MaxLifetime
      BY <3>1, <3>2 DEF IInv, CeilingHolds
    <3> QED  BY <1>8, <3>1, <3>2, <3>3 DEF LeaseRow
  <2> QED  BY <2>1 DEF CeilingHolds
<1> QED  BY <1>5, <1>9, <1>10, <1>11, <1>12 DEF IInv

LEMMA StutterHolds == ASSUME IInv, UNCHANGED spool PROVE IInv'
BY DEF spool, IInv, TypeOK, DrawnOnce, RecordIsNew, RowsAreWhole, Pinned, DoomedIsUnpinned,
       CeilingHolds, Rows, UnderWay, Pins, Live, Expired, Readable, Kept

LEMMA StepHolds == IInv /\ [SpoolNext]_spool => IInv'
<1> SUFFICES ASSUME IInv, [SpoolNext]_spool PROVE IInv'
  OBVIOUS
<1>1. CASE \E suffix \in Suffix : WriteBody(suffix)
  <2>1. PICK suffix \in Suffix : WriteBody(suffix)
    BY <1>1
  <2>2. op.id \in Capture
    BY <2>1 DEF WriteBody, UnderWay, IInv, TypeOK, Op
  <2>3. UNCHANGED <<rows, leases, drawn>> /\ op' = op /\ files' = files \cup {<<op.id, suffix>>}
    BY <2>1 DEF WriteBody
  <2>4. files' \in SUBSET Body /\ files \ files' = {}
    BY <2>2, <2>3 DEF IInv, TypeOK, Body
  <2> QED  BY <2>3, <2>4, FilesHold
<1>2. CASE WriteFails
  <2>1. PICK S \in SUBSET Bodies(op.id) : files' = files \ S
    BY <1>2 DEF WriteFails
  <2>2. op.id \notin Rows
    BY <1>2 DEF WriteFails, IInv, RecordIsNew
  <2>3. \A f \in files \ files' : f[1] \notin Rows
    BY <2>1, <2>2 DEF Bodies
  <2>4. files' \in SUBSET Body
    BY <2>1 DEF IInv, TypeOK
  <2> QED  BY <1>2, <2>3, <2>4, FilesHold DEF WriteFails
<1>3. CASE RemoveBody
  <2>1. PICK f \in Sweepable : files' = files \ {f}
    BY <1>3 DEF RemoveBody
  <2>2. UnderWay("prune") /\ UNCHANGED <<rows, leases, drawn, op>>
    BY <1>3 DEF RemoveBody
  <2>3. f[1] \notin Rows \/ f[1] \in op.doomed
    BY <2>1 DEF Sweepable, Doomed, Orphans
  <2>4. files' \in SUBSET Body /\ \A g \in files \ files' : g = f
    BY <2>1 DEF IInv, TypeOK
  <2> QED  BY <2>2, <2>3, <2>4, FilesHold
<1>4. CASE Stop
  BY <1>4, FilesHold DEF Stop, IInv, TypeOK
<1>5. CASE \E late \in 0 .. MaxLate :
              \/ \E c \in Capture : RecordBegin(c, late)
              \/ \E l \in Lease, S \in SUBSET Capture, term \in Terms : Acquire(l, S, term, late)
              \/ \E l \in Lease, term \in Terms : Renew(l, term, late)
              \/ \E l \in Lease : Release(l, late)
              \/ PruneBegin(late)
  BY <1>5, RecordBeginHolds, AcquireHolds, RenewHolds, ReleaseHolds, PruneBeginHolds
<1> QED
  BY <1>1, <1>2, <1>3, <1>4, <1>5, RecordCommitHolds, PruneCommitHolds, TickHolds, StutterHolds
     DEF SpoolNext

\* The store's state keeps its type.
THEOREM SpoolTypeCorrect == SpoolSpec => []TypeOK
BY InitHolds, StepHolds, PTL DEF SpoolSpec, IInv

\* A lease granted and renewed in time pins its whole snapshot until it lapses
\* or is released, and no lease outlives the hard lifetime of what it holds,
\* whoever records, prunes, releases or dies next to it.  Code: token_spool.rs.
THEOREM LeasesPin == SpoolSpec => []LeasePinsSnapshot
<1>1. IInv => LeasePinsSnapshot
  BY DEF IInv, Pinned, CeilingHolds, Pins, LeasePinsSnapshot
<1> QED  BY <1>1, InitHolds, StepHolds, PTL DEF SpoolSpec
=============================================================================
