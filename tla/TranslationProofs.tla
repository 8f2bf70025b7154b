------------------------- MODULE TranslationProofs --------------------------
(***************************************************************************)
(* What the agent gets of the calls in an answer that is translated for    *)
(* it, for any answers, tools and bounds: every call of a whole answer     *)
(* once, in order, complete and under the name the agent gave it.          *)
(*                                                                         *)
(* A parser learns a call from several frames, hands it out when it is     *)
(* complete and may be told so twice.  So what it knows is compared, frame *)
(* by frame, with the calls of the answer: how many have been announced,   *)
(* how much of the last one came and how many were handed out.  The rest   *)
(* is that the names and ids the backend was given lead back to those of   *)
(* the agent.                                                              *)
(***************************************************************************)
EXTENDS AnswerProofs

-----------------------------------------------------------------------------
(* Every call of a whole answer reaches the client (Reply).  The parser    *)
(* has the calls of the answer in the order they came.                     *)

\* The calls of an answer: C of them; where the parser keeps the q-th, from 0, its
\* id and name, and how many fragments its arguments come in.
Calling(L) ==
    /\ L.C \in Nat /\ Parts * L.C <= MaxBytes
    /\ \A q \in 1 .. L.C : /\ L.at[q] \in Nat /\ L.at[q] < MaxCalls
                           /\ L.name[q] # NoName /\ L.full[q] \in 0 .. Parts
    /\ \A q, r \in 1 .. L.C : q < r => L.at[q] < L.at[r]

\* The slot of the q-th, with n fragments.
Sent(q, D) == IF q <= D THEN TRUE ELSE FALSE
Sheet(L, q, n, D) == [id |-> L.id[q], name |-> L.name[q], n |-> n, overflowed |-> FALSE, emitted |-> Sent(q, D)]

\* In the slots are the first N calls, of the last x fragments; D were handed out.
InSlots(ss, L, N, D, x) ==
    /\ IsSeq(ss)
    /\ \A q \in 1 .. N : /\ L.at[q] + 1 \in 1 .. Len(ss)
                         /\ ss[L.at[q] + 1] = Sheet(L, q, IF q = N THEN x ELSE L.full[q], D)
    /\ \A s \in 1 .. Len(ss) : ss[s].name = NoName \/ \E q \in 1 .. N : s = L.at[q] + 1
    /\ N < L.C => Len(ss) <= L.at[N + 1]
Counts(L, N, D, x) == N \in 0 .. L.C /\ D \in 0 .. N /\ x \in Nat /\ (N > 0 => x <= L.full[N])
Within(b, N, x) == b \in Nat /\ (N = 0 => b = 0) /\ (N > 0 => b + Parts <= Parts * N + x)
Booked(p, L, N, D, x) == Counts(L, N, D, x) /\ InSlots(p.slots, L, N, D, x) /\ Within(p.bytes, N, x)

LEMMA SlotWritten ==
    ASSUME NEW L, Calling(L), NEW N, NEW D, NEW x, Counts(L, N, D, x), N > 0, NEW ss, InSlots(ss, L, N, D, x),
           NEW y, NEW s, s = [ss EXCEPT ![L.at[N] + 1] = Sheet(L, N, y, D)]
    PROVE  InSlots(s, L, N, D, y)
<1>1. N \in 1 .. L.C /\ L.C \in Nat
  BY DEF Counts, Calling
<1>2. PICK a, n, v : a = L.at[N] + 1 /\ n = Len(ss) /\ v = Sheet(L, N, y, D)
  BY Zenon
<1>3. IsSeq(ss) /\ n \in Nat /\ a \in 1 .. n
  <2>1. N \in 1 .. N
    BY <1>1
  <2> QED  BY <1>2, <2>1, Appending DEF InSlots
<1>4. s = [ss EXCEPT ![a] = v]
  BY ONLY <1>2, s = [ss EXCEPT ![L.at[N] + 1] = Sheet(L, N, y, D)]
<1>5. IsSeq(s) /\ Len(s) = n /\ s[a] = v /\ \A i \in 1 .. n : i # a => s[i] = ss[i]
  <2>1. PICK S : ss \in Seq(S)
    BY <1>3 DEF IsSeq
  <2>2. ss \in Seq(S \cup {v})
    BY <2>1, SeqMonotonic
  <2>3. s \in Seq(S \cup {v}) /\ Len(s) = n /\ s[a] = v /\ \A i \in 1 .. n : i # a => s[i] = ss[i]
    BY ONLY <1>2, <1>3, <1>4, <2>2, ExceptSeq
  <2> QED  BY ONLY <2>3 DEF IsSeq
<1>6. v.name = L.name[N] /\ ss[a].name = L.name[N]
  <2>1. ss[a] = Sheet(L, N, x, D)
    BY <1>1, <1>2 DEF InSlots
  <2> QED  BY ONLY <1>2, <2>1 DEF Sheet
<1>7. ASSUME NEW q \in 1 .. N
      PROVE  L.at[q] + 1 \in 1 .. n /\ s[L.at[q] + 1] = Sheet(L, q, IF q = N THEN y ELSE L.full[q], D)
  <2>1. CASE q = N
    BY <1>2, <1>3, <1>5, <2>1
  <2>2. CASE q # N
    <3>1. q < N /\ q \in 1 .. L.C
      BY <1>1, <2>2
    <3>2. L.at[q] \in Nat /\ L.at[N] \in Nat /\ L.at[q] < L.at[N]
      BY <1>1, <3>1 DEF Calling
    <3>3. L.at[q] + 1 \in 1 .. n /\ ss[L.at[q] + 1] = Sheet(L, q, L.full[q], D)
      BY <1>2, <2>2 DEF InSlots
    <3> QED  BY <1>2, <1>5, <2>2, <3>2, <3>3
  <2> QED  BY <2>1, <2>2
<1>8. ASSUME NEW i \in 1 .. n  PROVE s[i].name = NoName \/ \E q \in 1 .. N : i = L.at[q] + 1
  <2>1. CASE i = a
    BY <1>1, <1>2, <2>1
  <2>2. CASE i # a
    BY <1>2, <1>5, <2>2 DEF InSlots
  <2> QED  BY <2>1, <2>2
<1>9. N < L.C => Len(s) <= L.at[N + 1]
  BY <1>2, <1>5 DEF InSlots
<1> QED  BY <1>5, <1>7, <1>8, <1>9 DEF InSlots

More(ss, at) == Joined(ss, [i \in 1 .. (at + 1 - Len(ss)) |-> Blank])
Opening(ss, L, N, D, x) ==
    /\ Calling(L) /\ Counts(L, N, D, x) /\ N < L.C /\ (N > 0 => x = L.full[N]) /\ InSlots(ss, L, N, D, x)

LEMMA SlotAdded ==
    ASSUME NEW L, NEW N, NEW D, NEW x, NEW ss, Opening(ss, L, N, D, x), NEW c, c = More(ss, L.at[N + 1]),
           NEW s, s = [c EXCEPT ![L.at[N + 1] + 1] = Sheet(L, N + 1, 0, D)]
    PROVE  InSlots(s, L, N + 1, D, 0) /\ c[L.at[N + 1] + 1] = Blank
<1>0. Calling(L) /\ Counts(L, N, D, x) /\ N < L.C /\ (N > 0 => x = L.full[N]) /\ InSlots(ss, L, N, D, x)
  BY DEF Opening
<1>b. PICK b : b = [i \in 1 .. (L.at[N + 1] + 1 - Len(ss)) |-> Blank]
  OBVIOUS
<1>c. c = Joined(ss, b)
  BY ONLY <1>b, c = More(ss, L.at[N + 1]) DEF More
<1>1. N + 1 \in 1 .. L.C /\ L.C \in Nat /\ N \in Nat
  BY <1>0 DEF Counts, Calling
<1>2. PICK a, n, v : a = L.at[N + 1] + 1 /\ n = Len(ss) /\ v = Sheet(L, N + 1, 0, D)
  BY Zenon
<1>3. IsSeq(ss) /\ n \in Nat /\ a \in Nat /\ n < a /\ L.at[N + 1] \in Nat
  <2>1. L.at[N + 1] \in Nat
    BY <1>0, <1>1 DEF Calling
  <2> QED  BY <1>0, <1>1, <1>2, <2>1, Appending DEF InSlots
<1>4. PICK m : m = a - n
  OBVIOUS
<1>5. m \in Nat /\ m > 0 /\ b = [i \in 1 .. m |-> Blank]
  <2>1. L.at[N + 1] + 1 - Len(ss) = m
    BY ONLY <1>2, <1>3, <1>4
  <2>2. b = [i \in 1 .. m |-> Blank]
    BY ONLY <2>1, <1>b
  <2> QED  BY ONLY <1>3, <1>4, <2>2
<1>6. IsSeq(b) /\ Len(b) = m
  <2>1. b = [i \in 1 .. m |-> b[i]]
    BY <1>5
  <2> QED  BY ONLY <1>5, <2>1, FunctionIsSeq
<1>7. IsJoin(c, ss, b)
  BY ONLY <1>3, <1>6, <1>c, ConcatParts
<1>8. IsSeq(c) /\ Len(c) = a /\ c[a] = Blank
      /\ (\A i \in 1 .. n : c[i] = ss[i]) /\ (\A i \in 1 .. a : i > n => c[i] = Blank)
  <2>1. ASSUME NEW i \in 1 .. m  PROVE c[n + i] = Blank
    <3>1. n + i \in 1 .. (n + m) /\ n + i > n /\ (n + i) - n = i
      BY ONLY <1>3, <1>5, <2>1
    <3>2. Len(c) = n + m /\ \A y \in 1 .. Len(c) : y > n => c[y] = b[y - n]
      BY ONLY <1>2, <1>6, <1>7 DEF IsJoin
    <3>3. c[n + i] = b[i]
      BY ONLY <3>1, <3>2
    <3> QED  BY ONLY <1>5, <2>1, <3>3
  <2>2. ASSUME NEW i \in 1 .. a, i > n  PROVE c[i] = Blank
    <3>1. i - n \in 1 .. m /\ n + (i - n) = i
      BY ONLY <1>3, <1>4, <2>2
    <3> QED  BY <2>1, <3>1
  <2>3. a \in 1 .. a
    BY <1>3
  <2>4. IsSeq(c) /\ Len(c) = a /\ \A i \in 1 .. n : c[i] = ss[i]
    BY ONLY <1>2, <1>3, <1>4, <1>6, <1>7 DEF IsJoin
  <2> QED  BY ONLY <1>3, <2>2, <2>3, <2>4
<1>9. s = [c EXCEPT ![a] = v]
  BY ONLY <1>2, s = [c EXCEPT ![L.at[N + 1] + 1] = Sheet(L, N + 1, 0, D)]
<1>10. IsSeq(s) /\ Len(s) = a /\ s[a] = v /\ \A i \in 1 .. a : i # a => s[i] = c[i]
  <2>1. PICK S : c \in Seq(S)
    BY <1>8 DEF IsSeq
  <2>2. c \in Seq(S \cup {v}) /\ a \in 1 .. Len(c)
    BY <1>3, <1>8, <2>1, SeqMonotonic
  <2>3. s \in Seq(S \cup {v}) /\ Len(s) = a /\ s[a] = v /\ \A i \in 1 .. a : i # a => s[i] = c[i]
    BY ONLY <1>8, <1>9, <2>2, ExceptSeq
  <2> QED  BY ONLY <2>3 DEF IsSeq
<1>11. ASSUME NEW q \in 1 .. (N + 1)
       PROVE  L.at[q] + 1 \in 1 .. a /\ s[L.at[q] + 1] = Sheet(L, q, IF q = N + 1 THEN 0 ELSE L.full[q], D)
  <2>1. CASE q = N + 1
    BY <1>2, <1>3, <1>10, <2>1
  <2>2. CASE q # N + 1
    <3>1. q \in 1 .. N /\ q \in 1 .. L.C
      BY <1>1, <2>2
    <3>2. L.at[q] + 1 \in 1 .. n /\ ss[L.at[q] + 1] = Sheet(L, q, L.full[q], D)
      BY <1>0, <1>2, <3>1 DEF InSlots
    <3>3. L.at[q] + 1 \in 1 .. a /\ L.at[q] + 1 # a
      BY ONLY <1>3, <3>2
    <3>4. s[L.at[q] + 1] = ss[L.at[q] + 1]
      BY ONLY <1>8, <1>10, <3>2, <3>3
    <3> QED  BY <2>2, <3>2, <3>3, <3>4
  <2> QED  BY <2>1, <2>2
<1>12. ASSUME NEW i \in 1 .. a  PROVE s[i].name = NoName \/ \E q \in 1 .. (N + 1) : i = L.at[q] + 1
  <2>1. CASE i = a
    <3>1. N + 1 \in 1 .. (N + 1)
      BY <1>1
    <3> QED  BY <1>2, <2>1, <3>1
  <2>2. CASE i # a /\ i > n
    <3>1. s[i] = Blank
      BY <1>8, <1>10, <2>2
    <3> QED  BY <3>1 DEF Blank
  <2>3. CASE i # a /\ ~(i > n)
    <3>1. i \in 1 .. n
      BY ONLY <1>3, <2>3, i \in 1 .. a
    <3>2. s[i] = ss[i]
      BY <1>8, <1>10, <2>3, <3>1
    <3>3. ss[i].name = NoName \/ \E q \in 1 .. N : i = L.at[q] + 1
      BY <1>0, <1>2, <3>1 DEF InSlots
    <3>4. \A q \in 1 .. N : q \in 1 .. (N + 1)
      BY <1>1
    <3> QED  BY <3>2, <3>3, <3>4
  <2> QED  BY <2>1, <2>2, <2>3
<1>13. N + 1 < L.C => Len(s) <= L.at[N + 1 + 1]
  <2> SUFFICES ASSUME N + 1 < L.C  PROVE a <= L.at[N + 1 + 1]
    BY <1>10
  <2>1. N + 1 + 1 \in 1 .. L.C /\ N + 1 < N + 1 + 1
    BY <1>1
  <2>2. L.at[N + 1] \in Nat /\ L.at[N + 1 + 1] \in Nat /\ L.at[N + 1] < L.at[N + 1 + 1]
    BY <1>0, <1>1, <2>1 DEF Calling
  <2> QED  BY <1>2, <2>2
<1> QED  BY <1>2, <1>8, <1>10, <1>11, <1>12, <1>13 DEF InSlots

LEMMA SlotsAlone ==
    ASSUME NEW p, IsParser(p), NEW s, NEW q, q = [p EXCEPT !.slots = s]
    PROVE  q.slots = s /\ q.bytes = p.bytes /\ q.seen = p.seen /\ q.source = p.source /\ q.stop = p.stop
<1>1. PICK C, D, B, L : p \in Parsers(C, D, B, L)
  BY DEF IsParser
<1> QED  BY ONLY <1>1, q = [p EXCEPT !.slots = s] DEF Parsers

LEMMA BytesAlone ==
    ASSUME NEW p, IsParser(p), NEW v, NEW q, q = [p EXCEPT !.bytes = v]
    PROVE  q.slots = p.slots /\ q.bytes = v /\ q.seen = p.seen /\ q.source = p.source /\ q.stop = p.stop
<1>1. PICK C, D, B, L : p \in Parsers(C, D, B, L)
  BY DEF IsParser
<1> QED  BY ONLY <1>1, q = [p EXCEPT !.bytes = v] DEF Parsers

LEMMA SeenAlone ==
    ASSUME NEW p, IsParser(p), NEW v, NEW q, q = [p EXCEPT !.seen = v]
    PROVE  q.slots = p.slots /\ q.bytes = p.bytes /\ q.seen = v /\ q.source = p.source /\ q.stop = p.stop
<1>1. PICK C, D, B, L : p \in Parsers(C, D, B, L)
  BY DEF IsParser
<1> QED  BY ONLY <1>1, q = [p EXCEPT !.seen = v] DEF Parsers

\* The arguments of N calls, in bytes.
LEMMA Fragments ==
    ASSUME NEW N \in Nat, NEW C \in Nat, N <= C
    PROVE  /\ Parts \in Nat /\ Parts > 0 /\ Parts * N \in Nat /\ Parts * (N + 1) = Parts * N + Parts
           /\ Parts * N <= Parts * C
<1>1. Parts \in Nat /\ Parts > 0
  BY TranslateAssumption
<1>2. PICK m : m = C - N
  OBVIOUS
<1>3. m \in Nat /\ C = N + m
  BY <1>2
<1>4. Parts * C = Parts * N + Parts * m /\ Parts * N \in Nat /\ Parts * m \in Nat
      /\ Parts * (N + 1) = Parts * N + Parts
  BY <1>1, <1>3
<1>5. PICK a, b, c : a = Parts * N /\ b = Parts * m /\ c = Parts * C
  OBVIOUS
<1>6. a <= c
  BY ONLY <1>4, <1>5
<1> QED  BY <1>1, <1>4, <1>5, <1>6

\* The parser r has what p had, but for the slots and the bytes.
Reslotted(r, p) == IsParser(r) /\ r.source = p.source /\ r.seen = p.seen /\ r.stop = p.stop

LEMMA OpenBooked ==
    ASSUME NEW p, IsParser(p), NEW L, Calling(L), NEW N, NEW D, NEW x, Booked(p, L, N, D, x),
           N < L.C, N > 0 => x = L.full[N],
           NEW r, r = set_identity(p, L.at[N + 1], L.id[N + 1], L.name[N + 1])
    PROVE  Booked(r, L, N + 1, D, 0) /\ Reslotted(r, p)
<1>0. Counts(L, N, D, x) /\ InSlots(p.slots, L, N, D, x) /\ Within(p.bytes, N, x)
  BY DEF Booked
<1>1. N + 1 \in 1 .. L.C /\ L.C \in Nat /\ N \in Nat /\ x \in Nat /\ D \in 0 .. N
  BY <1>0 DEF Counts, Calling
<1>2. L.at[N + 1] \in Nat /\ L.at[N + 1] < MaxCalls /\ L.full[N + 1] \in 0 .. Parts /\ MaxCalls \in Nat
  BY <1>1, TranslateAssumption DEF Calling
<1>3. PICK at, ss : at = L.at[N + 1] /\ ss = p.slots
  OBVIOUS
<1>4. Len(ss) <= at /\ Len(ss) \in Nat
  BY <1>0, <1>3, Appending DEF InSlots
<1>5. PICK c, v, s : /\ c = More(ss, at) /\ s = [c EXCEPT ![at + 1] = v]
                     /\ v = [c[at + 1] EXCEPT !.id = L.id[N + 1], !.name = L.name[N + 1]]
  OBVIOUS
<1>6. PICK q : q = [p EXCEPT !.slots = c]
  OBVIOUS
<1>7. q = slot(p, at)
  <2>1. ~(at >= MaxCalls \/ at < Len(ss))
    BY <1>2, <1>3, <1>4
  <2> QED  BY ONLY <1>3, <1>5, <1>6, <2>1 DEF slot, More, Joined
<1>8. q.slots = c /\ q.bytes = p.bytes /\ q.seen = p.seen /\ q.source = p.source /\ IsParser(q) /\ q.stop = p.stop
  <2>1. Grown(slot(p, at), p)
    BY <1>2, <1>3, SlotKept
  <2> QED  BY <1>6, <1>7, <2>1, SlotsAlone DEF Grown
<1>9. r = [q EXCEPT !.slots = s]
  <2>1. ~(at >= MaxCalls)
    BY <1>2, <1>3
  <2>2. r = [slot(p, at) EXCEPT !.slots = [slot(p, at).slots EXCEPT ![at + 1] =
                  [slot(p, at).slots[at + 1] EXCEPT !.id = L.id[N + 1], !.name = L.name[N + 1]]]]
    BY ONLY <1>3, <2>1, r = set_identity(p, L.at[N + 1], L.id[N + 1], L.name[N + 1]) DEF set_identity, OnSlot
  <2> QED  BY ONLY <1>5, <1>7, <1>8, <2>2
<1>10. r.slots = s /\ r.bytes = p.bytes /\ r.seen = p.seen /\ r.source = p.source /\ r.stop = p.stop
  BY <1>8, <1>9, SlotsAlone
<1>11. PICK z : z = [c EXCEPT ![at + 1] = Sheet(L, N + 1, 0, D)]
  OBVIOUS
<1>12. InSlots(z, L, N + 1, D, 0) /\ c[at + 1] = Blank
  <2>1. c = More(ss, L.at[N + 1]) /\ z = [c EXCEPT ![L.at[N + 1] + 1] = Sheet(L, N + 1, 0, D)]
    BY ONLY <1>3, <1>5, <1>11
  <2>2. Opening(ss, L, N, D, x)
    BY <1>0, <1>3 DEF Opening
  <2>3. InSlots(z, L, N + 1, D, 0) /\ c[L.at[N + 1] + 1] = Blank
    BY ONLY <2>1, <2>2, SlotAdded
  <2> QED  BY <1>3, <2>3
<1>13. v = Sheet(L, N + 1, 0, D)
  <2>1. Sent(N + 1, D) = FALSE
    BY <1>1 DEF Sent
  <2>2. v = [Blank EXCEPT !.id = L.id[N + 1], !.name = L.name[N + 1]]
    BY ONLY <1>5, <1>12
  <2> QED  BY ONLY <2>1, <2>2 DEF Sheet, Blank
<1>14. InSlots(r.slots, L, N + 1, D, 0)
  BY ONLY <1>5, <1>10, <1>11, <1>12, <1>13
<1>15. Counts(L, N + 1, D, 0)
  BY <1>1, <1>2 DEF Counts
<1>16. Within(r.bytes, N + 1, 0)
  <2>1. Parts \in Nat /\ Parts > 0 /\ Parts * N \in Nat /\ Parts * (N + 1) = Parts * N + Parts
    <3>1. N <= L.C
      BY <1>1
    <3> QED  BY ONLY <1>1, <3>1, Fragments
  <2>2. PICK m, d, e : m = Parts * N /\ d = Parts * (N + 1) /\ e = p.bytes
    OBVIOUS
  <2>3. e \in Nat /\ (N = 0 => e = 0) /\ (N > 0 => e + Parts <= m + x)
    BY <1>0, <2>2 DEF Within
  <2>4. N > 0 => x <= Parts
    <3>1. N > 0 => N \in 1 .. L.C
      BY <1>1
    <3> QED  BY <1>0, <3>1, <2>1 DEF Calling, Counts
  <2>5. e + Parts <= d + 0
    BY ONLY <1>1, <2>1, <2>2, <2>3, <2>4
  <2>6. N + 1 > 0 /\ N + 1 # 0
    BY <1>1
  <2> QED  BY ONLY <1>10, <2>2, <2>3, <2>5, <2>6 DEF Within
<1>17. IsParser(r)
  <2>1. Grown(set_identity(p, L.at[N + 1], L.id[N + 1], L.name[N + 1]), p)
    BY <1>2, IdentitySet
  <2> QED  BY <2>1 DEF Grown
<1> QED  BY <1>10, <1>14, <1>15, <1>16, <1>17 DEF Booked, Reslotted

\* Writing on the slot of the last call.
Has(p, L, N, D, x) == IsParser(p) /\ Calling(L) /\ Booked(p, L, N, D, x) /\ N > 0

LEMMA OnLast ==
    ASSUME NEW p, IsParser(p), NEW L, Calling(L), NEW N, NEW D, NEW x, Booked(p, L, N, D, x), N > 0
    PROVE  /\ Has(p, L, N, D, x) /\ N \in 1 .. L.C /\ L.at[N] \in Nat /\ L.at[N] < MaxCalls /\ slot(p, L.at[N]) = p
           /\ p.slots[L.at[N] + 1] = Sheet(L, N, x, D) /\ L.full[N] \in 0 .. Parts /\ MaxCalls \in Nat
<1>0. Counts(L, N, D, x) /\ InSlots(p.slots, L, N, D, x)
  BY DEF Booked
<1>1. N \in 1 .. L.C /\ N \in 1 .. N /\ MaxCalls \in Nat
  BY <1>0, TranslateAssumption DEF Counts, Calling
<1>2. L.at[N] \in Nat /\ L.at[N] < MaxCalls /\ L.full[N] \in 0 .. Parts
  BY <1>1 DEF Calling
<1>3. L.at[N] + 1 \in 1 .. Len(p.slots) /\ p.slots[L.at[N] + 1] = Sheet(L, N, x, D)
  BY <1>0, <1>1 DEF InSlots
<1>4. Len(p.slots) \in Nat
  BY <1>0, Appending DEF InSlots
<1>5. L.at[N] < Len(p.slots)
  BY <1>2, <1>3, <1>4
<1>6. slot(p, L.at[N]) = p
  BY ONLY <1>5 DEF slot
<1> QED  BY <1>1, <1>2, <1>3, <1>6 DEF Has

Rewrites(r, p, L, N, D, y) ==
    /\ InSlots(r.slots, L, N, D, y) /\ Counts(L, N, D, y) /\ r.bytes = p.bytes
    /\ r.seen = p.seen /\ r.source = p.source /\ r.stop = p.stop

LEMMA Rewritten ==
    ASSUME NEW p, NEW L, NEW N, NEW D, NEW x, Has(p, L, N, D, x), NEW y \in 0 .. L.full[N],
           NEW r, r = [p EXCEPT !.slots = [p.slots EXCEPT ![L.at[N] + 1] = Sheet(L, N, y, D)]]
    PROVE  Rewrites(r, p, L, N, D, y)
<1>0. IsParser(p) /\ Calling(L) /\ N > 0 /\ Counts(L, N, D, x) /\ InSlots(p.slots, L, N, D, x)
  BY DEF Has, Booked
<1>1. PICK ss, s : ss = p.slots /\ s = [ss EXCEPT ![L.at[N] + 1] = Sheet(L, N, y, D)]
  OBVIOUS
<1>2. r = [p EXCEPT !.slots = s]
  BY ONLY <1>1, r = [p EXCEPT !.slots = [p.slots EXCEPT ![L.at[N] + 1] = Sheet(L, N, y, D)]]
<1>3. r.slots = s /\ r.bytes = p.bytes /\ r.seen = p.seen /\ r.source = p.source /\ r.stop = p.stop
  BY ONLY <1>0, <1>2, SlotsAlone
<1>5. InSlots(s, L, N, D, y)
  <2>1. InSlots(ss, L, N, D, x)
    BY <1>0, <1>1
  <2> QED  BY ONLY <1>0, <1>1, <2>1, SlotWritten
<1>6. Counts(L, N, D, y)
  <2>1. N \in 1 .. L.C
    BY <1>0 DEF Counts, Calling
  <2>2. L.full[N] \in 0 .. Parts /\ Parts \in Nat
    BY <1>0, <2>1, TranslateAssumption DEF Calling
  <2> QED  BY <1>0, <2>2 DEF Counts
<1> QED  BY <1>3, <1>5, <1>6 DEF Rewrites

LEMMA PushBooked ==
    ASSUME NEW p, IsParser(p), NEW L, Calling(L), NEW N, NEW D, NEW x, Booked(p, L, N, D, x),
           N > 0, x < L.full[N], NEW r, r = push_arguments(p, L.at[N])
    PROVE  Booked(r, L, N, D, x + 1) /\ Reslotted(r, p)
<1>0. Counts(L, N, D, x) /\ Within(p.bytes, N, x)
  BY DEF Booked
<1>1. /\ Has(p, L, N, D, x) /\ N \in 1 .. L.C /\ L.at[N] \in Nat /\ L.at[N] < MaxCalls /\ slot(p, L.at[N]) = p
      /\ p.slots[L.at[N] + 1] = Sheet(L, N, x, D) /\ L.full[N] \in 0 .. Parts /\ MaxCalls \in Nat
  BY OnLast
<1>2. N \in Nat /\ L.C \in Nat /\ x \in Nat /\ N <= L.C /\ Parts * L.C <= MaxBytes /\ MaxBytes \in Nat
  BY <1>0, <1>1, TranslateAssumption DEF Counts, Calling
<1>3. PICK at, e, m : at = L.at[N] /\ e = p.bytes /\ m = Parts * N
  OBVIOUS
<1>4. Parts \in Nat /\ m \in Nat /\ m <= MaxBytes
  <2>1. Parts \in Nat /\ Parts * N \in Nat /\ Parts * N <= Parts * L.C
    BY ONLY <1>2, Fragments
  <2>2. Parts * L.C \in Nat
    BY ONLY <1>2, <2>1
  <2> QED  BY <1>2, <1>3, <2>1, <2>2
<1>5. e \in Nat /\ e + Parts <= m + x /\ x < Parts
  BY <1>0, <1>1, <1>2, <1>3, <1>4 DEF Within
<1>6. ~(e + 1 > MaxBytes)
  BY ONLY <1>2, <1>4, <1>5
<1>7. PICK v, q : v = [p.slots[at + 1] EXCEPT !.n = @ + 1] /\ q = [p EXCEPT !.slots = [p.slots EXCEPT ![at + 1] = v]]
  OBVIOUS
<1>8. v = Sheet(L, N, x + 1, D)
  <2>1. v = [Sheet(L, N, x, D) EXCEPT !.n = @ + 1]
    BY ONLY <1>1, <1>3, <1>7
  <2> QED  BY ONLY <2>1 DEF Sheet
<1>9. /\ InSlots(q.slots, L, N, D, x + 1) /\ Counts(L, N, D, x + 1) /\ q.bytes = p.bytes
      /\ q.seen = p.seen /\ q.source = p.source /\ q.stop = p.stop
  <2>1. x + 1 \in 0 .. L.full[N]
    BY <1>1, <1>2
  <2>2. q = [p EXCEPT !.slots = [p.slots EXCEPT ![L.at[N] + 1] = Sheet(L, N, x + 1, D)]]
    BY ONLY <1>3, <1>7, <1>8
  <2>3. Rewrites(q, p, L, N, D, x + 1)
    BY ONLY <1>1, <2>1, <2>2, Rewritten
  <2> QED  BY <2>3 DEF Rewrites
<1>10. q = OnSlot(p, at, LAMBDA s : [s EXCEPT !.n = @ + 1])
  <2>1. ~(at >= MaxCalls) /\ slot(p, at) = p
    BY <1>1, <1>3
  <2> QED  BY ONLY <1>7, <2>1 DEF OnSlot
<1>11. r = [q EXCEPT !.bytes = e + 1]
  <2>1. at < MaxCalls
    BY <1>1, <1>3
  <2>2. q.bytes + (IF at < MaxCalls THEN 1 ELSE 0) = e + 1
    BY ONLY <1>3, <1>9, <2>1
  <2>3. r = [OnSlot(p, at, LAMBDA s : [s EXCEPT !.n = @ + 1]) EXCEPT
               !.bytes = OnSlot(p, at, LAMBDA s : [s EXCEPT !.n = @ + 1]).bytes + IF at < MaxCalls THEN 1 ELSE 0]
    BY ONLY <1>3, <1>6, r = push_arguments(p, L.at[N]) DEF push_arguments
  <2>4. r = [q EXCEPT !.bytes = q.bytes + IF at < MaxCalls THEN 1 ELSE 0]
    BY ONLY <1>10, <2>3
  <2> QED  BY ONLY <2>2, <2>4
<1>12. IsParser(q) /\ IsParser(r)
  <2>1. IsSeq(q.slots) /\ \E s : q = [p EXCEPT !.slots = s] /\ s = q.slots
    <3>1. PICK s : s = [p.slots EXCEPT ![at + 1] = v]
      OBVIOUS
    <3>2. q = [p EXCEPT !.slots = s]
      BY <1>7, <3>1
    <3>3. q.slots = s
      BY <3>2, SlotsAlone
    <3> QED  BY <1>9, <3>2, <3>3 DEF InSlots
  <2>2. IsParser(q)
    BY <2>1, SlotsSet
  <2>3. IsParser(r)
    BY <1>11, <2>2, BytesSet
  <2> QED  BY <2>2, <2>3
<1>13. r.slots = q.slots /\ r.bytes = e + 1 /\ r.seen = q.seen /\ r.source = q.source /\ r.stop = q.stop
  BY <1>11, <1>12, BytesAlone
<1>14. Within(r.bytes, N, x + 1)
  <2>1. e + 1 \in Nat /\ (e + 1) + Parts <= m + (x + 1) /\ N # 0
    BY ONLY <1>1, <1>2, <1>4, <1>5
  <2> QED  BY ONLY <1>3, <1>13, <2>1 DEF Within
<1> QED  BY <1>9, <1>12, <1>13, <1>14 DEF Booked, Reslotted

LEMMA AgainBooked ==
    ASSUME NEW p, IsParser(p), NEW L, Calling(L), NEW N, NEW D, NEW x, Booked(p, L, N, D, x), N > 0,
           NEW r, r = set_identity(p, L.at[N], L.id[N], L.name[N])
    PROVE  Booked(r, L, N, D, x) /\ Reslotted(r, p)
<1>0. Counts(L, N, D, x) /\ Within(p.bytes, N, x)
  BY DEF Booked
<1>1. /\ Has(p, L, N, D, x) /\ N \in 1 .. L.C /\ L.at[N] \in Nat /\ L.at[N] < MaxCalls /\ slot(p, L.at[N]) = p
      /\ p.slots[L.at[N] + 1] = Sheet(L, N, x, D) /\ L.full[N] \in 0 .. Parts /\ MaxCalls \in Nat
  BY OnLast
<1>2. x \in 0 .. L.full[N]
  BY <1>0, <1>1, TranslateAssumption DEF Counts, Calling
<1>3. PICK at, v : at = L.at[N] /\ v = [p.slots[at + 1] EXCEPT !.id = L.id[N], !.name = L.name[N]]
  OBVIOUS
<1>4. v = Sheet(L, N, x, D)
  <2>1. v = [Sheet(L, N, x, D) EXCEPT !.id = L.id[N], !.name = L.name[N]]
    BY ONLY <1>1, <1>3
  <2> QED  BY ONLY <2>1 DEF Sheet
<1>5. r = [p EXCEPT !.slots = [p.slots EXCEPT ![at + 1] = v]]
  <2>1. ~(at >= MaxCalls) /\ slot(p, at) = p
    BY <1>1, <1>3
  <2> QED  BY ONLY <1>3, <2>1, r = set_identity(p, L.at[N], L.id[N], L.name[N]) DEF set_identity, OnSlot
<1>6. /\ InSlots(r.slots, L, N, D, x) /\ Counts(L, N, D, x) /\ r.bytes = p.bytes
      /\ r.seen = p.seen /\ r.source = p.source /\ r.stop = p.stop
  <2>1. r = [p EXCEPT !.slots = [p.slots EXCEPT ![L.at[N] + 1] = Sheet(L, N, x, D)]]
    BY ONLY <1>3, <1>4, <1>5
  <2>2. Rewrites(r, p, L, N, D, x)
    BY ONLY <1>1, <1>2, <2>1, Rewritten
  <2> QED  BY <2>2 DEF Rewrites
<1>7. IsParser(r)
  <2>1. Grown(set_identity(p, L.at[N], L.id[N], L.name[N]), p)
    BY <1>1, IdentitySet
  <2> QED  BY <2>1 DEF Grown
<1> QED  BY <1>0, <1>6, <1>7 DEF Booked, Reslotted

LEMMA FillBooked ==
    ASSUME NEW p, IsParser(p), NEW L, Calling(L), NEW N, NEW D, NEW x, Booked(p, L, N, D, x), N > 0, x > 0,
           NEW r, r = fill_arguments(p, L.at[N])
    PROVE  Booked(r, L, N, D, x) /\ Reslotted(r, p)
<1>0. Counts(L, N, D, x) /\ Within(p.bytes, N, x)
  BY DEF Booked
<1>1. /\ Has(p, L, N, D, x) /\ N \in 1 .. L.C /\ L.at[N] \in Nat /\ L.at[N] < MaxCalls /\ slot(p, L.at[N]) = p
      /\ p.slots[L.at[N] + 1] = Sheet(L, N, x, D) /\ L.full[N] \in 0 .. Parts /\ MaxCalls \in Nat
  BY OnLast
<1>2. x \in 0 .. L.full[N] /\ x # 0
  BY <1>0, <1>1, TranslateAssumption DEF Counts, Calling
<1>3. PICK at, v : at = L.at[N] /\ v = [p.slots[at + 1] EXCEPT !.n = IF @ = 0 THEN Parts ELSE @]
  OBVIOUS
<1>4. v = Sheet(L, N, x, D)
  <2>1. v = [Sheet(L, N, x, D) EXCEPT !.n = IF @ = 0 THEN Parts ELSE @]
    BY ONLY <1>1, <1>3
  <2> QED  BY ONLY <1>2, <2>1 DEF Sheet
<1>5. r = [p EXCEPT !.slots = [p.slots EXCEPT ![at + 1] = v]]
  <2>1. ~(at >= MaxCalls) /\ slot(p, at) = p
    BY <1>1, <1>3
  <2> QED  BY ONLY <1>3, <2>1, r = fill_arguments(p, L.at[N]) DEF fill_arguments, OnSlot
<1>6. /\ InSlots(r.slots, L, N, D, x) /\ Counts(L, N, D, x) /\ r.bytes = p.bytes
      /\ r.seen = p.seen /\ r.source = p.source /\ r.stop = p.stop
  <2>1. r = [p EXCEPT !.slots = [p.slots EXCEPT ![L.at[N] + 1] = Sheet(L, N, x, D)]]
    BY ONLY <1>3, <1>4, <1>5
  <2>2. Rewrites(r, p, L, N, D, x)
    BY ONLY <1>1, <1>2, <2>1, Rewritten
  <2> QED  BY <2>2 DEF Rewrites
<1>7. IsParser(r)
  <2>1. Grown(fill_arguments(p, L.at[N]), p)
    BY <1>1, ArgumentsFilled
  <2> QED  BY <2>1 DEF Grown
<1> QED  BY <1>0, <1>6, <1>7 DEF Booked, Reslotted

\* Of the sequences ss those at a[1], a[2], ... up to a[m] have one member each, v[1],
\* v[2], ..., and the others none: what they make together.
Picks(ss, n, m, a, v) ==
    /\ \A y \in 1 .. m : a[y] \in 1 .. n /\ ss[a[y]] = <<v[y]>>
    /\ \A y, z \in 1 .. m : y < z => a[y] < a[z]
    /\ \A i \in 1 .. n : ss[i] = <<>> \/ \E y \in 1 .. m : i = a[y]
Gathered(F, m, v) == IsSeq(F) /\ Len(F) = m /\ \A y \in 1 .. m : F[y] = v[y]
GatheredTo(f, i, m, a, v) ==
    \E c \in 0 .. m : /\ Gathered(f, c, v)
                      /\ (\A y \in 1 .. c : a[y] <= i)
                      /\ (\A y \in 1 .. m : y > c => a[y] > i)

LEMMA GatherOne ==
    ASSUME NEW m \in Nat, NEW a, NEW v, NEW ss, NEW n \in Nat, Picks(ss, n, m, a, v),
           NEW i \in Nat, i + 1 <= n, NEW f, GatheredTo(f, i, m, a, v), NEW g, g = Joined(f, ss[i + 1])
    PROVE  GatheredTo(g, i + 1, m, a, v)
<1>1. PICK c \in 0 .. m : /\ Gathered(f, c, v)
                          /\ (\A y \in 1 .. c : a[y] <= i)
                          /\ (\A y \in 1 .. m : y > c => a[y] > i)
  BY DEF GatheredTo
<1>2. IsSeq(f) /\ Len(f) = c /\ (\A y \in 1 .. c : f[y] = v[y]) /\ c \in Nat /\ c <= m
  BY <1>1 DEF Gathered
<1>3. \A y \in 1 .. m : a[y] \in Nat
  BY DEF Picks
<1>4. CASE \E y \in 1 .. m : i + 1 = a[y]
  <2>1. PICK y \in 1 .. m : i + 1 = a[y]
    BY <1>4
  <2>2. y > c
    BY <1>1, <1>2, <2>1
  <2>3. y = c + 1
    <3> SUFFICES ASSUME c + 1 < y  PROVE FALSE
      BY <1>2, <2>2
    <3>1. c + 1 \in 1 .. m /\ c + 1 > c
      BY <1>2
    <3>2. a[c + 1] < a[y]
      BY <3>1 DEF Picks
    <3>3. a[c + 1] > i /\ a[c + 1] \in Nat
      BY <1>1, <1>3, <3>1
    <3> QED  BY ONLY <2>1, <3>2, <3>3, i \in Nat
  <2>4. g = Append(f, v[c + 1])
    <3>1. ss[i + 1] = <<v[y]>>
      BY <2>1 DEF Picks
    <3> QED  BY <1>2, <2>3, <3>1, TupleOne DEF Joined
  <2>5. IsSeq(g) /\ Len(g) = c + 1 /\ g[c + 1] = v[c + 1] /\ \A z \in 1 .. c : g[z] = f[z]
    BY ONLY <1>2, <2>4, Appending
  <2>6. Gathered(g, c + 1, v)
    <3>1. \A z \in 1 .. (c + 1) : z \in 1 .. c \/ z = c + 1
      BY <1>2
    <3> QED  BY <1>2, <2>5, <3>1 DEF Gathered
  <2>7. \A z \in 1 .. (c + 1) : a[z] <= i + 1
    <3>1. ASSUME NEW z \in 1 .. c  PROVE a[z] <= i + 1
      <4>1. a[z] <= i /\ z \in 1 .. m
        BY <1>1, <1>2
      <4> QED  BY <1>3, <4>1
    <3>2. \A z \in 1 .. (c + 1) : z \in 1 .. c \/ z = c + 1
      BY <1>2
    <3> QED  BY <2>1, <2>3, <3>1, <3>2
  <2>8. ASSUME NEW z \in 1 .. m, z > c + 1  PROVE a[z] > i + 1
    BY <2>1, <2>3, <2>8 DEF Picks
  <2>9. c + 1 \in 0 .. m
    BY <1>2, <2>3
  <2> QED  BY <2>6, <2>7, <2>8, <2>9 DEF GatheredTo
<1>5. CASE ~\E y \in 1 .. m : i + 1 = a[y]
  <2>1. i + 1 \in 1 .. n
    OBVIOUS
  <2>2. ss[i + 1] = <<>>
    BY <1>5, <2>1 DEF Picks
  <2>3. g = f
    BY <1>2, <2>2, TupleOne DEF Joined
  <2>4. ASSUME NEW y \in 1 .. m, y > c  PROVE a[y] > i + 1
    BY <1>1, <1>3, <1>5, <2>4
  <2>5. ASSUME NEW y \in 1 .. c  PROVE a[y] <= i + 1
    <3>1. a[y] <= i /\ y \in 1 .. m
      BY <1>1, <1>2
    <3> QED  BY <1>3, <3>1
  <2> QED  BY <1>1, <2>3, <2>4, <2>5 DEF GatheredTo
<1> QED  BY <1>4, <1>5

LEMMA Gathering ==
    ASSUME NEW m \in Nat, NEW a, NEW v, NEW n \in Nat \ {0}, NEW ss, Len(ss) = n, Picks(ss, n, m, a, v)
    PROVE  Gathered(FlattenSeq(ss), m, v)
<1>1. PICK f : /\ f[1] = ss[1]
               /\ \A i \in 2 .. n : f[i] = Joined(f[i - 1], ss[i])
               /\ FlattenSeq(ss) = f[n]
  BY FlattenIs
<1> DEFINE G == {i \in Nat : GatheredTo(IF i = 0 THEN <<>> ELSE f[i], i, m, a, v)}
<1>2. 0 \in G
  <2>1. IsSeq(<<>>) /\ Len(<<>>) = 0
    <3>1. <<>> \in Seq({})
      OBVIOUS
    <3> QED  BY <3>1 DEF IsSeq
  <2>2. Gathered(<<>>, 0, v)
    BY <2>1 DEF Gathered
  <2>3. \A y \in 1 .. m : a[y] > 0
    BY DEF Picks
  <2>4. 0 \in 0 .. m /\ \A y \in 1 .. 0 : a[y] <= 0
    OBVIOUS
  <2>5. GatheredTo(<<>>, 0, m, a, v)
    BY <2>2, <2>3, <2>4 DEF GatheredTo
  <2> QED  BY <2>5
<1>3. ASSUME NEW i \in 0 .. n, i < n, i \in G  PROVE i + 1 \in G
  <2>1. PICK h : h = IF i = 0 THEN <<>> ELSE f[i]
    OBVIOUS
  <2>2. GatheredTo(h, i, m, a, v)
    BY <1>3, <2>1
  <2>3. f[i + 1] = Joined(h, ss[i + 1])
    <3>1. CASE i = 0
      <4>1. ss[1] = <<>> \/ \E y \in 1 .. m : ss[1] = <<v[y]>>
        <5>1. 1 \in 1 .. n
          OBVIOUS
        <5> QED  BY <5>1 DEF Picks
      <4>2. IsSeq(ss[1])
        <5>2. <<>> \in Seq({}) /\ \A y \in 1 .. m : <<v[y]>> \in Seq({v[y]})
          OBVIOUS
        <5> QED  BY <4>1, <5>2, Zenon DEF IsSeq
      <4>3. <<>> \o ss[1] = ss[1]
        <5>1. PICK S : ss[1] \in Seq(S)
          BY <4>2 DEF IsSeq
        <5> QED  BY <5>1, ConcatEmptySeq
      <4> QED  BY <1>1, <2>1, <3>1, <4>3 DEF Joined
    <3>2. CASE i # 0
      <4>1. i + 1 \in 2 .. n /\ (i + 1) - 1 = i
        BY <1>3, <3>2
      <4> QED  BY <1>1, <2>1, <3>2, <4>1
    <3> QED  BY <3>1, <3>2
  <2>4. i \in Nat /\ i + 1 <= n /\ i + 1 # 0
    BY <1>3
  <2>5. GatheredTo(f[i + 1], i + 1, m, a, v)
    BY ONLY <2>2, <2>3, <2>4, m \in Nat, n \in Nat \ {0}, Picks(ss, n, m, a, v), GatherOne
  <2> QED  BY <2>4, <2>5
<1>4. \A i \in 0 .. n : i \in G
  <2> HIDE DEF G
  <2> QED  BY <1>2, <1>3, Ladder
<1>5. GatheredTo(f[n], n, m, a, v)
  BY <1>4
<1>6. PICK c \in 0 .. m : Gathered(f[n], c, v) /\ \A y \in 1 .. m : y > c => a[y] > n
  BY <1>5 DEF GatheredTo
<1>7. c = m
  <2> SUFFICES ASSUME c < m  PROVE FALSE
    BY <1>6
  <2>1. m \in 1 .. m /\ m > c
    BY <1>6
  <2>2. a[m] > n /\ a[m] \in 1 .. n
    BY <1>6, <2>1 DEF Picks
  <2> QED  BY <2>2
<1> QED  BY <1>1, <1>6, <1>7

\* The call q of L as the parser hands it out.
HandsOut(L, q, N, x, w) ==
    [k |-> "call", at |-> L.at[q], id |-> decode(L.id[q], w), name |-> L.name[q],
     n |-> IF q = N THEN x ELSE L.full[q]]

\* Of the calls not handed out yet those up to E are at the indices I.
Reaches(L, N, D, E, I) ==
    /\ E \in D .. N
    /\ \A q \in 1 .. N : q > D => (q <= E <=> L.at[q] \in I)

LEMMA CompleteBooked ==
    ASSUME NEW p, IsParser(p), NEW L, Calling(L), NEW N, NEW D, NEW x, Booked(p, L, N, D, x),
           NEW E, NEW I, Reaches(L, N, D, E, I), NEW r, r = complete(p, I)
    PROVE  /\ Booked(r.p, L, N, E, x) /\ Reslotted(r.p, p)
           /\ IsSeq(r.out) /\ Len(r.out) = E - D
           /\ \A y \in 1 .. (E - D) : r.out[y] = HandsOut(L, D + y, N, x, p.source)
<1>0. Counts(L, N, D, x) /\ InSlots(p.slots, L, N, D, x) /\ Within(p.bytes, N, x)
  BY DEF Booked
<1>1. /\ N \in Nat /\ L.C \in Nat /\ N <= L.C /\ D \in Nat /\ D <= N /\ E \in Nat /\ D <= E /\ E <= N
  BY <1>0 DEF Counts, Calling, Reaches
<1>2. PICK s, n, src : s = p.slots /\ n = Len(s) /\ src = p.source
  OBVIOUS
<1>3. IsSeq(s) /\ n \in Nat /\ InSlots(s, L, N, D, x)
  BY <1>0, <1>2, Appending DEF InSlots
<1>4. PICK due : due = {i \in 1 .. n : i - 1 \in I /\ ~s[i].emitted /\ s[i].name # NoName}
  OBVIOUS
<1>5. ASSUME NEW q \in 1 .. N
      PROVE  /\ q \in 1 .. L.C /\ L.at[q] \in Nat /\ L.at[q] + 1 \in 1 .. n /\ L.name[q] # NoName
             /\ s[L.at[q] + 1] = Sheet(L, q, IF q = N THEN x ELSE L.full[q], D)
  <2>1. q \in 1 .. L.C
    BY <1>1
  <2> QED  BY <1>2, <1>3, <2>1 DEF InSlots, Calling
<1>6. ASSUME NEW q \in 1 .. N  PROVE L.at[q] + 1 \in due <=> q > D /\ q <= E
  <2>1. PICK i : i = L.at[q] + 1
    OBVIOUS
  <2>2. i \in 1 .. n /\ i - 1 = L.at[q]
    BY <1>5, <2>1
  <2>3. s[i].name # NoName /\ s[i].emitted = Sent(q, D)
    <3>1. s[i] = Sheet(L, q, IF q = N THEN x ELSE L.full[q], D) /\ L.name[q] # NoName
      BY <1>5, <2>1
    <3> QED  BY ONLY <3>1 DEF Sheet
  <2>4. ~s[i].emitted <=> q > D
    BY <1>1, <2>3 DEF Sent
  <2>5. q > D => (q <= E <=> i - 1 \in I)
    BY <2>2 DEF Reaches
  <2>6. i \in due <=> i - 1 \in I /\ ~s[i].emitted
    BY ONLY <1>4, <2>2, <2>3
  <2> QED  BY ONLY <2>1, <2>4, <2>5, <2>6
<1>7. ASSUME NEW i \in due  PROVE \E q \in 1 .. N : i = L.at[q] + 1
  BY <1>2, <1>3, <1>4 DEF InSlots
<1>8. \A q, u \in 1 .. N : q < u => L.at[q] + 1 < L.at[u] + 1
  <2>1. \A q, u \in 1 .. L.C : q < u => L.at[q] < L.at[u]
    BY DEF Calling
  <2> QED  BY <1>5, <2>1
<1> DEFINE Z == [i \in 1 .. n |-> IF i \in due THEN [s[i] EXCEPT !.emitted = TRUE] ELSE s[i]]
           T == [i \in 1 .. n |-> IF i \in due /\ ~s[i].overflowed
                                  THEN <<DCall(i - 1, s[i], src)>> ELSE <<>>]
<1>9. PICK z, y, q : z = Z /\ y = T /\ q = [p EXCEPT !.slots = z]
  OBVIOUS
<1>10. r = [p |-> q, out |-> FlattenSeq(y)]
  BY ONLY <1>2, <1>4, <1>9, r = complete(p, I) DEF complete
<1>11. q.slots = z /\ q.bytes = p.bytes /\ q.seen = p.seen /\ q.source = p.source /\ q.stop = p.stop
  <2>1. q = [p EXCEPT !.slots = z]
    BY <1>9
  <2> QED  BY ONLY <2>1, IsParser(p), SlotsAlone
<1>12. IsParser(q)
  <2>1. Grown(complete(p, I).p, p)
    BY Completes DEF Same
  <2> QED  BY <1>10, <2>1 DEF Grown
<1>13. IsSeq(z) /\ Len(z) = n
  <2>1. z = [i \in 1 .. n |-> z[i]]
    BY ONLY <1>9
  <2> QED  BY ONLY <1>3, <2>1, FunctionIsSeq
<1>14. \A i \in 1 .. n : z[i] = IF i \in due THEN [s[i] EXCEPT !.emitted = TRUE] ELSE s[i]
  BY ONLY <1>9
<1>15. \A i \in 1 .. n : y[i] = IF i \in due /\ ~s[i].overflowed THEN <<DCall(i - 1, s[i], src)>> ELSE <<>>
  BY ONLY <1>9
<1>16. IsSeq(y) /\ Len(y) = n
  <2>1. y = [i \in 1 .. n |-> y[i]]
    BY ONLY <1>9
  <2> QED  BY ONLY <1>3, <2>1, FunctionIsSeq
<1> HIDE DEF Z, T
<1>17. InSlots(z, L, N, E, x)
  <2>1. ASSUME NEW u \in 1 .. N
        PROVE  /\ L.at[u] + 1 \in 1 .. Len(z)
               /\ z[L.at[u] + 1] = Sheet(L, u, IF u = N THEN x ELSE L.full[u], E)
    <3>1. PICK i, k : i = L.at[u] + 1 /\ k = IF u = N THEN x ELSE L.full[u]
      OBVIOUS
    <3>2. i \in 1 .. n /\ s[i] = Sheet(L, u, k, D) /\ z[i] = IF i \in due THEN [s[i] EXCEPT !.emitted = TRUE] ELSE s[i]
      BY <1>5, <1>14, <3>1
    <3>3. CASE u > D /\ u <= E
      <4>1. i \in due /\ Sent(u, E) = TRUE
        BY <1>6, <3>1, <3>3 DEF Sent
      <4>2. z[i] = [Sheet(L, u, k, D) EXCEPT !.emitted = TRUE]
        BY ONLY <3>2, <4>1
      <4>3. z[i] = Sheet(L, u, k, E)
        BY ONLY <4>1, <4>2 DEF Sheet
      <4> QED  BY <1>13, <3>1, <3>2, <4>3
    <3>4. CASE ~(u > D /\ u <= E)
      <4>1. i \notin due /\ Sent(u, E) = Sent(u, D)
        BY <1>1, <1>6, <3>1, <3>4 DEF Sent
      <4>2. z[i] = Sheet(L, u, k, D)
        BY ONLY <3>2, <4>1
      <4>3. z[i] = Sheet(L, u, k, E)
        BY ONLY <4>1, <4>2 DEF Sheet
      <4> QED  BY <1>13, <3>1, <3>2, <4>3
    <3> QED  BY <3>3, <3>4
  <2>2. ASSUME NEW i \in 1 .. Len(z)  PROVE z[i].name = NoName \/ \E u \in 1 .. N : i = L.at[u] + 1
    <3>1. i \in 1 .. n
      BY <1>13
    <3>2. CASE i \in due
      BY <1>7, <3>2
    <3>3. CASE i \notin due
      <4>1. z[i] = s[i]
        BY <1>14, <3>1, <3>3
      <4> QED  BY <1>2, <1>3, <3>1, <4>1 DEF InSlots
    <3> QED  BY <3>2, <3>3
  <2>3. N < L.C => Len(z) <= L.at[N + 1]
    BY <1>2, <1>3, <1>13 DEF InSlots
  <2> QED  BY <1>13, <2>1, <2>2, <2>3 DEF InSlots
<1>18. Counts(L, N, E, x)
  BY <1>0, <1>1 DEF Counts
<1>19. Booked(q, L, N, E, x)
  BY <1>0, <1>11, <1>17, <1>18 DEF Booked
<1>20. PICK m, a, v : /\ m = E - D /\ a = [j \in 1 .. m |-> L.at[D + j] + 1]
                      /\ v = [j \in 1 .. m |-> HandsOut(L, D + j, N, x, src)]
  OBVIOUS
<1>21. m \in Nat /\ \A j \in 1 .. m : D + j \in 1 .. N /\ D + j > D /\ D + j <= E
  BY ONLY <1>1, <1>20
<1>22. ASSUME NEW j \in 1 .. m  PROVE a[j] \in 1 .. n /\ a[j] \in due /\ y[a[j]] = <<v[j]>>
  <2>1. PICK u, i : u = D + j /\ i = L.at[u] + 1
    OBVIOUS
  <2>2. u \in 1 .. N /\ u > D /\ u <= E /\ a[j] = i /\ v[j] = HandsOut(L, u, N, x, src)
    BY <1>20, <1>21, <2>1
  <2>3. i \in due /\ i \in 1 .. n /\ i - 1 = L.at[u] /\ s[i] = Sheet(L, u, IF u = N THEN x ELSE L.full[u], D)
    BY <1>5, <1>6, <2>1, <2>2
  <2>4. ~s[i].overflowed /\ DCall(i - 1, s[i], src) = HandsOut(L, u, N, x, src)
    BY ONLY <2>3 DEF Sheet, DCall, HandsOut
  <2>5. y[i] = <<DCall(i - 1, s[i], src)>>
    BY <1>15, <2>3, <2>4
  <2> QED  BY ONLY <2>2, <2>3, <2>4, <2>5
<1>23. ASSUME NEW i \in 1 .. n  PROVE y[i] = <<>> \/ \E j \in 1 .. m : i = a[j]
  <2>1. CASE i \notin due
    BY <1>15, <2>1
  <2>2. CASE i \in due
    <3>1. PICK u \in 1 .. N : i = L.at[u] + 1
      BY <1>7, <2>2
    <3>2. u > D /\ u <= E
      BY <1>6, <2>2, <3>1
    <3>3. u - D \in 1 .. m /\ D + (u - D) = u
      BY ONLY <1>1, <1>20, <3>2, u \in 1 .. N
    <3>4. a[u - D] = i
      BY <1>20, <3>1, <3>3
    <3> QED  BY <3>3, <3>4
  <2> QED  BY <2>1, <2>2
<1>24. \A j, h \in 1 .. m : j < h => a[j] < a[h]
  <2> SUFFICES ASSUME NEW j \in 1 .. m, NEW h \in 1 .. m, j < h  PROVE a[j] < a[h]
    OBVIOUS
  <2>1. D + j \in 1 .. N /\ D + h \in 1 .. N /\ D + j < D + h
    BY <1>1, <1>21
  <2> QED  BY <1>8, <1>20, <2>1
<1>25. Gathered(FlattenSeq(y), m, v)
  <2>1. CASE n = 0
    <3>1. FlattenSeq(y) = y
      BY <1>16, <2>1 DEF FlattenSeq
    <3>2. m = 0
      <4>1. ~(m > 0)
        BY <1>22, <2>1, <1>21
      <4> QED  BY <1>21, <4>1
    <3> QED  BY <1>16, <2>1, <3>1, <3>2 DEF Gathered
  <2>2. CASE n # 0
    <3>1. Picks(y, n, m, a, v)
      BY <1>22, <1>23, <1>24 DEF Picks
    <3>2. n \in Nat \ {0}
      BY <1>3, <2>2
    <3> QED  BY ONLY <1>16, <1>21, <3>1, <3>2, Gathering
  <2> QED  BY <2>1, <2>2
<1>26. IsSeq(r.out) /\ Len(r.out) = E - D /\ \A j \in 1 .. (E - D) : r.out[j] = HandsOut(L, D + j, N, x, p.source)
  <2>1. PICK F : F = FlattenSeq(y)
    OBVIOUS
  <2>2. r.out = F
    BY ONLY <1>10, <2>1
  <2>3. IsSeq(F) /\ Len(F) = m /\ \A j \in 1 .. m : F[j] = v[j]
    BY ONLY <1>25, <2>1 DEF Gathered
  <2>4. \A j \in 1 .. m : v[j] = HandsOut(L, D + j, N, x, src)
    BY ONLY <1>20
  <2> QED  BY ONLY <1>2, <1>20, <2>2, <2>3, <2>4
<1>27. r.p = q
  BY ONLY <1>10
<1> QED  BY <1>11, <1>12, <1>19, <1>26, <1>27 DEF Reslotted

\* The call q of L, as the parser of the wire w hands it out when it is whole.
Whole(L, q, w) ==
    [k |-> "call", at |-> L.at[q], id |-> decode(L.id[q], w), name |-> L.name[q], n |-> L.full[q]]

\* The deltas ds have the calls of L behind the D-th, up to the E-th, in their order.
Delivers(ds, L, D, E, w) ==
    /\ IsSeq(ds) /\ CallsTo(ds, Len(ds)) = E - D
    /\ \A i \in 1 .. Len(ds) :
         ds[i].k = "call" => /\ D + CallsTo(ds, i - 1) + 1 \in 1 .. E
                             /\ ds[i] = Whole(L, D + CallsTo(ds, i - 1) + 1, w)

LEMMA CallsToNone ==
    ASSUME NEW ds, NEW m, \A y \in 1 .. m : ds[y].k # "call"
    PROVE  CallsTo(ds, m) = 0
<1>1. {y \in 1 .. m : ds[y].k = "call"} = {}
  OBVIOUS
<1> QED  BY <1>1, FS_EmptySet DEF CallsTo

LEMMA CallsToAll ==
    ASSUME NEW ds, NEW m \in Nat, \A y \in 1 .. m : ds[y].k = "call"
    PROVE  CallsTo(ds, m) = m
<1>1. {y \in 1 .. m : ds[y].k = "call"} = 1 .. m
  OBVIOUS
<1>2. Cardinality(1 .. m) = m
  BY FS_Interval
<1> QED  BY <1>1, <1>2 DEF CallsTo

LEMMA DeliversNone ==
    ASSUME NEW ds, IsSeq(ds), \A y \in 1 .. Len(ds) : ds[y].k # "call", NEW L, NEW D \in Nat, NEW w
    PROVE  Delivers(ds, L, D, D, w)
<1>1. CallsTo(ds, Len(ds)) = 0
  BY CallsToNone
<1> QED  BY <1>1 DEF Delivers

LEMMA DeliversAll ==
    ASSUME NEW ds, IsSeq(ds), NEW D \in Nat, NEW E \in Nat, D <= E, Len(ds) = E - D, NEW L, NEW w,
           \A y \in 1 .. (E - D) : ds[y] = Whole(L, D + y, w)
    PROVE  Delivers(ds, L, D, E, w)
<1>1. PICK m : m = E - D
  OBVIOUS
<1>2. m \in Nat /\ Len(ds) = m /\ \A y \in 1 .. m : ds[y] = Whole(L, D + y, w)
  BY <1>1
<1>3. \A y \in 1 .. m : ds[y].k = "call"
  BY <1>2 DEF Whole
<1>4. CallsTo(ds, m) = m
  BY <1>2, <1>3, CallsToAll
<1>5. ASSUME NEW i \in 1 .. m
      PROVE  D + CallsTo(ds, i - 1) + 1 \in 1 .. E /\ ds[i] = Whole(L, D + CallsTo(ds, i - 1) + 1, w)
  <2>1. i - 1 \in Nat /\ \A y \in 1 .. (i - 1) : y \in 1 .. m
    BY <1>2
  <2>2. CallsTo(ds, i - 1) = i - 1
    BY <1>3, <2>1, CallsToAll
  <2>3. D + CallsTo(ds, i - 1) + 1 = D + i
    BY <2>2
  <2>4. D + i \in 1 .. E
    BY <1>1, <1>2
  <2> QED  BY <1>2, <2>3, <2>4
<1> QED  BY <1>1, <1>2, <1>4, <1>5 DEF Delivers

LEMMA DeliversAfter ==
    ASSUME NEW a, IsSeq(a), \A y \in 1 .. Len(a) : a[y].k # "call", NEW b, NEW L, NEW D \in Nat, NEW E, NEW w,
           Delivers(b, L, D, E, w), NEW c, c = Joined(a, b)
    PROVE  Delivers(c, L, D, E, w)
<1>1. IsSeq(b) /\ CallsTo(b, Len(b)) = E - D
  BY DEF Delivers
<1>2. IsJoin(c, a, b)
  BY <1>1, ConcatParts
<1>3. PICK n, m : n = Len(a) /\ m = Len(b)
  OBVIOUS
<1>4. /\ IsSeq(c) /\ n \in Nat /\ m \in Nat /\ Len(c) = n + m /\ (\A x \in 1 .. n : c[x] = a[x])
      /\ \A x \in 1 .. (n + m) : x > n => x - n \in 1 .. m /\ c[x] = b[x - n]
  BY ONLY <1>2, <1>3 DEF IsJoin
<1>5. \A x \in 1 .. n : c[x].k # "call"
  BY <1>3, <1>4
<1> DEFINE G == {i \in Nat : CallsTo(c, n + i) = CallsTo(b, i)}
<1>6. 0 \in G
  <2>1. CallsTo(c, n) = 0
    BY <1>5, CallsToNone
  <2>2. CallsTo(b, 0) = 0
    BY CallsToNone
  <2>3. n + 0 = n
    BY <1>4
  <2> QED  BY <2>1, <2>2, <2>3
<1>7. ASSUME NEW i \in 0 .. m, i < m, i \in G  PROVE i + 1 \in G
  <2>1. c[n + i + 1] = b[i + 1]
    <3>1. n + i + 1 \in 1 .. (n + m) /\ n + i + 1 > n /\ (n + i + 1) - n = i + 1
      BY <1>4, <1>7
    <3> QED  BY <1>4, <3>1
  <2>2. CallsTo(c, n + i + 1) = Behind(CallsTo(c, n + i), c[n + i + 1]) /\ CallsTo(b, i + 1) = Behind(CallsTo(b, i), b[i + 1])
    <3>1. n + i \in Nat /\ i \in Nat
      BY <1>4
    <3> QED  BY <3>1, CallsToNext
  <2>3. CallsTo(c, n + i) = CallsTo(b, i)
    BY <1>7
  <2>4. n + (i + 1) = n + i + 1 /\ i + 1 \in Nat
    BY <1>4
  <2> QED  BY <2>1, <2>2, <2>3, <2>4
<1>8. \A i \in 0 .. m : i \in G
  <2> HIDE DEF G
  <2> QED  BY <1>4, <1>6, <1>7, Ladder
<1>9. \A i \in 0 .. m : CallsTo(c, n + i) = CallsTo(b, i)
  BY <1>8
<1>10. CallsTo(c, Len(c)) = E - D
  <2>1. m \in 0 .. m
    BY <1>4
  <2> QED  BY <1>1, <1>3, <1>4, <1>9, <2>1
<1>11. ASSUME NEW i \in 1 .. Len(c), c[i].k = "call"
       PROVE  D + CallsTo(c, i - 1) + 1 \in 1 .. E /\ c[i] = Whole(L, D + CallsTo(c, i - 1) + 1, w)
  <2>1. i \in 1 .. (n + m) /\ i > n
    BY <1>4, <1>5, <1>11
  <2>2. PICK j : j = i - n
    OBVIOUS
  <2>3. j \in 1 .. m /\ c[i] = b[j] /\ j - 1 \in 0 .. m /\ n + (j - 1) = i - 1
    BY <1>4, <2>1, <2>2
  <2>4. CallsTo(c, i - 1) = CallsTo(b, j - 1)
    BY <1>9, <2>3
  <2>5. D + CallsTo(b, j - 1) + 1 \in 1 .. E /\ b[j] = Whole(L, D + CallsTo(b, j - 1) + 1, w)
    BY <1>3, <1>11, <2>3 DEF Delivers
  <2> QED  BY <2>3, <2>4, <2>5
<1> QED  BY <1>4, <1>10, <1>11 DEF Delivers

-----------------------------------------------------------------------------
\* How far the parser is: N calls have come, of the last x fragments, D are handed
\* out; o is 1 when it has been told why the answer ends.
At(N, D, x, o) == [N |-> N, D |-> D, x |-> x, o |-> o]

\* On Responses a call has the number of its block, and the parser counts the calls.
Counted(p, L, N) ==
    p.source = Responses =>
        /\ \A q \in 1 .. L.C : L.at[q] = q - 1
        /\ \A q, u \in 1 .. L.C : L.block[q] = L.block[u] => q = u
        /\ IsSeq(p.seen) /\ Len(p.seen) = N /\ \A q \in 1 .. N : p.seen[q] = L.block[q]
Knows(p, L, s) ==
    /\ IsParser(p) /\ Calling(L) /\ Booked(p, L, s.N, s.D, s.x) /\ Counted(p, L, s.N)
    /\ p.source = Chat /\ s.o = 0 => p.stop = None

\* The frame f of a wire w takes the parser from s to z.
OfCall(f, L, q, w) ==
    /\ f.kind = "call" /\ f.id = L.id[q] /\ f.name = L.name[q]
    /\ f.at = IF w = Responses THEN L.block[q] ELSE L.at[q]
Opens1(f, w, L, s, z) ==
    /\ f.k = "open" /\ s.o = 0 /\ s.N < L.C /\ OfCall(f, L, s.N + 1, w) /\ (s.N > 0 => s.x = L.full[s.N])
    /\ z = At(s.N + 1, s.D, 0, 0)
Adds(f, w, L, s, z) ==
    /\ f.k = "args" /\ s.o = 0 /\ s.N > 0 /\ OfCall(f, L, s.N, w) /\ s.x < L.full[s.N]
    /\ z = At(s.N, s.D, s.x + 1, 0)
Shuts1(f, w, L, s, z) ==
    /\ (f.k = "shut" /\ w # Chat) \/ (f.k = "all" /\ w = Responses)
    /\ s.o = 0 /\ s.N > 0 /\ OfCall(f, L, s.N, w) /\ s.x = L.full[s.N] /\ (w = Responses => s.x > 0)
    /\ s.D + 1 >= s.N /\ z = At(s.N, s.N, s.x, 0)
Passes(f, w, L, s, z) ==
    /\ f.k \in {"start", "open", "shut", "text", "think", "usage", "end"} /\ f.kind # "call"
    /\ f.k = "shut" /\ w = Anthropic => \A q \in 1 .. L.C : L.at[q] # f.at
    /\ w = Chat => IF s.o = 0 THEN f.k \in {"start", "text", "think"} ELSE f.k = "usage"
    /\ z = s
Words(f, w, L, s, z) ==
    /\ f.k = "word" /\ s.o = 0 /\ (s.N > 0 => s.x = L.full[s.N]) /\ (w = Anthropic => s.D = s.N)
    /\ z = At(s.N, s.N, s.x, 1)
Beat(f, w, L, s, z) ==
    Opens1(f, w, L, s, z) \/ Adds(f, w, L, s, z) \/ Shuts1(f, w, L, s, z) \/ Passes(f, w, L, s, z) \/ Words(f, w, L, s, z)

Steps(r, p, L, s, z) == Knows(r.p, L, z) /\ Delivers(r.out, L, s.D, z.D, p.source)

\* What a lemma about a wire starts from.
Meeting(p, f, L, s, z) ==
    Ready(p, f) /\ Knows(p, L, s) /\ Beat(f, p.source, L, s, z)

LEMMA KnowsMore ==
    ASSUME NEW p, NEW L, NEW s, Knows(p, L, s), NEW q, Reslotted(q, p), NEW N, NEW D, NEW x, N = s.N,
           Booked(q, L, N, D, x)
    PROVE  Knows(q, L, At(N, D, x, s.o))
<1>1. PICK z : z = At(N, D, x, s.o)
  OBVIOUS
<1>2. z.N = N /\ z.D = D /\ z.x = x /\ z.o = s.o
  BY ONLY <1>1 DEF At
<1>3. IsParser(q) /\ q.source = p.source /\ q.seen = p.seen /\ q.stop = p.stop
  BY DEF Reslotted
<1>4. Counted(q, L, N)
  <2>1. Counted(p, L, N)
    BY DEF Knows
  <2> QED  BY <1>3, <2>1 DEF Counted
<1>5. Knows(q, L, z)
  BY <1>2, <1>3, <1>4 DEF Knows
<1> QED  BY <1>1, <1>5

LEMMA QuietSteps ==
    ASSUME NEW q, NEW p, NEW L, NEW s, NEW z, Knows(q, L, z), z.D = s.D, NEW r, r = Quiet(q)
    PROVE  Steps(r, p, L, s, z)
<1>1. r.p = q /\ r.out = <<>>
  BY DEF Quiet
<1>2. IsSeq(<<>>) /\ Len(<<>>) = 0
  BY DEF IsSeq
<1>3. z.D \in Nat
  BY DEF Knows, Booked, Counts, Calling
<1>4. Delivers(<<>>, L, s.D, z.D, p.source)
  <2>1. \A y \in 1 .. Len(<<>>) : <<>>[y].k # "call"
    BY <1>2
  <2> QED  BY <1>2, <1>3, <2>1, DeliversNone
<1> QED  BY <1>1, <1>4 DEF Steps

LEMMA SaysSteps ==
    ASSUME NEW q, NEW p, NEW L, NEW s, Knows(q, L, s), NEW d, d.k # "call", NEW r, r = Says(q, d)
    PROVE  Steps(r, p, L, s, s)
<1>1. PICK ds : ds = <<d>>
  OBVIOUS
<1>2. r.p = q /\ r.out = ds
  BY <1>1 DEF Says
<1>3. ds \in Seq({d}) /\ Len(ds) = 1 /\ ds[1] = d
  BY ONLY <1>1
<1>4. IsSeq(ds) /\ \A y \in 1 .. Len(ds) : ds[y].k # "call"
  BY <1>3 DEF IsSeq
<1>5. s.D \in Nat
  BY DEF Knows, Booked, Counts, Calling
<1> QED  BY <1>2, <1>4, <1>5, DeliversNone DEF Steps

LEMMA StartSteps ==
    ASSUME NEW p, NEW L, NEW s, Knows(p, L, s), NEW r, r = start(p)
    PROVE  Steps(r, p, L, s, s)
<1>1. CASE p.started
  <2>1. r = Quiet(p)
    BY <1>1 DEF start
  <2> QED  BY <2>1, QuietSteps
<1>2. CASE ~p.started
  <2>1. PICK q : q = [p EXCEPT !.started = TRUE]
    OBVIOUS
  <2>2. r = Says(q, [k |-> "start"])
    BY <1>2, <2>1 DEF start
  <2>3. IsParser(q) /\ q.source = p.source /\ q.stop = p.stop /\ q.slots = p.slots /\ q.bytes = p.bytes /\ q.seen = p.seen
    <3>1. IsParser(p)
      BY DEF Knows
    <3>2. PICK C, D, B, M : p \in Parsers(C, D, B, M)
      BY <3>1 DEF IsParser
    <3>3. q \in Parsers(C, D, B, M)
      BY ONLY <2>1, <3>2, Zenon DEF Parsers
    <3>4. q.source = p.source /\ q.stop = p.stop /\ q.slots = p.slots /\ q.bytes = p.bytes /\ q.seen = p.seen
      BY ONLY <2>1, <3>2 DEF Parsers
    <3> QED  BY <3>3, <3>4 DEF IsParser
  <2>4. Knows(q, L, s)
    BY <2>3 DEF Knows, Booked, Counted
  <2>5. [k |-> "start"].k # "call"
    OBVIOUS
  <2> QED  BY <2>2, <2>4, <2>5, SaysSteps
<1> QED  BY <1>1, <1>2

LEMMA CompleteSteps ==
    ASSUME NEW q, NEW p, q.source = p.source, NEW L, NEW s, Knows(q, L, s), s.N > 0 => s.x = L.full[s.N],
           NEW E, NEW I, Reaches(L, s.N, s.D, E, I), NEW r, r = complete(q, I)
    PROVE  Steps(r, p, L, s, At(s.N, E, s.x, s.o))
<1>1. PICK N, D, x, z : N = s.N /\ D = s.D /\ x = s.x /\ z = At(s.N, E, s.x, s.o)
  OBVIOUS
<1>2. IsParser(q) /\ Calling(L) /\ Booked(q, L, N, D, x) /\ Reaches(L, N, D, E, I) /\ (N > 0 => x = L.full[N])
  BY <1>1 DEF Knows
<1>3. /\ Booked(r.p, L, N, E, x) /\ Reslotted(r.p, q)
      /\ IsSeq(r.out) /\ Len(r.out) = E - D
      /\ \A y \in 1 .. (E - D) : r.out[y] = HandsOut(L, D + y, N, x, q.source)
  BY ONLY <1>2, r = complete(q, I), CompleteBooked
<1>4. Knows(r.p, L, z)
  BY <1>1, <1>3, KnowsMore
<1>5. D \in Nat /\ N \in Nat /\ E \in Nat /\ D <= E /\ E <= N
  BY <1>2 DEF Booked, Counts, Calling, Reaches
<1>6. ASSUME NEW y \in 1 .. (E - D)  PROVE r.out[y] = Whole(L, D + y, p.source)
  <2>1. D + y = N => x = L.full[D + y]
    BY <1>2, <1>5
  <2> QED  BY <1>3, <2>1 DEF HandsOut, Whole
<1>7. Delivers(r.out, L, D, E, p.source)
  BY ONLY <1>3, <1>5, <1>6, DeliversAll
<1>8. z.D = E
  BY ONLY <1>1 DEF At
<1> QED  BY <1>1, <1>4, <1>7, <1>8 DEF Steps

LEMMA OpenSteps ==
    ASSUME NEW p, NEW q, NEW L, NEW s, Knows(q, L, s), NEW f, NEW w, NEW z, Opens1(f, w, L, s, z), Reslotted(q, q),
           NEW g, g = set_identity(q, L.at[s.N + 1], L.id[s.N + 1], L.name[s.N + 1]),
           Counted(g, L, s.N + 1), NEW r, r = Quiet(g)
    PROVE  Steps(r, p, L, s, z)
<1>1. PICK N, D, x : N = s.N /\ D = s.D /\ x = s.x
  OBVIOUS
<1>2. /\ IsParser(q) /\ Calling(L) /\ Booked(q, L, N, D, x) /\ N < L.C /\ (N > 0 => x = L.full[N])
      /\ z = At(N + 1, D, 0, 0) /\ s.o = 0 /\ g = set_identity(q, L.at[N + 1], L.id[N + 1], L.name[N + 1])
  BY <1>1 DEF Knows, Opens1
<1>3. Booked(g, L, N + 1, D, 0) /\ Reslotted(g, q)
  BY ONLY <1>2, OpenBooked
<1>4. z.N = N + 1 /\ z.D = D /\ z.x = 0 /\ z.o = 0
  BY ONLY <1>2 DEF At
<1>5. Knows(g, L, z)
  BY <1>1, <1>2, <1>3, <1>4 DEF Knows, Reslotted
<1> QED  BY <1>1, <1>4, <1>5, QuietSteps

LEMMA AddSteps ==
    ASSUME NEW p, NEW q, NEW L, NEW s, Knows(q, L, s), NEW f, NEW w, NEW z, Adds(f, w, L, s, z),
           NEW g, g = push_arguments(q, L.at[s.N]), NEW r, r = Quiet(g)
    PROVE  Steps(r, p, L, s, z)
<1>1. PICK N, D, x : N = s.N /\ D = s.D /\ x = s.x
  OBVIOUS
<1>2. /\ IsParser(q) /\ Calling(L) /\ Booked(q, L, N, D, x) /\ N > 0 /\ x < L.full[N]
      /\ z = At(N, D, x + 1, 0) /\ s.o = 0 /\ g = push_arguments(q, L.at[N])
  BY <1>1 DEF Knows, Adds
<1>3. Booked(g, L, N, D, x + 1) /\ Reslotted(g, q)
  BY ONLY <1>2, PushBooked
<1>4. z.D = D
  BY ONLY <1>2 DEF At
<1>5. Knows(g, L, z)
  BY <1>1, <1>2, <1>3, KnowsMore
<1> QED  BY <1>1, <1>4, <1>5, QuietSteps

\* The last call is handed out, unless it was.
LEMMA ShutSteps ==
    ASSUME NEW p, NEW q, q.source = p.source, NEW L, NEW s, Knows(q, L, s), NEW f, NEW w, NEW z, Shuts1(f, w, L, s, z),
           NEW r, r = complete(q, {L.at[s.N]})
    PROVE  Steps(r, p, L, s, z)
<1>1. /\ s.N > 0 /\ s.x = L.full[s.N] /\ s.D + 1 >= s.N /\ z = At(s.N, s.N, s.x, s.o)
  BY DEF Shuts1
<1>2. s.N \in Nat /\ s.D \in Nat /\ s.D <= s.N /\ Calling(L)
  BY DEF Knows, Booked, Counts, Calling
<1>3. Reaches(L, s.N, s.D, s.N, {L.at[s.N]})
  <2>1. ASSUME NEW u \in 1 .. s.N, u > s.D  PROVE u = s.N
    BY <1>1, <1>2, <2>1
  <2>2. s.N \in s.D .. s.N
    BY <1>2
  <2> QED  BY <2>1, <2>2 DEF Reaches
<1>4. Steps(r, p, L, s, At(s.N, s.N, s.x, s.o))
  BY <1>1, <1>3, CompleteSteps
<1> QED  BY <1>1, <1>4

LEMMA StopKnown ==
    ASSUME NEW p, NEW L, NEW s, Knows(p, L, s), NEW v, NEW q, q = [p EXCEPT !.stop = v]
    PROVE  Knows(q, L, At(s.N, s.D, s.x, 1)) /\ q.source = p.source
<1>1. PICK z : z = At(s.N, s.D, s.x, 1)
  OBVIOUS
<1>2. z.N = s.N /\ z.D = s.D /\ z.x = s.x /\ z.o = 1
  BY ONLY <1>1 DEF At
<1>3. IsParser(p)
  BY DEF Knows
<1>4. IsParser(q) /\ q.source = p.source /\ q.slots = p.slots
  BY <1>3, StopSet
<1>5. q.seen = p.seen /\ q.bytes = p.bytes
  <2>1. PICK C, D, B, M : p \in Parsers(C, D, B, M)
    BY <1>3 DEF IsParser
  <2> QED  BY ONLY <2>1, q = [p EXCEPT !.stop = v] DEF Parsers
<1>6. Knows(q, L, z)
  BY <1>2, <1>4, <1>5 DEF Knows, Booked, Counted
<1> QED  BY <1>1, <1>4, <1>6

\* A state is what its fields are.
LEMMA KnowsSame ==
    ASSUME NEW p, NEW L, NEW s, NEW z, Knows(p, L, s), z.N = s.N, z.D = s.D, z.x = s.x, z.o = s.o
    PROVE  Knows(p, L, z)
BY DEF Knows

\* Nothing is due at the indices I.
LEMMA NoneSteps ==
    ASSUME NEW p, NEW L, NEW s, Knows(p, L, s), NEW I, \A q \in 1 .. L.C : L.at[q] \notin I,
           NEW r, r = complete(p, I)
    PROVE  Steps(r, p, L, s, s)
<1>1. PICK N, D, x : N = s.N /\ D = s.D /\ x = s.x
  OBVIOUS
<1>2. IsParser(p) /\ Calling(L) /\ Booked(p, L, N, D, x)
  BY <1>1 DEF Knows
<1>3. N \in Nat /\ D \in Nat /\ L.C \in Nat /\ D <= N /\ N <= L.C
  BY <1>2 DEF Booked, Counts, Calling
<1>4. Reaches(L, N, D, D, I)
  <2>1. \A q \in 1 .. N : q \in 1 .. L.C /\ (q > D => ~(q <= D))
    BY <1>3
  <2>2. D \in D .. N
    BY <1>3
  <2> QED  BY <2>1, <2>2 DEF Reaches
<1>5. Booked(r.p, L, N, D, x) /\ Reslotted(r.p, p) /\ IsSeq(r.out) /\ Len(r.out) = D - D
  BY ONLY <1>2, <1>4, r = complete(p, I), CompleteBooked
<1>6. PICK z : z = At(N, D, x, s.o)
  OBVIOUS
<1>7. Knows(r.p, L, z) /\ z.N = N /\ z.D = D /\ z.x = x /\ z.o = s.o
  <2>1. Knows(r.p, L, z)
    BY ONLY <1>1, <1>5, <1>6, Knows(p, L, s), KnowsMore
  <2> QED  BY ONLY <2>1, <1>6 DEF At
<1>8. Knows(r.p, L, s)
  BY <1>1, <1>7, KnowsSame
<1>9. Len(r.out) = 0
  BY <1>3, <1>5
<1>10. Delivers(r.out, L, D, D, p.source)
  BY <1>3, <1>5, <1>9, DeliversNone
<1> QED  BY <1>1, <1>8, <1>10 DEF Steps

LEMMA StopSteps ==
    ASSUME NEW p, NEW L, NEW s, Knows(p, L, s), s.D = s.N, NEW v, NEW q, q = [p EXCEPT !.stop = v], NEW r, r = Quiet(q)
    PROVE  Steps(r, p, L, s, At(s.N, s.N, s.x, 1))
<1>1. PICK z : z = At(s.N, s.N, s.x, 1)
  OBVIOUS
<1>2. Knows(q, L, z)
  BY <1>1, StopKnown
<1>3. z.D = s.D
  BY <1>1 DEF At
<1> QED  BY <1>1, <1>2, <1>3, QuietSteps

\* A frame of an Anthropic upstream.
LEMMA AnthropicSteps ==
    ASSUME NEW p, p.source = Anthropic, NEW f, NEW L, NEW s, NEW z, Meeting(p, f, L, s, z),
           NEW r, r = feed_anthropic(p, f)
    PROVE  Steps(r, p, L, s, z)
<1>1. Ready(p, f) /\ Knows(p, L, s) /\ Beat(f, p.source, L, s, z)
  BY DEF Meeting
<1>2. p.source # Chat /\ p.source # Responses
  BY DEF Chat, Anthropic, Responses
<1>3. IsParser(p)
  BY <1>1 DEF Knows
<1>4. CASE Opens1(f, p.source, L, s, z)
  <2>1. f.k = "open" /\ f.kind = "call" /\ f.at = L.at[s.N + 1] /\ f.id = L.id[s.N + 1] /\ f.name = L.name[s.N + 1]
    BY <1>2, <1>4 DEF Opens1, OfCall
  <2>2. PICK g : g = set_identity(p, f.at, f.id, f.name)
    OBVIOUS
  <2>3. r = Quiet(g)
    BY <2>1, <2>2 DEF feed_anthropic
  <2>4. g = set_identity(p, L.at[s.N + 1], L.id[s.N + 1], L.name[s.N + 1])
    BY <2>1, <2>2
  <2>5. Reslotted(p, p)
    BY <1>3 DEF Reslotted
  <2>6. Counted(g, L, s.N + 1)
    <3>1. g.source = p.source
      <4>1. Moved(g, p, f)
        <5>1. Stirs(f) /\ f.at \in Nat
          BY <1>1, <2>1 DEF Ready, Stirs
        <5> QED  BY <1>3, <2>2, <5>1, IdentityMoves
      <4> QED  BY <4>1 DEF Moved, Grown
    <3> QED  BY <1>2, <3>1 DEF Counted
  <2> QED  BY ONLY <1>1, <1>4, <2>3, <2>4, <2>5, <2>6, OpenSteps
<1>5. CASE Adds(f, p.source, L, s, z)
  <2>1. f.k = "args" /\ f.at = L.at[s.N]
    BY <1>2, <1>5 DEF Adds, OfCall
  <2>2. PICK g : g = push_arguments(p, f.at)
    OBVIOUS
  <2>3. r = Quiet(g)
    BY <2>1, <2>2 DEF feed_anthropic
  <2> QED  BY <1>1, <1>5, <2>1, <2>2, <2>3, AddSteps
<1>6. CASE Shuts1(f, p.source, L, s, z)
  <2>1. f.k = "shut" /\ f.at = L.at[s.N]
    BY <1>2, <1>6 DEF Shuts1, OfCall
  <2>2. r = complete(p, {L.at[s.N]})
    BY <2>1 DEF feed_anthropic
  <2> QED  BY <1>1, <1>6, <2>2, ShutSteps
<1>7. CASE Passes(f, p.source, L, s, z)
  <2>1. z = s /\ f.kind # "call" /\ f.k \in {"start", "open", "shut", "text", "think", "usage", "end"}
    BY <1>7 DEF Passes
  <2>2. CASE f.k \in {"start", "open"}
    <3>1. r = start(p)
      BY <2>1, <2>2 DEF feed_anthropic
    <3> QED  BY <1>1, <2>1, <3>1, StartSteps
  <2>3. CASE f.k = "shut"
    <3>1. r = complete(p, {f.at})
      BY <2>3 DEF feed_anthropic
    <3>2. \A q \in 1 .. L.C : L.at[q] \notin {f.at}
      BY <1>7, <2>3 DEF Passes
    <3> QED  BY <1>1, <2>1, <3>1, <3>2, NoneSteps
  <2>4. CASE f.k \in {"text", "think"}
    <3>1. PICK d : d = [k |-> f.k, t |-> f.t]
      OBVIOUS
    <3>2. r = Says(p, d) /\ d.k # "call"
      BY <2>4, <3>1 DEF feed_anthropic
    <3> QED  BY <1>1, <2>1, <3>2, SaysSteps
  <2>5. CASE f.k \in {"usage", "end"}
    <3>1. r = Quiet(p)
      BY <2>5 DEF feed_anthropic
    <3> QED  BY <1>1, <2>1, <3>1, QuietSteps
  <2> QED  BY <2>1, <2>2, <2>3, <2>4, <2>5
<1>8. CASE Words(f, p.source, L, s, z)
  <2>1. f.k = "word" /\ s.D = s.N /\ z = At(s.N, s.N, s.x, 1)
    BY <1>8 DEF Words
  <2>2. PICK v, q : v = parse_stop_anthropic(f.word) /\ q = [p EXCEPT !.stop = v]
    OBVIOUS
  <2>3. r = Quiet(q)
    BY <2>1, <2>2 DEF feed_anthropic
  <2> QED  BY <1>1, <2>1, <2>2, <2>3, StopSteps
<1> QED  BY <1>1, <1>4, <1>5, <1>6, <1>7, <1>8 DEF Beat

LEMMA DeliversThen ==
    ASSUME NEW a, NEW b, NEW L, NEW D \in Nat, NEW E, NEW w, Delivers(a, L, D, D, w), Delivers(b, L, D, E, w),
           NEW c, c = Joined(a, b)
    PROVE  Delivers(c, L, D, E, w)
<1>1. IsSeq(a) /\ CallsTo(a, Len(a)) = 0 /\ Len(a) \in Nat
  BY Appending DEF Delivers
<1>2. ASSUME NEW y \in 1 .. Len(a)  PROVE a[y].k # "call"
  <2>1. PICK S : S = {i \in 1 .. Len(a) : a[i].k = "call"}
    OBVIOUS
  <2>2. IsFiniteSet(1 .. Len(a)) /\ S \subseteq 1 .. Len(a)
    BY <1>1, <2>1, FS_Interval
  <2>3. IsFiniteSet(S) /\ Cardinality(S) = 0
    BY <1>1, <2>1, <2>2, FS_Subset DEF CallsTo
  <2>4. S = {}
    BY <2>3, FS_EmptySet
  <2> QED  BY <2>1, <2>4
<1> QED  BY <1>1, <1>2, DeliversAfter

LEMMA ThenSteps ==
    ASSUME NEW a, NEW b, NEW p, NEW L, NEW s, NEW u, NEW z, Steps(a, p, L, s, u), u.D = s.D, s.D \in Nat,
           a.p.source = p.source, Steps(b, a.p, L, u, z), NEW r, r = Then(a, b)
    PROVE  Steps(r, p, L, s, z)
<1>1. PICK x, y, ds : x = a.out /\ y = b.out /\ ds = Joined(x, y)
  OBVIOUS
<1>2. r.p = b.p /\ r.out = ds
  BY <1>1, Zenon DEF Then, Joined
<1>3. Delivers(x, L, s.D, s.D, p.source) /\ Delivers(y, L, s.D, z.D, p.source)
  BY <1>1 DEF Steps
<1>4. Delivers(ds, L, s.D, z.D, p.source)
  BY ONLY <1>1, <1>3, s.D \in Nat, DeliversThen
<1> QED  BY <1>2, <1>4 DEF Steps

\* The indices of all the slots are those of every call.
LEMMA EveryReaches ==
    ASSUME NEW p, NEW L, NEW s, Knows(p, L, s)
    PROVE  Reaches(L, s.N, s.D, s.N, every(p)) /\ s.N \in Nat /\ s.D \in Nat
<1>1. PICK N, D, n : N = s.N /\ D = s.D /\ n = Len(p.slots)
  OBVIOUS
<1>2. Calling(L) /\ Counts(L, N, D, s.x) /\ InSlots(p.slots, L, N, D, s.x)
  BY <1>1 DEF Knows, Booked
<1>3. N \in Nat /\ D \in Nat /\ L.C \in Nat /\ D <= N /\ N <= L.C /\ n \in Nat
  BY <1>1, <1>2, Appending DEF Counts, Calling, InSlots
<1>4. ASSUME NEW q \in 1 .. N  PROVE q <= N /\ L.at[q] \in every(p)
  <2>1. q \in 1 .. L.C
    BY <1>3
  <2>2. L.at[q] \in Nat /\ L.at[q] + 1 \in 1 .. n
    BY <1>1, <1>2, <2>1 DEF Calling, InSlots
  <2>3. L.at[q] \in 0 .. (n - 1)
    BY <1>3, <2>2
  <2> QED  BY <1>1, <1>3, <2>3 DEF every
<1>5. N \in D .. N
  BY <1>3
<1> QED  BY <1>1, <1>3, <1>4, <1>5 DEF Reaches

\* The word on Chat: all that is left is handed out.
LEMMA ChatWordSteps ==
    ASSUME NEW b, b.source = Chat, NEW L, NEW s, Knows(b, L, s), NEW f, NEW w, NEW z, Words(f, w, L, s, z),
           NEW v, NEW q, q = [b EXCEPT !.stop = v], NEW r, r = Quiet(q),
           NEW y, y = Then(r, complete(q, every(q)))
    PROVE  Steps(y, b, L, s, z)
<1>1. PICK u : u = At(s.N, s.D, s.x, 1)
  OBVIOUS
<1>2. u.N = s.N /\ u.D = s.D /\ u.x = s.x /\ u.o = 1
  BY ONLY <1>1 DEF At
<1>3. Knows(q, L, u) /\ q.source = b.source
  BY <1>1, StopKnown
<1>4. z = At(s.N, s.N, s.x, 1) /\ (s.N > 0 => s.x = L.full[s.N])
  BY DEF Words
<1>5. Steps(r, b, L, s, u) /\ r.p = q
  <2>1. r.p = q
    BY DEF Quiet
  <2> QED  BY <1>2, <1>3, <2>1, QuietSteps
<1>6. PICK c : c = complete(q, every(q))
  OBVIOUS
<1>7. Reaches(L, u.N, u.D, u.N, every(q)) /\ s.D \in Nat
  BY <1>2, <1>3, EveryReaches
<1>8. Steps(c, q, L, u, At(u.N, u.N, u.x, u.o))
  BY <1>2, <1>3, <1>4, <1>6, <1>7, CompleteSteps
<1>9. Steps(c, r.p, L, u, z)
  BY <1>2, <1>4, <1>5, <1>8
<1> QED  BY ONLY <1>2, <1>3, <1>5, <1>6, <1>7, <1>9, y = Then(r, complete(q, every(q))), ThenSteps

LEMMA ChatSteps ==
    ASSUME NEW p, p.source = Chat, NEW f, NEW L, NEW s, NEW z, Meeting(p, f, L, s, z),
           NEW r, r = feed_chat(p, f)
    PROVE  Steps(r, p, L, s, z)
<1>1. Ready(p, f) /\ Knows(p, L, s) /\ Beat(f, Chat, L, s, z) /\ IsParser(p)
  BY DEF Meeting, Knows
<1>2. CASE f.k = "usage"
  <2>1. r = Quiet(p)
    BY <1>2 DEF feed_chat
  <2>2. z = s
    BY <1>1, <1>2 DEF Beat, Opens1, Adds, Shuts1, Words, Passes
  <2> QED  BY <1>1, <2>1, <2>2, QuietSteps
<1>3. CASE f.k # "usage"
  <2>1. PICK a, b : a = start(p) /\ b = a.p
    OBVIOUS
  <2>2. Steps(a, p, L, s, s) /\ Knows(b, L, s)
    BY <1>1, <2>1, StartSteps DEF Steps
  <2>3. b.source = Chat /\ IsParser(b)
    BY <1>1, <2>1, StartTold, Zenon DEF Same, Grown
  <2>4. s.o = 0
    BY <1>1, <1>3 DEF Beat, Opens1, Adds, Shuts1, Words, Passes
  <2>5. b.stop = None
    BY <2>2, <2>3, <2>4 DEF Knows
  <2>6. PICK q : q = IF f.k = "word" THEN [b EXCEPT !.stop = parse_stop_chat(f.word)] ELSE b
    BY Zenon
  <2>7. PICK e : e = CASE f.k \in {"text", "think"} -> Says(q, [k |-> f.k, t |-> f.t])
                       [] f.k = "open" -> Quiet(set_identity(q, f.at, f.id, f.name))
                       [] f.k = "args" -> Quiet(push_arguments(q, f.at))
                       [] OTHER -> Quiet(q)
    OBVIOUS
  <2>8. PICK y : y = IF q.stop # None THEN Then(e, complete(e.p, every(e.p))) ELSE e
    OBVIOUS
  <2>9. r = Then(a, y)
    BY ONLY <1>3, <2>1, <2>6, <2>7, <2>8, r = feed_chat(p, f) DEF feed_chat
  <2>10. Steps(y, b, L, s, z)
    <3>1. CASE Opens1(f, Chat, L, s, z)
      <4>1. f.k = "open" /\ f.kind = "call" /\ f.at = L.at[s.N + 1] /\ f.id = L.id[s.N + 1] /\ f.name = L.name[s.N + 1]
        BY <3>1 DEF Opens1, OfCall, Chat, Responses
      <4>2. PICK g : g = set_identity(b, f.at, f.id, f.name)
        OBVIOUS
      <4>3. y = Quiet(g)
        BY <2>5, <2>6, <2>7, <2>8, <4>1, <4>2
      <4>4. g = set_identity(b, L.at[s.N + 1], L.id[s.N + 1], L.name[s.N + 1])
        BY <4>1, <4>2
      <4>5. Reslotted(b, b)
        BY <2>3 DEF Reslotted
      <4>6. Counted(g, L, s.N + 1)
        <5>1. Moved(g, b, f)
          <6>1. Stirs(f) /\ f.at \in Nat
            BY <1>1, <4>1 DEF Ready, Stirs
          <6> QED  BY <2>3, <4>2, <6>1, IdentityMoves
        <5> QED  BY <2>3, <5>1 DEF Moved, Grown, Counted, Chat, Responses
      <4> QED  BY ONLY <2>2, <3>1, <4>3, <4>4, <4>5, <4>6, OpenSteps
    <3>2. CASE Adds(f, Chat, L, s, z)
      <4>1. f.k = "args" /\ f.at = L.at[s.N]
        BY <3>2 DEF Adds, OfCall, Chat, Responses
      <4>2. PICK g : g = push_arguments(b, f.at)
        OBVIOUS
      <4>3. y = Quiet(g)
        BY <2>5, <2>6, <2>7, <2>8, <4>1, <4>2
      <4> QED  BY <2>2, <3>2, <4>1, <4>2, <4>3, AddSteps
    <3>3. CASE Shuts1(f, Chat, L, s, z)
      BY <3>3 DEF Shuts1, Chat, Responses
    <3>4. CASE Passes(f, Chat, L, s, z)
      <4>1. z = s /\ f.k \in {"start", "text", "think"}
        BY <2>4, <3>4 DEF Passes
      <4>2. CASE f.k = "start"
        <5>1. y = Quiet(b)
          BY <2>5, <2>6, <2>7, <2>8, <4>2
        <5> QED  BY <2>2, <4>1, <5>1, QuietSteps
      <4>3. CASE f.k \in {"text", "think"}
        <5>1. PICK d : d = [k |-> f.k, t |-> f.t]
          OBVIOUS
        <5>2. y = Says(b, d) /\ d.k # "call"
          BY <2>5, <2>6, <2>7, <2>8, <4>3, <5>1
        <5> QED  BY <2>2, <4>1, <5>2, SaysSteps
      <4> QED  BY <4>1, <4>2, <4>3
    <3>5. CASE Words(f, Chat, L, s, z)
      <4>1. f.k = "word"
        BY <3>5 DEF Words
      <4>2. PICK v : v = parse_stop_chat(f.word)
        OBVIOUS
      <4>3. v # None
        BY <4>2 DEF parse_stop_chat, None
      <4>4. q = [b EXCEPT !.stop = v]
        BY <2>6, <4>1, <4>2
      <4>5. q.stop = v
        BY <2>3, <4>4, StopSet
      <4>6. e = Quiet(q)
        BY <2>7, <4>1
      <4>7. e.p = q
        BY <4>6 DEF Quiet
      <4>8. y = Then(e, complete(q, every(q)))
        BY ONLY <2>8, <4>3, <4>5, <4>7
      <4> QED  BY ONLY <2>2, <2>3, <3>5, <4>4, <4>6, <4>8, ChatWordSteps
    <3> QED  BY <1>1, <3>1, <3>2, <3>3, <3>4, <3>5 DEF Beat
  <2>11. s.D \in Nat
    BY <1>1, EveryReaches
  <2> QED  BY ONLY <2>1, <2>2, <2>3, <2>9, <2>10, <2>11, p.source = Chat, ThenSteps
<1> QED  BY <1>2, <1>3

\* On Responses the last call has its slot, and another gets the next.
LEMMA SlotSeen ==
    ASSUME NEW p, p.source = Responses, NEW L, NEW s, Knows(p, L, s), s.N > 0, NEW at, at = L.block[s.N]
    PROVE  responses_slot(p, at) = [p |-> p, at |-> L.at[s.N]]
<1>1. PICK N, v : N = s.N /\ v = p.seen
  OBVIOUS
<1>2. /\ IsSeq(v) /\ Len(v) = N /\ (\A q \in 1 .. N : v[q] = L.block[q]) /\ (\A q \in 1 .. L.C : L.at[q] = q - 1)
      /\ \A q, u \in 1 .. L.C : L.block[q] = L.block[u] => q = u
  BY <1>1 DEF Knows, Counted
<1>3. N \in 1 .. N /\ N \in 1 .. L.C /\ \A q \in 1 .. N : q \in 1 .. L.C
  BY <1>1 DEF Knows, Booked, Counts, Calling
<1>4. \A i \in 1 .. N : v[i] = at <=> i = N
  BY <1>1, <1>2, <1>3
<1>5. (CHOOSE i \in 1 .. Len(v) : v[i] = at) = N
  BY <1>2, <1>3, <1>4
<1>6. Contains(v, at)
  BY <1>2, <1>3, <1>4 DEF Contains
<1>7. responses_slot(p, at) = [p |-> p, at |-> (CHOOSE i \in 1 .. Len(v) : v[i] = at) - 1]
  BY ONLY <1>1, <1>6 DEF responses_slot
<1> QED  BY <1>1, <1>2, <1>3, <1>5, <1>7

\* The parser q has seen one call more than it has in its slots.
Sighted(q, L, N, D, x) ==
    /\ IsParser(q) /\ Booked(q, L, N, D, x) /\ q.source = Responses
    /\ IsSeq(q.seen) /\ Len(q.seen) = N + 1 /\ \A u \in 1 .. (N + 1) : q.seen[u] = L.block[u]
    /\ \A u \in 1 .. L.C : L.at[u] = u - 1
    /\ \A u, y \in 1 .. L.C : L.block[u] = L.block[y] => u = y

Seeing(p, at) == [p EXCEPT !.seen = Append(p.seen, at)]

LEMMA SlotNew ==
    ASSUME NEW p, p.source = Responses, NEW L, NEW s, Knows(p, L, s), s.N < L.C, NEW at, at = L.block[s.N + 1],
           NEW q, q = Seeing(p, at)
    PROVE  responses_slot(p, at) = [p |-> q, at |-> L.at[s.N + 1]] /\ Sighted(q, L, s.N, s.D, s.x)
<1>1. PICK N, v, w : N = s.N /\ v = p.seen /\ w = Append(v, at)
  OBVIOUS
<1>2. /\ IsSeq(v) /\ Len(v) = N /\ (\A u \in 1 .. N : v[u] = L.block[u]) /\ (\A u \in 1 .. L.C : L.at[u] = u - 1)
      /\ (\A u, y \in 1 .. L.C : L.block[u] = L.block[y] => u = y) /\ IsParser(p) /\ Booked(p, L, N, s.D, s.x)
  BY <1>1 DEF Knows, Counted
<1>3. N \in Nat /\ N + 1 \in 1 .. L.C /\ \A u \in 1 .. N : u \in 1 .. L.C /\ u # N + 1
  BY <1>1 DEF Knows, Booked, Counts, Calling
<1>4. ~Contains(v, at)
  BY <1>1, <1>2, <1>3 DEF Contains
<1>5. responses_slot(p, at) = [p |-> q, at |-> N]
  BY ONLY <1>1, <1>2, <1>4, q = Seeing(p, at) DEF responses_slot, Seeing
<1>6. L.at[N + 1] = N
  BY <1>2, <1>3
<1>7. q = [p EXCEPT !.seen = w]
  BY <1>1 DEF Seeing
<1>8. IsSeq(w) /\ Len(w) = N + 1 /\ w[N + 1] = at /\ \A u \in 1 .. N : w[u] = v[u]
  BY <1>1, <1>2, Appending
<1>9. q.slots = p.slots /\ q.bytes = p.bytes /\ q.seen = w /\ q.source = p.source /\ IsParser(q)
  BY ONLY <1>2, <1>7, <1>8, SeenAlone, SeenSet
<1>10. \A u \in 1 .. (N + 1) : w[u] = L.block[u]
  BY <1>1, <1>2, <1>3, <1>8
<1>11. Sighted(q, L, N, s.D, s.x)
  BY <1>2, <1>8, <1>9, <1>10 DEF Booked, Sighted
<1> QED  BY <1>1, <1>5, <1>6, <1>11

\* The last call, in full, is handed out, unless it was.
LEMMA FilledSteps ==
    ASSUME NEW p, NEW L, NEW s, Knows(p, L, s), NEW f, NEW z, Shuts1(f, Responses, L, s, z),
           NEW q, Booked(q, L, s.N, s.D, s.x), Reslotted(q, p),
           NEW r, r = complete(fill_arguments(q, L.at[s.N]), {L.at[s.N]})
    PROVE  Steps(r, p, L, s, z)
<1>1. PICK N, D, x, g : N = s.N /\ D = s.D /\ x = s.x /\ g = fill_arguments(q, L.at[N])
  OBVIOUS
<1>2. N > 0 /\ x > 0 /\ IsParser(q) /\ Calling(L) /\ Booked(q, L, N, D, x) /\ s.o = 0
  BY <1>1 DEF Knows, Reslotted, Shuts1
<1>3. Booked(g, L, N, D, x) /\ Reslotted(g, q)
  BY ONLY <1>1, <1>2, FillBooked
<1>4. Reslotted(g, p) /\ g.source = p.source
  BY <1>3 DEF Reslotted
<1>5. PICK u : u = At(N, D, x, s.o)
  OBVIOUS
<1>6. Knows(g, L, u) /\ u.N = s.N /\ u.D = s.D /\ u.x = s.x /\ u.o = s.o
  <2>1. Knows(g, L, u)
    BY ONLY <1>1, <1>3, <1>4, <1>5, Knows(p, L, s), KnowsMore
  <2> QED  BY ONLY <1>1, <1>5, <2>1 DEF At
<1>7. Knows(g, L, s)
  BY <1>6, KnowsSame
<1>8. r = complete(g, {L.at[s.N]})
  BY <1>1
<1> QED  BY ONLY <1>4, <1>7, <1>8, Shuts1(f, Responses, L, s, z), ShutSteps

LEMMA ResponsesSteps ==
    ASSUME NEW p, p.source = Responses, NEW f, NEW L, NEW s, NEW z, Meeting(p, f, L, s, z),
           NEW r, r = feed_responses(p, f)
    PROVE  Steps(r, p, L, s, z)
<1>1. Ready(p, f) /\ Knows(p, L, s) /\ Beat(f, Responses, L, s, z) /\ IsParser(p) /\ Calling(L)
  BY DEF Meeting, Knows
<1>2. PICK c, n, q : c = responses_slot(p, f.at) /\ n = c.at /\ q = c.p
  OBVIOUS
<1>3. CASE Opens1(f, Responses, L, s, z)
  <2>1. /\ f.k = "open" /\ f.kind = "call" /\ f.at = L.block[s.N + 1] /\ f.id = L.id[s.N + 1] /\ f.name = L.name[s.N + 1]
        /\ s.N < L.C /\ s.o = 0 /\ (s.N > 0 => s.x = L.full[s.N]) /\ z = At(s.N + 1, s.D, 0, 0)
    BY <1>3 DEF Opens1, OfCall
  <2>2. PICK N, D, x : N = s.N /\ D = s.D /\ x = s.x
    OBVIOUS
  <2>3. /\ c = [p |-> q, at |-> L.at[N + 1]] /\ IsParser(q) /\ Booked(q, L, N, D, x) /\ q.source = Responses
        /\ IsSeq(q.seen) /\ Len(q.seen) = N + 1 /\ (\A u \in 1 .. (N + 1) : q.seen[u] = L.block[u])
        /\ (\A u \in 1 .. L.C : L.at[u] = u - 1)
        /\ \A u, y \in 1 .. L.C : L.block[u] = L.block[y] => u = y
    <3>1. PICK o, h : h = f.at /\ o = Seeing(p, h)
      OBVIOUS
    <3>2. h = L.block[s.N + 1] /\ s.N < L.C
      BY ONLY <2>1, <3>1
    <3>3. responses_slot(p, h) = [p |-> o, at |-> L.at[s.N + 1]] /\ Sighted(o, L, s.N, s.D, s.x)
      BY ONLY <1>1, p.source = Responses, <3>1, <3>2, SlotNew
    <3>4. c = responses_slot(p, h)
      BY ONLY <1>2, <3>1
    <3>5. q = o
      BY ONLY <1>2, <3>3, <3>4
    <3> QED  BY <2>2, <3>3, <3>4, <3>5 DEF Sighted
  <2>4. n = L.at[N + 1]
    BY ONLY <1>2, <2>3
  <2>5. PICK g : g = set_identity(q, L.at[N + 1], L.id[N + 1], L.name[N + 1])
    OBVIOUS
  <2>6. r = Quiet(g)
    <3>1. r = Quiet(set_identity(q, n, f.id, f.name))
      BY ONLY <1>2, <2>1, r = feed_responses(p, f) DEF feed_responses
    <3> QED  BY <2>1, <2>2, <2>4, <2>5, <3>1
  <2>7. Booked(g, L, N + 1, D, 0) /\ Reslotted(g, q)
    BY ONLY <1>1, <2>1, <2>2, <2>3, <2>5, OpenBooked
  <2>8. Counted(g, L, N + 1)
    BY <2>3, <2>7 DEF Counted, Reslotted
  <2>9. z.N = N + 1 /\ z.D = D /\ z.x = 0
    BY ONLY <2>1, <2>2 DEF At
  <2>10. Knows(g, L, z)
    BY <1>1, <2>3, <2>7, <2>8, <2>9 DEF Knows, Reslotted, Chat, Responses
  <2> QED  BY <2>2, <2>6, <2>9, <2>10, QuietSteps
<1>4. ASSUME s.N > 0, f.at = L.block[s.N]  PROVE n = L.at[s.N] /\ q = p
  <2>1. c = [p |-> p, at |-> L.at[s.N]]
    BY ONLY <1>1, <1>2, <1>4, p.source = Responses, SlotSeen
  <2> QED  BY ONLY <1>2, <2>1
<1>5. CASE Adds(f, Responses, L, s, z)
  <2>1. f.k = "args" /\ s.N > 0 /\ f.at = L.block[s.N]
    BY <1>5 DEF Adds, OfCall
  <2>2. PICK g : g = push_arguments(p, L.at[s.N])
    OBVIOUS
  <2>3. r = Quiet(g)
    <3>1. r = Quiet(push_arguments(q, n))
      BY ONLY <1>2, <2>1, r = feed_responses(p, f) DEF feed_responses
    <3> QED  BY <1>4, <2>1, <2>2, <3>1
  <2> QED  BY <1>1, <1>5, <2>2, <2>3, AddSteps
<1>6. CASE Shuts1(f, Responses, L, s, z)
  <2>1. /\ s.N > 0 /\ f.at = L.block[s.N] /\ f.id = L.id[s.N] /\ f.name = L.name[s.N] /\ f.kind = "call"
        /\ f.k \in {"all", "shut"}
    BY <1>6 DEF Shuts1, OfCall
  <2>2. n = L.at[s.N] /\ q = p
    BY <1>4, <2>1
  <2>3. Booked(p, L, s.N, s.D, s.x) /\ Reslotted(p, p)
    BY <1>1 DEF Knows, Reslotted
  <2>4. CASE f.k = "all"
    <3>1. r = complete(fill_arguments(q, n), {n})
      BY ONLY <1>2, <2>4, r = feed_responses(p, f) DEF feed_responses
    <3>2. r = complete(fill_arguments(p, L.at[s.N]), {L.at[s.N]})
      BY <2>2, <3>1
    <3> QED  BY ONLY <1>1, <1>6, <2>3, <3>2, FilledSteps
  <2>5. CASE f.k = "shut"
    <3>1. PICK g : g = set_identity(p, L.at[s.N], L.id[s.N], L.name[s.N])
      OBVIOUS
    <3>2. r = complete(fill_arguments(set_identity(q, n, f.id, f.name), n), {n})
      BY ONLY <1>2, <2>1, <2>5, r = feed_responses(p, f) DEF feed_responses
    <3>3. r = complete(fill_arguments(g, L.at[s.N]), {L.at[s.N]})
      BY <2>1, <2>2, <3>1, <3>2
    <3>4. Booked(g, L, s.N, s.D, s.x) /\ Reslotted(g, p)
      BY ONLY <1>1, <2>1, <2>3, <3>1, AgainBooked
    <3> QED  BY ONLY <1>1, <1>6, <3>3, <3>4, FilledSteps
  <2> QED  BY <2>1, <2>4, <2>5
<1>7. CASE Passes(f, Responses, L, s, z)
  <2>1. z = s /\ f.kind # "call" /\ f.k \in {"start", "open", "shut", "text", "think", "usage", "end"}
    BY <1>7 DEF Passes
  <2>2. CASE f.k = "start"
    <3>1. r = start(p)
      BY <2>2 DEF feed_responses
    <3> QED  BY <1>1, <2>1, <3>1, StartSteps
  <2>3. CASE f.k \in {"text", "think"}
    <3>1. PICK d : d = [k |-> f.k, t |-> f.t]
      OBVIOUS
    <3>2. r = Says(p, d) /\ d.k # "call"
      BY <2>3, <3>1 DEF feed_responses
    <3> QED  BY <1>1, <2>1, <3>2, SaysSteps
  <2>4. CASE f.k \in {"open", "shut", "usage", "end"}
    <3>1. r = Quiet(p)
      BY ONLY <2>1, <2>4, r = feed_responses(p, f) DEF feed_responses
    <3> QED  BY <1>1, <2>1, <3>1, QuietSteps
  <2> QED  BY <2>1, <2>2, <2>3, <2>4
<1>8. CASE Words(f, Responses, L, s, z)
  <2>1. f.k = "word" /\ s.o = 0 /\ (s.N > 0 => s.x = L.full[s.N]) /\ z = At(s.N, s.N, s.x, 1)
    BY <1>8 DEF Words
  <2>2. PICK a, v, y, u : /\ a = complete(p, every(p)) /\ v = parse_stop_responses(f.word, p.slots # <<>>)
                          /\ y = [a.p EXCEPT !.stop = v] /\ u = At(s.N, s.N, s.x, s.o)
    BY Zenon
  <2>3. r = [a EXCEPT !.p = y]
    BY ONLY <2>1, <2>2, r = feed_responses(p, f) DEF feed_responses
  <2>4. a = [p |-> a.p, out |-> a.out]
    BY ONLY <2>2 DEF complete
  <2>5. r.p = y /\ r.out = a.out
    BY ONLY <2>3, <2>4
  <2>6. Reaches(L, s.N, s.D, s.N, every(p))
    BY <1>1, EveryReaches
  <2>7. Steps(a, p, L, s, u)
    BY <1>1, <2>1, <2>2, <2>6, CompleteSteps
  <2>8. u.N = s.N /\ u.D = s.N /\ u.x = s.x /\ z.D = s.N
    BY ONLY <2>1, <2>2 DEF At
  <2>9. Knows(a.p, L, u) /\ Delivers(a.out, L, s.D, u.D, p.source)
    BY <2>7 DEF Steps
  <2>10. Knows(y, L, At(u.N, u.D, u.x, 1))
    BY ONLY <2>2, <2>9, StopKnown
  <2>11. Knows(y, L, z)
    BY <2>1, <2>8, <2>10
  <2> QED  BY <2>5, <2>8, <2>9, <2>11 DEF Steps
<1> QED  BY <1>1, <1>3, <1>5, <1>6, <1>7, <1>8 DEF Beat

LEMMA FeedSteps ==
    ASSUME NEW p, NEW f, NEW L, NEW s, NEW z, Meeting(p, f, L, s, z)
    PROVE  Steps(feed(p, f), p, L, s, z)
<1>0. PICK r : r = feed(p, f)
  OBVIOUS
<1>1. p.source \in Wire
  BY ParserHas DEF Meeting, Ready
<1>2. CASE p.source = Anthropic
  <2>1. r = feed_anthropic(p, f)
    BY ONLY <1>0, <1>2 DEF feed, Chat, Anthropic, Responses
  <2> QED  BY <1>0, <1>2, <2>1, AnthropicSteps
<1>3. CASE p.source = Chat
  <2>1. r = feed_chat(p, f)
    BY ONLY <1>0, <1>3 DEF feed, Chat, Anthropic, Responses
  <2> QED  BY <1>0, <1>3, <2>1, ChatSteps
<1>4. CASE p.source = Responses
  <2>1. r = feed_responses(p, f)
    BY ONLY <1>0, <1>4 DEF feed, Chat, Anthropic, Responses
  <2> QED  BY <1>0, <1>4, <2>1, ResponsesSteps
<1> QED  BY <1>1, <1>2, <1>3, <1>4 DEF Wire

\* The calls of L as a client of the wire w is shown them, the first at 0.
Due(L, source, e) == [K \in 0 .. (L.C - 1) |-> {Rendered(e, Whole(L, K + 1, source))}]

LEMMA DueSame ==
    ASSUME NEW e, NEW f, SameIn(f, e), NEW L, NEW w
    PROVE  Due(L, w, f) = Due(L, w, e)
BY DEF SameIn, Due, Rendered

LEMMA DeliversFits ==
    ASSUME NEW ds, NEW L, NEW D \in Nat, NEW E \in Nat, NEW w, Delivers(ds, L, D, E, w), L.C \in Nat, E <= L.C,
           NEW m \in Nat, m <= Len(ds), NEW started, NEW c, Tells(ds, m, started, c), NEW e
    PROVE  FittedAll(ds, m, e, D, Due(L, w, e), TRUE)
<1>1. PICK OK : OK = Due(L, w, e)
  OBVIOUS
<1>2. Len(ds) \in Nat
  BY Appending DEF Delivers
<1>3. ASSUME NEW i \in 1 .. m  PROVE Fitted(ds[i], e, D + CallsTo(ds, i - 1), OK, TRUE)
  <2>1. PICK d, K : d = ds[i] /\ K = D + CallsTo(ds, i - 1)
    OBVIOUS
  <2>2. d.k \in {"start", "text", "think", "call"} /\ (d.k = "call" => IsCallDelta(d))
    BY <2>1 DEF Tells, Tell
  <2>3. i \in 1 .. Len(ds)
    BY <1>2
  <2>4. ASSUME d.k = "call"  PROVE Rendered(e, d) \in OK[K]
    <3>1. K + 1 \in 1 .. E /\ d = Whole(L, K + 1, w)
      BY <2>1, <2>3, <2>4 DEF Delivers
    <3>2. i - 1 \in Nat
      OBVIOUS
    <3>3. CallsTo(ds, i - 1) \in Nat
      BY <3>2, CallsToNext
    <3>4. K \in 0 .. (L.C - 1)
      BY <2>1, <3>1, <3>3
    <3>5. OK[K] = {Rendered(e, Whole(L, K + 1, w))}
      BY <1>1, <3>4 DEF Due
    <3> QED  BY <3>1, <3>5
  <2> QED  BY ONLY <2>1, <2>2, <2>4 DEF Fitted
<1> QED  BY <1>1, <1>3 DEF FittedAll

-----------------------------------------------------------------------------
\* The frames fs, to come from an upstream of the wire w, take the parser through
\* the states st to where every call is out.
Score(fs, w, L, st) ==
    /\ \A i \in 1 .. Len(fs) :
         IF fs[i].k = "done" THEN st[i + 1] = st[i] /\ st[i].N = L.C /\ st[i].D = L.C
         ELSE Beat(fs[i], w, L, st[i], st[i + 1])
    /\ st[Len(fs) + 1].N = L.C /\ st[Len(fs) + 1].D = L.C
Tracks(g, u, fs, L, e, st) ==
    /\ Knows(u.p, L, st[1]) /\ Follows(u.e, g, st[1].D, Due(L, u.p.source, e), TRUE) /\ SameIn(u.e, e)
    /\ Score(fs, u.p.source, L, st)

LEMMA TailScore ==
    ASSUME NEW fs, IsSeq(fs), fs # <<>>, NEW w, NEW L, NEW st, Score(fs, w, L, st),
           NEW so, so = [i \in 1 .. Len(fs) |-> st[i + 1]]
    PROVE  Score(Tail(fs), w, L, so) /\ so[1] = st[2]
<1>1. PICK ts, n : ts = Tail(fs) /\ n = Len(fs)
  OBVIOUS
<1>2. n \in Nat /\ 1 \in 1 .. n /\ Len(ts) = n - 1 /\ \A i \in 1 .. Len(ts) : i + 1 \in 1 .. n /\ ts[i] = fs[i + 1]
  BY ONLY <1>1, IsSeq(fs), fs # <<>>, HeadTail
<1>3. ASSUME NEW i \in 1 .. Len(ts)
      PROVE  IF ts[i].k = "done" THEN so[i + 1] = so[i] /\ so[i].N = L.C /\ so[i].D = L.C
             ELSE Beat(ts[i], w, L, so[i], so[i + 1])
  <2>1. PICK j : j = i + 1
    OBVIOUS
  <2>2. j \in 1 .. n /\ i \in 1 .. n /\ ts[i] = fs[j]
    BY <1>2, <2>1
  <2>3. so[i] = st[j] /\ so[j] = st[j + 1]
    BY <1>1, <2>1, <2>2
  <2>4. IF fs[j].k = "done" THEN st[j + 1] = st[j] /\ st[j].N = L.C /\ st[j].D = L.C
        ELSE Beat(fs[j], w, L, st[j], st[j + 1])
    BY <1>1, <2>2 DEF Score
  <2> QED  BY ONLY <2>1, <2>2, <2>3, <2>4
<1>4. so[Len(ts) + 1] = st[n + 1] /\ so[1] = st[2]
  BY <1>1, <1>2
<1>5. st[n + 1].N = L.C /\ st[n + 1].D = L.C
  BY <1>1 DEF Score
<1>6. Score(ts, w, L, so)
  BY <1>3, <1>4, <1>5 DEF Score
<1> QED  BY <1>1, <1>4, <1>6

LEMMA TracksOn ==
    ASSUME NEW u, NEW w, NEW g, Runs(u, w, g),
           NEW fs, Comes(fs, u.p), fs # <<>>, Head(fs).k # "done",
           NEW L, NEW e, NEW st, Tracks(g, u, fs, L, e, st), NEW x, x = consume(u, Head(fs))
    PROVE  \E so : Tracks(g \o x.out, x.t, Tail(fs), L, e, so)
<1>1. PICK p, f, r, s, z, ds : p = u.p /\ f = Head(fs) /\ r = feed(p, f) /\ s = st[1] /\ z = st[2] /\ ds = r.out
  OBVIOUS
<1>2. IsParser(p) /\ IsSeq(fs)
  BY <1>1 DEF Runs, Comes
<1>3. Ready(p, f)
  BY <1>1, <1>2, HeadReady
<1>4. Knows(p, L, s) /\ Follows(u.e, g, s.D, Due(L, p.source, e), TRUE) /\ SameIn(u.e, e) /\ Score(fs, p.source, L, st)
  BY <1>1 DEF Tracks
<1>5. Beat(f, p.source, L, s, z)
  <2>1. f = fs[1] /\ 1 \in 1 .. Len(fs)
    BY ONLY <1>1, <1>2, fs # <<>>, HeadTail
  <2>2. 1 + 1 = 2
    OBVIOUS
  <2> QED  BY <1>1, <1>4, <2>1, <2>2 DEF Score
<1>6. Steps(r, p, L, s, z)
  <2>1. Meeting(p, f, L, s, z)
    BY <1>3, <1>4, <1>5 DEF Meeting
  <2> QED  BY <1>1, <2>1, FeedSteps
<1>7. Knows(r.p, L, z) /\ Delivers(ds, L, s.D, z.D, p.source)
  BY <1>1, <1>6 DEF Steps
<1>8. s.D \in Nat /\ z.D \in Nat /\ z.D <= L.C /\ L.C \in Nat
  BY <1>4, <1>7 DEF Knows, Booked, Counts, Calling
<1>9. IsSeq(ds) /\ Tells(ds, Len(ds), p.started, r.p.slots # <<>>) /\ r.p.source = p.source
  <2>1. Fed(r, p, f)
    BY <1>1, <1>3, Feeds
  <2> QED  BY ONLY <1>1, <2>1 DEF Fed, Told, Grown
<1>10. Len(ds) \in Nat /\ Len(ds) <= Len(ds)
  BY <1>9, Appending
<1>11. PICK OK : OK = Due(L, p.source, e)
  OBVIOUS
<1>12. OK = Due(L, p.source, u.e)
  BY <1>4, <1>11, DueSame
<1>13. FittedAll(ds, Len(ds), u.e, s.D, OK, TRUE)
  BY ONLY <1>7, <1>8, <1>9, <1>10, <1>12, DeliversFits
<1>14. Yields(x, u, g, CallsTo(ds, Len(ds)), s.D, OK, TRUE)
  <2>1. Meets(u, w, g, f, s.D, OK, TRUE)
    BY <1>1, <1>3, <1>4, <1>8, <1>11, <1>13 DEF Meets
  <2>2. ds = feed(u.p, f).out /\ x = consume(u, f) /\ TRUE \in BOOLEAN
    BY <1>1
  <2> QED  BY ONLY <2>1, <2>2, ConsumesHands
<1>15. s.D + CallsTo(ds, Len(ds)) = z.D
  BY <1>7, <1>8 DEF Delivers
<1>16. x.t.p = r.p
  <2>1. u = [p |-> p, e |-> u.e, closed |-> FALSE]
    BY <1>1 DEF Runs
  <2>2. x = Written(u, r)
    BY <1>1 DEF consume
  <2> QED  BY ONLY <2>1, <2>2, Zenon DEF Written
<1>17. SameIn(x.t.e, e) /\ Follows(x.t.e, g \o x.out, z.D, OK, TRUE)
  BY ONLY <1>4, <1>14, <1>15 DEF Yields, SameIn
<1>18. PICK so : so = [i \in 1 .. Len(fs) |-> st[i + 1]]
  OBVIOUS
<1>19. Score(Tail(fs), p.source, L, so) /\ so[1] = z
  BY ONLY <1>1, <1>2, <1>4, <1>18, fs # <<>>, TailScore
<1>20. Tracks(g \o x.out, x.t, Tail(fs), L, e, so)
  BY ONLY <1>7, <1>9, <1>11, <1>16, <1>17, <1>19 DEF Tracks
<1> QED  BY <1>20

\* Where every call is out, nothing is owed but the word.
LEMMA TracksEnd ==
    ASSUME NEW u, NEW w, NEW g, Runs(u, w, g), NEW L, NEW e, NEW s,
           Knows(u.p, L, s), s.N = L.C, s.D = L.C, NEW OK, Follows(u.e, g, L.C, OK, TRUE), NEW x, x = close(u)
    PROVE  Parting(g \o x.out, w, L.C, OK, TRUE, GivenReason(u.p))
<1>1. PICK p, a, b, c, ds : p = u.p /\ a = start(p) /\ b = complete(a.p, every(a.p)) /\ c = Then(a, b) /\ ds = Owed(p).out
  OBVIOUS
<1>2. IsParser(p) /\ Knows(p, L, s) /\ L.C \in Nat /\ L.C <= L.C
  BY <1>1 DEF Runs, Knows, Calling
<1>3. Steps(a, p, L, s, s) /\ a.p.source = p.source /\ Knows(a.p, L, s)
  <2>1. Steps(a, p, L, s, s)
    BY <1>1, <1>2, StartSteps
  <2>2. a.p.source = p.source
    BY <1>1, <1>2, StartTold, Zenon DEF Same, Grown
  <2> QED  BY <2>1, <2>2 DEF Steps
<1>4. Delivers(b.out, L, L.C, L.C, p.source)
  <2>1. Reaches(L, L.C, L.C, L.C, every(a.p))
    BY <1>3, EveryReaches
  <2>2. Booked(a.p, L, L.C, L.C, s.x) /\ IsParser(a.p) /\ Calling(L)
    BY <1>3 DEF Knows
  <2>3. IsSeq(b.out) /\ Len(b.out) = L.C - L.C
    BY ONLY <1>1, <2>1, <2>2, CompleteBooked
  <2>4. Len(b.out) = 0
    BY <1>2, <2>3
  <2> QED  BY <1>2, <2>3, <2>4, DeliversNone
<1>5. Delivers(c.out, L, L.C, L.C, p.source)
  <2>1. Delivers(a.out, L, L.C, L.C, p.source)
    BY <1>3 DEF Steps
  <2>2. c.out = Joined(a.out, b.out)
    BY <1>1, Zenon DEF Then, Joined
  <2> QED  BY ONLY <1>2, <1>4, <2>1, <2>2, DeliversThen
<1>6. PICK m : Owes(ds, m, p)
  BY <1>1, <1>2, OwedTold
<1>7. IsSeq(ds) /\ m \in Nat /\ Len(ds) = m + 1 /\ Tells(ds, m, p.started, p.slots # <<>>) /\ ds[m + 1].k = "stop"
  BY <1>6 DEF Owes
<1>8. PICK d, y : d = [k |-> "stop", reason |-> GivenReason(p)] /\ y = c.out
  OBVIOUS
<1>9. ds = Append(y, d) /\ IsSeq(y) /\ Len(y) \in Nat /\ Len(ds) = Len(y) + 1 /\ \A i \in 1 .. Len(y) : ds[i] = y[i]
  <2>1. IsSeq(y)
    BY <1>5, <1>8 DEF Delivers
  <2>2. ds = y \o <<d>>
    BY ONLY <1>1, <1>8, Zenon DEF Owed, Then, Says, GivenReason
  <2> QED  BY ONLY <2>1, <2>2, Appending
<1>10. m = Len(y)
  BY <1>7, <1>9
<1>11. CallsTo(y, m) = 0 /\ \A i \in 0 .. m : CallsTo(ds, i) = CallsTo(y, i)
  <2>1. CallsTo(y, m) = 0
    BY <1>2, <1>5, <1>8, <1>10 DEF Delivers
  <2>2. ASSUME NEW i \in 0 .. m  PROVE CallsTo(ds, i) = CallsTo(y, i)
    <3>1. \A j \in 1 .. i : ds[j] = y[j]
      BY <1>7, <1>9, <1>10
    <3>2. {j \in 1 .. i : ds[j].k = "call"} = {j \in 1 .. i : y[j].k = "call"}
      BY <3>1
    <3> QED  BY <3>2 DEF CallsTo
  <2> QED  BY <2>1, <2>2
<1>12. CallsTo(ds, m) = 0
  BY <1>7, <1>11
<1>13. FittedAll(ds, m, u.e, L.C, OK, TRUE)
  <2>1. \A i \in 1 .. m : ds[i].k # "call"
    <3>1. PICK S : S = {i \in 1 .. m : ds[i].k = "call"}
      OBVIOUS
    <3>2. IsFiniteSet(1 .. m) /\ S \subseteq 1 .. m
      BY <1>7, <3>1, FS_Interval
    <3>3. IsFiniteSet(S) /\ Cardinality(S) = 0
      BY <1>12, <3>1, <3>2, FS_Subset DEF CallsTo
    <3>4. S = {}
      BY <3>3, FS_EmptySet
    <3> QED  BY <3>1, <3>4
  <2> QED  BY <1>7, <2>1 DEF FittedAll, Fitted, Tells, Tell
<1>14. Parting(g \o x.out, w, L.C + CallsTo(Owed(u.p).out, m), OK, TRUE, GivenReason(u.p))
  <2>1. Owes(Owed(u.p).out, m, u.p) /\ FittedAll(Owed(u.p).out, m, u.e, L.C, OK, TRUE) /\ TRUE \in BOOLEAN
    BY <1>1, <1>6, <1>13
  <2> QED  BY ONLY <1>2, <2>1, Runs(u, w, g), Follows(u.e, g, L.C, OK, TRUE), x = close(u), ClosesHands
<1>15. L.C + CallsTo(Owed(u.p).out, m) = L.C
  BY <1>1, <1>2, <1>12
<1> QED  BY <1>14, <1>15

-----------------------------------------------------------------------------
(* The calls of an answer.                                                 *)

LEMMA RankNext ==
    ASSUME NEW ps, NEW i \in Nat
    PROVE  Rank(ps, 1) = 0 /\ Rank(ps, i + 1) \in Nat
           /\ (i > 0 => Rank(ps, i + 1) = IF ps[i] = "call" THEN Rank(ps, i) + 1 ELSE Rank(ps, i))
<1> DEFINE S(k) == {j \in 1 .. k : ps[j] = "call"}
<1>1. S(0) = {}
  OBVIOUS
<1>2. \A k \in Nat : IsFiniteSet(S(k))
  <2> SUFFICES ASSUME NEW k \in Nat  PROVE IsFiniteSet(S(k))
    OBVIOUS
  <2>1. IsFiniteSet(1 .. k) /\ S(k) \subseteq 1 .. k
    BY FS_Interval
  <2> QED  BY <2>1, FS_Subset
<1>3. Rank(ps, 1) = Cardinality(S(0)) /\ Rank(ps, i + 1) = Cardinality(S(i))
  <2>1. 1 - 1 = 0 /\ i + 1 - 1 = i
    OBVIOUS
  <2> QED  BY <2>1 DEF Rank
<1>4. ASSUME i > 0  PROVE /\ S(i) = IF ps[i] = "call" THEN S(i - 1) \cup {i} ELSE S(i - 1)
                          /\ i \notin S(i - 1) /\ Rank(ps, i) = Cardinality(S(i - 1)) /\ i - 1 \in Nat
  BY <1>4 DEF Rank
<1> HIDE DEF S
<1>5. Cardinality(S(i)) \in Nat
  BY <1>2, FS_CardinalityType
<1>6. ASSUME i > 0  PROVE Cardinality(S(i)) = IF ps[i] = "call" THEN Cardinality(S(i - 1)) + 1 ELSE Cardinality(S(i - 1))
  BY <1>2, <1>4, <1>6, FS_AddElement
<1> QED  BY <1>1, <1>3, <1>4, <1>5, <1>6, FS_EmptySet

\* The i-th piece is the q-th call.
IsNth(ps, i, q) == i \in 1 .. Len(ps) /\ ps[i] = "call" /\ Rank(ps, i) = q - 1

LEMMA RankGrows ==
    ASSUME NEW ps, NEW n \in Nat, NEW i \in 1 .. (n + 1), NEW j \in 1 .. (n + 1), i <= j
    PROVE  Rank(ps, i) \in Nat /\ Rank(ps, j) \in Nat /\ Rank(ps, i) <= Rank(ps, j)
<1> DEFINE G == {d \in 0 .. (j - i) : Rank(ps, i) <= Rank(ps, i + d)}
<1>0. \A k \in 1 .. (n + 1) : Rank(ps, k) \in Nat
  <2> SUFFICES ASSUME NEW k \in 1 .. (n + 1)  PROVE Rank(ps, k) \in Nat
    OBVIOUS
  <2>1. k - 1 \in Nat /\ k - 1 + 1 = k
    OBVIOUS
  <2> QED  BY <2>1, RankNext
<1>1. 0 \in G
  BY <1>0
<1>2. ASSUME NEW d \in 0 .. (j - i), d < j - i, d \in G  PROVE d + 1 \in G
  <2>1. i + d \in 1 .. n /\ i + d \in 1 .. (n + 1) /\ i + (d + 1) = i + d + 1
    BY <1>2
  <2>2. Rank(ps, i + d + 1) = IF ps[i + d] = "call" THEN Rank(ps, i + d) + 1 ELSE Rank(ps, i + d)
    BY <2>1, RankNext
  <2> QED  BY <1>0, <1>2, <2>1, <2>2
<1>3. j - i \in Nat
  OBVIOUS
<1> HIDE DEF G
<1>4. j - i \in G
  BY <1>1, <1>2, <1>3, Ladder
<1> QED  BY <1>0, <1>4 DEF G

LEMMA NthIsOne ==
    ASSUME NEW ps, Len(ps) \in Nat, NEW i, NEW q \in Nat, IsNth(ps, i, q)
    PROVE  /\ q \in 1 .. Rank(ps, Len(ps) + 1) /\ Rank(ps, i + 1) = q
           /\ \A j, u \in Nat : IsNth(ps, j, u) /\ i < j => q < u
<1>1. i \in 1 .. Len(ps) /\ ps[i] = "call" /\ Rank(ps, i) = q - 1 /\ i \in Nat /\ i > 0
  BY DEF IsNth
<1>2. Rank(ps, i + 1) = q
  <2>1. Rank(ps, i + 1) = Rank(ps, i) + 1
    BY <1>1, RankNext
  <2> QED  BY <1>1, <2>1
<1>3. ASSUME NEW j \in 1 .. (Len(ps) + 1), i < j  PROVE q <= Rank(ps, j) /\ Rank(ps, j) \in Nat
  <2>1. i + 1 \in 1 .. (Len(ps) + 1) /\ i + 1 <= j
    BY <1>1, <1>3
  <2> QED  BY <1>2, <2>1, RankGrows
<1>4. Rank(ps, i) \in Nat
  <2>1. i \in 1 .. (Len(ps) + 1) /\ i <= i
    BY <1>1
  <2> QED  BY <2>1, RankGrows
<1>5. q \in 1 .. Rank(ps, Len(ps) + 1)
  <2>1. Len(ps) + 1 \in 1 .. (Len(ps) + 1) /\ i < Len(ps) + 1
    BY <1>1
  <2> QED  BY <1>1, <1>3, <1>4, <2>1
<1>6. ASSUME NEW j \in Nat, NEW u \in Nat, IsNth(ps, j, u), i < j  PROVE q < u
  <2>1. j \in 1 .. (Len(ps) + 1) /\ Rank(ps, j) = u - 1
    BY <1>6 DEF IsNth
  <2>2. q <= u - 1
    BY <1>3, <1>6, <2>1
  <2> QED  BY <2>2
<1> QED  BY <1>2, <1>5, <1>6

LEMMA NthExists ==
    ASSUME NEW ps, Len(ps) \in Nat
    PROVE  \A q \in 1 .. Rank(ps, Len(ps) + 1) : \E i \in 1 .. Len(ps) : IsNth(ps, i, q)
<1> DEFINE n == Len(ps)
           G == {k \in 0 .. n : \A q \in 1 .. Rank(ps, k + 1) : \E i \in 1 .. n : IsNth(ps, i, q)}
<1>1. 0 \in G
  <2>1. Rank(ps, 0 + 1) = 0
    BY RankNext
  <2> QED  BY <2>1
<1>2. ASSUME NEW k \in 0 .. n, k < n, k \in G  PROVE k + 1 \in G
  <2>1. PICK j : j = k + 1
    OBVIOUS
  <2>2. j \in 1 .. n /\ j \in 0 .. n /\ j \in Nat /\ j > 0
    BY <1>2, <2>1
  <2>3. Rank(ps, j) \in Nat /\ Rank(ps, j + 1) = IF ps[j] = "call" THEN Rank(ps, j) + 1 ELSE Rank(ps, j)
    <3>1. k \in Nat
      OBVIOUS
    <3> QED  BY <2>1, <2>2, <3>1, RankNext
  <2>4. ASSUME NEW q \in 1 .. Rank(ps, j + 1)  PROVE \E i \in 1 .. n : IsNth(ps, i, q)
    <3>1. CASE q <= Rank(ps, j)
      <4>1. q \in 1 .. Rank(ps, k + 1)
        BY <2>1, <2>3, <3>1
      <4> QED  BY <1>2, <4>1
    <3>2. CASE ~(q <= Rank(ps, j))
      <4>1. ps[j] = "call" /\ Rank(ps, j) = q - 1
        BY <2>3, <3>2
      <4> QED  BY <2>2, <4>1 DEF IsNth
    <3> QED  BY <3>1, <3>2
  <2> QED  BY <2>1, <2>2, <2>4
<1> HIDE DEF G
<1>3. n \in G
  <2>1. n \in Nat /\ n \in 0 .. n
    OBVIOUS
  <2> HIDE DEF n
  <2>2. \A i \in 0 .. n : i \in G
    BY <1>1, <1>2, <2>1, Ladder
  <2> QED  BY <2>1, <2>2
<1> QED  BY <1>3 DEF G

\* Which piece the q-th call is.
CallAt(ps, q) == CHOOSE i \in 1 .. Len(ps) : IsNth(ps, i, q)

\* The calls of the answer r, as a backend of the wire target gives them to a
\* client of w that has the names m, in its turn n.
CallsOf(w, target, m, n, r) ==
    [C     |-> Rank(r.pieces, Len(r.pieces) + 1),
     at    |-> [q \in 1 .. Rank(r.pieces, Len(r.pieces) + 1) |->
                 IF target = Anthropic THEN CallAt(r.pieces, q) - 1 ELSE q - 1],
     block |-> [q \in 1 .. Rank(r.pieces, Len(r.pieces) + 1) |-> CallAt(r.pieces, q) - 1],
     id    |-> [q \in 1 .. Rank(r.pieces, Len(r.pieces) + 1) |-> Minted(target, n, r.pieces, CallAt(r.pieces, q))],
     name  |-> [q \in 1 .. Rank(r.pieces, Len(r.pieces) + 1) |-> ToolOf(w, m, r.pieces, CallAt(r.pieces, q))],
     full  |-> [q \in 1 .. Rank(r.pieces, Len(r.pieces) + 1) |->
                 IF r.max /\ CallAt(r.pieces, q) = Len(r.pieces) THEN Parts - 1 ELSE Parts]]

LEMMA NthIs ==
    ASSUME NEW ps, Len(ps) \in Nat, NEW q \in 1 .. Rank(ps, Len(ps) + 1)
    PROVE  IsNth(ps, CallAt(ps, q), q)
<1>1. \E i \in 1 .. Len(ps) : IsNth(ps, i, q)
  BY NthExists
<1> QED  BY <1>1, Zenon DEF CallAt

LEMMA IsTheNth ==
    ASSUME NEW ps, Len(ps) \in Nat, NEW i \in 1 .. Len(ps), ps[i] = "call", NEW q, q = Rank(ps, i) + 1
    PROVE  q \in 1 .. Rank(ps, Len(ps) + 1) /\ CallAt(ps, q) = i
<1>1. Rank(ps, i) \in Nat
  <2>1. i \in 1 .. (Len(ps) + 1) /\ i <= i
    OBVIOUS
  <2> QED  BY <2>1, RankGrows
<1>2. q \in Nat /\ IsNth(ps, i, q)
  BY <1>1 DEF IsNth
<1>3. q \in 1 .. Rank(ps, Len(ps) + 1)
  BY <1>2, NthIsOne
<1>4. PICK j : j = CallAt(ps, q)
  OBVIOUS
<1>5. IsNth(ps, j, q)
  BY <1>3, <1>4, NthIs
<1>6. i \in Nat /\ j \in Nat
  BY <1>5 DEF IsNth
<1>7. ~(i < j) /\ ~(j < i)
  BY <1>2, <1>5, <1>6, NthIsOne
<1>8. i = j
  BY <1>6, <1>7
<1> QED  BY <1>3, <1>4, <1>8

\* The answer r and its calls.
Answering(L, w, target, m, n, r) ==
    /\ L = CallsOf(w, target, m, n, r) /\ target \in Wire
    /\ r.pieces \in Seq({"think", "text", "call"}) /\ r.max \in BOOLEAN
Slight(target, r) ==
    /\ \A i \in 1 .. Len(r.pieces) :
         r.pieces[i] = "call" => (IF target = Anthropic THEN i - 1 ELSE Rank(r.pieces, i)) < MaxCalls
    /\ Rank(r.pieces, Len(r.pieces) + 1) * Parts <= MaxBytes

LEMMA CallingIs ==
    ASSUME NEW L, NEW w, NEW target, NEW m, NEW n, NEW r, Answering(L, w, target, m, n, r), Slight(target, r),
           \A i \in 1 .. Len(r.pieces) : ToolOf(w, m, r.pieces, i) # NoName
    PROVE  Calling(L)
<1>1. PICK ps, C : ps = r.pieces /\ C = Rank(ps, Len(ps) + 1)
  BY Zenon
<1>2. Len(ps) \in Nat /\ C \in Nat
  <2>1. Len(ps) \in Nat
    BY <1>1, LenProperties DEF Answering
  <2> QED  BY <1>1, <2>1, RankNext
<1>3. L.C = C
  BY <1>1 DEF Answering, CallsOf
<1>4. ASSUME NEW q \in 1 .. C
      PROVE  /\ L.at[q] \in Nat /\ L.at[q] < MaxCalls
             /\ L.name[q] # NoName /\ L.full[q] \in 0 .. Parts
  <2>1. PICK i : i = CallAt(ps, q)
    OBVIOUS
  <2>2. IsNth(ps, i, q)
    BY <1>1, <1>2, <2>1, NthIs
  <2>3. i \in 1 .. Len(ps) /\ ps[i] = "call" /\ Rank(ps, i) = q - 1
    BY <2>2 DEF IsNth
  <2>4. L.at[q] = IF target = Anthropic THEN i - 1 ELSE q - 1
    BY <1>1, <2>1 DEF Answering, CallsOf
  <2>5. L.name[q] = ToolOf(w, m, ps, i)
    BY <1>1, <2>1 DEF Answering, CallsOf
  <2>6. L.full[q] = IF r.max /\ i = Len(ps) THEN Parts - 1 ELSE Parts
    BY <1>1, <2>1 DEF Answering, CallsOf
  <2>7. L.at[q] \in Nat /\ L.at[q] < MaxCalls
    BY <1>1, <2>3, <2>4 DEF Slight
  <2>8. L.full[q] \in 0 .. Parts
    BY <2>6, TranslateAssumption
  <2> QED  BY <1>1, <2>3, <2>5, <2>7, <2>8
<1>5. ASSUME NEW q \in 1 .. C, NEW u \in 1 .. C, q < u  PROVE L.at[q] < L.at[u]
  <2>1. PICK i, j : i = CallAt(ps, q) /\ j = CallAt(ps, u)
    OBVIOUS
  <2>2. IsNth(ps, i, q) /\ IsNth(ps, j, u)
    BY <1>1, <1>2, <2>1, NthIs
  <2>3. i \in Nat /\ j \in Nat
    BY <2>2 DEF IsNth
  <2>4. ~(j < i) /\ i # j
    <3>1. j < i => u < q
      BY <1>2, <2>2, <2>3, NthIsOne
    <3>2. i # j
      BY <1>5, <2>2 DEF IsNth
    <3> QED  BY <1>5, <3>1, <3>2
  <2>5. i < j
    BY <2>3, <2>4
  <2>6. /\ L.at[q] = IF target = Anthropic THEN i - 1 ELSE q - 1
        /\ L.at[u] = IF target = Anthropic THEN j - 1 ELSE u - 1
    BY <1>1, <2>1 DEF Answering, CallsOf
  <2> QED  BY <1>5, <2>3, <2>5, <2>6
<1>6. Parts * C <= MaxBytes
  BY <1>1, <1>2, TranslateAssumption DEF Slight
<1> QED  BY <1>2, <1>3, <1>4, <1>5, <1>6 DEF Calling

\* The q-th call is the piece i.
Called(L, w, target, m, n, r, i, q) ==
    /\ q \in 1 .. L.C /\ L.C \in Nat /\ q = Rank(r.pieces, i) + 1 /\ Rank(r.pieces, i + 1) = q
    /\ L.block[q] = i - 1 /\ L.at[q] = (IF target = Anthropic THEN i - 1 ELSE q - 1)
    /\ L.id[q] = Minted(target, n, r.pieces, i) /\ L.name[q] = ToolOf(w, m, r.pieces, i)
    /\ L.full[q] = IF r.max /\ i = Len(r.pieces) THEN Parts - 1 ELSE Parts

LEMMA CalledIs ==
    ASSUME NEW L, NEW w, NEW target, NEW m, NEW n, NEW r, Answering(L, w, target, m, n, r),
           NEW i \in 1 .. Len(r.pieces), r.pieces[i] = "call"
    PROVE  \E q : Called(L, w, target, m, n, r, i, q)
<1>1. PICK ps, C, q : ps = r.pieces /\ C = Rank(ps, Len(ps) + 1) /\ q = Rank(ps, i) + 1
  BY Zenon
<1>2. Len(ps) \in Nat /\ C \in Nat
  <2>1. Len(ps) \in Nat
    BY <1>1, LenProperties DEF Answering
  <2> QED  BY <1>1, <2>1, RankNext
<1>3. q \in 1 .. C /\ CallAt(ps, q) = i
  BY <1>1, <1>2, IsTheNth
<1>4. L.C = C
  BY <1>1 DEF Answering, CallsOf
<1>5. L.block[q] = i - 1 /\ L.at[q] = (IF target = Anthropic THEN i - 1 ELSE q - 1)
  BY <1>1, <1>3 DEF Answering, CallsOf
<1>6. L.id[q] = Minted(target, n, ps, i) /\ L.name[q] = ToolOf(w, m, ps, i)
  BY <1>1, <1>3 DEF Answering, CallsOf
<1>7. L.full[q] = IF r.max /\ i = Len(ps) THEN Parts - 1 ELSE Parts
  BY <1>1, <1>3 DEF Answering, CallsOf
<1>8. Rank(ps, i + 1) = q
  <2>1. i \in Nat /\ i > 0
    BY <1>1, <1>2
  <2> QED  BY <1>1, <2>1, RankNext
<1>9. Called(L, w, target, m, n, r, i, q)
  BY ONLY <1>1, <1>2, <1>3, <1>4, <1>5, <1>6, <1>7, <1>8 DEF Called
<1> QED  BY <1>9

\* A frame, and some: they take the parser from s to z.
Move(f, w, L, s, z) ==
    IF f.k = "done" THEN z = s /\ s.N = L.C /\ s.D = L.C ELSE Beat(f, w, L, s, z)
Going1(fs, w, L, s, z) ==
    /\ IsSeq(fs)
    /\ \E st : /\ st[1] = s /\ st[Len(fs) + 1] = z
               /\ \A i \in 1 .. Len(fs) : Move(fs[i], w, L, st[i], st[i + 1])

LEMMA GoingNone ==
    ASSUME NEW w, NEW L, NEW s
    PROVE  Going1(<<>>, w, L, s, s)
<1>1. PICK fs, st : fs = <<>> /\ st = [i \in 1 .. 1 |-> s]
  OBVIOUS
<1>2. IsSeq(fs) /\ Len(fs) = 0
  <2>1. fs \in Seq({}) /\ Len(fs) = 0
    BY <1>1
  <2> QED  BY <2>1 DEF IsSeq
<1>3. st[1] = s /\ st[Len(fs) + 1] = s
  BY <1>1, <1>2
<1>4. \A i \in 1 .. Len(fs) : Move(fs[i], w, L, st[i], st[i + 1])
  BY <1>2
<1>5. Going1(fs, w, L, s, s)
  BY ONLY <1>2, <1>3, <1>4 DEF Going1
<1> QED  BY ONLY <1>1, <1>5

LEMMA GoingOne ==
    ASSUME NEW f, NEW w, NEW L, NEW s, NEW z, Move(f, w, L, s, z)
    PROVE  Going1(<<f>>, w, L, s, z)
<1>1. PICK fs, st : fs = <<f>> /\ st = [i \in 1 .. 2 |-> IF i = 1 THEN s ELSE z]
  OBVIOUS
<1>2. IsSeq(fs) /\ Len(fs) = 1 /\ fs[1] = f
  <2>1. fs \in Seq({f}) /\ Len(fs) = 1 /\ fs[1] = f
    BY ONLY <1>1
  <2> QED  BY <2>1 DEF IsSeq
<1>3. st[1] = s /\ st[1 + 1] = z
  BY <1>1
<1>4. \A i \in 1 .. Len(fs) : Move(fs[i], w, L, st[i], st[i + 1])
  <2> SUFFICES ASSUME NEW i \in 1 .. Len(fs)  PROVE Move(fs[i], w, L, st[i], st[i + 1])
    OBVIOUS
  <2>1. i = 1
    BY <1>2
  <2> QED  BY <1>2, <1>3, <2>1
<1>5. Going1(fs, w, L, s, z)
  BY ONLY <1>2, <1>3, <1>4 DEF Going1
<1> QED  BY ONLY <1>1, <1>5

LEMMA GoingTwo ==
    ASSUME NEW f, NEW h, NEW w, NEW L, NEW s, NEW y, NEW z, Move(f, w, L, s, y), Move(h, w, L, y, z)
    PROVE  Going1(<<f, h>>, w, L, s, z)
<1>1. PICK fs, st : fs = <<f, h>> /\ st = [i \in 1 .. 3 |-> IF i = 1 THEN s ELSE IF i = 2 THEN y ELSE z]
  OBVIOUS
<1>2. IsSeq(fs) /\ Len(fs) = 2 /\ fs[1] = f /\ fs[2] = h
  <2>1. fs \in Seq({f, h}) /\ Len(fs) = 2 /\ fs[1] = f /\ fs[2] = h
    BY ONLY <1>1
  <2> QED  BY <2>1 DEF IsSeq
<1>3. st[1] = s /\ st[1 + 1] = y /\ st[2] = y /\ st[2 + 1] = z
  BY <1>1
<1>4. \A i \in 1 .. Len(fs) : Move(fs[i], w, L, st[i], st[i + 1])
  <2> SUFFICES ASSUME NEW i \in 1 .. Len(fs)  PROVE Move(fs[i], w, L, st[i], st[i + 1])
    OBVIOUS
  <2>1. i = 1 \/ i = 2
    BY <1>2
  <2> QED  BY <1>2, <1>3, <2>1
<1>5. Going1(fs, w, L, s, z)
  BY ONLY <1>2, <1>3, <1>4 DEF Going1
<1> QED  BY ONLY <1>1, <1>5

LEMMA GoingThree ==
    ASSUME NEW f, NEW h, NEW g, NEW w, NEW L, NEW s, NEW x, NEW y, NEW z,
           Move(f, w, L, s, x), Move(h, w, L, x, y), Move(g, w, L, y, z)
    PROVE  Going1(<<f, h, g>>, w, L, s, z)
<1>1. PICK fs, st : /\ fs = <<f, h, g>>
                    /\ st = [i \in 1 .. 4 |-> IF i = 1 THEN s ELSE IF i = 2 THEN x ELSE IF i = 3 THEN y ELSE z]
  OBVIOUS
<1>2. IsSeq(fs) /\ Len(fs) = 3 /\ fs[1] = f /\ fs[2] = h /\ fs[3] = g
  <2>1. fs \in Seq({f, h, g}) /\ Len(fs) = 3 /\ fs[1] = f /\ fs[2] = h /\ fs[3] = g
    BY ONLY <1>1
  <2> QED  BY <2>1 DEF IsSeq
<1>3. st[1] = s /\ st[1 + 1] = x /\ st[2] = x /\ st[2 + 1] = y /\ st[3] = y /\ st[3 + 1] = z
  BY <1>1
<1>4. \A i \in 1 .. Len(fs) : Move(fs[i], w, L, st[i], st[i + 1])
  <2> SUFFICES ASSUME NEW i \in 1 .. Len(fs)  PROVE Move(fs[i], w, L, st[i], st[i + 1])
    OBVIOUS
  <2>1. i = 1 \/ i = 2 \/ i = 3
    BY <1>2
  <2> QED  BY <1>2, <1>3, <2>1
<1>5. Going1(fs, w, L, s, z)
  BY ONLY <1>2, <1>3, <1>4 DEF Going1
<1> QED  BY ONLY <1>1, <1>5

LEMMA GoingOn1 ==
    ASSUME NEW a, NEW b, NEW w, NEW L, NEW s, NEW y, NEW z, Going1(a, w, L, s, y), Going1(b, w, L, y, z),
           NEW c, c = Joined(a, b)
    PROVE  Going1(c, w, L, s, z)
<1>1. PICK sa : /\ sa[1] = s /\ sa[Len(a) + 1] = y
                /\ \A i \in 1 .. Len(a) : Move(a[i], w, L, sa[i], sa[i + 1])
  BY DEF Going1
<1>2. PICK sb : /\ sb[1] = y /\ sb[Len(b) + 1] = z
                /\ \A i \in 1 .. Len(b) : Move(b[i], w, L, sb[i], sb[i + 1])
  BY DEF Going1
<1>3. IsJoin(c, a, b)
  <2>1. IsSeq(a) /\ IsSeq(b)
    BY DEF Going1
  <2> QED  BY ONLY <2>1, c = Joined(a, b), ConcatParts
<1>4. PICK n, m : n = Len(a) /\ m = Len(b)
  OBVIOUS
<1>5. /\ IsSeq(c) /\ n \in Nat /\ m \in Nat /\ Len(c) = n + m
      /\ \A x \in 1 .. n : c[x] = a[x]
      /\ \A x \in 1 .. (n + m) : x > n => x - n \in 1 .. m /\ c[x] = b[x - n]
  BY ONLY <1>3, <1>4 DEF IsJoin
<1>6. PICK st : st = [i \in 1 .. (n + m + 1) |-> IF i <= n THEN sa[i] ELSE sb[i - n]]
  OBVIOUS
<1>7. \A i \in 1 .. (n + 1) : st[i] = sa[i]
  <2> SUFFICES ASSUME NEW i \in 1 .. (n + 1)  PROVE st[i] = sa[i]
    OBVIOUS
  <2>1. i \in 1 .. (n + m + 1)
    BY <1>5
  <2>2. CASE i <= n
    BY <1>6, <2>1, <2>2
  <2>3. CASE i = n + 1
    <3>1. i - n = 1 /\ ~(i <= n)
      BY <1>5, <2>3
    <3>2. st[i] = sb[1]
      BY <1>6, <2>1, <3>1
    <3> QED  BY <1>1, <1>2, <1>4, <2>3, <3>2
  <2> QED  BY <1>5, <2>2, <2>3
<1>8. \A j \in 1 .. (m + 1) : st[n + j] = sb[j]
  <2> SUFFICES ASSUME NEW j \in 1 .. (m + 1)  PROVE st[n + j] = sb[j]
    OBVIOUS
  <2>1. n + j \in 1 .. (n + m + 1) /\ ~(n + j <= n) /\ (n + j) - n = j
    BY <1>5
  <2> QED  BY <1>6, <2>1
<1>9. ASSUME NEW i \in 1 .. Len(c)  PROVE Move(c[i], w, L, st[i], st[i + 1])
  <2>1. CASE i <= n
    <3>1. i \in 1 .. n /\ i \in 1 .. (n + 1) /\ i + 1 \in 1 .. (n + 1)
      BY <1>5, <2>1
    <3> QED  BY <1>1, <1>4, <1>5, <1>7, <3>1
  <2>2. CASE ~(i <= n)
    <3>1. PICK j : j = i - n
      OBVIOUS
    <3>2. j \in 1 .. m /\ c[i] = b[j] /\ n + j = i /\ n + (j + 1) = i + 1 /\ j \in 1 .. (m + 1) /\ j + 1 \in 1 .. (m + 1)
      BY <1>5, <2>2, <3>1
    <3>3. st[i] = sb[j] /\ st[i + 1] = sb[j + 1]
      BY <1>8, <3>2
    <3> QED  BY <1>2, <1>4, <3>2, <3>3
  <2> QED  BY <2>1, <2>2
<1>10. st[1] = s
  <2>1. 1 \in 1 .. (n + 1)
    BY <1>5
  <2> QED  BY <1>1, <1>7, <2>1
<1>11. st[Len(c) + 1] = z
  <2>1. m + 1 \in 1 .. (m + 1) /\ n + (m + 1) = Len(c) + 1
    BY <1>5
  <2> QED  BY <1>2, <1>4, <1>8, <2>1
<1> QED  BY ONLY <1>5, <1>9, <1>10, <1>11 DEF Going1

\* Moves that are alike: from st[1] by way of st to st[k + 1].
LEMMA GoingAlike ==
    ASSUME NEW f, NEW w, NEW L, NEW k \in Nat, NEW st, \A j \in 1 .. k : Move(f, w, L, st[j], st[j + 1]),
           NEW fs, fs = [j \in 1 .. k |-> f]
    PROVE  Going1(fs, w, L, st[1], st[k + 1])
<1>1. fs = [j \in 1 .. k |-> fs[j]] /\ \A j \in 1 .. k : fs[j] = f
  OBVIOUS
<1>2. IsSeq(fs) /\ Len(fs) = k
  BY ONLY <1>1, k \in Nat, FunctionIsSeq
<1> QED  BY <1>1, <1>2 DEF Going1

LEMMA GoingScored ==
    ASSUME NEW fs, NEW w, NEW L, NEW s, NEW z, Going1(fs, w, L, s, z), z.N = L.C, z.D = L.C
    PROVE  \E st : st[1] = s /\ Score(fs, w, L, st)
<1>1. PICK st : /\ st[1] = s /\ st[Len(fs) + 1] = z
                /\ \A i \in 1 .. Len(fs) : Move(fs[i], w, L, st[i], st[i + 1])
  BY DEF Going1
<1>2. Score(fs, w, L, st)
  BY <1>1, Zenon DEF Score, Move
<1> QED  BY <1>1, <1>2

\* Whether the piece i is half a call, and where the parser is when i pieces came.
Halved(r, i) == r.max /\ i = Len(r.pieces) /\ r.pieces[i] = "call"
OutBy(target, r, i) ==
    IF target = Chat THEN 0
    ELSE IF target = Responses /\ i > 0 /\ Halved(r, i) THEN Rank(r.pieces, i + 1) - 1
    ELSE Rank(r.pieces, i + 1)
Here(L, target, r, i) ==
    At(Rank(r.pieces, i + 1), OutBy(target, r, i),
       IF Rank(r.pieces, i + 1) = 0 THEN 0 ELSE L.full[Rank(r.pieces, i + 1)], 0)

LEMMA HereIs ==
    ASSUME NEW L, NEW target \in Wire, NEW r, Len(r.pieces) \in Nat, NEW i \in 1 .. Len(r.pieces), NEW j, j = i - 1
    PROVE  Here(L, target, r, j) = At(Rank(r.pieces, i), IF target = Chat THEN 0 ELSE Rank(r.pieces, i),
                                      IF Rank(r.pieces, i) = 0 THEN 0 ELSE L.full[Rank(r.pieces, i)], 0)
<1>1. j + 1 = i /\ j # Len(r.pieces)
  OBVIOUS
<1>2. OutBy(target, r, j) = IF target = Chat THEN 0 ELSE Rank(r.pieces, i)
  BY <1>1 DEF OutBy, Halved
<1> QED  BY ONLY <1>1, <1>2 DEF Here

LEMMA MoveIs ==
    ASSUME NEW f, NEW w, NEW L, NEW s, NEW z, Beat(f, w, L, s, z)
    PROVE  Move(f, w, L, s, z)
<1>1. f.k # "done"
  BY DEF Beat, Opens1, Adds, Shuts1, Passes, Words
<1> QED  BY <1>1 DEF Move

LEMMA OtherMoves ==
    ASSUME NEW f, NEW w, NEW L, NEW s, s.o = 0, f.k \in {"open", "shut", "text", "think"}, f.kind # "call",
           f.k = "shut" /\ w = Anthropic => \A q \in 1 .. L.C : L.at[q] # f.at,
           w = Chat => f.k \in {"text", "think"}
    PROVE  Move(f, w, L, s, s)
<1>1. Passes(f, w, L, s, s)
  BY DEF Passes
<1> QED  BY <1>1, MoveIs DEF Beat

\* A text, or reasoning.
LEMMA OtherPiece ==
    ASSUME NEW L, NEW w, NEW target, NEW m, NEW n, NEW r, Answering(L, w, target, m, n, r),
           NEW i \in 1 .. Len(r.pieces), r.pieces[i] # "call"
    PROVE  Going1(PieceFrames(w, target, m, n, r, i), target, L, Here(L, target, r, i - 1), Here(L, target, r, i))
<1>1. PICK ps, kind, s : ps = r.pieces /\ kind = ps[i] /\ s = Here(L, target, r, i)
  BY Zenon
<1>2. Len(ps) \in Nat /\ target \in Wire /\ kind \in {"text", "think"}
  BY <1>1, LenProperties, ElementOfSeq DEF Answering
<1>3. Here(L, target, r, i - 1) = s
  <2>1. i \in Nat /\ i > 0
    BY <1>1, <1>2
  <2>2. Rank(ps, i + 1) = Rank(ps, i)
    BY <1>1, <2>1, RankNext
  <2>3. OutBy(target, r, i) = IF target = Chat THEN 0 ELSE Rank(ps, i)
    BY <1>1, <2>2 DEF OutBy, Halved
  <2>4. s = At(Rank(ps, i), IF target = Chat THEN 0 ELSE Rank(ps, i), IF Rank(ps, i) = 0 THEN 0 ELSE L.full[Rank(ps, i)], 0)
    BY ONLY <1>1, <2>2, <2>3 DEF Here
  <2>5. PICK j : j = i - 1
    OBVIOUS
  <2>6. Here(L, target, r, j) = At(Rank(r.pieces, i), IF target = Chat THEN 0 ELSE Rank(r.pieces, i),
                                   IF Rank(r.pieces, i) = 0 THEN 0 ELSE L.full[Rank(r.pieces, i)], 0)
    <3>1. Len(r.pieces) \in Nat /\ target \in Wire
      BY <1>1, <1>2
    <3> QED  BY ONLY <2>5, <3>1, i \in 1 .. Len(r.pieces), HereIs
  <2> QED  BY ONLY <1>1, <2>4, <2>5, <2>6
<1>4. s.o = 0
  BY ONLY <1>1 DEF Here, At
<1>5. PICK a, b, c : /\ a = Framed(w, target, m, n, ps, i, "open") /\ b = Framed(w, target, m, n, ps, i, kind)
                     /\ c = Framed(w, target, m, n, ps, i, "shut")
  BY Zenon
<1>6. /\ a.k = "open" /\ b.k = kind /\ c.k = "shut" /\ a.kind = kind /\ b.kind = kind /\ c.kind = kind
      /\ (target # Chat => c.at = i - 1)
  BY ONLY <1>1, <1>5 DEF Framed
<1>7. Move(b, target, L, s, s)
  BY <1>2, <1>4, <1>6, OtherMoves
<1>8. target # Chat => Move(a, target, L, s, s)
  BY <1>2, <1>4, <1>6, OtherMoves
<1>9. target # Chat => Move(c, target, L, s, s)
  <2>1. ASSUME target = Anthropic, NEW q \in 1 .. L.C  PROVE L.at[q] # i - 1
    <3>1. q \in 1 .. Rank(ps, Len(ps) + 1)
      BY <1>1 DEF Answering, CallsOf
    <3>2. L.at[q] = CallAt(ps, q) - 1
      BY <1>1, <2>1, <3>1 DEF Answering, CallsOf
    <3>3. IsNth(ps, CallAt(ps, q), q)
      BY <1>2, <3>1, NthIs
    <3>4. PICK j : j = CallAt(ps, q)
      OBVIOUS
    <3>5. j \in 1 .. Len(ps) /\ ps[j] = "call"
      BY <3>3, <3>4 DEF IsNth
    <3>6. j # i
      BY <1>1, <1>2, <3>5
    <3> QED  BY <1>1, <1>2, <3>2, <3>4, <3>5, <3>6
  <2> QED  BY <1>2, <1>4, <1>6, <2>1, OtherMoves
<1>10. PICK z, ba, bb, bc : z = PieceFrames(w, target, m, n, r, i) /\ ba = <<a>> /\ bb = <<b>> /\ bc = <<c>>
  BY Zenon
<1>11. Going1(bb, target, L, s, s) /\ (target # Chat => Going1(ba, target, L, s, s) /\ Going1(bc, target, L, s, s))
  BY <1>7, <1>8, <1>9, <1>10, GoingOne
<1>12. PICK ab : ab = Joined(ba, bb)
  OBVIOUS
<1>13. target # Chat => Going1(Joined(ab, bc), target, L, s, s)
  BY <1>11, <1>12, GoingOn1
<1>14. kind # "call"
  BY <1>1
<1>15. Going1(z, target, L, s, s)
  <2>1. CASE target = Anthropic
    <3>1. z = ba \o bb \o bc
      BY ONLY <1>1, <1>5, <1>10, <1>14, <2>1, Zenon DEF PieceFrames, Chat, Anthropic, Responses
    <3>2. z = Joined(ab, bc)
      BY ONLY <1>12, <3>1 DEF Joined
    <3> QED  BY <1>13, <2>1, <3>2 DEF Anthropic, Chat
  <2>2. CASE target = Chat
    <3>1. z = <<>> \o bb
      BY ONLY <1>1, <1>5, <1>10, <1>14, <2>2, Zenon DEF PieceFrames, Chat, Anthropic, Responses
    <3>2. z = Joined(<<>>, bb)
      BY ONLY <3>1 DEF Joined
    <3> QED  BY <1>11, <3>2, GoingNone, GoingOn1
  <2>3. CASE target = Responses
    <3>1. z = ba \o bb \o bc
      BY ONLY <1>1, <1>5, <1>10, <1>14, <2>3, Zenon DEF PieceFrames, Chat, Anthropic, Responses
    <3>2. z = Joined(ab, bc)
      BY ONLY <1>12, <3>1 DEF Joined
    <3> QED  BY <1>13, <2>3, <3>2 DEF Responses, Chat
  <2> QED  BY <1>2, <2>1, <2>2, <2>3 DEF Wire
<1> QED  BY <1>1, <1>3, <1>10, <1>15

\* A call: it opens, and its fragments come.
LEMMA CallOpens ==
    ASSUME NEW L, NEW w, NEW target, NEW m, NEW n, NEW r, Answering(L, w, target, m, n, r), Calling(L),
           NEW i \in 1 .. Len(r.pieces), r.pieces[i] = "call", NEW q, Called(L, w, target, m, n, r, i, q),
           NEW D, D = IF target = Chat THEN 0 ELSE q - 1, NEW a, a = Framed(w, target, m, n, r.pieces, i, "open"),
           NEW f, f = Framed(w, target, m, n, r.pieces, i, "args"),
           NEW fs, fs = Joined(<<a>>, [j \in 1 .. L.full[q] |-> f])
    PROVE  Going1(fs, target, L, Here(L, target, r, i - 1), At(q, D, L.full[q], 0))
<1>1. PICK s, z, st, k : /\ s = Here(L, target, r, i - 1) /\ z = At(q, D, 0, 0) /\ k = L.full[q]
                         /\ st = [j \in 1 .. (k + 1) |-> At(q, D, j - 1, 0)]
  BY Zenon
<1>2. q \in 1 .. L.C /\ L.C \in Nat /\ q = Rank(r.pieces, i) + 1 /\ k \in Nat /\ target \in Wire /\ Len(r.pieces) \in Nat
  BY <1>1, TranslateAssumption, LenProperties DEF Called, Calling, Answering
<1>3. Rank(r.pieces, i) = q - 1
  <2>1. Rank(r.pieces, i) \in Nat
    <3>1. i \in 1 .. (Len(r.pieces) + 1) /\ i <= i
      BY <1>2
    <3> QED  BY <1>2, <3>1, RankGrows
  <2> QED  BY <1>2, <2>1
<1>4. s = At(q - 1, D, IF q - 1 = 0 THEN 0 ELSE L.full[q - 1], 0)
  <2>1. PICK j : j = i - 1
    OBVIOUS
  <2>2. Here(L, target, r, j) = At(Rank(r.pieces, i), IF target = Chat THEN 0 ELSE Rank(r.pieces, i),
                                   IF Rank(r.pieces, i) = 0 THEN 0 ELSE L.full[Rank(r.pieces, i)], 0)
    BY ONLY <1>2, <2>1, i \in 1 .. Len(r.pieces), HereIs
  <2> QED  BY ONLY <1>1, <1>3, <2>1, <2>2, D = IF target = Chat THEN 0 ELSE q - 1
<1>5. s.N = q - 1 /\ s.D = D /\ s.o = 0 /\ (s.N > 0 => s.x = L.full[s.N])
  BY ONLY <1>2, <1>4 DEF At
<1>6. OfCall(a, L, q, target) /\ a.k = "open" /\ OfCall(f, L, q, target) /\ f.k = "args"
  <2>1. /\ L.block[q] = i - 1 /\ L.at[q] = (IF target = Anthropic THEN i - 1 ELSE q - 1)
        /\ L.id[q] = Minted(target, n, r.pieces, i) /\ L.name[q] = ToolOf(w, m, r.pieces, i)
    BY DEF Called
  <2>2. \A k1 : /\ Framed(w, target, m, n, r.pieces, i, k1).kind = "call"
                /\ Framed(w, target, m, n, r.pieces, i, k1).k = k1
                /\ Framed(w, target, m, n, r.pieces, i, k1).id = L.id[q]
                /\ Framed(w, target, m, n, r.pieces, i, k1).name = L.name[q]
                /\ Framed(w, target, m, n, r.pieces, i, k1).at = IF target = Chat THEN Rank(r.pieces, i) ELSE i - 1
    BY <2>1 DEF Framed
  <2>3. (IF target = Chat THEN Rank(r.pieces, i) ELSE i - 1) = IF target = Responses THEN L.block[q] ELSE L.at[q]
    BY ONLY <1>2, <1>3, <2>1 DEF Wire, Anthropic, Chat, Responses
  <2> QED  BY <2>2, <2>3 DEF OfCall
<1>7. Move(a, target, L, s, z)
  <2>1. Opens1(a, target, L, s, z)
    BY <1>1, <1>2, <1>5, <1>6 DEF Opens1
  <2> QED  BY <2>1, MoveIs DEF Beat
<1>8. ASSUME NEW j \in 1 .. k  PROVE Move(f, target, L, st[j], st[j + 1])
  <2>1. st[j] = At(q, D, j - 1, 0) /\ st[j + 1] = At(q, D, j, 0)
    BY <1>1, <1>2
  <2>2. PICK y : y = st[j]
    OBVIOUS
  <2>3. y.N = q /\ y.D = D /\ y.x = j - 1 /\ y.o = 0
    BY ONLY <2>1, <2>2 DEF At
  <2>4. y.N > 0 /\ y.x < L.full[y.N] /\ y.x + 1 = j
    BY <1>1, <1>2, <2>3
  <2>5. Adds(f, target, L, y, st[j + 1])
    BY ONLY <1>6, <2>1, <2>3, <2>4 DEF Adds
  <2> QED  BY <2>2, <2>5, MoveIs DEF Beat
<1>9. PICK args : args = [j \in 1 .. L.full[q] |-> f]
  BY Zenon
<1>10. Going1(args, target, L, st[1], st[k + 1])
  BY <1>1, <1>2, <1>8, <1>9, GoingAlike
<1>11. st[1] = z /\ st[k + 1] = At(q, D, L.full[q], 0)
  <2>1. 1 \in 1 .. (k + 1) /\ k + 1 \in 1 .. (k + 1) /\ 1 - 1 = 0 /\ k + 1 - 1 = k
    BY <1>2
  <2>2. \A j \in 1 .. (k + 1) : st[j] = At(q, D, j - 1, 0)
    BY ONLY <1>1
  <2>3. st[1] = At(q, D, 0, 0)
    BY ONLY <2>1, <2>2
  <2>4. st[k + 1] = At(q, D, k, 0)
    BY ONLY <1>2, <2>1, <2>2
  <2> QED  BY ONLY <1>1, <2>3, <2>4
<1>12. Going1(<<a>>, target, L, s, z)
  BY <1>7, GoingOne
<1>13. Going1(fs, target, L, s, At(q, D, L.full[q], 0))
  BY ONLY <1>9, <1>10, <1>11, <1>12, fs = Joined(<<a>>, [j \in 1 .. L.full[q] |-> f]), GoingOn1
<1> QED  BY <1>1, <1>13

LEMMA CallShuts ==
    ASSUME NEW L, NEW w, NEW target \in Wire, NEW m, NEW n, NEW r, NEW i, r.pieces[i] = "call",
           NEW q, Called(L, w, target, m, n, r, i, q),
           NEW k, (k = "shut" /\ target # Chat) \/ (k = "all" /\ target = Responses),
           NEW x, x = L.full[q], target = Responses => x > 0, NEW D, D + 1 >= q
    PROVE  Move(Framed(w, target, m, n, r.pieces, i, k), target, L, At(q, D, x, 0), At(q, q, x, 0))
<1>1. PICK f, y, z : f = Framed(w, target, m, n, r.pieces, i, k) /\ y = At(q, D, x, 0) /\ z = At(q, q, x, 0)
  BY Zenon
<1>2. q \in 1 .. L.C /\ L.C \in Nat /\ L.block[q] = i - 1 /\ (target = Anthropic => L.at[q] = i - 1)
      /\ L.id[q] = Minted(target, n, r.pieces, i) /\ L.name[q] = ToolOf(w, m, r.pieces, i)
  BY DEF Called
<1>3. /\ f.kind = "call" /\ f.k = k /\ f.id = L.id[q] /\ f.name = L.name[q]
      /\ (target # Chat => f.at = i - 1)
  BY ONLY <1>1, <1>2, r.pieces[i] = "call" DEF Framed
<1>4. target # Chat => f.at = IF target = Responses THEN L.block[q] ELSE L.at[q]
  BY ONLY <1>2, <1>3, target \in Wire DEF Wire, Anthropic, Chat, Responses
<1>5. target # Chat
  BY DEF Responses, Chat
<1>6. OfCall(f, L, q, target)
  BY <1>3, <1>4, <1>5 DEF OfCall
<1>7. y.N = q /\ y.D = D /\ y.x = x /\ y.o = 0
  BY ONLY <1>1 DEF At
<1>8. y.N > 0
  BY ONLY <1>2, <1>7
<1>9. Shuts1(f, target, L, y, z)
  BY <1>1, <1>3, <1>6, <1>7, <1>8 DEF Shuts1
<1>10. Move(f, target, L, y, z)
  BY <1>9, MoveIs DEF Beat
<1> QED  BY <1>1, <1>10

LEMMA CallPiece ==
    ASSUME NEW L, NEW w, NEW target, NEW m, NEW n, NEW r, Answering(L, w, target, m, n, r), Calling(L),
           NEW i \in 1 .. Len(r.pieces), r.pieces[i] = "call"
    PROVE  Going1(PieceFrames(w, target, m, n, r, i), target, L, Here(L, target, r, i - 1), Here(L, target, r, i))
<1>1. PICK q : Called(L, w, target, m, n, r, i, q)
  BY CalledIs
<1>2. PICK ps, half, x, s, D : /\ ps = r.pieces /\ half = Halved(r, i) /\ x = L.full[q]
                               /\ s = Here(L, target, r, i - 1) /\ D = IF target = Chat THEN 0 ELSE q - 1
  BY Zenon
<1>3. /\ q \in 1 .. L.C /\ L.C \in Nat /\ Rank(ps, i + 1) = q /\ target \in Wire
      /\ x = IF half THEN Parts - 1 ELSE Parts
  BY <1>1, <1>2 DEF Called, Answering, Halved
<1>4. PICK a, f, b, c : /\ a = Framed(w, target, m, n, ps, i, "open") /\ f = Framed(w, target, m, n, ps, i, "args")
                        /\ b = Framed(w, target, m, n, ps, i, "all") /\ c = Framed(w, target, m, n, ps, i, "shut")
  BY Zenon
<1>5. PICK args, ba, bc, bbc, o : /\ args = [j \in 1 .. x |-> f] /\ ba = <<a>> /\ bc = <<c>> /\ bbc = <<b, c>>
                                  /\ o = Joined(ba, args)
  BY Zenon
<1>6. Going1(o, target, L, s, At(q, D, x, 0))
  <2>1. o = Joined(<<a>>, [j \in 1 .. L.full[q] |-> f])
    BY ONLY <1>2, <1>5
  <2>2. a = Framed(w, target, m, n, r.pieces, i, "open") /\ f = Framed(w, target, m, n, r.pieces, i, "args")
    BY ONLY <1>2, <1>4
  <2>3. Going1(o, target, L, Here(L, target, r, i - 1), At(q, D, L.full[q], 0))
    BY ONLY <1>1, <1>2, <2>1, <2>2, CallOpens, Answering(L, w, target, m, n, r), Calling(L),
            i \in 1 .. Len(r.pieces), r.pieces[i] = "call"
  <2> QED  BY ONLY <1>2, <2>3
<1>7. PICK z : z = PieceFrames(w, target, m, n, r, i)
  OBVIOUS
<1>8. /\ target = Anthropic => z = o \o bc
      /\ target = Chat => z = o
      /\ target = Responses => z = IF half THEN o \o <<>> ELSE o \o bbc
  <2>1. PICK y : y = [j \in 1 .. (IF half THEN Parts - 1 ELSE Parts) |-> Framed(w, target, m, n, ps, i, "args")]
    BY Zenon
  <2>2. args = y
    BY ONLY <1>3, <1>4, <1>5, <2>1
  <2>3. o = ba \o args
    BY ONLY <1>5 DEF Joined
  <2>4. half = (r.max /\ i = Len(r.pieces) /\ ps[i] = "call") /\ ps[i] = "call"
    BY <1>2 DEF Halved
  <2>5. CASE target = Anthropic
    <3>1. z = ba \o y \o bc
      BY ONLY <1>2, <1>4, <1>5, <1>7, <2>1, <2>4, <2>5, Zenon DEF PieceFrames, Chat, Anthropic, Responses
    <3> QED  BY ONLY <2>2, <2>3, <2>5, <3>1 DEF Chat, Anthropic, Responses
  <2>6. CASE target = Chat
    <3>1. z = ba \o y
      BY ONLY <1>2, <1>4, <1>5, <1>7, <2>1, <2>4, <2>6, Zenon DEF PieceFrames, Chat, Anthropic, Responses
    <3> QED  BY ONLY <2>2, <2>3, <2>6, <3>1 DEF Chat, Anthropic, Responses
  <2>7. CASE target = Responses
    <3>1. z = ba \o y \o (IF half THEN <<>> ELSE bbc)
      BY ONLY <1>2, <1>4, <1>5, <1>7, <2>1, <2>4, <2>7, Zenon DEF PieceFrames, Chat, Anthropic, Responses
    <3>2. z = IF half THEN ba \o y \o <<>> ELSE ba \o y \o bbc
      BY ONLY <3>1, Zenon
    <3> QED  BY ONLY <2>2, <2>3, <2>7, <3>2 DEF Chat, Anthropic, Responses
  <2> QED  BY <1>3, <2>5, <2>6, <2>7 DEF Wire
<1>9. PICK v, e : v = At(q, q, x, 0) /\ e = Here(L, target, r, i)
  OBVIOUS
<1>10. /\ target = Anthropic => e = v
       /\ target = Chat => e = At(q, D, x, 0)
       /\ target = Responses => e = IF half THEN At(q, D, x, 0) ELSE v
  <2>1. q # 0
    BY <1>3
  <2>2. e = At(q, OutBy(target, r, i), x, 0)
    BY ONLY <1>2, <1>3, <1>9, <2>1 DEF Here
  <2>3. i > 0
    OBVIOUS
  <2>4. OutBy(target, r, i) = IF target = Chat THEN 0 ELSE IF target = Responses /\ half THEN q - 1 ELSE q
    BY ONLY <1>2, <1>3, <2>3 DEF OutBy
  <2> QED  BY ONLY <1>2, <1>9, <2>2, <2>4 DEF Anthropic, Chat, Responses
<1>11. D + 1 >= q \/ target = Chat
  BY <1>2, <1>3
<1>12. CASE target = Anthropic
  <2>1. Move(c, target, L, At(q, D, x, 0), v)
    <3>1. target # Chat /\ target # Responses
      BY <1>12 DEF Anthropic, Chat, Responses
    <3> QED  BY <1>1, <1>2, <1>3, <1>4, <1>9, <1>11, <3>1, CallShuts
  <2>2. Going1(bc, target, L, At(q, D, x, 0), v)
    BY <1>5, <2>1, GoingOne
  <2>3. z = Joined(o, bc)
    BY <1>8, <1>12 DEF Joined
  <2>4. Going1(z, target, L, s, v)
    BY ONLY <1>6, <2>2, <2>3, GoingOn1
  <2> QED  BY <1>2, <1>7, <1>9, <1>10, <1>12, <2>4
<1>13. CASE target = Chat
  BY <1>2, <1>6, <1>7, <1>8, <1>9, <1>10, <1>13
<1>14. CASE target = Responses /\ half
  <2>1. z = Joined(o, <<>>)
    BY <1>8, <1>14 DEF Joined
  <2>2. Going1(z, target, L, s, At(q, D, x, 0))
    BY ONLY <1>6, <2>1, GoingNone, GoingOn1
  <2> QED  BY <1>2, <1>7, <1>9, <1>10, <1>14, <2>2
<1>15. CASE target = Responses /\ ~half
  <2>1. x > 0 /\ target # Chat /\ D + 1 >= q /\ q + 1 >= q
    BY <1>3, <1>11, <1>15, TranslateAssumption DEF Responses, Chat
  <2>2. Move(b, target, L, At(q, D, x, 0), v) /\ Move(c, target, L, v, v)
    BY <1>1, <1>2, <1>3, <1>4, <1>9, <1>15, <2>1, CallShuts
  <2>6. Going1(bbc, target, L, At(q, D, x, 0), v)
    <3>1. Going1(<<b, c>>, target, L, At(q, D, x, 0), v)
      BY ONLY <2>2, GoingTwo
    <3> QED  BY ONLY <1>5, <3>1
  <2>7. z = Joined(o, bbc)
    BY <1>8, <1>15 DEF Joined
  <2>8. Going1(z, target, L, s, v)
    BY ONLY <1>6, <2>6, <2>7, GoingOn1
  <2> QED  BY <1>2, <1>7, <1>9, <1>10, <1>15, <2>8
<1> QED  BY <1>3, <1>12, <1>13, <1>14, <1>15 DEF Wire

LEMMA PieceGoes ==
    ASSUME NEW L, NEW w, NEW target, NEW m, NEW n, NEW r, Answering(L, w, target, m, n, r), Calling(L),
           NEW i \in 1 .. Len(r.pieces)
    PROVE  Going1(PieceFrames(w, target, m, n, r, i), target, L, Here(L, target, r, i - 1), Here(L, target, r, i))
<1>1. CASE r.pieces[i] = "call"
  BY <1>1, CallPiece
<1>2. CASE r.pieces[i] # "call"
  BY <1>2, OtherPiece
<1> QED  BY <1>1, <1>2

\* All pieces.
LEMMA PiecesGo ==
    ASSUME NEW L, NEW w, NEW target, NEW m, NEW n, NEW r, Answering(L, w, target, m, n, r), Calling(L),
           NEW ss, ss = [i \in 1 .. Len(r.pieces) |-> PieceFrames(w, target, m, n, r, i)]
    PROVE  Going1(FlattenSeq(ss), target, L, Here(L, target, r, 0), Here(L, target, r, Len(r.pieces)))
<1>1. PICK len : len = Len(r.pieces)
  OBVIOUS
<1>2. len \in Nat
  BY <1>1, LenProperties DEF Answering
<1>3. ss = [i \in 1 .. len |-> ss[i]] /\ \A i \in 1 .. len : ss[i] = PieceFrames(w, target, m, n, r, i)
  BY ONLY <1>1, ss = [i \in 1 .. Len(r.pieces) |-> PieceFrames(w, target, m, n, r, i)]
<1>4. IsSeq(ss) /\ Len(ss) = len
  BY ONLY <1>2, <1>3, FunctionIsSeq
<1>5. PICK S : S = [i \in 0 .. len |-> Here(L, target, r, i)]
  BY Zenon
<1>6. ASSUME NEW i \in 0 .. len, i < len  PROVE Going1(ss[i + 1], target, L, S[i], S[i + 1])
  <2>1. PICK j : j = i + 1
    OBVIOUS
  <2>2. j \in 1 .. len /\ j \in 0 .. len /\ j - 1 = i
    BY <1>2, <1>6, <2>1
  <2>3. Going1(PieceFrames(w, target, m, n, r, j), target, L, Here(L, target, r, j - 1), Here(L, target, r, j))
    BY <1>1, <2>2, PieceGoes
  <2> QED  BY <1>3, <1>5, <2>1, <2>2, <2>3
<1>7. CASE len = 0
  <2>1. ss = <<>>
    BY <1>4, <1>7, Appending
  <2>2. FlattenSeq(ss) = <<>>
    BY <1>4, <1>7, <2>1 DEF FlattenSeq
  <2> QED  BY <1>1, <1>7, <2>2, GoingNone
<1>8. CASE len # 0
  <2>1. PICK f : /\ f[1] = ss[1]
                 /\ \A i \in 2 .. len : f[i] = Joined(f[i - 1], ss[i])
                 /\ FlattenSeq(ss) = f[len]
    BY <1>2, <1>4, <1>8, FlattenIs, Zenon
  <2> DEFINE G == {i \in 0 .. len : i > 0 => Going1(f[i], target, L, S[0], S[i])}
  <2> HIDE DEF G
  <2>2. 0 \in G
    BY <1>2 DEF G
  <2>3. ASSUME NEW i \in 0 .. len, i < len, i \in G  PROVE i + 1 \in G
    <3>1. PICK j, b, F : j = i + 1 /\ b = ss[i + 1] /\ F = f[i]
      BY Zenon
    <3>2. Going1(b, target, L, S[i], S[j]) /\ j \in 0 .. len
      BY <1>2, <1>6, <2>3, <3>1
    <3>3. CASE i = 0
      <4>1. f[j] = b
        BY <2>1, <3>1, <3>3
      <4> QED  BY <3>1, <3>2, <3>3, <4>1 DEF G
    <3>4. CASE i > 0
      <4>1. Going1(F, target, L, S[0], S[i])
        BY <2>3, <3>1, <3>4 DEF G
      <4>2. f[j] = Joined(F, b)
        <5>1. j \in 2 .. len /\ j - 1 = i
          BY <1>2, <2>3, <3>1, <3>4
        <5>2. f[j] = Joined(f[j - 1], ss[j])
          BY <2>1, <5>1, Zenon
        <5> QED  BY <3>1, <5>1, <5>2
      <4>3. Going1(f[j], target, L, S[0], S[j])
        BY ONLY <3>2, <4>1, <4>2, GoingOn1
      <4> QED  BY ONLY <3>1, <3>2, <4>3 DEF G
    <3> QED  BY <3>3, <3>4
  <2>4. len \in G
    <3>1. \A i \in 0 .. len : i \in G
      BY ONLY <1>2, <2>2, <2>3, Ladder
    <3> QED  BY ONLY <1>2, <3>1
  <2>5. Going1(f[len], target, L, S[0], S[len])
    BY <1>2, <1>8, <2>4 DEF G
  <2> QED  BY <1>1, <1>2, <1>5, <2>1, <2>5
<1> QED  BY <1>7, <1>8

LEMMA HereFirst ==
    ASSUME NEW L, NEW target, NEW r
    PROVE  Here(L, target, r, 0) = At(0, 0, 0, 0)
<1>1. PICK i : i = 0
  OBVIOUS
<1>2. Rank(r.pieces, 1) = 0
  <2>1. 0 \in Nat
    OBVIOUS
  <2> QED  BY <2>1, RankNext
<1>3. Rank(r.pieces, i + 1) = 0
  <2>1. i + 1 = 1
    BY <1>1
  <2> QED  BY ONLY <1>2, <2>1
<1>4. OutBy(target, r, i) = 0
  <2>1. ~(i > 0)
    BY <1>1
  <2> QED  BY ONLY <1>3, <2>1 DEF OutBy
<1>5. Here(L, target, r, i) = At(0, 0, 0, 0)
  BY ONLY <1>3, <1>4 DEF Here
<1> QED  BY ONLY <1>1, <1>5

LEMMA StartGoes ==
    ASSUME NEW word, NEW w, NEW L, NEW s, s.o = 0
    PROVE  Going1(<<BareOf("start", word)>>, w, L, s, s)
<1>1. PICK f : f = BareOf("start", word)
  OBVIOUS
<1>2. f.k = "start" /\ f.kind = ""
  BY ONLY <1>1 DEF BareOf
<1>3. Passes(f, w, L, s, s)
  BY <1>2 DEF Passes
<1>4. Move(f, w, L, s, s)
  BY <1>3, MoveIs DEF Beat
<1>5. Going1(<<f>>, w, L, s, s)
  BY ONLY <1>4, GoingOne
<1> QED  BY ONLY <1>1, <1>5

LEMMA RestGoes ==
    ASSUME NEW word, NEW w \in Wire, NEW L, NEW s, s.o = 0, s.N = L.C, s.N > 0 => s.x = L.full[s.N],
           w = Anthropic => s.D = s.N
    PROVE  \E z : z.N = L.C /\ z.D = L.C /\ Going1(RestOf(w, word), w, L, s, z)
<1>1. PICK a, b, c, d, z : /\ a = BareOf("word", word) /\ b = BareOf("end", word) /\ c = BareOf("usage", word)
                           /\ d = BareOf("done", word) /\ z = At(s.N, s.N, s.x, 1)
  BY Zenon
<1>2. /\ a.k = "word" /\ b.k = "end" /\ b.kind = "" /\ c.k = "usage" /\ c.kind = "" /\ d.k = "done"
      /\ z.N = L.C /\ z.D = L.C /\ z.o = 1
  BY ONLY <1>1, s.N = L.C DEF BareOf, At
<1>3. Move(a, w, L, s, z)
  <2>1. Words(a, w, L, s, z)
    BY <1>1, <1>2 DEF Words
  <2> QED  BY <2>1, MoveIs DEF Beat
<1>4. CASE w = Anthropic
  <2>1. Passes(b, w, L, z, z)
    BY <1>2, <1>4 DEF Passes, Anthropic, Chat
  <2>2. Move(b, w, L, z, z)
    BY <2>1, MoveIs DEF Beat
  <2>3. RestOf(w, word) = <<a, b>>
    BY ONLY <1>1, <1>4 DEF RestOf, Anthropic, Chat, Responses
  <2>4. Going1(<<a, b>>, w, L, s, z)
    BY ONLY <1>3, <2>2, GoingTwo
  <2> QED  BY <1>2, <2>3, <2>4
<1>5. CASE w = Chat
  <2>1. Passes(c, w, L, z, z)
    <3>1. z.o # 0 /\ c.k # "shut"
      <4>1. z.o = 1
        BY ONLY <1>2
      <4>2. c.k = "usage"
        BY ONLY <1>2
      <4> QED  BY ONLY <4>1, <4>2
    <3> QED  BY ONLY <1>2, <3>1 DEF Passes
  <2>2. Move(c, w, L, z, z)
    BY <2>1, MoveIs DEF Beat
  <2>3. Move(d, w, L, z, z)
    BY <1>2 DEF Move
  <2>4. RestOf(w, word) = <<a, c, d>>
    BY ONLY <1>1, <1>5 DEF RestOf, Anthropic, Chat, Responses
  <2>5. Going1(<<a, c, d>>, w, L, s, z)
    BY ONLY <1>3, <2>2, <2>3, GoingThree
  <2> QED  BY <1>2, <2>4, <2>5
<1>6. CASE w = Responses
  <2>1. RestOf(w, word) = <<a>>
    BY ONLY <1>1, <1>6 DEF RestOf, Anthropic, Chat, Responses
  <2>2. Going1(<<a>>, w, L, s, z)
    BY ONLY <1>3, GoingOne
  <2> QED  BY <1>2, <2>1, <2>2
<1> QED  BY <1>4, <1>5, <1>6 DEF Wire

\* An answer takes the parser from none of its calls to all.
LEMMA FramesScore ==
    ASSUME NEW L, NEW w, NEW target, NEW m, NEW n, NEW r, Answering(L, w, target, m, n, r), Calling(L)
    PROVE  \E st : st[1] = At(0, 0, 0, 0) /\ Score(Frames(w, target, m, n, r), target, L, st)
<1>1. PICK word, ss, F, s, y : /\ word = SaidWord(target, r) /\ s = Here(L, target, r, 0)
                               /\ ss = [i \in 1 .. Len(r.pieces) |-> PieceFrames(w, target, m, n, r, i)]
                               /\ F = FlattenSeq(ss) /\ y = Here(L, target, r, Len(r.pieces))
  BY Zenon
<1>2. Going1(F, target, L, s, y)
  BY <1>1, PiecesGo, Zenon
<1>3. s = At(0, 0, 0, 0)
  BY <1>1, HereFirst
<1>4. Going1(<<BareOf("start", word)>>, target, L, s, s)
  <2>1. s.o = 0
    BY ONLY <1>3 DEF At
  <2> QED  BY <2>1, StartGoes
<1>5. PICK C : C = Rank(r.pieces, Len(r.pieces) + 1)
  OBVIOUS
<1>6. L.C = C
  BY <1>5 DEF Answering, CallsOf
<1>7. y = At(C, OutBy(target, r, Len(r.pieces)), IF C = 0 THEN 0 ELSE L.full[C], 0)
  BY ONLY <1>1, <1>5 DEF Here
<1>8. y.N = C /\ y.o = 0 /\ y.D = OutBy(target, r, Len(r.pieces)) /\ (y.N > 0 => y.x = L.full[y.N])
  <2>1. y.N = C /\ y.o = 0 /\ y.D = OutBy(target, r, Len(r.pieces)) /\ y.x = IF C = 0 THEN 0 ELSE L.full[C]
    BY ONLY <1>7 DEF At
  <2>2. C \in Nat
    BY <1>6 DEF Calling
  <2> QED  BY ONLY <2>1, <2>2
<1>9. target = Anthropic => y.D = C
  BY ONLY <1>5, <1>8 DEF OutBy, Anthropic, Chat, Responses
<1>10. target \in Wire
  BY DEF Answering
<1>11. PICK z : z.N = L.C /\ z.D = L.C /\ Going1(RestOf(target, word), target, L, y, z)
  BY ONLY <1>6, <1>8, <1>9, <1>10, RestGoes
<1>12. PICK fs, b, c : fs = Frames(w, target, m, n, r) /\ b = Joined(<<BareOf("start", word)>>, F) /\ c = RestOf(target, word)
  BY Zenon
<1>13. fs = Joined(b, c)
  <2>1. fs = Joined(Joined(<<BareOf("start", word)>>, F), RestOf(target, word))
    BY ONLY <1>1, <1>12, FramesAre
  <2> QED  BY ONLY <1>12, <2>1
<1>14. Going1(b, target, L, s, y)
  BY ONLY <1>2, <1>4, <1>12, GoingOn1
<1>15. Going1(fs, target, L, s, z)
  BY ONLY <1>11, <1>12, <1>13, <1>14, GoingOn1
<1>16. PICK st : st[1] = s /\ Score(fs, target, L, st)
  BY ONLY <1>11, <1>15, GoingScored
<1> QED  BY <1>3, <1>12, <1>16

-----------------------------------------------------------------------------
(* The names of an answer's calls (Convert's Those and flatten).           *)

PickedOut(b, s, I) ==
    /\ IsSeq(b) /\ Len(b) = Cardinality(I) /\ Cardinality(I) \in Nat
    /\ \A j \in 1 .. Cardinality(I) : \E i \in I : b[j] = s[i]

LEMMA ThoseAre ==
    ASSUME NEW n \in Nat, NEW I, I \subseteq 1 .. n, NEW s
    PROVE  PickedOut(Those(s, I), s, I)
<1>1. IsFiniteSet(I) /\ Cardinality(I) \in Nat
  <2>1. IsFiniteSet(1 .. n)
    BY FS_Interval
  <2> QED  BY <2>1, FS_Subset, FS_CardinalityType
<1>2. PICK ps : ps = [j \in 1 .. n |-> IF j \in I THEN "call" ELSE "text"]
  OBVIOUS
<1>3. Len(ps) = n
  <2>1. ps = [j \in 1 .. n |-> ps[j]]
    BY <1>2
  <2> QED  BY <2>1, FunctionIsSeq
<1>4. \A i \in 1 .. (n + 1) : Rank(ps, i) = Cardinality({k \in I : k < i})
  <2> SUFFICES ASSUME NEW i \in 1 .. (n + 1)  PROVE Rank(ps, i) = Cardinality({k \in I : k < i})
    OBVIOUS
  <2>1. \A j \in 1 .. n : ps[j] = "call" <=> j \in I
    BY <1>2
  <2>2. 1 .. (i - 1) \subseteq 1 .. n /\ \A k \in 1 .. n : k \in 1 .. (i - 1) <=> k < i
    OBVIOUS
  <2>3. PICK A : A = {j \in 1 .. (i - 1) : ps[j] = "call"}
    OBVIOUS
  <2>4. A = {k \in I : k < i}
    BY ONLY <2>1, <2>2, <2>3, I \subseteq 1 .. n
  <2>5. Rank(ps, i) = Cardinality(A)
    BY ONLY <2>3 DEF Rank
  <2> QED  BY ONLY <2>4, <2>5
<1>5. Rank(ps, n + 1) = Cardinality(I)
  <2>1. {k \in I : k < n + 1} = I
    <3>1. \A k \in I : k < n + 1
      OBVIOUS
    <3> QED  BY ONLY <3>1
  <2>2. n + 1 \in 1 .. (n + 1)
    OBVIOUS
  <2> QED  BY <1>4, <2>1, <2>2
<1> DEFINE nth(j) == CHOOSE i \in I : Cardinality({k \in I : k < i}) = j - 1
           f == [j \in 1 .. Cardinality(I) |-> s[nth(j)]]
<1>6. ASSUME NEW j \in 1 .. Cardinality(I)  PROVE nth(j) \in I
  <2>1. PICK i \in 1 .. n : IsNth(ps, i, j)
    BY <1>3, <1>5, NthExists
  <2>2. i \in I
    BY <1>2, <2>1 DEF IsNth
  <2>3. Cardinality({k \in I : k < i}) = j - 1
    BY <1>4, <2>1 DEF IsNth
  <2> QED  BY <2>2, <2>3
<1>7. Those(s, I) = f
  BY DEF Those
<1> HIDE DEF nth
<1>8. f = [j \in 1 .. Cardinality(I) |-> f[j]]
  OBVIOUS
<1>9. \A j \in 1 .. Cardinality(I) : f[j] = s[nth(j)]
  OBVIOUS
<1> HIDE DEF f
<1>10. IsSeq(f) /\ Len(f) = Cardinality(I)
  BY <1>1, <1>8, FunctionIsSeq
<1> QED  BY <1>1, <1>6, <1>7, <1>9, <1>10 DEF PickedOut

LEMMA SeqDomain ==
    ASSUME NEW b, IsSeq(b)
    PROVE  DOMAIN b = 1 .. Len(b) /\ Len(b) \in Nat
BY LenProperties DEF IsSeq

LEMMA FreeIs ==
    ASSUME NEW m, IsFiniteSet(DOMAIN m), NEW taken, IsFiniteSet(taken)
    PROVE  /\ Free(m, taken) \in Nat /\ Alias(Free(m, taken)) \notin taken
           /\ \A v \in DOMAIN m : m[v] # Alias(Free(m, taken))
<1>1. PICK D, V : D = DOMAIN m /\ V = {m[v] : v \in DOMAIN m}
  OBVIOUS
<1>2. IsFiniteSet(V)
  <2>1. PICK f : f = [v \in D |-> m[v]]
    OBVIOUS
  <2>2. f \in Surjection(D, V)
    BY <1>1, <2>1 DEF Surjection
  <2> QED  BY <1>1, <2>2, FS_Surjection
<1>3. PICK used : used = taken \cup V
  OBVIOUS
<1>4. PICK from, c : from = Cardinality(D) /\ c = Cardinality(used)
  OBVIOUS
<1>5. IsFiniteSet(used) /\ from \in Nat /\ c \in Nat
  BY <1>1, <1>2, <1>3, <1>4, FS_Union, FS_CardinalityType
<1>6. PICK S, T : S = from .. (from + c) /\ T = {n \in S : Alias(n) \notin used}
  OBVIOUS
<1>7. T # {}
  <2> SUFFICES ASSUME T = {}  PROVE FALSE
    OBVIOUS
  <2>1. IsFiniteSet(S) /\ Cardinality(S) = c + 1
    <3>1. from \in Int /\ from + c \in Int /\ ~(from > from + c) /\ (from + c) - from + 1 = c + 1
      BY <1>5
    <3> QED  BY <1>6, <3>1, FS_Interval
  <2>2. PICK f : f = [n \in S |-> Alias(n)]
    OBVIOUS
  <2>3. f \in [S -> used]
    BY <1>6, <2>2
  <2>4. Cardinality(used) < Cardinality(S)
    BY <1>4, <1>5, <2>1
  <2>5. PICK x, y \in S : x # y /\ f[x] = f[y]
    BY <1>5, <2>1, <2>3, <2>4, FS_PigeonHole
  <2>6. Alias(x) = Alias(y)
    BY <2>2, <2>5
  <2>7. Alias(x).name = x /\ Alias(y).name = y
    BY DEF Alias
  <2> QED  BY <2>5, <2>6, <2>7
<1>8. PICK n \in T : \A k \in T : n <= k
  <2>1. T \subseteq Nat
    BY <1>5, <1>6
  <2> QED  BY <1>7, <2>1, LeastNatural, Zenon
<1>9. /\ n \in from .. (from + Cardinality(used)) /\ Alias(n) \notin used
      /\ \A k \in from .. (n - 1) : Alias(k) \in used
  <2>1. n \in S /\ Alias(n) \notin used /\ n \in Nat
    BY <1>5, <1>6, <1>8
  <2>2. ASSUME NEW k \in from .. (n - 1)  PROVE Alias(k) \in used
    <3>1. k \in S /\ k < n
      BY <1>5, <1>6, <2>1
    <3>2. k \notin T
      BY <1>5, <1>6, <1>8, <2>1, <3>1
    <3> QED  BY <1>6, <3>1, <3>2
  <2> QED  BY <1>4, <1>6, <2>1, <2>2
<1>10. PICK l : l = CHOOSE y \in from .. (from + Cardinality(used)) :
                      Alias(y) \notin used /\ \A k \in from .. (y - 1) : Alias(k) \in used
  OBVIOUS
<1>11. l \in from .. (from + c) /\ Alias(l) \notin used
  BY <1>4, <1>9, <1>10
<1>12. Free(m, taken) = l
  BY <1>1, <1>3, <1>4, <1>10 DEF Free
<1> QED  BY <1>1, <1>3, <1>5, <1>11, <1>12

\* One more tool that is declared.
Widened(m, tool, taken) ==
    IF ~Namespaced(tool) THEN m
    ELSE [v \in DOMAIN m \cup {tool} |-> IF v = tool THEN Alias(Free(m, taken)) ELSE m[v]]
Widens(f, tools, taken, n) ==
    f = [i \in 0 .. n |-> IF i = 0 THEN [v \in {} |-> Alias(0)] ELSE Widened(f[i - 1], tools[i], taken)]

LEMMA WidensExists ==
    ASSUME NEW tools, NEW taken, NEW n \in Nat
    PROVE  \E f : Widens(f, tools, taken, n)
<1> DEFINE G == {m \in 0 .. n : \E f : Widens(f, tools, taken, m)}
<1>0. PICK o : o = [v \in {} |-> Alias(0)]
  OBVIOUS
<1>1. 0 \in G
  <2> DEFINE f == [i \in 0 .. 0 |-> o]
  <2>1. f = [i \in 0 .. 0 |-> IF i = 0 THEN o ELSE Widened(f[i - 1], tools[i], taken)]
    OBVIOUS
  <2> HIDE DEF f
  <2>2. Widens(f, tools, taken, 0)
    BY <1>0, <2>1 DEF Widens
  <2> QED  BY <2>2
<1>2. ASSUME NEW m \in 0 .. n, m < n, m \in G  PROVE m + 1 \in G
  <2>1. PICK f : Widens(f, tools, taken, m)
    BY <1>2
  <2> DEFINE h == [i \in 0 .. (m + 1) |-> IF i = m + 1 THEN Widened(f[m], tools[m + 1], taken) ELSE f[i]]
  <2>2. \A i \in 0 .. m : f[i] = IF i = 0 THEN o ELSE Widened(f[i - 1], tools[i], taken)
    BY <1>0, <2>1 DEF Widens
  <2>3. \A i \in 0 .. (m + 1) : h[i] = IF i = 0 THEN o ELSE Widened(h[i - 1], tools[i], taken)
    <3>1. SUFFICES ASSUME NEW i \in 0 .. (m + 1)
                   PROVE  h[i] = IF i = 0 THEN o ELSE Widened(h[i - 1], tools[i], taken)
      OBVIOUS
    <3>2. CASE i = m + 1
      <4>1. h[i] = Widened(f[m], tools[m + 1], taken) /\ h[i - 1] = f[m]
        BY <3>2
      <4> QED  BY <3>2, <4>1
    <3>3. CASE i = 0
      BY <2>2, <3>3
    <3>4. CASE i \in 1 .. m
      <4>1. h[i] = f[i] /\ h[i - 1] = f[i - 1]
        BY <3>4
      <4> QED  BY <2>2, <3>4, <4>1
    <3> QED  BY <3>2, <3>3, <3>4
  <2>4. h = [i \in 0 .. (m + 1) |-> IF i = 0 THEN o ELSE Widened(h[i - 1], tools[i], taken)]
    <3>1. h = [i \in 0 .. (m + 1) |-> h[i]]
      OBVIOUS
    <3> HIDE DEF h
    <3> QED  BY <2>3, <3>1, Zenon
  <2> HIDE DEF h
  <2>5. Widens(h, tools, taken, m + 1)
    BY <1>0, <2>4 DEF Widens
  <2>6. m + 1 \in 0 .. n /\ \E g : Widens(g, tools, taken, m + 1)
    BY <1>2, <2>5
  <2> QED  BY <2>6
<1> HIDE DEF G
<1>3. n \in G
  BY <1>1, <1>2, Ladder
<1> QED  BY <1>3 DEF G

LEMMA FlattenedIs ==
    ASSUME NEW tools, Len(tools) \in Nat, NEW taken
    PROVE  \E f : /\ f[0] = [v \in {} |-> Alias(0)]
                  /\ \A i \in 1 .. Len(tools) : f[i] = Widened(f[i - 1], tools[i], taken)
                  /\ flatten(tools, taken) = f[Len(tools)]
<1> DEFINE f == CHOOSE f : f = [i \in 0 .. Len(tools) |->
                  IF i = 0 THEN [v \in {} |-> Alias(0)]
                  ELSE LET m == f[i - 1]
                       IN  IF ~Namespaced(tools[i]) THEN m
                           ELSE [v \in DOMAIN m \cup {tools[i]} |->
                                  IF v = tools[i] THEN Alias(Free(m, taken)) ELSE m[v]]]
<1>1. \E g : Widens(g, tools, taken, Len(tools))
  BY WidensExists
<1>2. f = CHOOSE g : Widens(g, tools, taken, Len(tools))
  BY DEF Widens, Widened
<1>3. Widens(f, tools, taken, Len(tools))
  BY <1>1, <1>2
<1>4. flatten(tools, taken) = f[Len(tools)]
  BY DEF flatten
<1> HIDE DEF f
<1>5. f[0] = [v \in {} |-> Alias(0)] /\ \A i \in 1 .. Len(tools) : f[i] = Widened(f[i - 1], tools[i], taken)
  BY <1>3 DEF Widens
<1> QED  BY <1>4, <1>5

\* The aliases m of the first k tools: no name that is taken, no two alike.
Aliases(m, tools, taken, k) ==
    /\ IsFiniteSet(DOMAIN m)
    /\ \A v \in DOMAIN m : Namespaced(v) /\ m[v] \notin taken /\ m[v] # NoName
    /\ \A v, u \in DOMAIN m : m[v] = m[u] => v = u
    /\ \A j \in 1 .. k : Namespaced(tools[j]) => tools[j] \in DOMAIN m

LEMMA AliasesOn ==
    ASSUME NEW m, NEW tools, NEW taken, IsFiniteSet(taken), NEW k \in Nat, Aliases(m, tools, taken, k),
           NEW j, j = k + 1, NEW x, x = Widened(m, tools[j], taken)
    PROVE  Aliases(x, tools, taken, j)
<1>1. PICK tool : tool = tools[j]
  OBVIOUS
<1>2. \A i \in 1 .. j : i \in 1 .. k \/ i = j
  OBVIOUS
<1>3. CASE ~Namespaced(tool)
  <2>1. x = m
    BY <1>1, <1>3 DEF Widened
  <2> QED  BY <1>1, <1>2, <1>3, <2>1 DEF Aliases
<1>4. CASE Namespaced(tool)
  <2>1. PICK a : a = Alias(Free(m, taken))
    OBVIOUS
  <2>2. a \notin taken /\ \A v \in DOMAIN m : m[v] # a
    BY <2>1, FreeIs DEF Aliases
  <2>3. a # NoName
    BY <2>1 DEF Alias, NoName
  <2>4. x = [v \in DOMAIN m \cup {tool} |-> IF v = tool THEN a ELSE m[v]]
    BY <1>1, <1>4, <2>1 DEF Widened
  <2>5. DOMAIN x = DOMAIN m \cup {tool} /\ x[tool] = a /\ \A v \in DOMAIN m : v # tool => x[v] = m[v]
    BY <2>4
  <2>6. IsFiniteSet(DOMAIN x)
    BY <2>5, FS_AddElement DEF Aliases
  <2>7. \A v \in DOMAIN x : Namespaced(v) /\ x[v] \notin taken /\ x[v] # NoName
    BY <1>4, <2>2, <2>3, <2>5 DEF Aliases
  <2>8. \A v, u \in DOMAIN x : x[v] = x[u] => v = u
    BY <2>2, <2>5 DEF Aliases
  <2>9. \A i \in 1 .. j : Namespaced(tools[i]) => tools[i] \in DOMAIN x
    BY <1>1, <1>2, <2>5 DEF Aliases
  <2> QED  BY ONLY <2>6, <2>7, <2>8, <2>9 DEF Aliases
<1> QED  BY <1>3, <1>4

LEMMA FlattenNames ==
    ASSUME NEW tools, Len(tools) \in Nat, NEW taken, IsFiniteSet(taken)
    PROVE  Aliases(flatten(tools, taken), tools, taken, Len(tools))
<1>1. PICK f : /\ f[0] = [v \in {} |-> Alias(0)]
               /\ \A i \in 1 .. Len(tools) : f[i] = Widened(f[i - 1], tools[i], taken)
               /\ flatten(tools, taken) = f[Len(tools)]
  BY FlattenedIs
<1>2. PICK n : n = Len(tools)
  OBVIOUS
<1> DEFINE G == {i \in 0 .. n : Aliases(f[i], tools, taken, i)}
<1>3. 0 \in G
  <2>1. DOMAIN f[0] = {}
    BY <1>1
  <2>2. Aliases(f[0], tools, taken, 0)
    BY <2>1, FS_EmptySet DEF Aliases
  <2> QED  BY <1>2, <2>2
<1>4. ASSUME NEW i \in 0 .. n, i < n, i \in G  PROVE i + 1 \in G
  <2>1. PICK j : j = i + 1
    OBVIOUS
  <2>2. j \in 1 .. n /\ i \in Nat /\ j - 1 = i /\ j \in 0 .. n
    BY <1>2, <1>4, <2>1
  <2>3. f[j] = Widened(f[i], tools[j], taken)
    BY <1>1, <1>2, <2>2
  <2>4. Aliases(f[j], tools, taken, j)
    BY <1>4, <2>1, <2>2, <2>3, AliasesOn
  <2> QED  BY <2>1, <2>2, <2>4
<1> HIDE DEF G
<1>5. n \in G
  BY <1>2, <1>3, <1>4, Ladder
<1> QED  BY <1>1, <1>2, <1>5 DEF G

LEMMA DeclaredAre ==
    ASSUME NEW w
    PROVE  Len(Declared(w)) \in Nat \ {0} /\ \A j \in 1 .. Len(Declared(w)) : Declared(w)[j] \in Range(Tools)
<1>1. PICK n : n = Len(Tools)
  OBVIOUS
<1>2. n \in Nat /\ DOMAIN Tools = 1 .. n /\ \A i \in 1 .. n : Tools[i] \in Range(Tools)
  BY <1>1, ReplyAssumption, LenProperties DEF Range
<1>3. CASE w = Responses
  <2>1. Declared(w) = Tools
    BY <1>3 DEF Declared
  <2>2. n # 0
    BY <1>2, ReplyAssumption
  <2> QED  BY <1>1, <1>2, <2>1, <2>2
<1>4. CASE w # Responses
  <2>1. PICK I : I = {i \in DOMAIN Tools : ~Namespaced(Tools[i])}
    OBVIOUS
  <2>2. I \subseteq 1 .. n /\ I # {}
    BY <1>2, <2>1, ReplyAssumption
  <2>3. PICK b, c : b = Those(Tools, I) /\ c = Cardinality(I)
    OBVIOUS
  <2>4. Len(b) = c /\ c \in Nat /\ \A j \in 1 .. c : \E i \in I : b[j] = Tools[i]
    <3>1. n \in Nat /\ I \subseteq 1 .. n
      BY ONLY <1>2, <2>2
    <3>2. PickedOut(b, Tools, I)
      BY ONLY <2>3, <3>1, ThoseAre
    <3> QED  BY ONLY <2>3, <3>2 DEF PickedOut
  <2>5. c # 0
    <3>1. IsFiniteSet(1 .. n)
      BY <1>2, FS_Interval
    <3>2. IsFiniteSet(I)
      BY <2>2, <3>1, FS_Subset
    <3> QED  BY ONLY <2>2, <2>3, <3>2, FS_EmptySet
  <2>6. Declared(w) = b
    BY <1>4, <2>1, <2>3 DEF Declared
  <2> QED  BY ONLY <1>2, <2>2, <2>4, <2>5, <2>6
<1> QED  BY <1>3, <1>4

NoNames == [y \in {} |-> y]

LEMMA NoNamesAre ==
    ASSUME NEW tool
    PROVE  Flat(NoNames, tool) = tool /\ restore_item(NoNames, tool) = tool
BY DEF NoNames, Flat, restore_item

LEMMA CalledAre ==
    ASSUME NEW h, IsSeq(h)
    PROVE  IsFiniteSet({h[i].name : i \in {j \in 1 .. Len(h) : h[j].k = "use"}})
<1>1. PICK J, V : J = {j \in 1 .. Len(h) : h[j].k = "use"} /\ V = {h[i].name : i \in {j \in 1 .. Len(h) : h[j].k = "use"}}
  OBVIOUS
<1>2. IsFiniteSet(1 .. Len(h))
  BY SeqDomain, FS_Interval
<1>3. IsFiniteSet(J)
  <2>1. J \subseteq 1 .. Len(h)
    BY <1>1
  <2> QED  BY <1>2, <2>1, FS_Subset
<1>4. PICK f : f = [i \in J |-> h[i].name]
  OBVIOUS
<1>5. f \in Surjection(J, V)
  BY <1>1, <1>4 DEF Surjection
<1>6. IsFiniteSet(V)
  BY ONLY <1>3, <1>5, FS_Surjection
<1> QED  BY <1>1, <1>6

LEMMA ToolsFinite == IsFiniteSet(Range(Tools))
<1>1. PICK f, n, R : f = Tools /\ n = Len(Tools) /\ R = Range(Tools)
  OBVIOUS
<1>2. n \in Nat /\ DOMAIN f = 1 .. n /\ f \in Seq(R)
  BY <1>1, ReplyAssumption, LenProperties
<1>3. IsFiniteSet(1 .. n)
  BY <1>2, FS_Interval
<1>4. f \in Surjection(1 .. n, R)
  <2>1. f = [i \in 1 .. n |-> f[i]] /\ R = {f[i] : i \in 1 .. n}
    BY <1>1, <1>2 DEF Range
  <2> QED  BY ONLY <2>1 DEF Surjection
<1>5. IsFiniteSet(R)
  BY ONLY <1>3, <1>4, FS_Surjection
<1> QED  BY <1>1, <1>5

\* A tool that is declared has a name on the wire, and is known by it again.
LEMMA NamesAre ==
    ASSUME NEW w, NEW target, NEW h, IsSeq(h), NEW m, m = Names(w, target, h), NEW tool \in Range(Tools)
    PROVE  /\ Flat(m, tool) # NoName
           /\ (IF w = Responses THEN restore_item(m, Flat(m, tool)) ELSE Flat(m, tool)) = tool
<1>1. tool # NoName
  BY ReplyAssumption DEF Range
<1>2. CASE w # Responses \/ target # Chat
  <2>1. m = NoNames
    BY <1>2 DEF Names, NoNames
  <2>2. Flat(m, tool) = tool /\ restore_item(m, tool) = tool
    BY <2>1, NoNamesAre
  <2> QED  BY <1>1, <2>2
<1>3. CASE w = Responses /\ target = Chat
  <2>1. PICK called, taken : /\ called = {h[i].name : i \in {j \in 1 .. Len(h) : h[j].k = "use"}}
                             /\ taken = {x \in Range(Tools) \cup called : ~Namespaced(x)}
    OBVIOUS
  <2>2. m = flatten(Tools, taken)
    BY <1>3, <2>1, Zenon DEF Names
  <2>3. IsFiniteSet(taken)
    <3>1. IsFiniteSet(Range(Tools)) /\ IsFiniteSet(called)
      BY <2>1, ToolsFinite, CalledAre
    <3>2. IsFiniteSet(Range(Tools) \cup called)
      BY ONLY <3>1, FS_Union
    <3>3. taken \subseteq Range(Tools) \cup called
      BY ONLY <2>1
    <3> QED  BY ONLY <3>2, <3>3, FS_Subset
  <2>4. Len(Tools) \in Nat /\ DOMAIN Tools = 1 .. Len(Tools)
    BY ReplyAssumption, LenProperties
  <2>5. Aliases(m, Tools, taken, Len(Tools))
    BY <2>2, <2>3, <2>4, FlattenNames
  <2>6. CASE Namespaced(tool)
    <3>1. tool \in DOMAIN m
      BY <2>4, <2>5, <2>6 DEF Range, Aliases
    <3>2. Flat(m, tool) = m[tool]
      BY <3>1 DEF Flat
    <3>3. \A y \in DOMAIN m : m[y] = m[tool] => y = tool
      BY <2>5, <3>1 DEF Aliases
    <3>4. restore_item(m, m[tool]) = tool
      BY ONLY <3>1, <3>3 DEF restore_item
    <3>5. m[tool] # NoName
      BY <2>5, <3>1 DEF Aliases
    <3> QED  BY ONLY <1>3, <3>2, <3>4, <3>5
  <2>7. CASE ~Namespaced(tool)
    <3>1. tool \notin DOMAIN m
      BY <2>5, <2>7 DEF Aliases
    <3>2. Flat(m, tool) = tool
      BY <3>1 DEF Flat
    <3>3. tool \in taken
      BY <2>1, <2>7
    <3>4. \A y \in DOMAIN m : m[y] # tool
      BY <2>5, <3>3 DEF Aliases
    <3>5. restore_item(m, tool) = tool
      BY ONLY <3>4 DEF restore_item
    <3> QED  BY ONLY <1>1, <1>3, <3>2, <3>5
  <2> QED  BY <2>6, <2>7
<1> QED  BY <1>2, <1>3

LEMMA ToolsNamed ==
    ASSUME NEW w, NEW target, NEW h, IsSeq(h), NEW m, m = Names(w, target, h),
           NEW ps, NEW i, Rank(ps, i) \in Nat, NEW name, name = ToolOf(w, m, ps, i)
    PROVE  /\ name # NoName
           /\ (IF w = Responses THEN restore_item(m, name) ELSE name) = ToolOf(w, NoNames, ps, i)
<1>1. PICK tool, n, j : n = Len(Declared(w)) /\ j = (Rank(ps, i) % n) + 1 /\ tool = Declared(w)[j]
  OBVIOUS
<1>2. n \in Nat \ {0} /\ \A k \in 1 .. n : Declared(w)[k] \in Range(Tools)
  BY <1>1, DeclaredAre
<1>3. j \in 1 .. n
  BY ONLY <1>1, <1>2, Rank(ps, i) \in Nat
<1>4. tool \in Range(Tools)
  BY ONLY <1>1, <1>2, <1>3
<1>5. name = Flat(m, tool) /\ ToolOf(w, NoNames, ps, i) = Flat(NoNames, tool)
  BY <1>1 DEF ToolOf
<1>6. ToolOf(w, NoNames, ps, i) = tool
  BY <1>5, NoNamesAre
<1>7. /\ Flat(m, tool) # NoName
      /\ (IF w = Responses THEN restore_item(m, Flat(m, tool)) ELSE Flat(m, tool)) = tool
  BY <1>4, NamesAre
<1> QED  BY ONLY <1>5, <1>6, <1>7

-----------------------------------------------------------------------------
(* A client's history is a sequence, so what it calls is known.            *)

LEMMA OneIsSeq ==
    ASSUME NEW x
    PROVE  IsSeq(<<>>) /\ IsSeq(<<x>>)
<1>1. <<>> \in Seq({}) /\ <<x>> \in Seq({x})
  OBVIOUS
<1> QED  BY <1>1 DEF IsSeq

LEMMA OnlyIsSeq ==
    ASSUME NEW b, IsSeq(b), NEW kinds
    PROVE  IsSeq(Only(b, kinds))
<1>1. PICK I : I = {i \in DOMAIN b : b[i].k \in kinds}
  OBVIOUS
<1>2. I \subseteq 1 .. Len(b) /\ Len(b) \in Nat
  BY <1>1, SeqDomain
<1>3. PickedOut(Those(b, I), b, I)
  BY ONLY <1>2, ThoseAre
<1> QED  BY <1>1, <1>3 DEF Only, PickedOut

LEMMA RestIsSeq ==
    ASSUME NEW b, IsSeq(b)
    PROVE  IsSeq(Those(b, {i \in DOMAIN b : b[i].k # "use"}))
<1>1. PICK I : I = {i \in DOMAIN b : b[i].k # "use"}
  OBVIOUS
<1>2. I \subseteq 1 .. Len(b) /\ Len(b) \in Nat
  BY <1>1, SeqDomain
<1>3. PickedOut(Those(b, I), b, I)
  BY ONLY <1>2, ThoseAre
<1> QED  BY <1>1, <1>3 DEF PickedOut

LEMMA SpellIsSeq ==
    ASSUME NEW b, IsSeq(b), NEW w
    PROVE  IsSeq(Spell(b, w))
<1>1. PICK I, kept, f : /\ I = {i \in DOMAIN b : Kept(b[i], w)} /\ kept = Those(b, I)
                        /\ f = [i \in 1 .. Len(kept) |-> Spelled(kept[i], w)]
  OBVIOUS
<1>2. I \subseteq 1 .. Len(b) /\ Len(b) \in Nat
  BY <1>1, SeqDomain
<1>3. PickedOut(Those(b, I), b, I)
  BY ONLY <1>2, ThoseAre
<1>4. Len(kept) \in Nat
  BY <1>1, <1>3 DEF PickedOut
<1>5. f = [i \in 1 .. Len(kept) |-> f[i]]
  BY ONLY <1>1
<1>6. IsSeq(f)
  BY ONLY <1>4, <1>5, FunctionIsSeq
<1>7. Spell(b, w) = f
  BY ONLY <1>1 DEF Spell
<1> QED  BY ONLY <1>6, <1>7

LEMMA CompletionIsSeq ==
    ASSUME NEW b, IsSeq(b), NEW w, NEW m, NEW target
    PROVE  IsSeq(emit_completion(w, m, parse_completion(target, b)))
<1>1. PICK c : c = [i \in 1 .. Len(b) |-> Read(b[i], target)]
  OBVIOUS
<1>2. IsSeq(c)
  <2>1. Len(b) \in Nat
    BY SeqDomain
  <2>2. c = [i \in 1 .. Len(b) |-> c[i]]
    BY ONLY <1>1
  <2> QED  BY ONLY <2>1, <2>2, FunctionIsSeq
<1>3. PICK out, f : /\ out = Spell(c, w)
                    /\ f = [i \in 1 .. Len(out) |->
                             IF out[i].k = "use" THEN [out[i] EXCEPT !.name = restore_item(m, @)] ELSE out[i]]
  OBVIOUS
<1>4. Len(out) \in Nat
  BY <1>2, <1>3, SpellIsSeq, SeqDomain
<1>5. f = [i \in 1 .. Len(out) |-> f[i]]
  BY ONLY <1>3
<1>6. IsSeq(f)
  BY ONLY <1>4, <1>5, FunctionIsSeq
<1>7. emit_completion(w, m, parse_completion(target, b)) = f
  BY ONLY <1>1, <1>3 DEF emit_completion, parse_completion, ReadAll
<1> QED  BY ONLY <1>6, <1>7

LEMMA BlocksIsSeq ==
    ASSUME NEW w, NEW target, NEW m, NEW n, NEW pieces, Len(pieces) \in Nat
    PROVE  IsSeq(Blocks(w, target, m, n, pieces))
<1> DEFINE block(i) == CASE pieces[i] = "think" -> Thought(target)
                         [] pieces[i] = "text" -> TextBlock(i)
                         [] pieces[i] = "call" -> Use(Minted(target, n, pieces, i), ToolOf(w, m, pieces, i))
<1>1. PICK all : all = [i \in 1 .. Len(pieces) |-> block(i)]
  BY Zenon
<1>2. IsSeq(all)
  <2> HIDE DEF block
  <2>1. all = [i \in 1 .. Len(pieces) |-> all[i]]
    BY ONLY <1>1
  <2> QED  BY ONLY <2>1, Len(pieces) \in Nat, FunctionIsSeq
<1>3. Blocks(w, target, m, n, pieces) =
        IF target = Chat THEN Those(all, {i \in DOMAIN all : all[i].k # "use"}) \o Only(all, {"use"}) ELSE all
  BY ONLY <1>1 DEF Blocks
<1>4. IsSeq(Those(all, {i \in DOMAIN all : all[i].k # "use"}) \o Only(all, {"use"}))
  BY <1>2, RestIsSeq, OnlyIsSeq, ConcatIsSeq
<1> QED  BY <1>2, <1>3, <1>4

LEMMA UserSaysIsSeq ==
    ASSUME NEW w, NEW doc
    PROVE  IsSeq(UserSays(w, doc))
BY OneIsSeq DEF UserSays

LEMMA KeepsIsSeq ==
    ASSUME NEW w \in Wire, NEW b, IsSeq(b)
    PROVE  IsSeq(Keeps(w, b))
<1>1. PICK f, x, y : /\ f = [i \in 1 .. Len(b) |->
                              IF b[i].k = "text" THEN [k |-> "message", role |-> "assistant", parts |-> <<b[i]>>]
                              ELSE b[i]]
                     /\ x = [role |-> "assistant", parts |-> b]
                     /\ y = [role |-> "assistant", parts |-> Only(b, {"text"}), calls |-> Only(b, {"use"})]
  BY Zenon
<1>2. IsSeq(f)
  <2>1. Len(b) \in Nat
    BY SeqDomain
  <2>2. f = [i \in 1 .. Len(b) |-> f[i]]
    BY ONLY <1>1
  <2> QED  BY ONLY <2>1, <2>2, FunctionIsSeq
<1>3. Keeps(w, b) = CASE b = <<>> -> <<>>
                      [] b # <<>> /\ w = Anthropic -> <<x>>
                      [] b # <<>> /\ w = Chat -> <<y>>
                      [] b # <<>> /\ w = Responses -> f
  BY ONLY <1>1 DEF Keeps
<1>4. Keeps(w, b) \in {<<>>, <<x>>, <<y>>, f}
  BY ONLY <1>3, w \in Wire DEF Wire, Anthropic, Chat, Responses
<1> QED  BY <1>2, <1>4, OneIsSeq

LEMMA ResultsIsSeq ==
    ASSUME NEW w \in Wire, NEW c, IsSeq(c)
    PROVE  IsSeq(Results(w, c))
<1>1. PICK f, g, x : /\ f = [i \in 1 .. Len(c) |-> Result(c[i].id)]
                     /\ g = [i \in 1 .. Len(c) |-> [role |-> "tool", id |-> c[i].id]]
                     /\ x = [role |-> "user", parts |-> Append(f, TextBlock(0))]
  BY Zenon
<1>2. IsSeq(f) /\ IsSeq(g)
  <2>1. Len(c) \in Nat
    BY SeqDomain
  <2>2. f = [i \in 1 .. Len(c) |-> f[i]] /\ g = [i \in 1 .. Len(c) |-> g[i]]
    BY ONLY <1>1
  <2> QED  BY ONLY <2>1, <2>2, FunctionIsSeq
<1>3. Results(w, c) = CASE c = <<>> -> <<>>
                      [] c # <<>> /\ w = Anthropic -> <<x>>
                      [] c # <<>> /\ w = Chat -> g
                      [] c # <<>> /\ w = Responses -> f
  BY ONLY <1>1 DEF Results
<1>4. Results(w, c) \in {<<>>, <<x>>, g, f}
  BY ONLY <1>3, w \in Wire DEF Wire, Anthropic, Chat, Responses
<1> QED  BY <1>2, <1>4, OneIsSeq

LEMMA ContinuedIsSeq ==
    ASSUME NEW w \in Wire, NEW b, IsSeq(b), NEW runs, NEW doc
    PROVE  IsSeq(Continued(w, b, runs, doc))
<1>1. PICK kept, results, more : /\ kept = IF runs THEN b ELSE Only(b, {"text", "reasoning"})
                                 /\ results = Results(w, Only(kept, {"use"}))
                                 /\ more = IF results # <<>> THEN results ELSE UserSays(w, doc)
  BY Zenon
<1>2. IsSeq(kept)
  BY <1>1, OnlyIsSeq
<1>3. IsSeq(results)
  BY <1>1, <1>2, OnlyIsSeq, ResultsIsSeq
<1>4. IsSeq(more)
  BY <1>1, <1>3, UserSaysIsSeq
<1>5. IsSeq(Keeps(w, kept) \o more)
  BY <1>2, <1>4, KeepsIsSeq, ConcatIsSeq
<1>6. Continued(w, b, runs, doc) = Keeps(w, kept) \o more
  BY ONLY <1>1 DEF Continued
<1> QED  BY ONLY <1>5, <1>6

LEMMA GivenIsSeq == ASSUME IsSeq(got)  PROVE IsSeq(Given)
<1>1. PICK es, f : /\ es = Only(got, {"text", "call"})
                   /\ f = [i \in 1 .. Len(es) |-> IF es[i].k = "text" THEN TextBlock(es[i].t) ELSE Use(es[i].id, es[i].name)]
  BY Zenon
<1>2. Len(es) \in Nat
  BY <1>1, OnlyIsSeq, SeqDomain
<1>3. f = [i \in 1 .. Len(es) |-> f[i]]
  BY ONLY <1>1
<1>4. IsSeq(f)
  BY ONLY <1>2, <1>3, FunctionIsSeq
<1>5. Given = f
  BY ONLY <1>1 DEF Given
<1> QED  BY ONLY <1>4, <1>5

\* Its history, and how often it spoke.
HistInv == IsSeq(hist) /\ turn \in Nat

LEMMA ReadsOn ==
    ASSUME ReplyInv, HistInv, NEW b, IsSeq(b), NEW runs, Read_(b, runs), turn' \in {turn, turn + 1}
    PROVE  HistInv'
<1>1. PICK doc \in BOOLEAN : hist' = hist \o Continued(wire, b, runs, doc)
  BY DEF Read_
<1>2. wire \in Wire
  BY DEF ReplyInv
<1>3. IsSeq(Continued(wire, b, runs, doc))
  BY ONLY <1>2, IsSeq(b), ContinuedIsSeq
<1>4. IsSeq(hist \o Continued(wire, b, runs, doc))
  BY <1>3, ConcatIsSeq DEF HistInv
<1>5. turn' \in Nat
  BY DEF HistInv
<1> QED  BY <1>1, <1>4, <1>5 DEF HistInv

LEMMA PiecesSeq ==
    ASSUME NEW pieces \in Replies
    PROVE  pieces \in Seq({"think", "text", "call"}) /\ Len(pieces) \in Nat
BY ReplyAssumption, LenProperties

LEMMA HistInvStep == ReplyInv /\ HistInv /\ [Next]_vars => HistInv'
<1> SUFFICES ASSUME ReplyInv, HistInv, [Next]_vars  PROVE HistInv'
  OBVIOUS
<1>1. CASE Native
  <2>1. PICK pieces \in Replies : /\ turn' = turn + 1
                                  /\ Read_(Blocks(wire, wire, [x \in {} |-> x], turn, pieces), TRUE)
    BY <1>1 DEF Native
  <2> QED  BY <2>1, PiecesSeq, BlocksIsSeq, ReadsOn
<1>2. CASE \E target \in Wire : Ask(target)
  <2>1. hist' = hist /\ turn' = turn + 1
    BY <1>2 DEF Ask
  <2> QED  BY <2>1 DEF HistInv
<1>3. CASE \E target \in Wire : AskWhole(target)
  <2>1. PICK target \in Wire : AskWhole(target)
    BY <1>3
  <2>2. PICK pieces \in Replies, broke \in BOOLEAN :
          Read_(emit_completion(wire, Names(wire, target, hist),
                  parse_completion(target, IF broke THEN <<>>
                                           ELSE Blocks(wire, target, Names(wire, target, hist), turn, pieces))),
                Contains(pieces, "call"))
    BY <2>1 DEF AskWhole
  <2>3. PICK b : b = IF broke THEN <<>> ELSE Blocks(wire, target, Names(wire, target, hist), turn, pieces)
    OBVIOUS
  <2>4. IsSeq(b)
    BY <2>3, PiecesSeq, BlocksIsSeq, OneIsSeq
  <2>5. Read_(emit_completion(wire, Names(wire, target, hist), parse_completion(target, b)), Contains(pieces, "call"))
    BY <2>2, <2>3
  <2>6. turn' = turn + 1
    BY <2>1 DEF AskWhole
  <2> QED  BY <2>4, <2>5, <2>6, CompletionIsSeq, ReadsOn
<1>4. CASE Frame \/ Lose \/ Finish \/ Cut
  <2>1. hist' = hist /\ turn' = turn
    BY <1>4 DEF Frame, Lose, Finish, Cut
  <2> QED  BY <2>1 DEF HistInv
<1>5. CASE ReadReply
  <2>1. phase = "read" /\ turn' = turn /\ (Read_(<<>>, FALSE) \/ Read_(Given, RunsTools))
    BY <1>5 DEF ReadReply
  <2>2. IsSeq(got)
    BY <2>1 DEF ReplyInv, Over
  <2>3. IsSeq(<<>>) /\ IsSeq(Given)
    BY <2>2, OneIsSeq, GivenIsSeq
  <2> QED  BY <2>1, <2>3, ReadsOn
<1>6. CASE UNCHANGED vars
  BY <1>6 DEF vars, HistInv
<1> QED  BY <1>1, <1>2, <1>3, <1>4, <1>5, <1>6 DEF Next

LEMMA HistInvHolds == AnswerSpec => []HistInv
<1>1. AnswerInit => HistInv
  BY UserSaysIsSeq DEF AnswerInit, Init, HistInv
<1>2. ReplyInv /\ HistInv /\ [AnswerNext]_answered => HistInv'
  <2> SUFFICES ASSUME ReplyInv, HistInv, [AnswerNext]_answered  PROVE HistInv'
    OBVIOUS
  <2>1. [Next]_vars
    BY DEF AnswerNext, answered
  <2> QED  BY <2>1, HistInvStep
<1> QED  BY <1>1, <1>2, ReplyInvHolds, PTL DEF AnswerSpec

-----------------------------------------------------------------------------
(* From the request to the last event.                                     *)

\* The client g has the calls of L, shown as e shows them, and was told the end; or
\* the answer failed.
Delivered(g, w, L, source, e) == \E reason : Parting(g, w, L.C, Due(L, source, e), TRUE, reason)
\* It has some of them, and the translator u and the frames fs have the rest.
Coming(g, u, fs, L, e) == \E st : Tracks(g, u, fs, L, e, st)

LEMMA CallsStart ==
    ASSUME NEW L, NEW w, NEW target, NEW m, NEW n, NEW r, Answering(L, w, target, m, n, r), Calling(L),
           NEW p, p = Parser(target)
    PROVE  Knows(p, L, At(0, 0, 0, 0))
<1>1. PICK s : s = At(0, 0, 0, 0)
  OBVIOUS
<1>2. s.N = 0 /\ s.D = 0 /\ s.x = 0 /\ s.o = 0
  BY <1>1 DEF At
<1>3. IsParser(p) /\ p.source = target /\ p.slots = <<>> /\ p.stop = None /\ p.bytes = 0 /\ p.seen = <<>>
  <2>1. target \in Wire
    BY DEF Answering
  <2>2. IsParser(p) /\ p.source = target /\ p.slots = <<>>
    BY <2>1, NewParser
  <2>3. p.stop = None /\ p.bytes = 0 /\ p.seen = <<>>
    BY DEF Parser
  <2> QED  BY <2>2, <2>3
<1>4. L.C \in Nat /\ \A q \in 1 .. L.C : L.at[q] \in Nat
  BY DEF Calling
<1>5. IsSeq(<<>>) /\ Len(<<>>) = 0
  BY OneIsSeq
<1>6. Booked(p, L, 0, 0, 0)
  <2>1. Counts(L, 0, 0, 0)
    BY <1>4 DEF Counts
  <2>2. InSlots(<<>>, L, 0, 0, 0)
    BY <1>4, <1>5 DEF InSlots
  <2>3. Within(0, 0, 0)
    BY DEF Within
  <2> QED  BY ONLY <1>3, <2>1, <2>2, <2>3 DEF Booked
<1>7. Counted(p, L, 0)
  <2> SUFFICES ASSUME target = Responses  PROVE Counted(p, L, 0)
    BY <1>3 DEF Counted
  <2>1. PICK ps, C : ps = r.pieces /\ C = Rank(ps, Len(ps) + 1)
    OBVIOUS
  <2>2. L.C = C
    BY <2>1 DEF Answering, CallsOf
  <2>3. Len(ps) \in Nat
    BY <2>1, LenProperties DEF Answering
  <2>4. \A q \in 1 .. C : L.at[q] = q - 1
    BY <2>1 DEF Answering, CallsOf, Anthropic, Responses
  <2>5. ASSUME NEW q \in 1 .. C, NEW v \in 1 .. C, L.block[q] = L.block[v]  PROVE q = v
    <3>1. PICK i, j : i = CallAt(ps, q) /\ j = CallAt(ps, v)
      OBVIOUS
    <3>2. IsNth(ps, i, q) /\ IsNth(ps, j, v)
      BY <2>1, <2>3, <3>1, NthIs
    <3>3. L.block[q] = i - 1 /\ L.block[v] = j - 1
      BY <2>1, <3>1 DEF Answering, CallsOf
    <3>4. i \in Nat /\ j \in Nat /\ Rank(ps, i) = q - 1 /\ Rank(ps, j) = v - 1
      BY <3>2 DEF IsNth
    <3>5. i = j
      <4>1. i - 1 = j - 1
        BY <2>5, <3>3
      <4>2. i \in Nat /\ j \in Nat
        BY <3>4
      <4> QED  BY ONLY <4>1, <4>2
    <3>6. q - 1 = v - 1 /\ q \in Int /\ v \in Int
      BY <2>3, <3>4, <3>5
    <3> QED  BY ONLY <3>6
  <2> QED  BY ONLY <1>3, <1>5, <2>2, <2>4, <2>5 DEF Counted
<1>8. Knows(p, L, s)
  BY ONLY <1>2, <1>3, <1>6, <1>7, Calling(L) DEF Knows
<1> QED  BY <1>1, <1>8

LEMMA CallsAsked ==
    ASSUME NEW w \in Wire, NEW target \in Wire, NEW h, IsSeq(h), NEW m, m = Names(w, target, h), NEW n,
           NEW r, r.pieces \in Seq({"think", "text", "call"}), r.max \in BOOLEAN, Slight(target, r),
           NEW L, L = CallsOf(w, target, m, n, r), NEW u, u = Translator(target, w, m),
           NEW e, e = [target |-> w, names |-> m]
    PROVE  Coming(<<>>, u, Frames(w, target, m, n, r), L, e) /\ u.p.source = target
<1>1. Answering(L, w, target, m, n, r)
  BY DEF Answering
<1>2. PICK ps, fs : ps = r.pieces /\ fs = Frames(w, target, m, n, r)
  BY Zenon
<1>3. Len(ps) \in Nat
  BY <1>2, LenProperties
<1>4. \A i \in 1 .. Len(ps) : ToolOf(w, m, ps, i) # NoName
  <2> SUFFICES ASSUME NEW i \in 1 .. Len(ps)  PROVE ToolOf(w, m, ps, i) # NoName
    OBVIOUS
  <2>1. i \in 1 .. (Len(ps) + 1) /\ i <= i
    BY <1>3
  <2>2. Rank(ps, i) \in Nat
    BY <1>3, <2>1, RankGrows
  <2> QED  BY <2>2, ToolsNamed
<1>5. Calling(L)
  BY <1>1, <1>2, <1>4, CallingIs
<1>6. PICK st : st[1] = At(0, 0, 0, 0) /\ Score(fs, target, L, st)
  BY <1>1, <1>2, <1>5, FramesScore
<1>7. u.p = Parser(target) /\ u.e = Emitter(w, m)
  BY ONLY u = Translator(target, w, m) DEF Translator
<1>8. Knows(u.p, L, st[1])
  BY <1>1, <1>5, <1>6, <1>7, CallsStart
<1>9. u.p.source = target
  BY ONLY <1>7 DEF Parser
<1>10. u.e.failed = FALSE /\ u.e.target = w /\ u.e.names = m
  BY ONLY <1>7 DEF Emitter
<1>11. SameIn(u.e, e)
  BY <1>10 DEF SameIn
<1>12. st[1].D = 0
  BY <1>6 DEF At
<1>13. PICK OK : OK = Due(L, target, e)
  OBVIOUS
<1>14. Follows(u.e, <<>>, st[1].D, OK, TRUE)
  <2>1. Handed(<<>>, 0, OK, TRUE)
    BY HandedNothing
  <2> QED  BY ONLY <1>10, <1>12, <2>1 DEF Follows
<1>15. Tracks(<<>>, u, fs, L, e, st)
  BY ONLY <1>6, <1>8, <1>9, <1>11, <1>13, <1>14 DEF Tracks
<1> QED  BY <1>2, <1>9, <1>15 DEF Coming

LEMMA ComesToEnd ==
    ASSUME NEW u, NEW w, NEW g, Runs(u, w, g), NEW L, NEW e, NEW fs, NEW st,
           Tracks(g, u, fs, L, e, st), st[1].N = L.C, st[1].D = L.C
    PROVE  Delivered(g \o close(u).out, w, L, u.p.source, e)
<1>1. PICK s, OK, x : s = st[1] /\ OK = Due(L, u.p.source, e) /\ x = close(u)
  OBVIOUS
<1>2. Knows(u.p, L, s) /\ Follows(u.e, g, L.C, OK, TRUE) /\ s.N = L.C /\ s.D = L.C
  BY <1>1 DEF Tracks
<1>3. Parting(g \o x.out, w, L.C, OK, TRUE, GivenReason(u.p))
  BY ONLY <1>1, <1>2, Runs(u, w, g), TracksEnd
<1> QED  BY <1>1, <1>3 DEF Delivered

LEMMA CallsFinish ==
    ASSUME NEW u, NEW w, NEW g, Runs(u, w, g), NEW L, NEW e, Coming(g, u, <<>>, L, e)
    PROVE  Delivered(g \o close(u).out, w, L, u.p.source, e)
<1>1. PICK st : Tracks(g, u, <<>>, L, e, st)
  BY DEF Coming
<1>2. st[Len(<<>>) + 1].N = L.C /\ st[Len(<<>>) + 1].D = L.C
  BY <1>1 DEF Tracks, Score
<1>3. Len(<<>>) + 1 = 1
  BY OneIsSeq
<1>4. st[1].N = L.C /\ st[1].D = L.C
  BY ONLY <1>2, <1>3
<1> QED  BY <1>1, <1>4, ComesToEnd

\* Or the one or the other, with the translator v.
Speaking(h, w, v, fs, L, source, e) ==
    IF v.closed THEN Delivered(h, w, L, source, e) ELSE v.p.source = source /\ Coming(h, v, fs, L, e)

\* Whatever frame comes.
LEMMA CallsFramed ==
    ASSUME NEW u, NEW w \in Wire, NEW g, Runs(u, w, g), NEW fs, Comes(fs, u.p), fs # <<>>,
           NEW L, NEW e, Coming(g, u, fs, L, e), NEW x, x = consume(u, Head(fs)),
           NEW h, h = Joined(g, x.out)
    PROVE  Speaking(h, w, x.t, Tail(fs), L, u.p.source, e)
<1>0. h = g \o x.out
  BY DEF Joined
<1>1. PICK st : Tracks(g, u, fs, L, e, st)
  BY DEF Coming
<1>2. CASE Head(fs).k = "done"
  <2>1. x = close(u)
    BY <1>2 DEF consume
  <2>2. x.t.closed = TRUE
    BY <2>1, Closes, Zenon DEF Finished
  <2>3. fs[1].k = "done" /\ 1 \in 1 .. Len(fs)
    BY <1>2, HeadTail DEF Comes
  <2>4. st[1].N = L.C /\ st[1].D = L.C
    BY <1>1, <2>3 DEF Tracks, Score
  <2>5. Delivered(g \o close(u).out, w, L, u.p.source, e)
    BY <1>1, <2>4, ComesToEnd
  <2> QED  BY <1>0, <2>1, <2>2, <2>5 DEF Speaking
<1>3. CASE Head(fs).k # "done"
  <2>1. PICK so : Tracks(g \o x.out, x.t, Tail(fs), L, e, so)
    BY <1>1, <1>3, TracksOn
  <2>2. Ready(u.p, Head(fs))
    BY HeadReady DEF Runs
  <2>3. Runs(x.t, w, g \o x.out) /\ x.t.p.source = u.p.source
    BY <1>3, <2>2, Consumes
  <2>4. x.t.closed = FALSE
    BY <2>3 DEF Runs
  <2> QED  BY <1>0, <2>1, <2>3, <2>4 DEF Coming, Speaking
<1> QED  BY <1>2, <1>3

\* The calls of the answer that is under way, and how the client is shown them.
Spoken == CallsOf(wire, to, Names(wire, to, hist), turn - 1, said)
Shows == [target |-> wire, names |-> Names(wire, to, hist)]

(* Of an answer that arrived whole and within the bounds the client has    *)
(* every call, or will have with the frames that are to come.              *)
CallsInv ==
    /\ phase \in {"reply", "read"} =>
         to \in Wire /\ said.pieces \in Seq({"think", "text", "call"}) /\ said.max \in BOOLEAN
    /\ phase = "reply" /\ whole /\ InBounds =>
         IF t.closed THEN Delivered(got, wire, Spoken, to, Shows)
         ELSE t.p.source = to /\ Coming(got, t, frames, Spoken, Shows)
    /\ phase = "read" /\ whole /\ InBounds => Delivered(got, wire, Spoken, to, Shows)

LEMMA CallsCounted ==
    ASSUME NEW ps, Len(ps) \in Nat
    PROVE  Cardinality({i \in 1 .. Len(ps) : ps[i] = "call"}) = Rank(ps, Len(ps) + 1)
<1>1. Len(ps) + 1 - 1 = Len(ps)
  OBVIOUS
<1> QED  BY ONLY <1>1 DEF Rank

LEMMA SpokenStill ==
    ASSUME wire' = wire, to' = to, hist' = hist, turn' = turn, said' = said
    PROVE  Spoken' = Spoken /\ Shows' = Shows /\ (InBounds' <=> InBounds)
<1>1. Spoken' = Spoken
  BY DEF Spoken
<1>2. Shows' = Shows
  BY DEF Shows
<1>3. InBounds' <=> InBounds
  BY DEF InBounds, Calls, Place
<1> QED  BY <1>1, <1>2, <1>3

LEMMA CallsOnAsk == ASSUME ReplyInv, HistInv, NEW target \in Wire, Ask(target)  PROVE CallsInv'
<1>1. PICK pieces \in Replies, max \in BOOLEAN :
        /\ said' = [pieces |-> pieces, max |-> max]
        /\ frames' = Frames(wire, target, Names(wire, target, hist), turn, [pieces |-> pieces, max |-> max])
        /\ t' = Translator(target, wire, Names(wire, target, hist))
  BY DEF Ask
<1>2. /\ wire' = wire /\ got' = <<>> /\ phase' = "reply" /\ wire \in Wire /\ to' = target /\ hist' = hist
      /\ turn' = turn + 1
  BY DEF Ask, ReplyInv
<1>3. PICK r, m, v, fs, L, e, w, h, n :
        /\ r = [pieces |-> pieces, max |-> max] /\ m = Names(wire, target, hist)
        /\ v = Translator(target, wire, m) /\ fs = Frames(wire, target, m, turn, r)
        /\ L = CallsOf(wire, target, m, turn, r) /\ e = [target |-> wire, names |-> m]
        /\ w = wire /\ h = hist /\ n = turn
  BY Zenon
<1>4. said' = r /\ t' = v /\ frames' = fs
  BY <1>1, <1>3
<1>5. r.pieces = pieces /\ r.max = max
  BY ONLY <1>3
<1>6. r.pieces \in Seq({"think", "text", "call"}) /\ r.max \in BOOLEAN /\ Len(r.pieces) \in Nat
  BY <1>5, PiecesSeq
<1>7. Names(wire, to, hist)' = m
  BY ONLY <1>2, <1>3
<1>8. turn' - 1 = turn
  BY <1>2 DEF HistInv
<1>9. Spoken' = L
  BY ONLY <1>2, <1>3, <1>4, <1>7, <1>8 DEF Spoken
<1>10. Shows' = e
  BY ONLY <1>2, <1>3, <1>7 DEF Shows
<1>11. InBounds' => Slight(target, r)
  <2> SUFFICES ASSUME InBounds'  PROVE Slight(target, r)
    OBVIOUS
  <2>1. Calls' = {i \in 1 .. Len(r.pieces) : r.pieces[i] = "call"}
    BY ONLY <1>4 DEF Calls
  <2>2. Cardinality(Calls') = Rank(r.pieces, Len(r.pieces) + 1)
    BY ONLY <1>6, <2>1, CallsCounted
  <2>3. Cardinality(Calls') * Parts <= MaxBytes
    BY DEF InBounds
  <2>4. \A i \in Calls' : (IF to' = Anthropic THEN i - 1 ELSE Rank(said'.pieces, i)) < MaxCalls
    BY DEF InBounds, Place
  <2>5. \A i \in 1 .. Len(r.pieces) : r.pieces[i] = "call" =>
          (IF target = Anthropic THEN i - 1 ELSE Rank(r.pieces, i)) < MaxCalls
    BY ONLY <1>2, <1>4, <2>1, <2>4
  <2> QED  BY ONLY <2>2, <2>3, <2>5 DEF Slight
<1>12. v.closed = FALSE
  BY ONLY <1>3 DEF Translator
<1>13. Slight(target, r) => Coming(<<>>, v, fs, L, e) /\ v.p.source = target
  <2>1. IsSeq(h)
    BY <1>3 DEF HistInv
  <2> QED  BY ONLY <1>2, <1>3, <1>6, <2>1, target \in Wire, CallsAsked
<1>14. /\ to' \in Wire /\ said'.pieces \in Seq({"think", "text", "call"}) /\ said'.max \in BOOLEAN
       /\ t'.closed = FALSE /\ got' = <<>> /\ phase' = "reply"
       /\ InBounds' => t'.p.source = to' /\ Coming(got', t', frames', Spoken', Shows')
  <2>1. InBounds' => v.p.source = target /\ Coming(<<>>, v, fs, L, e)
    BY ONLY <1>11, <1>13
  <2> QED  BY ONLY <1>2, <1>4, <1>6, <1>9, <1>10, <1>12, <2>1, target \in Wire
<1> QED  BY ONLY <1>14 DEF CallsInv

LEMMA CallsOnFrame == ASSUME ReplyInv, CallsInv, Frame  PROVE CallsInv'
<1>1. /\ phase = "reply" /\ frames # <<>> /\ t' = consume(t, Head(frames)).t
      /\ got' = got \o consume(t, Head(frames)).out /\ frames' = Tail(frames)
      /\ wire' = wire /\ phase' = "reply" /\ said' = said /\ to' = to /\ hist' = hist /\ turn' = turn /\ whole' = whole
  BY DEF Frame, Forward
<1>2. Spoken' = Spoken /\ Shows' = Shows /\ (InBounds' <=> InBounds)
  BY <1>1, SpokenStill
<1>3. PICK x, h, L, e, v, fs, g, w :
        /\ x = consume(t, Head(frames)) /\ h = got \o x.out /\ L = Spoken /\ e = Shows
        /\ v = t /\ fs = frames /\ g = got /\ w = wire
  BY Zenon
<1>4. Runs(v, w, g) /\ Comes(fs, v.p) /\ v.closed = FALSE /\ w \in Wire
  BY <1>1, <1>3, StillRuns, Zenon
<1>5. to \in Wire /\ said.pieces \in Seq({"think", "text", "call"}) /\ said.max \in BOOLEAN
  BY <1>1 DEF CallsInv
<1>6. ASSUME whole, InBounds
      PROVE  IF x.t.closed THEN Delivered(h, w, L, to, e) ELSE x.t.p.source = to /\ Coming(h, x.t, Tail(fs), L, e)
  <2>1. v.p.source = to /\ Coming(g, v, fs, L, e)
    BY <1>1, <1>3, <1>4, <1>6 DEF CallsInv
  <2>2. x = consume(v, Head(fs)) /\ fs # <<>> /\ h = g \o x.out
    BY <1>1, <1>3
  <2>3. h = Joined(g, x.out)
    BY ONLY <2>2 DEF Joined
  <2>4. Speaking(h, w, x.t, Tail(fs), L, v.p.source, e)
    BY ONLY <1>4, <2>1, <2>2, <2>3, CallsFramed
  <2> QED  BY ONLY <2>1, <2>4 DEF Speaking
<1>7. t' = x.t /\ got' = h /\ frames' = Tail(fs)
  BY <1>1, <1>3
<1>8. whole' /\ InBounds' =>
        IF t'.closed THEN Delivered(got', wire', Spoken', to', Shows')
        ELSE t'.p.source = to' /\ Coming(got', t', frames', Spoken', Shows')
  <2>1. wire' = w /\ Spoken' = L /\ to' = to /\ Shows' = e /\ (whole' => whole) /\ (InBounds' => InBounds)
    BY <1>1, <1>2, <1>3
  <2> QED  BY ONLY <1>6, <1>7, <2>1
<1> QED  BY ONLY <1>1, <1>5, <1>8 DEF CallsInv

LEMMA CallsOnFinish == ASSUME ReplyInv, CallsInv, Finish  PROVE CallsInv'
<1>1. /\ phase = "reply" /\ frames = <<>> /\ got' = got \o close(t).out /\ phase' = "read" /\ wire' = wire /\ said' = said
      /\ to' = to /\ hist' = hist /\ turn' = turn /\ whole' = whole
  BY DEF Finish, Forward
<1>2. Spoken' = Spoken /\ Shows' = Shows /\ (InBounds' <=> InBounds)
  BY <1>1, SpokenStill
<1>3. PICK h, L, e, v, g, w :
        /\ h = got \o close(t).out /\ L = Spoken /\ e = Shows /\ v = t /\ g = got /\ w = wire
  BY Zenon
<1>4. to \in Wire /\ said.pieces \in Seq({"think", "text", "call"}) /\ said.max \in BOOLEAN
  BY <1>1 DEF CallsInv
<1>5. ASSUME whole, InBounds  PROVE Delivered(h, w, L, to, e)
  <2>1. CASE t.closed
    <3>1. close(t).out = <<>> /\ IsSeq(got)
      BY <1>1, <2>1, StillRuns
    <3>2. got \o <<>> = got
      BY <3>1, TupleOne
    <3>3. Delivered(got, wire, Spoken, to, Shows)
      BY <1>1, <1>5, <2>1 DEF CallsInv
    <3>4. h = got /\ w = wire /\ L = Spoken /\ e = Shows
      BY <1>3, <3>1, <3>2
    <3> QED  BY ONLY <3>3, <3>4
  <2>2. CASE ~t.closed
    <3>1. Runs(v, w, g)
      BY <1>1, <1>3, <2>2, StillRuns, Zenon
    <3>2. v.p.source = to /\ Coming(g, v, <<>>, L, e)
      BY <1>1, <1>3, <1>5, <2>2 DEF CallsInv
    <3>3. Delivered(g \o close(v).out, w, L, v.p.source, e)
      BY ONLY <3>1, <3>2, CallsFinish
    <3>4. h = g \o close(v).out
      BY ONLY <1>3
    <3> QED  BY ONLY <3>2, <3>3, <3>4
  <2> QED  BY <2>1, <2>2
<1>6. whole' /\ InBounds' => Delivered(got', wire', Spoken', to', Shows')
  <2>1. got' = h /\ wire' = w /\ Spoken' = L /\ to' = to /\ Shows' = e /\ (whole' => whole) /\ (InBounds' => InBounds)
    BY <1>1, <1>2, <1>3
  <2> QED  BY ONLY <1>5, <2>1
<1> QED  BY ONLY <1>1, <1>4, <1>6 DEF CallsInv

LEMMA CallsInvStep == ReplyInv /\ HistInv /\ CallsInv /\ [Next]_vars => CallsInv'
<1> SUFFICES ASSUME ReplyInv, HistInv, CallsInv, [Next]_vars  PROVE CallsInv'
  OBVIOUS
<1>1. CASE Native
  <2>1. phase' = "ask"
    BY <1>1 DEF Native, Next_
  <2> QED  BY ONLY <2>1 DEF CallsInv
<1>2. CASE \E target \in Wire : Ask(target)
  BY <1>2, CallsOnAsk
<1>3. CASE \E target \in Wire : AskWhole(target)
  <2>1. phase' = "ask"
    BY <1>3 DEF AskWhole
  <2> QED  BY ONLY <2>1 DEF CallsInv
<1>4. CASE Frame
  BY <1>4, CallsOnFrame
<1>5. CASE Lose \/ Cut
  <2>1. phase = "reply" /\ whole' = FALSE /\ phase' \in {"reply", "read"} /\ to' = to /\ said' = said
    BY <1>5 DEF Lose, Cut
  <2>2. to \in Wire /\ said.pieces \in Seq({"think", "text", "call"}) /\ said.max \in BOOLEAN
    BY <2>1 DEF CallsInv
  <2> QED  BY ONLY <2>1, <2>2 DEF CallsInv
<1>6. CASE Finish
  BY <1>6, CallsOnFinish
<1>7. CASE ReadReply
  <2>1. phase' = "ask"
    BY <1>7 DEF ReadReply
  <2> QED  BY ONLY <2>1 DEF CallsInv
<1>8. CASE UNCHANGED vars
  <2>1. /\ wire' = wire /\ to' = to /\ hist' = hist /\ turn' = turn /\ said' = said
        /\ phase' = phase /\ whole' = whole /\ t' = t /\ got' = got /\ frames' = frames
    BY <1>8 DEF vars
  <2>2. Spoken' = Spoken /\ Shows' = Shows /\ (InBounds' <=> InBounds)
    BY <2>1, SpokenStill
  <2> QED  BY ONLY <2>1, <2>2, CallsInv DEF CallsInv
<1> QED  BY <1>1, <1>2, <1>3, <1>4, <1>5, <1>6, <1>7, <1>8 DEF Next

LEMMA CallsInvHolds == AnswerSpec => []CallsInv
<1>1. AnswerInit => CallsInv
  BY DEF AnswerInit, Init, CallsInv
<1>2. ReplyInv /\ HistInv /\ CallsInv /\ [AnswerNext]_answered => CallsInv'
  <2> SUFFICES ASSUME ReplyInv, HistInv, CallsInv, [AnswerNext]_answered  PROVE CallsInv'
    OBVIOUS
  <2>1. [Next]_vars
    BY DEF AnswerNext, answered
  <2> QED  BY <2>1, CallsInvStep
<1> QED  BY <1>1, <1>2, ReplyInvHolds, HistInvHolds, PTL DEF AnswerSpec

\* The id of the call with the number k, and as the client of w is shown it.
Number(target, n, k) ==
    IF target = Anthropic THEN [pre |-> 0, base |-> <<n, k>>] ELSE [pre |-> k, base |-> <<n, 0>>]
Told1(target, w, id) == encode(decode(id, target), w)

LEMMA IdOf ==
    ASSUME NEW L, NEW w, NEW target, NEW m, NEW n, NEW r, Answering(L, w, target, m, n, r), NEW q \in 1 .. L.C
    PROVE  L.id[q] = Number(target, n, q - 1)
<1>1. PICK ps, C, i : ps = r.pieces /\ C = Rank(ps, Len(ps) + 1) /\ i = CallAt(ps, q)
  BY Zenon
<1>2. Len(ps) \in Nat /\ L.C = C
  BY <1>1, LenProperties DEF Answering, CallsOf
<1>3. Rank(ps, i) = q - 1
  BY <1>1, <1>2, NthIs DEF IsNth
<1>4. L.id[q] = Minted(target, n, ps, i)
  BY <1>1, <1>2 DEF Answering, CallsOf
<1> QED  BY ONLY <1>3, <1>4 DEF Minted, Number

\* Of a provider that is not the Messages API the id comes back as it was.
LEMMA IdComesBack ==
    ASSUME NEW target \in Wire, target # Anthropic, NEW w \in Wire, NEW n, NEW k \in Nat
    PROVE  encode(decode(Told1(target, w, Number(target, n, k)), w), target) = Number(target, n, k)
<1>1. PICK id, d, s, c : id = Number(target, n, k) /\ d = decode(id, target) /\ s = encode(d, w) /\ c = decode(s, w)
  BY Zenon
<1>2. id = [pre |-> k, base |-> <<n, 0>>]
  BY <1>1 DEF Number
<1>3. d = [origin |-> target, pre |-> k, base |-> <<n, 0>>]
  BY <1>1, <1>2 DEF decode
<1>4. CASE w = Anthropic
  <2>1. s = [pre |-> k + 1, base |-> <<n, 0>>]
    BY <1>1, <1>3, <1>4 DEF encode
  <2>2. c = [origin |-> "none", pre |-> k, base |-> <<n, 0>>]
    BY <1>1, <1>4, <2>1 DEF decode
  <2>3. encode(c, target) = [pre |-> k, base |-> <<n, 0>>]
    BY <2>2 DEF encode
  <2> QED  BY <1>1, <1>2, <2>3 DEF Told1
<1>5. CASE w # Anthropic
  <2>1. s = [pre |-> k, base |-> <<n, 0>>]
    BY <1>1, <1>3, <1>5 DEF encode
  <2>2. c = [origin |-> w, pre |-> k, base |-> <<n, 0>>]
    BY <1>1, <1>5, <2>1 DEF decode
  <2>3. encode(c, target) = [pre |-> k, base |-> <<n, 0>>]
    BY <2>2 DEF encode
  <2> QED  BY <1>1, <1>2, <2>3 DEF Told1
<1> QED  BY <1>4, <1>5

\* Two calls of an answer keep different ids.
LEMMA IdsApart ==
    ASSUME NEW target \in Wire, NEW w \in Wire, NEW n, NEW j \in Nat, NEW k \in Nat,
           Told1(target, w, Number(target, n, j)) = Told1(target, w, Number(target, n, k))
    PROVE  j = k
<1>1. CASE target = Anthropic
  <2>1. ASSUME NEW i \in Nat  PROVE Told1(target, w, Number(target, n, i)).base = <<n, i>>
    <3>1. PICK id, d : id = Number(target, n, i) /\ d = decode(id, target)
      OBVIOUS
    <3>2. id.base = <<n, i>>
      BY ONLY <1>1, <3>1 DEF Number
    <3>3. d.base = id.base
      BY ONLY <3>1 DEF decode
    <3>4. encode(d, w).base = d.base
      BY DEF encode
    <3> QED  BY <3>1, <3>2, <3>3, <3>4 DEF Told1
  <2>2. <<n, j>> = <<n, k>>
    BY <2>1
  <2> QED  BY ONLY <2>2
<1>2. CASE target # Anthropic
  <2>1. ASSUME NEW i \in Nat  PROVE Told1(target, w, Number(target, n, i)).pre = IF w = Anthropic THEN i + 1 ELSE i
    <3>1. PICK id, d : id = Number(target, n, i) /\ d = decode(id, target)
      OBVIOUS
    <3>2. id = [pre |-> i, base |-> <<n, 0>>]
      BY ONLY <1>2, <3>1 DEF Number
    <3>3. d = [origin |-> target, pre |-> i, base |-> <<n, 0>>]
      BY ONLY <1>2, <3>1, <3>2 DEF decode
    <3>4. encode(d, w).pre = IF w = Anthropic THEN i + 1 ELSE i
      BY ONLY <1>2, <3>3 DEF encode
    <3> QED  BY <3>1, <3>4 DEF Told1
  <2> QED  BY <2>1
<1> QED  BY <1>1, <1>2

\* Of two calls the later one has more before it, and fewer than all.
LEMMA NthGrows ==
    ASSUME NEW g, IsSeq(g), NEW x \in CallsIn(g), NEW y \in CallsIn(g), x < y
    PROVE  Nth(g, x) \in Nat /\ Nth(g, y) \in Nat /\ Nth(g, x) < Nth(g, y)
<1>1. PICK S, A, B : S = CallsIn(g) /\ A = {z \in S : z < x} /\ B = {z \in S : z < y}
  BY Zenon
<1>2. IsFiniteSet(S) /\ S \subseteq Nat
  BY <1>1, CallsFinite
<1>3. IsFiniteSet(A) /\ IsFiniteSet(B) /\ A \subseteq B /\ A # B
  <2>1. A \subseteq S /\ B \subseteq S
    BY <1>1
  <2>2. x \in B /\ x \notin A
    BY <1>1, <1>2
  <2>3. A \subseteq B
    BY <1>1, <1>2
  <2> QED  BY ONLY <1>2, <2>1, <2>2, <2>3, FS_Subset
<1>4. Cardinality(A) < Cardinality(B)
  BY ONLY <1>3, FS_Subset, FS_CardinalityType
<1>5. Nth(g, x) = Cardinality(A) /\ Nth(g, y) = Cardinality(B)
  BY ONLY <1>1 DEF Nth
<1> QED  BY ONLY <1>3, <1>4, <1>5, FS_CardinalityType

LEMMA NthBelow ==
    ASSUME NEW g, IsSeq(g), NEW x \in CallsIn(g)
    PROVE  Nth(g, x) \in 0 .. (Cardinality(CallsIn(g)) - 1) /\ Cardinality(CallsIn(g)) \in Nat
<1>1. PICK S, A : S = CallsIn(g) /\ A = {z \in S : z < x}
  BY Zenon
<1>2. IsFiniteSet(S) /\ S \subseteq Nat
  BY <1>1, CallsFinite
<1>3. A \subseteq S /\ x \in S /\ x \notin A
  BY <1>1, <1>2
<1>4. IsFiniteSet(A) /\ Cardinality(A) < Cardinality(S)
  <2>1. A # S
    BY ONLY <1>3
  <2>2. /\ IsFiniteSet(A) /\ Cardinality(A) <= Cardinality(S)
        /\ Cardinality(A) = Cardinality(S) => A = S
    BY ONLY <1>2, <1>3, FS_Subset
  <2>3. Cardinality(A) \in Nat /\ Cardinality(S) \in Nat
    BY ONLY <1>2, <2>2, FS_CardinalityType
  <2> QED  BY ONLY <2>1, <2>2, <2>3
<1>5. Nth(g, x) = Cardinality(A)
  BY ONLY <1>1 DEF Nth
<1>6. Cardinality(A) \in Nat /\ Cardinality(S) \in Nat
  BY ONLY <1>2, <1>4, FS_CardinalityType
<1> QED  BY ONLY <1>1, <1>4, <1>5, <1>6

\* What the client has of each call.
ShownAs(L, w, target, m, n, g, x, k) ==
    /\ k = Nth(g, x) /\ k \in 0 .. (L.C - 1) /\ L.C \in Nat
    /\ g[x].id = Told1(target, w, Number(target, n, k))
    /\ g[x].name = IF w = Responses THEN restore_item(m, L.name[k + 1]) ELSE L.name[k + 1]
    /\ L.full[k + 1] = Parts => g[x].n = Parts

LEMMA CallShown ==
    ASSUME NEW L, NEW w, NEW target, NEW m, NEW n, NEW r, Answering(L, w, target, m, n, r),
           NEW e, e = [target |-> w, names |-> m],
           NEW g, NEW word, Concluded(g, L.C, Due(L, target, e), TRUE, word), NEW x \in CallsIn(g)
    PROVE  ShownAs(L, w, target, m, n, g, x, Nth(g, x))
<1>1. PICK k, q, d, OK, ev : /\ k = Nth(g, x) /\ q = k + 1 /\ d = Whole(L, q, target)
                             /\ OK = Due(L, target, e) /\ ev = g[x]
  BY Zenon
<1>2. IsSeq(g) /\ Cardinality(CallsIn(g)) = L.C /\ As(ev) \in OK[k]
  BY <1>1 DEF Concluded
<1>3. k \in 0 .. (L.C - 1) /\ L.C \in Nat
  BY <1>1, <1>2, NthBelow
<1>4. OK[k] = {Rendered(e, d)}
  BY ONLY <1>1, <1>3 DEF Due
<1>5. As(ev) = Rendered(e, d)
  BY ONLY <1>2, <1>4
<1>6. d.id = decode(L.id[q], target) /\ d.name = L.name[q] /\ d.n = L.full[q]
  BY ONLY <1>1 DEF Whole
<1>7. e.target = w /\ e.names = m
  BY ONLY e = [target |-> w, names |-> m]
<1>8. /\ ev.id = encode(d.id, w)
      /\ ev.name = IF w = Responses THEN restore_item(m, d.name) ELSE d.name
      /\ ev.n = IF w = Anthropic /\ d.n # Parts THEN 0 ELSE d.n
  BY ONLY <1>5, <1>7 DEF As, Rendered
<1>9. L.id[q] = Number(target, n, k)
  <2>1. q \in 1 .. L.C /\ q - 1 = k
    BY ONLY <1>1, <1>3
  <2>2. L.id[q] = Number(target, n, q - 1)
    BY <2>1, IdOf
  <2> QED  BY ONLY <2>1, <2>2
<1>10. ev.id = Told1(target, w, Number(target, n, k))
  BY ONLY <1>6, <1>8, <1>9 DEF Told1
<1> QED  BY ONLY <1>1, <1>3, <1>6, <1>8, <1>10 DEF ShownAs

LEMMA CallsAreGiven == ReplyInv /\ HistInv /\ CallsInv => CallsReachTheAgent
<1> SUFFICES ASSUME ReplyInv, HistInv, CallsInv, phase = "read", whole, Came("fail") = {}, InBounds
             PROVE  /\ Cardinality(Came("call")) = Cardinality(Calls)
                    /\ \A x \in Came("call"), i \in Calls :
                         Cardinality({y \in Came("call") : y < x}) = Rank(said.pieces, i) =>
                           /\ got[x].name = ToolOf(wire, [y \in {} |-> y], said.pieces, i)
                           /\ got[x].n = Parts \/ (said.max /\ i = Len(said.pieces))
                           /\ to # Anthropic =>
                                encode(decode(got[x].id, wire), to) = Minted(to, turn - 1, said.pieces, i)
                    /\ \A x, y \in Came("call") : got[x].id = got[y].id => x = y
  BY DEF CallsReachTheAgent
<1>1. PICK w, g, r, ps, n, m, L, e : /\ w = wire /\ g = got /\ r = said /\ ps = r.pieces /\ n = turn - 1
                                     /\ m = Names(wire, to, hist) /\ L = Spoken /\ e = Shows
  BY Zenon
<1>2. /\ to \in Wire /\ w \in Wire /\ ps \in Seq({"think", "text", "call"}) /\ r.max \in BOOLEAN
      /\ Len(ps) \in Nat
  BY <1>1, LenProperties DEF CallsInv, ReplyInv
<1>3. L = CallsOf(w, to, m, n, r) /\ e = [target |-> w, names |-> m]
  BY ONLY <1>1 DEF Spoken, Shows
<1>4. Answering(L, w, to, m, n, r)
  BY ONLY <1>1, <1>2, <1>3 DEF Answering
<1>5. Delivered(g, w, L, to, e)
  BY <1>1 DEF CallsInv
<1>6. ~Broke(g)
  BY <1>1 DEF Came, Broke
<1>7. PICK word : Concluded(g, L.C, Due(L, to, e), TRUE, word)
  BY ONLY <1>5, <1>6 DEF Delivered, Parting
<1>8. Came("call") = CallsIn(g)
  BY <1>1 DEF Came, CallsIn
<1>9. IsSeq(g) /\ Cardinality(CallsIn(g)) = L.C
  BY ONLY <1>7 DEF Concluded
<1>10. Cardinality(Came("call")) = Cardinality(Calls)
  <2>1. L.C = Rank(ps, Len(ps) + 1)
    BY ONLY <1>1, <1>3 DEF CallsOf
  <2>2. Cardinality(Calls) = Rank(ps, Len(ps) + 1)
    BY <1>1, <1>2, CallsCounted DEF Calls
  <2> QED  BY ONLY <1>8, <1>9, <2>1, <2>2
<1>11. ASSUME NEW x \in Came("call"), NEW i \in Calls, Cardinality({y \in Came("call") : y < x}) = Rank(said.pieces, i)
       PROVE  /\ got[x].name = ToolOf(wire, [y \in {} |-> y], said.pieces, i)
              /\ got[x].n = Parts \/ (said.max /\ i = Len(said.pieces))
              /\ to # Anthropic => encode(decode(got[x].id, wire), to) = Minted(to, turn - 1, said.pieces, i)
  <2>1. i \in 1 .. Len(ps) /\ ps[i] = "call"
    BY <1>1, <1>11 DEF Calls
  <2>2. PICK q : Called(L, w, to, m, n, r, i, q)
    BY <1>1, <1>4, <2>1, CalledIs
  <2>3. PICK k : k = Nth(g, x)
    OBVIOUS
  <2>4. k = Rank(ps, i)
    BY <1>1, <1>8, <1>11, <2>3 DEF Nth
  <2>0. ShownAs(L, w, to, m, n, g, x, k)
    <3>1. x \in CallsIn(g)
      BY ONLY <1>8, <1>11
    <3>2. ShownAs(L, w, to, m, n, g, x, Nth(g, x))
      BY ONLY <1>3, <1>4, <1>7, <3>1, CallShown
    <3> QED  BY ONLY <2>3, <3>2
  <2>5. k + 1 = q /\ k \in Nat
    <3>1. q = Rank(ps, i) + 1 /\ q \in Nat
      BY ONLY <1>1, <2>2 DEF Called
    <3>2. k \in 0 .. (L.C - 1) /\ L.C \in Nat
      BY ONLY <2>0 DEF ShownAs
    <3> QED  BY ONLY <2>4, <3>1, <3>2
  <2>6. /\ g[x].id = Told1(to, w, Number(to, n, k))
        /\ g[x].name = (IF w = Responses THEN restore_item(m, L.name[k + 1]) ELSE L.name[k + 1])
        /\ L.full[k + 1] = Parts => g[x].n = Parts
    BY ONLY <2>0 DEF ShownAs
  <2>7. /\ L.name[q] = ToolOf(w, m, ps, i)
        /\ L.full[q] = IF r.max /\ i = Len(ps) THEN Parts - 1 ELSE Parts
    BY ONLY <1>1, <2>2 DEF Called
  <2>8. got[x].name = ToolOf(wire, [y \in {} |-> y], said.pieces, i)
    <3>1. PICK name : name = ToolOf(w, m, ps, i)
      OBVIOUS
    <3>2. IsSeq(hist) /\ m = Names(w, to, hist) /\ Rank(ps, i) \in Nat
      BY <1>1, <2>4, <2>5 DEF HistInv
    <3>3. (IF w = Responses THEN restore_item(m, name) ELSE name) = ToolOf(w, NoNames, ps, i)
      BY ONLY <3>1, <3>2, ToolsNamed
    <3>4. g[x].name = ToolOf(w, NoNames, ps, i)
      BY ONLY <2>5, <2>6, <2>7, <3>1, <3>3
    <3> QED  BY ONLY <1>1, <3>4 DEF NoNames
  <2>9. got[x].n = Parts \/ (said.max /\ i = Len(said.pieces))
    BY ONLY <1>1, <2>5, <2>6, <2>7
  <2>10. ASSUME to # Anthropic
         PROVE  encode(decode(got[x].id, wire), to) = Minted(to, turn - 1, said.pieces, i)
    <3>1. encode(decode(g[x].id, w), to) = Number(to, n, k)
      BY ONLY <1>2, <2>5, <2>6, <2>10, IdComesBack
    <3>2. Minted(to, n, ps, i) = Number(to, n, k)
      BY ONLY <2>4 DEF Minted, Number
    <3> QED  BY ONLY <1>1, <3>1, <3>2
  <2> QED  BY <2>8, <2>9, <2>10
<1>12. ASSUME NEW x \in Came("call"), NEW y \in Came("call"), got[x].id = got[y].id  PROVE x = y
  <2>1. PICK j, k : j = Nth(g, x) /\ k = Nth(g, y)
    OBVIOUS
  <2>2. x \in CallsIn(g) /\ y \in CallsIn(g)
    BY ONLY <1>8, <1>12
  <2>0. ShownAs(L, w, to, m, n, g, x, j) /\ ShownAs(L, w, to, m, n, g, y, k)
    <3>1. ShownAs(L, w, to, m, n, g, x, Nth(g, x)) /\ ShownAs(L, w, to, m, n, g, y, Nth(g, y))
      BY ONLY <1>3, <1>4, <1>7, <2>2, CallShown
    <3> QED  BY ONLY <2>1, <3>1
  <2>3. j \in 0 .. (L.C - 1) /\ k \in 0 .. (L.C - 1) /\ L.C \in Nat
    BY ONLY <2>0 DEF ShownAs
  <2>4. g[x].id = Told1(to, w, Number(to, n, j)) /\ g[y].id = Told1(to, w, Number(to, n, k))
    BY ONLY <2>0 DEF ShownAs
  <2>5. j = k
    <3>1. j \in Nat /\ k \in Nat
      BY ONLY <2>3
    <3>2. g[x].id = g[y].id
      BY ONLY <1>1, <1>12
    <3> QED  BY ONLY <1>2, <2>4, <3>1, <3>2, IdsApart
  <2>6. ~(x < y) /\ ~(y < x)
    <3>1. x < y => j < k
      BY ONLY <1>9, <2>1, <2>2, NthGrows
    <3>2. y < x => k < j
      BY ONLY <1>9, <2>1, <2>2, NthGrows
    <3> QED  BY ONLY <2>3, <2>5, <3>1, <3>2
  <2>7. x \in Nat /\ y \in Nat
    BY <1>9, <2>2, CallsFinite
  <2> QED  BY ONLY <2>6, <2>7
<1> QED  BY ONLY <1>10, <1>11, <1>12

(***************************************************************************)
(* Of an answer that arrived whole and within the parser's bounds the      *)
(* agent has been handed, when its stream has ended, every call the model  *)
(* made: once, in the model's order, with all its fragments unless it was  *)
(* cut at the token limit, under the name the agent gave the tool, with an *)
(* id no other call has and that names the backend's call when it comes    *)
(* back; and an answer with calls tells the agent to run them (ChatParser, *)
(* AnthropicParser and ResponsesParser::push, ToolDelta, EncodedTools,     *)
(* encode_id and decode_id, NamespaceMap::restore_item).                   *)
(***************************************************************************)
THEOREM CallsReachTheirAgent == AnswerSpec => []CallsAreServed
BY CallsAreGiven, ToolsAreTold, ReplyInvHolds, HistInvHolds, ToolsInvHolds, CallsInvHolds, PTL DEF CallsAreServed
=============================================================================
