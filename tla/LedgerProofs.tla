----------------------------- MODULE LedgerProofs -----------------------------
(***************************************************************************)
(* What the ledger guarantees for every number of exchanges and every way  *)
(* to divide them among sessions, with as many failed operations and       *)
(* deaths of the process as one likes; and that the status screen tells    *)
(* the truth of what it had recorded and is never behind it, for any       *)
(* number of requests and callers.                                         *)
(*                                                                         *)
(* The argument is about who owes what.  A row is owed by exactly one of   *)
(* the guard, the reply and nobody, and the stage of a job says which; a   *)
(* reference is in the hand of the write that superseded it or of the      *)
(* prune only when its row names it no longer or is past the retention,    *)
(* so nobody unlinks what a row still claims.  On the screen (ScreenInv) a *)
(* row came with the token it was written under, and a report has what was *)
(* there under its own; what it says of them is true when it is made, by   *)
(* an induction over the requests in the order they began (CutUp) and over *)
(* the windows, and stays so (Told), because a row that is written does    *)
(* not change.                                                             *)
(***************************************************************************)
EXTENDS Records, FiniteSetTheorems, SequenceTheorems, WellFoundedInduction, TLAPS

USE LedgerAssumption, NoneIsNoRow

\* The stages before the reply's row is written, before its files are, and
\* from the end of the reply on.
Unwritten == {"new", "handling", "answered", "streaming", "unrecorded", "store", "half", "insert"}
Fileless  == {"new", "handling", "settling", "answered", "streaming", "unrecorded", "store"}
Flushed   == {"store", "half", "insert", "roll", "unlink", "done"}

Excused(e) == e \in faults \/ crashes > 0

\* The bodies of f, which finished after e, took the place of those of e.
Outlives(f, e) ==
    /\ f # e /\ SessionOf[f] = SessionOf[e] /\ job[f].kept /\ job[f].rows = 1
    /\ rows[f] # None => rows[f].id > rows[e].id

\* Who owes e its row, and what its reply left in its job.
JobIsSound(e) ==
    /\ job[e].at \in Unwritten => job[e].rows = 0
    /\ job[e].owed => job[e].at \in {"handling", "settling"} /\ job[e].rows = 0
    /\ job[e].at = "handling" => job[e].owed
    /\ job[e].at \in {"roll", "unlink"} => job[e].rows = 1
    /\ job[e].at = "roll" => job[e].kept
    /\ job[e].rows <= 1
    /\ job[e].at = "done" \/ (job[e].at = "settling" /\ ~job[e].owed)
        => job[e].rows = 1 \/ Excused(e)
    /\ job[e].whole => ~job[e].spoiled /\ job[e].at \in Flushed
    /\ job[e].kept => job[e].at \in {"insert", "roll", "unlink", "done"}
    /\ job[e].doomed # {} => job[e].at = "unlink"
    /\ ~up => job[e].at \in {"new", "done"}

\* The row of e says what its job left.  A row that lost its bodies lost them
\* to one that finished after it.
RowIsSound(e) ==
    rows[e] # None =>
        /\ job[e].rows = 1
        /\ rows[e].id <= ids
        /\ rows[e].whole => job[e].whole
        /\ rows[e].proof = "verified" => e \in Offers /\ job[e].whole
        /\ rows[e].body => Pair(e) \subseteq files \/ e \in Expired
        /\ job[e].kept /\ ~rows[e].body => \E f \in Exchange : Outlives(f, e)

\* The files of e are its own to write ...
OwnFiles(e) ==
    /\ job[e].at \in Fileless => \A x \in Suffix : <<e, x>> \notin files
    /\ job[e].at = "half" => <<e, "req">> \in files
    /\ job[e].at = "insert" /\ job[e].kept => Pair(e) \subseteq files
    /\ job[e].at = "insert" /\ ~job[e].kept => e \in faults \/ \A x \in Suffix : <<e, x>> \notin files

\* ... then its row's to name, and another's to unlink only when it does not.
Promised(e) ==
    /\ e \in pruner.refs => job[e].rows = 1 /\ e \in Expired
    /\ \A f \in Exchange : e \in job[f].doomed => job[e].rows = 1 /\ e \notin Claimed

Named(e) ==
    up => \A x \in Suffix : <<e, x>> \in files => e \in Claimed \cup Expired \cup faults \/ InHand(e)

\* What the round may still write of e.
RoundIsSound(e) ==
    round # None /\ e \in DOMAIN round =>
        /\ round[e].label = "verified" => e \in Offers /\ job[e].whole
        /\ ~round[e].settle /\ e \in Pending => rows[e].tries < MaxAttempts

Sound(e) == /\ JobIsSound(e) /\ RowIsSound(e) /\ RoundIsSound(e)
            /\ OwnFiles(e) /\ Promised(e) /\ Named(e)

\* Of two rows of a session that name bodies, the later is about to roll.
OneIsKept ==
    \A e, f \in Claimed :
        SessionOf[e] = SessionOf[f] /\ rows[e].id < rows[f].id => job[f].at = "roll" \/ Excused(f)

IInv == TypeOK /\ (\A e \in Exchange : Sound(e)) /\ OneIsKept

-----------------------------------------------------------------------------
(* What the invariant says *)

LEMMA InvImplies == IInv => OneRowEach /\ RightBodiesAreKept /\ ProvedIsWhole
<1> SUFFICES ASSUME IInv PROVE OneRowEach /\ RightBodiesAreKept /\ ProvedIsWhole
  OBVIOUS
<1>1. OneRowEach
  BY DEF IInv, TypeOK, Sound, JobIsSound, OneRowEach, Excused, Job
<1>2. BodiesMatchRows
  <2>1. \A e \in Claimed \ Expired : Pair(e) \subseteq files
    BY DEF IInv, Sound, RowIsSound, Claimed, Recorded
  <2>2. ASSUME up, NEW file \in files
        PROVE  file[1] \in Claimed \cup Expired \cup faults \/ InHand(file[1])
    <3>1. PICK e \in Exchange, x \in Suffix : file = <<e, x>>
      BY DEF IInv, TypeOK
    <3> QED  BY <2>2, <3>1 DEF IInv, Sound, Named
  <2> QED  BY <2>1, <2>2 DEF BodiesMatchRows
<1>3. LatestBodiesAreKept
  <2>1. \A e, f \in Claimed :
          SessionOf[e] = SessionOf[f] /\ rows[e].id < rows[f].id
              => job[f].at = "roll" \/ f \in faults \/ crashes > 0
    BY DEF IInv, OneIsKept, Excused
  <2>2. ASSUME NEW e \in Recorded, job[e].kept /\ ~rows[e].body
        PROVE  \E f \in Exchange \ {e} :
                /\ SessionOf[f] = SessionOf[e] /\ job[f].kept /\ job[f].rows = 1
                /\ f \in Recorded => rows[f].id > rows[e].id
    <3>1. e \in Exchange /\ rows[e] # None
      BY DEF Recorded
    <3>2. PICK f \in Exchange : Outlives(f, e)
      BY <2>2, <3>1 DEF IInv, Sound, RowIsSound
    <3> QED  BY <3>2 DEF Outlives, Recorded
  <2> QED  BY <2>1, <2>2 DEF LatestBodiesAreKept
<1>4. ProvedIsWhole
  BY DEF IInv, Sound, RowIsSound, JobIsSound, ProvedIsWhole, Recorded
<1> QED  BY <1>1, <1>2, <1>3, <1>4 DEF RightBodiesAreKept

LEMMA InitHolds == Init => IInv
<1> SUFFICES ASSUME Init PROVE IInv
  OBVIOUS
<1>1. Fresh \in Job
  BY DEF Fresh, Job, Stage
<1>2. TypeOK
  BY <1>1 DEF Init, TypeOK
<1>3. Claimed = {}
  BY DEF Init, Claimed, Recorded
<1>4. ASSUME NEW e \in Exchange PROVE Sound(e)
  BY <1>3 DEF Init, Fresh, Sound, JobIsSound, RowIsSound, RoundIsSound, OwnFiles, Promised,
              Named, Unwritten, Fileless, Flushed, Excused
<1>5. OneIsKept
  BY <1>3 DEF OneIsKept
<1> QED  BY <1>2, <1>4, <1>5 DEF IInv

-----------------------------------------------------------------------------
(* Steps of jobs that write no row *)

\* e's own part, in a step that leaves the rows alone.
Moves(e) ==
    /\ job'[e].rows = job[e].rows /\ job'[e].doomed = job[e].doomed
    /\ job[e].whole => job'[e].whole
    /\ job[e].kept => job'[e].kept
    /\ rows[e] # None => (job'[e].kept <=> job[e].kept)
    /\ job[e].at = "roll" => job'[e].at = "roll" \/ e \in faults'
    /\ JobIsSound(e)' /\ OwnFiles(e)' /\ Named(e)'

Stays(e) == job'[e] = job[e] /\ \A x \in Suffix : <<e, x>> \in files' <=> <<e, x>> \in files

LEMMA MovesKeep ==
    ASSUME IInv, job' \in [Exchange -> Job],
           files \subseteq files', files' \subseteq Exchange \X Suffix,
           faults \subseteq faults', faults' \subseteq Exchange,
           UNCHANGED <<up, rows, ids, horizon, pruner, round, crashes>>,
           \A e \in Exchange : Moves(e) \/ Stays(e)
    PROVE  IInv'
<1>1. TypeOK'
  BY DEF IInv, TypeOK
<1>2. Claimed' = Claimed /\ Expired' = Expired /\ Pending' = Pending /\ Recorded' = Recorded
  BY DEF Claimed, Recorded, Expired, Pending
<1>3. \A e \in Exchange :
        /\ job'[e].rows = job[e].rows /\ job'[e].doomed = job[e].doomed
        /\ job[e].whole => job'[e].whole
        /\ job[e].kept => job'[e].kept
        /\ rows[e] # None => (job'[e].kept <=> job[e].kept)
        /\ job[e].at = "roll" => job'[e].at = "roll" \/ e \in faults'
  BY DEF Moves, Stays
<1>4. ASSUME NEW e \in Exchange PROVE Sound(e)'
  <2>1. Sound(e)
    BY DEF IInv
  <2>2. RowIsSound(e)'
    <3>1. \A f \in Exchange : Outlives(f, e) => Outlives(f, e)'
      BY <1>3 DEF Outlives
    <3> QED  BY <1>2, <1>3, <2>1, <3>1 DEF Sound, RowIsSound
  <2>3. RoundIsSound(e)'
    BY <1>2, <1>3, <2>1 DEF Sound, RoundIsSound
  <2>4. Promised(e)'
    BY <1>2, <1>3, <2>1 DEF Sound, Promised
  <2>5. JobIsSound(e)' /\ OwnFiles(e)' /\ Named(e)'
    <3>1. CASE Moves(e)
      BY <3>1 DEF Moves
    <3>2. CASE Stays(e)
      <4>1. JobIsSound(e)'
        BY <2>1, <3>2 DEF Sound, JobIsSound, Stays, Excused
      <4>2. OwnFiles(e)'
        BY <2>1, <3>2 DEF Sound, OwnFiles, Stays, Pair, Suffix
      <4>3. InHand(e) => InHand(e)'
        BY <1>3, <3>2 DEF InHand, Stays
      <4>4. Named(e)'
        BY <1>2, <2>1, <3>2, <4>3 DEF Sound, Named, Stays
      <4> QED  BY <4>1, <4>2, <4>4
    <3> QED  BY <3>1, <3>2
  <2> QED  BY <2>2, <2>3, <2>4, <2>5 DEF Sound
<1>5. OneIsKept'
  BY <1>2, <1>3 DEF IInv, OneIsKept, Claimed, Recorded, Excused
<1> QED  BY <1>1, <1>4, <1>5 DEF IInv

\* One exchange moves on, and nothing it wrote so far goes.
LEMMA OneMoves ==
    ASSUME IInv, NEW e \in Exchange, NEW j \in Job, job' = [job EXCEPT ![e] = j],
           files \subseteq files', files' \subseteq files \cup Pair(e),
           faults' \in {faults, faults \cup {e}},
           UNCHANGED <<up, rows, ids, horizon, pruner, round, crashes>>, Moves(e)
    PROVE  IInv'
<1>1. job' \in [Exchange -> Job] /\ faults' \subseteq Exchange /\ faults \subseteq faults'
      /\ files' \subseteq Exchange \X Suffix
  BY DEF IInv, TypeOK, Pair
<1>2. \A f \in Exchange : f # e => Stays(f)
  BY DEF IInv, TypeOK, Stays, Pair
<1> QED  BY <1>1, <1>2, MovesKeep

\* What may become of r, a job whose reply is not flushed yet: j.
Onward(r, j) ==
    /\ j \in Job /\ j.rows = r.rows /\ (j.kept <=> r.kept) /\ j.doomed = r.doomed
    /\ \/ r.at = "new"       /\ j.at = "handling" /\ j.owed /\ (j.whole <=> r.whole)
       \/ r.at = "handling"  /\ j.at = "settling" /\ (j.owed <=> r.owed) /\ (j.whole <=> r.whole)
       \/ r.at = "handling"  /\ j.at = "answered" /\ ~j.owed /\ (j.whole <=> r.whole)
       \/ r.at = "settling"  /\ j.at = "done" /\ ~r.owed /\ ~j.owed /\ (j.whole <=> r.whole)
       \/ r.at = "answered"  /\ j.at \in {"streaming", "insert"} /\ ~j.owed /\ (j.whole <=> r.whole)
       \/ r.at = "streaming" /\ j.at \in {"streaming", "insert"} /\ (j.owed <=> r.owed) /\ (j.whole => r.whole)
       \/ r.at = "streaming" /\ j.at = "store" /\ (j.owed <=> r.owed) /\ j.whole /\ ~j.spoiled

\* Before the reply is flushed nothing of it is on disk.
LEMMA QuietKeeps ==
    ASSUME IInv, NEW e \in Exchange, UNCHANGED <<up, rows, ids, horizon, pruner, round, crashes, files, faults>>,
           up, NEW j, Onward(job[e], j), job' = [job EXCEPT ![e] = j]
    PROVE  IInv'
<1> DEFINE r == job[e]
<1>1. JobIsSound(e) /\ OwnFiles(e) /\ r \in Job /\ j \in Job /\ job'[e] = j
  BY DEF IInv, TypeOK, Sound, Onward
<1>2. /\ r.at \in {"new", "handling", "settling", "answered", "streaming"} /\ ~r.whole /\ ~r.kept
      /\ r.doomed = {}
  BY <1>1 DEF Onward, JobIsSound, Flushed
<1>3. /\ j.at \in {"handling", "settling", "done", "answered", "streaming", "insert", "store"}
      /\ j.rows = r.rows /\ ~j.kept /\ j.doomed = {}
  BY <1>1, <1>2 DEF Onward
<1>4. JobIsSound(e)'
  BY <1>1, <1>2, <1>3 DEF Onward, JobIsSound, Unwritten, Flushed, Excused
<1>5. \A x \in Suffix : <<e, x>> \notin files'
  BY <1>1, <1>2 DEF OwnFiles, Fileless
<1>6. OwnFiles(e)'
  BY <1>1, <1>3, <1>5 DEF OwnFiles
<1>7. Named(e)'
  BY <1>5 DEF Named
<1>8. Moves(e)
  BY <1>1, <1>2, <1>3, <1>4, <1>6, <1>7 DEF Moves
<1> QED  BY <1>1, <1>8, OneMoves

LEMMA ServeKeeps ==
    ASSUME IInv, NEW e \in Exchange,
           \/ Arrive(e) \/ Reject(e) \/ Answer(e) \/ Break(e) \/ End(e) \/ Hangup(e)
           \/ ((Return(e) \/ Abandon(e)) /\ ~job[e].owed)
    PROVE  IInv'
<1> DEFINE r == job[e]
<1>1. r \in Job /\ JobIsSound(e)
  BY DEF IInv, TypeOK, Sound
<1>2. UNCHANGED <<up, rows, ids, horizon, pruner, round, crashes, files, faults>>
  BY DEF Arrive, Reject, Answer, Break, End, Hangup, Return, Abandon, GuardRow
<1>3. up
  BY DEF Arrive, Reject, Answer, Break, End, Hangup, Return, Abandon, At
<1>4. \E j : Onward(r, j) /\ job' = [job EXCEPT ![e] = j]
  <2>1. CASE Arrive(e)
    <3> DEFINE j == [r EXCEPT !.at = "handling", !.owed = TRUE]
    <3>1. job' = [job EXCEPT ![e] = j] /\ r.at = "new"
      BY <2>1 DEF Arrive, At
    <3> HIDE DEF r
    <3>2. Onward(r, j)
      BY <1>1, <3>1 DEF Onward, Job, Stage
    <3> QED  BY <3>1, <3>2
  <2>2. CASE Reject(e)
    <3> DEFINE j == [r EXCEPT !.at = "settling"]
    <3>1. job' = [job EXCEPT ![e] = j] /\ r.at = "handling"
      BY <2>2 DEF Reject, Become, At
    <3> HIDE DEF r
    <3>2. Onward(r, j)
      BY <1>1, <3>1 DEF Onward, Job, Stage
    <3> QED  BY <3>1, <3>2
  <2>3. CASE Answer(e)
    <3> DEFINE signs == e \in Offers
               j == [r EXCEPT !.at = "answered", !.owed = FALSE, !.signs = signs]
    <3>1. job' = [job EXCEPT ![e] = j] /\ r.at = "handling" /\ signs \in BOOLEAN
      BY <2>3 DEF Answer, At
    <3> HIDE DEF r, signs
    <3>2. /\ j \in Job /\ j.at = "answered" /\ ~j.owed /\ j.whole = r.whole /\ j.kept = r.kept
          /\ j.doomed = r.doomed /\ j.rows = r.rows
      BY <1>1, <3>1 DEF Job, Stage
    <3> HIDE DEF j
    <3> QED  BY <3>1, <3>2 DEF Onward
  <2>4. CASE Break(e)
    <3> DEFINE j == [r EXCEPT !.at = "insert", !.spoiled = TRUE]
               k == [r EXCEPT !.spoiled = TRUE]
    <3>1. r.at = "streaming" /\ (job' = [job EXCEPT ![e] = j] \/ job' = [job EXCEPT ![e] = k])
      BY <2>4 DEF Break, At
    <3> HIDE DEF r
    <3>2. Onward(r, j) /\ Onward(r, k)
      BY <1>1, <3>1 DEF Onward, Job, Stage
    <3> QED  BY <3>1, <3>2
  <2>5. CASE End(e) \/ Hangup(e)
    <3> DEFINE j == [r EXCEPT !.at = "store", !.whole = TRUE]
               k == [r EXCEPT !.at = "insert", !.whole = FALSE]
    <3>1. /\ r.at = "streaming"
          /\ (~r.spoiled /\ job' = [job EXCEPT ![e] = j]) \/ job' = [job EXCEPT ![e] = k]
      BY <1>1, <2>5 DEF End, Hangup, Flush, At, Job
    <3> HIDE DEF r
    <3>2. ~r.spoiled => Onward(r, j)
      BY <1>1, <3>1 DEF Onward, Job, Stage
    <3>3. Onward(r, k)
      BY <1>1, <3>1 DEF Onward, Job, Stage
    <3> QED  BY <3>1, <3>2, <3>3
  <2>6. CASE (Return(e) \/ Abandon(e)) /\ ~r.owed
    <3> DEFINE j(stage) == [r EXCEPT !.at = stage]
    <3>1. \/ r.at = "settling" /\ job' = [job EXCEPT ![e] = j("done")]
          \/ r.at = "answered" /\ job' = [job EXCEPT ![e] = j("streaming")]
          \/ r.at = "answered" /\ job' = [job EXCEPT ![e] = j("insert")]
      BY <1>1, <2>6 DEF Return, Abandon, GuardRow, Become, At, JobIsSound
    <3> HIDE DEF r
    <3>2. r.at = "settling" => Onward(r, j("done"))
      BY <1>1, <2>6 DEF Onward, Job, Stage
    <3>3. r.at = "answered" => Onward(r, j("streaming")) /\ Onward(r, j("insert"))
      BY <1>1, <2>6 DEF Onward, Job, Stage
    <3> HIDE DEF j
    <3> QED  BY <3>1, <3>2, <3>3
  <2> QED  BY <2>1, <2>2, <2>3, <2>4, <2>5, <2>6
<1> QED  BY <1>2, <1>3, <1>4, QuietKeeps

\* The files go down one at a time, and the row waits for both.
LEMMA StoreKeeps ==
    ASSUME IInv, NEW e \in Exchange, StoreRequest(e) \/ StoreResponse(e)
    PROVE  IInv'
<1> DEFINE r == job[e]
<1>1. JobIsSound(e) /\ OwnFiles(e) /\ r \in Job /\ up /\ RowIsSound(e)
      /\ r.at \in {"store", "half"}
  BY DEF IInv, TypeOK, Sound, StoreRequest, StoreResponse, At
<1>2. UNCHANGED <<up, rows, ids, horizon, pruner, round, crashes>>
  BY DEF StoreRequest, StoreResponse
<1>3. r.rows = 0 /\ rows[e] = None /\ ~r.kept /\ ~r.owed /\ r.doomed = {} /\ (r.whole => ~r.spoiled)
  BY <1>1 DEF JobIsSound, RowIsSound, Unwritten
<1>4. PICK j \in Job :
        /\ job' = [job EXCEPT ![e] = j]
        /\ j.rows = r.rows /\ j.doomed = r.doomed /\ (j.whole <=> r.whole) /\ (j.spoiled <=> r.spoiled) /\ ~j.owed
        /\ \/ /\ r.at = "store" /\ j.at = "half" /\ ~j.kept
              /\ Works /\ files' = files \cup {<<e, "req">>}
           \/ /\ r.at = "half" /\ j.at = "insert" /\ j.kept
              /\ Works /\ files' = files \cup {<<e, "res">>}
           \/ j.at = "insert" /\ ~j.kept /\ Fails(e) /\ files' = files
  <2> DEFINE moved(stage) == [r EXCEPT !.at = stage]
             kept == [r EXCEPT !.at = "insert", !.kept = TRUE]
  <2>1. \/ /\ r.at = "store" /\ job' = [job EXCEPT ![e] = moved("half")]
           /\ Works /\ files' = files \cup {<<e, "req">>}
        \/ /\ r.at = "half" /\ job' = [job EXCEPT ![e] = kept]
           /\ Works /\ files' = files \cup {<<e, "res">>}
        \/ job' = [job EXCEPT ![e] = moved("insert")] /\ Fails(e) /\ files' = files
    BY DEF StoreRequest, StoreResponse, At, Become
  <2>2. kept \in Job /\ moved("half") \in Job /\ moved("insert") \in Job
    <3> HIDE DEF r
    <3> QED  BY <1>1 DEF Job, Stage
  <2> HIDE DEF r
  <2> QED  BY <1>1, <1>3, <2>1, <2>2 DEF Job
<1>5. job'[e] = j
  BY <1>4 DEF IInv, TypeOK
<1>6. /\ files \subseteq files' /\ files' \subseteq files \cup Pair(e)
      /\ faults' \in {faults, faults \cup {e}}
  BY <1>4 DEF Works, Fails, Pair, Suffix
<1>7. JobIsSound(e)'
  BY <1>1, <1>2, <1>3, <1>4, <1>5 DEF JobIsSound, Unwritten, Flushed, Excused, Job
<1>8. OwnFiles(e)'
  BY <1>1, <1>4, <1>5 DEF OwnFiles, Fails, Fileless, Pair, Suffix
<1>9. Named(e)'
  BY <1>4, <1>5 DEF Named, InHand
<1>10. Moves(e)
  BY <1>1, <1>3, <1>4, <1>5, <1>7, <1>8, <1>9 DEF Moves
<1> QED  BY <1>2, <1>4, <1>6, <1>10, OneMoves

\* The row could not be written, the window not rolled, or all is unlinked.
LEMMA NothingWrittenKeeps ==
    ASSUME IInv, NEW e \in Exchange, NEW j \in Job, job' = [job EXCEPT ![e] = j],
           UNCHANGED <<up, rows, ids, files, horizon, pruner, round, crashes>>, up,
           j.rows = job[e].rows, j.doomed = job[e].doomed, j.kept <=> job[e].kept, ~j.owed,
           j.whole <=> job[e].whole, j.spoiled <=> job[e].spoiled,
           \/ Fails(e) /\ job[e].at \in {"handling", "settling"} /\ j.at \in {"settling", "done"}
           \/ Fails(e) /\ job[e].at \in {"insert", "roll"} /\ j.at = "done"
           \/ Works /\ job[e].at = "unlink" /\ job[e].doomed = {} /\ j.at = "done"
    PROVE  IInv'
<1>1. JobIsSound(e) /\ OwnFiles(e) /\ Named(e) /\ RowIsSound(e) /\ Promised(e) /\ job'[e] = j
  BY DEF IInv, TypeOK, Sound
<1>2. /\ faults' \in {faults, faults \cup {e}} /\ j.at \in {"settling", "done"}
      /\ job[e].at = "roll" => e \in faults'
  BY DEF Works, Fails
<1>3. JobIsSound(e)'
  BY <1>1, <1>2 DEF Fails, Works, Job, JobIsSound, Unwritten, Flushed, Excused
<1>4. OwnFiles(e)'
  <2>1. j.at = "settling" => job[e].at \in Fileless
    BY DEF Fileless
  <2> QED  BY <1>1, <1>2, <2>1 DEF OwnFiles, Fileless
<1>5. Named(e)'
  <2>1. CASE job[e].at \in {"handling", "settling"}
    BY <1>1, <2>1 DEF OwnFiles, Named, Fileless
  <2>2. CASE Fails(e)
    BY <2>2 DEF Fails, Named
  <2>3. CASE job[e].at = "unlink"
    <3>1. \A f \in Exchange : job'[f].doomed = job[f].doomed
      BY DEF IInv, TypeOK
    <3>2. InHand(e) => InHand(e)'
      BY <2>3, <3>1 DEF InHand
    <3>3. Claimed' = Claimed /\ Expired' = Expired /\ faults \subseteq faults'
      BY <1>2 DEF Claimed, Recorded, Expired
    <3> QED  BY <1>1, <3>2, <3>3 DEF Named
  <2> QED  BY <2>1, <2>2, <2>3
<1>6. Moves(e)
  BY <1>1, <1>2, <1>3, <1>4, <1>5 DEF Moves
<1> QED  BY <1>2, <1>6, OneMoves

\* A restart drops one reply, and another takes its place.
LEMMA RestartKeeps ==
    ASSUME IInv, NEW e \in Exchange, NEW f \in Exchange, Restart(e, f)
    PROVE  IInv'
<1>1. /\ JobIsSound(e) /\ OwnFiles(e) /\ job[e] \in Job /\ RowIsSound(e)
      /\ JobIsSound(f) /\ OwnFiles(f) /\ job[f] \in Job /\ RowIsSound(f)
      /\ job[e].at = "streaming" /\ job[f].at = "new" /\ up /\ e # f
  BY DEF IInv, TypeOK, Sound, Restart, At
<1>2. UNCHANGED <<up, rows, ids, horizon, pruner, round, crashes, files, faults>>
  BY DEF Restart
<1>3. /\ job'[e] = [job[e] EXCEPT !.at = "insert"]
      /\ job'[f] = [job[f] EXCEPT !.at = IF e \in OpenAi THEN "streaming" ELSE "unrecorded",
                                  !.signs = job[e].signs]
      /\ \A g \in Exchange \ {e, f} : job'[g] = job[g]
      /\ job' \in [Exchange -> Job]
  BY <1>1 DEF IInv, TypeOK, Restart, Job, Stage
<1>4. JobIsSound(e)' /\ JobIsSound(f)'
  BY <1>1, <1>2, <1>3 DEF JobIsSound, Job, Unwritten, Flushed, Excused
<1>5. \A x \in Suffix : <<e, x>> \notin files' /\ <<f, x>> \notin files'
  BY <1>1, <1>2 DEF OwnFiles, Fileless
<1>6. OwnFiles(e)' /\ OwnFiles(f)' /\ Named(e)' /\ Named(f)'
  <2>1. job'[e].at = "insert" /\ job'[f].at \in {"streaming", "unrecorded"} /\ ~job'[e].kept
    BY <1>1, <1>3 DEF JobIsSound, Job
  <2> QED  BY <1>5, <2>1 DEF OwnFiles, Named, Fileless
<1>7. Moves(e) /\ Moves(f)
  BY <1>1, <1>3, <1>4, <1>6 DEF Moves, Job
<1>8. \A g \in Exchange : Moves(g) \/ Stays(g)
  BY <1>2, <1>3, <1>7 DEF Stays
<1> QED  BY <1>2, <1>3, <1>8, MovesKeep DEF IInv, TypeOK

-----------------------------------------------------------------------------
(* A row is written *)

\* The row of e, by whoever owes it: the guard or the handler, with no bodies,
\* or the reply's write, with those that are on disk.
LEMMA NewRowKeeps ==
    ASSUME IInv, NEW e \in Exchange, NEW j \in Job, job' = [job EXCEPT ![e] = j],
           NEW row \in Row, rows' = [rows EXCEPT ![e] = row], ids' = ids + 1,
           UNCHANGED <<up, files, horizon, pruner, round, faults, crashes>>, up,
           job[e].rows = 0, j.rows = 1, j.doomed = job[e].doomed, ~j.owed,
           j.kept <=> job[e].kept, j.whole <=> job[e].whole, j.spoiled <=> job[e].spoiled,
           row.id = ids + 1, row.tries = 0, row.proof # "verified", row.whole => j.whole,
           row.body <=> j.kept,
           \/ job[e].at \in {"handling", "settling"} /\ j.at \in {"settling", "done"}
           \/ job[e].at = "insert" /\ j.at = (IF j.kept THEN "roll" ELSE "done")
    PROVE  IInv'
<1>1. /\ JobIsSound(e) /\ OwnFiles(e) /\ RowIsSound(e) /\ Promised(e) /\ RoundIsSound(e) /\ Named(e)
      /\ job'[e] = j /\ rows'[e] = row /\ row # None /\ row.id \in Nat /\ ids \in Nat
  BY DEF IInv, TypeOK, Sound, Row
<1>2. rows[e] = None /\ e \notin pruner.refs /\ \A f \in Exchange : e \notin job[f].doomed
  BY <1>1 DEF RowIsSound, Promised
<1>3. \A f \in Exchange : f # e => job'[f] = job[f] /\ rows'[f] = rows[f]
  BY DEF IInv, TypeOK
<1>4. \A f \in Exchange : job'[f].doomed = job[f].doomed
  BY <1>1, <1>3
<1>5. TypeOK'
  BY <1>1 DEF IInv, TypeOK
<1>6. /\ \A f \in Exchange : f # e => /\ f \in Claimed' <=> f \in Claimed
                                      /\ f \in Pending' <=> f \in Pending
      /\ e \in Claimed' <=> j.kept
      /\ Expired' = Expired
  BY <1>1, <1>3 DEF Claimed, Recorded, Pending, Expired
<1>7. ASSUME NEW f \in Exchange, f # e PROVE Sound(f)'
  <2>1. Sound(f) /\ job'[f] = job[f] /\ rows'[f] = rows[f]
    BY <1>3, <1>7 DEF IInv
  <2>2. JobIsSound(f)' /\ OwnFiles(f)'
    BY <2>1 DEF Sound, JobIsSound, OwnFiles, Excused
  <2>3. RowIsSound(f)'
    <3>1. \A g \in Exchange : Outlives(g, f) => Outlives(g, f)'
      BY <1>3, <2>1 DEF Outlives
    <3>2. rows[f] # None => rows[f].id \in Nat
      BY DEF IInv, TypeOK, Row
    <3>3. rows[f] # None /\ rows[f].id <= ids => rows'[f].id <= ids'
      BY <1>1, <2>1, <3>2
    <3> QED  BY <1>6, <2>1, <3>1, <3>3 DEF Sound, RowIsSound
  <2>4. RoundIsSound(f)'
    BY <1>6, <1>7, <2>1 DEF Sound, RoundIsSound
  <2>5. Promised(f)'
    BY <1>4, <1>6, <1>7, <2>1 DEF Sound, Promised
  <2>6. Named(f)'
    <3>1. InHand(f) => InHand(f)'
      BY <1>4, <2>1 DEF InHand
    <3> QED  BY <1>6, <1>7, <2>1, <3>1 DEF Sound, Named
  <2> QED  BY <2>2, <2>3, <2>4, <2>5, <2>6 DEF Sound
<1>8. Sound(e)'
  <2>1. JobIsSound(e)'
    BY <1>1 DEF JobIsSound, Unwritten, Flushed, Excused, Job
  <2>2. RowIsSound(e)'
    <3>1. row.body => Pair(e) \subseteq files
      BY <1>1 DEF OwnFiles, JobIsSound
    <3> QED  BY <1>1, <3>1 DEF RowIsSound
  <2>3. RoundIsSound(e)'
    BY <1>1 DEF RoundIsSound
  <2>4. OwnFiles(e)'
    <3>1. job[e].at \in {"handling", "settling"} => job[e].at \in Fileless
      BY DEF Fileless
    <3>2. j.at \in Fileless => j.at = "settling" /\ job[e].at \in {"handling", "settling"}
      BY DEF Fileless
    <3> QED  BY <1>1, <3>1, <3>2 DEF OwnFiles
  <2>5. Promised(e)'
    BY <1>2, <1>4 DEF Promised
  <2>6. Named(e)'
    <3>1. CASE job[e].at \in {"handling", "settling"}
      BY <1>1, <3>1 DEF OwnFiles, Named, Fileless
    <3>2. CASE job[e].at = "insert"
      BY <1>1, <1>6, <3>2 DEF OwnFiles, Named
    <3> QED  BY <3>1, <3>2
  <2> QED  BY <2>1, <2>2, <2>3, <2>4, <2>5, <2>6 DEF Sound
<1>9. OneIsKept'
  <2> SUFFICES ASSUME NEW a \in Claimed', NEW b \in Claimed', SessionOf[a] = SessionOf[b],
                      rows'[a].id < rows'[b].id
               PROVE  job'[b].at = "roll" \/ Excused(b)'
    BY DEF OneIsKept
  <2>1. a \in Exchange /\ b \in Exchange
    BY DEF Claimed, Recorded
  <2>2. CASE b = e
    BY <1>1, <1>6, <2>2 DEF JobIsSound
  <2>3. CASE b # e /\ a = e
    <3>1. rows[b] # None /\ rows[b].id \in Nat /\ rows[b].id <= ids
      BY <1>6, <2>1, <2>3 DEF IInv, TypeOK, Sound, RowIsSound, Claimed, Recorded, Row
    <3> QED  BY <1>1, <1>3, <2>1, <2>3, <3>1
  <2>4. CASE b # e /\ a # e
    BY <1>3, <1>6, <2>1, <2>4 DEF IInv, OneIsKept, Excused
  <2> QED  BY <2>2, <2>3, <2>4
<1> QED  BY <1>5, <1>7, <1>8, <1>9 DEF IInv

\* The guard's row, or the handler's.
LEMMA RefusalKeeps ==
    ASSUME IInv, NEW e \in Exchange, up, NEW stage \in {"settling", "done"},
           job[e].at \in {"handling", "settling"}, job[e].owed, RefusalRow(e, stage),
           UNCHANGED <<up, files, horizon, pruner, round, crashes>>
    PROVE  IInv'
<1> DEFINE r == job[e]
<1>1. JobIsSound(e) /\ r \in Job /\ ids \in Nat
  BY DEF IInv, TypeOK, Sound
<1>2. r.rows = 0 /\ ~r.kept
  BY <1>1 DEF JobIsSound
<1>3. CASE UNCHANGED <<rows, ids>> /\ Fails(e) /\ job' = [job EXCEPT ![e] = [@ EXCEPT !.at = stage, !.owed = FALSE]]
  <2> DEFINE j == [r EXCEPT !.at = stage, !.owed = FALSE]
  <2>1. job' = [job EXCEPT ![e] = j]
    BY <1>3
  <2>2. /\ j \in Job /\ j.at = stage /\ ~j.owed /\ j.rows = r.rows /\ j.doomed = r.doomed
        /\ j.kept = r.kept /\ j.whole = r.whole /\ j.spoiled = r.spoiled
    <3> HIDE DEF r
    <3> QED  BY <1>1 DEF Job, Stage
  <2> HIDE DEF j
  <2> QED  BY <1>3, <2>1, <2>2, NothingWrittenKeeps
<1>4. CASE Works /\ NewRow(e, FALSE, FALSE, FALSE, "absent")
           /\ job' = [job EXCEPT ![e] = [@ EXCEPT !.at = stage, !.owed = FALSE, !.rows = job[e].rows + 1]]
  <2> DEFINE more == r.rows + 1
             j == [r EXCEPT !.at = stage, !.owed = FALSE, !.rows = more]
             row == [id |-> ids + 1, body |-> FALSE, whole |-> FALSE, named |-> FALSE,
                     proof |-> "absent", tries |-> 0]
  <2>1. job' = [job EXCEPT ![e] = j] /\ rows' = [rows EXCEPT ![e] = row] /\ ids' = ids + 1
    BY <1>4 DEF NewRow
  <2>2. /\ j \in Job /\ j.at = stage /\ ~j.owed /\ j.rows = 1 /\ j.doomed = r.doomed
        /\ j.kept = r.kept /\ j.whole = r.whole /\ j.spoiled = r.spoiled
    <3>1. more = 1 /\ more \in 0 .. 2 /\ stage \in Stage
      BY <1>2 DEF Stage
    <3> HIDE DEF r, more
    <3>2. j \in Job
      BY <1>1, <3>1 DEF Job
    <3>3. j.at = stage /\ j.owed = FALSE /\ j.rows = more
      BY <1>1 DEF Job
    <3>4. /\ j.doomed = r.doomed /\ j.kept = r.kept /\ j.whole = r.whole /\ j.spoiled = r.spoiled
      BY <1>1 DEF Job
    <3> QED  BY <3>1, <3>2, <3>3, <3>4
  <2>3. row \in Row /\ row.id = ids + 1 /\ row.tries = 0 /\ row.proof # "verified" /\ ~row.whole /\ ~row.body
    BY <1>1 DEF Row, Proof
  <2> HIDE DEF j, row
  <2> QED  BY <1>2, <1>4, <2>1, <2>2, <2>3, NewRowKeeps DEF Works
<1> QED  BY <1>3, <1>4 DEF RefusalRow

LEMMA OwedKeeps ==
    ASSUME IInv, NEW e \in Exchange,
           Refuse(e) \/ ((Return(e) \/ Abandon(e)) /\ job[e].owed)
    PROVE  IInv'
<1>1. JobIsSound(e)
  BY DEF IInv, Sound
<1>2. job[e].at \in {"handling", "settling"} /\ job[e].owed /\ up
  BY <1>1 DEF JobIsSound, Refuse, Return, Abandon, At
<1>3. PICK stage \in {"settling", "done"} : RefusalRow(e, stage)
  BY <1>2 DEF Refuse, Return, Abandon, At, GuardRow
<1>4. UNCHANGED <<up, files, horizon, pruner, round, crashes>>
  BY DEF Refuse, Return, Abandon
<1> QED  BY <1>2, <1>3, <1>4, RefusalKeeps

LEMMA InsertKeeps ==
    ASSUME IInv, NEW e \in Exchange, Insert(e)
    PROVE  IInv'
<1> DEFINE r == job[e]
<1>1. JobIsSound(e) /\ r \in Job /\ ids \in Nat /\ up /\ r.at = "insert"
      /\ UNCHANGED <<up, files, horizon, pruner, round, crashes>>
  BY DEF IInv, TypeOK, Sound, Insert, At
<1>2. r.rows = 0 /\ ~r.owed
  BY <1>1 DEF JobIsSound, Unwritten
<1>3. CASE UNCHANGED <<rows, ids>> /\ Fails(e) /\ Become(e, "done")
  <2> DEFINE j == [r EXCEPT !.at = "done"]
  <2>1. job' = [job EXCEPT ![e] = j]
    BY <1>3 DEF Become
  <2>2. /\ j \in Job /\ j.at = "done" /\ ~j.owed /\ j.rows = r.rows /\ j.doomed = r.doomed
        /\ j.kept = r.kept /\ j.whole = r.whole /\ j.spoiled = r.spoiled
    <3> HIDE DEF r
    <3> QED  BY <1>1, <1>2 DEF Job, Stage
  <2> HIDE DEF j
  <2> QED  BY <1>1, <1>3, <2>1, <2>2, NothingWrittenKeeps
<1>4. CASE /\ Works
           /\ \E named \in BOOLEAN :
                 NewRow(e, job[e].kept, job[e].whole, named,
                        IF job[e].signs THEN "pending" ELSE "outside")
           /\ job' = [job EXCEPT ![e] = [@ EXCEPT !.at = IF job[e].kept THEN "roll" ELSE "done",
                                                  !.rows = job[e].rows + 1]]
  <2> DEFINE stage == IF r.kept THEN "roll" ELSE "done"
             proof == IF r.signs THEN "pending" ELSE "outside"
             more == r.rows + 1
             j == [r EXCEPT !.at = stage, !.rows = more]
             row(named) == [id |-> ids + 1, body |-> r.kept, whole |-> r.whole, named |-> named,
                            proof |-> proof, tries |-> 0]
  <2>1. PICK named \in BOOLEAN : rows' = [rows EXCEPT ![e] = row(named)] /\ ids' = ids + 1
    BY <1>4 DEF NewRow
  <2>2. job' = [job EXCEPT ![e] = j]
    BY <1>4
  <2>3. /\ j \in Job /\ j.at = stage /\ ~j.owed /\ j.rows = 1 /\ j.doomed = r.doomed
        /\ j.kept = r.kept /\ j.whole = r.whole /\ j.spoiled = r.spoiled
    <3>1. stage \in Stage /\ more = 1 /\ more \in 0 .. 2
      BY <1>2 DEF Stage
    <3> HIDE DEF r, stage, more
    <3>2. ~r.owed
      BY <1>2
    <3>3. j \in Job
      BY <1>1, <3>1 DEF Job
    <3>4. j.at = stage /\ j.rows = more /\ j.owed = r.owed
      BY <1>1 DEF Job
    <3>5. /\ j.doomed = r.doomed /\ j.kept = r.kept /\ j.whole = r.whole /\ j.spoiled = r.spoiled
      BY <1>1 DEF Job
    <3> QED  BY <3>1, <3>2, <3>3, <3>4, <3>5
  <2>4. /\ row(named) \in Row /\ row(named).id = ids + 1 /\ row(named).tries = 0
        /\ row(named).proof # "verified" /\ row(named).whole = r.whole /\ row(named).body = r.kept
    <3>1. proof \in Proof \ {"verified"} /\ r.kept \in BOOLEAN /\ r.whole \in BOOLEAN
      BY <1>1 DEF Proof, Job
    <3> HIDE DEF r, proof
    <3> QED  BY <1>1, <3>1, SMTT(30) DEF Row
  <2> HIDE DEF j, row
  <2> QED  BY <1>1, <1>2, <1>4, <2>1, <2>2, <2>3, <2>4, NewRowKeeps DEF Works
<1> QED  BY <1>3, <1>4 DEF Insert

-----------------------------------------------------------------------------
(* The roll, and the files that go *)

\* What e supersedes is in its hand from the transaction on.
LEMMA RollKeeps ==
    ASSUME IInv, NEW e \in Exchange, Roll(e)
    PROVE  IInv'
<1> DEFINE r == job[e]
           gone == Superseded(e)
<1>1. /\ JobIsSound(e) /\ r \in Job /\ up /\ r.at = "roll"
      /\ UNCHANGED <<up, ids, files, horizon, pruner, round, crashes>>
  BY DEF IInv, TypeOK, Sound, Roll, At
<1>2. r.rows = 1 /\ r.kept /\ ~r.owed /\ r.doomed = {}
  BY <1>1 DEF JobIsSound
<1>3. CASE Fails(e) /\ Become(e, "done") /\ UNCHANGED rows
  <2> DEFINE j == [r EXCEPT !.at = "done"]
  <2>1. job' = [job EXCEPT ![e] = j]
    BY <1>3 DEF Become
  <2>2. /\ j \in Job /\ j.at = "done" /\ ~j.owed /\ j.rows = r.rows /\ j.doomed = r.doomed
        /\ j.kept = r.kept /\ j.whole = r.whole /\ j.spoiled = r.spoiled
    <3>1. ~r.owed
      BY <1>2
    <3> HIDE DEF r
    <3> QED  BY <1>1, <3>1 DEF Job, Stage
  <2> HIDE DEF j
  <2> QED  BY <1>1, <1>3, <2>1, <2>2, NothingWrittenKeeps
<1>4. CASE /\ Works
           /\ rows' = [f \in Exchange |-> IF f \in gone THEN [rows[f] EXCEPT !.body = FALSE] ELSE rows[f]]
           /\ job' = [job EXCEPT ![e] = [@ EXCEPT !.at = "unlink", !.doomed = gone]]
  <2>1. gone \subseteq Exchange /\ e \notin gone
    BY DEF Superseded, Claimed, Recorded, IInv, TypeOK, Row
  <2>2. /\ job' \in [Exchange -> Job] /\ \A f \in Exchange : f # e => job'[f] = job[f]
        /\ job'[e].at = "unlink" /\ job'[e].doomed = gone /\ job'[e].rows = 1
        /\ job'[e].kept = r.kept /\ job'[e].whole = r.whole /\ job'[e].spoiled = r.spoiled
        /\ job'[e].owed = r.owed
    <3> DEFINE j == [r EXCEPT !.at = "unlink", !.doomed = gone]
    <3>1. job' = [job EXCEPT ![e] = j]
      BY <1>4
    <3>2. /\ j \in Job /\ j.at = "unlink" /\ j.doomed = gone /\ j.rows = r.rows /\ j.owed = r.owed
          /\ j.kept = r.kept /\ j.whole = r.whole /\ j.spoiled = r.spoiled
      <4> HIDE DEF r, gone
      <4> QED  BY <1>1, <2>1 DEF Job, Stage
    <3> HIDE DEF j
    <3> QED  BY <1>2, <3>1, <3>2 DEF IInv, TypeOK
  <2>3. ASSUME NEW f \in Exchange
        PROVE  /\ rows'[f] \in Row \cup {None}
               /\ rows'[f] = None <=> rows[f] = None
               /\ rows[f] # None => /\ rows'[f].id = rows[f].id /\ rows'[f].proof = rows[f].proof
                                    /\ (rows'[f].whole <=> rows[f].whole) /\ rows'[f].tries = rows[f].tries
                                    /\ (rows'[f].body <=> rows[f].body /\ f \notin gone)
    <3>1. CASE f \notin gone
      BY <1>4, <3>1 DEF IInv, TypeOK
    <3>2. CASE f \in gone
      <4>1. rows'[f] = [rows[f] EXCEPT !.body = FALSE] /\ rows[f] \in Row
        BY <1>4, <3>2 DEF IInv, TypeOK, Superseded, Claimed, Recorded
      <4> HIDE DEF gone
      <4> QED  BY <3>2, <4>1 DEF Row
    <3> QED  BY <3>1, <3>2
  <2>4. /\ \A f \in Exchange : f \in Claimed' <=> f \in Claimed /\ f \notin gone
        /\ \A f \in Exchange : f \in Pending' <=> f \in Pending
        /\ Expired' = Expired
    <3> HIDE DEF gone
    <3> QED  BY <1>1, <2>3 DEF Claimed, Recorded, Pending, Expired
  <2>5. TypeOK'
    <3>1. rows' \in [Exchange -> Row \cup {None}]
      <4> HIDE DEF gone
      <4> QED  BY <1>4, <2>3
    <3> QED  BY <1>1, <1>4, <2>2, <3>1 DEF IInv, TypeOK, Works
  <2>6. ASSUME NEW f \in Exchange PROVE Sound(f)'
    <3> HIDE DEF gone
    <3>1. Sound(f)
      BY DEF IInv
    <3>2. JobIsSound(f)'
      <4>1. CASE f = e
        BY <1>1, <1>2, <1>4, <2>2, <4>1 DEF JobIsSound, Unwritten, Flushed, Excused, Works, Job
      <4>2. CASE f # e
        BY <1>1, <1>4, <2>2, <3>1, <4>2 DEF Sound, JobIsSound, Excused, Works
      <4> QED  BY <4>1, <4>2
    <3>3. /\ job'[f].rows = job[f].rows /\ (job'[f].kept <=> job[f].kept) /\ (job'[f].whole <=> job[f].whole)
          /\ f # e => job'[f] = job[f]
      BY <1>2, <2>2
    <3>4. RowIsSound(f)'
      <4>1. ASSUME NEW g \in Exchange, Outlives(g, f) PROVE rows[f] # None => Outlives(g, f)'
        BY <1>2, <2>2, <2>3, <4>1 DEF Outlives
      <4>2. f \in gone => Outlives(e, f)'
        <5>1. f \in gone => f # e /\ SessionOf[f] = SessionOf[e] /\ rows[f].id < rows[e].id /\ rows[f] # None
          BY <2>1 DEF gone, Superseded, Claimed, Recorded
        <5>2. /\ rows[f] # None => rows[f].id \in Nat /\ rows'[f].id = rows[f].id
              /\ rows[e] # None => rows[e].id \in Nat
              /\ rows'[e] # None => rows[e] # None /\ rows'[e].id = rows[e].id
          BY <2>3 DEF IInv, TypeOK, Row
        <5> QED  BY <1>2, <2>2, <5>1, <5>2 DEF Outlives
      <4>3. job[f].kept /\ ~rows[f].body /\ rows[f] # None => \E g \in Exchange : Outlives(g, f)'
        BY <3>1, <4>1 DEF Sound, RowIsSound
      <4>4. rows'[f] # None => rows[f] # None /\ (~rows'[f].body => ~rows[f].body \/ f \in gone)
        BY <2>3
      <4>5. rows'[f] # None => (job'[f].kept /\ ~rows'[f].body => \E g \in Exchange : Outlives(g, f)')
        BY <3>3, <4>2, <4>3, <4>4
      <4>6. rows'[f] # None =>
              /\ job'[f].rows = 1 /\ rows'[f].id <= ids'
              /\ rows'[f].whole => job'[f].whole
              /\ rows'[f].proof = "verified" => f \in Offers /\ job'[f].whole
              /\ rows'[f].body => Pair(f) \subseteq files' \/ f \in Expired'
        BY <1>1, <2>3, <2>4, <3>1, <3>3 DEF Sound, RowIsSound
      <4> QED  BY <4>5, <4>6 DEF RowIsSound
    <3>5. RoundIsSound(f)'
      <4>1. f \in Pending' => f \in Pending /\ rows'[f].tries = rows[f].tries
        BY <2>3, <2>4 DEF Pending, Recorded
      <4> QED  BY <1>1, <3>1, <3>3, <4>1 DEF Sound, RoundIsSound
    <3>6. OwnFiles(f)'
      <4>1. CASE f = e
        BY <2>2, <4>1 DEF OwnFiles, Fileless
      <4>2. CASE f # e
        BY <1>1, <1>4, <2>2, <3>1, <4>2 DEF Sound, OwnFiles, Works
      <4> QED  BY <4>1, <4>2
    <3>7. Promised(f)'
      <4>1. f \in gone => job[f].rows = 1
        BY <3>1 DEF gone, Superseded, Claimed, Recorded, Sound, RowIsSound
      <4> QED  BY <1>1, <2>2, <2>4, <3>1, <3>3, <4>1 DEF Sound, Promised
    <3>8. Named(f)'
      <4>1. f \in gone => InHand(f)'
        BY <2>2 DEF InHand
      <4>2. InHand(f) => InHand(f)'
        BY <1>1, <1>2, <2>2 DEF InHand
      <4> QED  BY <1>1, <1>4, <2>4, <3>1, <4>1, <4>2 DEF Sound, Named, Works
    <3> QED  BY <3>2, <3>4, <3>5, <3>6, <3>7, <3>8 DEF Sound
  <2>7. OneIsKept'
    <3> SUFFICES ASSUME NEW a \in Claimed', NEW b \in Claimed', SessionOf[a] = SessionOf[b],
                        rows'[a].id < rows'[b].id
                 PROVE  job'[b].at = "roll" \/ Excused(b)'
      BY DEF OneIsKept
    <3>1. a \in Claimed /\ b \in Claimed /\ a \notin gone /\ a \in Exchange /\ b \in Exchange
      BY <2>4 DEF Claimed, Recorded
    <3>2. rows[a].id < rows[b].id
      BY <2>3, <3>1 DEF Claimed, Recorded
    <3>3. b # e
      BY <3>1, <3>2 DEF Superseded
    <3> QED  BY <1>1, <1>4, <2>2, <3>1, <3>2, <3>3 DEF IInv, OneIsKept, Excused, Works
  <2> QED  BY <2>5, <2>6, <2>7 DEF IInv
<1> QED  BY <1>3, <1>4 DEF Roll

\* Whoever unlinks f's files has them in hand, and no live row names them.
LEMMA RemovalKeeps ==
    ASSUME IInv, NEW f \in Exchange, Removed(f), job[f].rows = 1, f \notin Claimed \/ f \in Expired,
           UNCHANGED <<up, rows, ids, horizon, round, crashes>>,
           pruner' \in [at : {"idle", "unlink", "delete"}, refs : SUBSET Exchange],
           pruner'.refs \subseteq pruner.refs, pruner.refs \ {f} \subseteq pruner'.refs,
           job' \in [Exchange -> Job],
           \A g \in Exchange :
               /\ job'[g].at = job[g].at /\ job'[g].rows = job[g].rows
               /\ job'[g].owed <=> job[g].owed
               /\ job'[g].kept <=> job[g].kept
               /\ job'[g].whole <=> job[g].whole
               /\ job'[g].spoiled <=> job[g].spoiled
               /\ job'[g].doomed \subseteq job[g].doomed /\ job[g].doomed \ {f} \subseteq job'[g].doomed
    PROVE  IInv'
<1>1. /\ files' \subseteq files /\ faults \subseteq faults' /\ faults' \subseteq Exchange
      /\ \A g \in Exchange, x \in Suffix : g # f => (<<g, x>> \in files' <=> <<g, x>> \in files)
      /\ f \in faults' \/ \A x \in Suffix : <<f, x>> \notin files'
  BY DEF Removed, Works, Fails, Pair, Suffix, IInv, TypeOK
<1>2. TypeOK'
  BY <1>1 DEF IInv, TypeOK
<1>3. Claimed' = Claimed /\ Expired' = Expired /\ Pending' = Pending /\ Recorded' = Recorded
  BY DEF Claimed, Recorded, Expired, Pending
<1>4. ASSUME NEW g \in Exchange PROVE Sound(g)'
  <2>1. Sound(g)
    BY DEF IInv
  <2>2. JobIsSound(g)'
    BY <1>1, <2>1 DEF Sound, JobIsSound, Excused
  <2>3. RowIsSound(g)'
    <3>1. \A h \in Exchange : Outlives(h, g) => Outlives(h, g)'
      BY DEF Outlives
    <3>2. rows[g] # None /\ rows[g].body => Pair(g) \subseteq files' \/ g \in Expired
      <4>1. CASE g = f
        <5>1. rows[g] # None /\ rows[g].body => g \in Claimed
          BY DEF Claimed, Recorded
        <5> QED  BY <4>1, <5>1
      <4>2. CASE g # f
        BY <1>1, <2>1, <4>2 DEF Sound, RowIsSound, Pair
      <4> QED  BY <4>1, <4>2
    <3> QED  BY <1>3, <2>1, <3>1, <3>2 DEF Sound, RowIsSound
  <2>4. RoundIsSound(g)'
    BY <1>3, <2>1 DEF Sound, RoundIsSound
  <2>5. OwnFiles(g)'
    <3>1. CASE g = f
      <4>1. job[g].at \notin {"half", "insert"}
        BY <2>1, <3>1 DEF Sound, JobIsSound, Unwritten
      <4> QED  BY <1>1, <2>1, <4>1 DEF Sound, OwnFiles
    <3>2. CASE g # f
      BY <1>1, <2>1, <3>2 DEF Sound, OwnFiles, Pair, Suffix
    <3> QED  BY <3>1, <3>2
  <2>6. Promised(g)'
    BY <1>3, <2>1 DEF Sound, Promised
  <2>7. Named(g)'
    <3>1. CASE g = f
      BY <1>1, <3>1 DEF Named
    <3>2. CASE g # f
      <4>1. InHand(g) => InHand(g)'
        BY <3>2 DEF InHand
      <4> QED  BY <1>1, <1>3, <2>1, <3>2, <4>1 DEF Sound, Named
    <3> QED  BY <3>1, <3>2
  <2> QED  BY <2>2, <2>3, <2>4, <2>5, <2>6, <2>7 DEF Sound
<1>5. OneIsKept'
  BY <1>1, <1>3 DEF IInv, OneIsKept, Claimed, Recorded, Excused
<1> QED  BY <1>2, <1>4, <1>5 DEF IInv

LEMMA UnlinkKeeps ==
    ASSUME IInv, NEW e \in Exchange, Unlink(e)
    PROVE  IInv'
<1> DEFINE r == job[e]
<1>1. /\ JobIsSound(e) /\ r \in Job /\ up /\ r.at = "unlink"
      /\ UNCHANGED <<up, rows, ids, horizon, pruner, round, crashes>>
  BY DEF IInv, TypeOK, Sound, Unlink, At
<1>2. ~r.owed
  BY <1>1 DEF JobIsSound
<1>3. CASE r.doomed = {} /\ Become(e, "done") /\ UNCHANGED <<files, faults>>
  <2> DEFINE j == [r EXCEPT !.at = "done"]
  <2>1. job' = [job EXCEPT ![e] = j]
    BY <1>3 DEF Become
  <2>2. /\ j \in Job /\ j.at = "done" /\ ~j.owed /\ j.rows = r.rows /\ j.doomed = r.doomed
        /\ j.kept = r.kept /\ j.whole = r.whole /\ j.spoiled = r.spoiled
    <3>1. ~r.owed
      BY <1>2
    <3> HIDE DEF r
    <3> QED  BY <1>1, <3>1 DEF Job, Stage
  <2> HIDE DEF j
  <2> QED  BY <1>1, <1>3, <2>1, <2>2, NothingWrittenKeeps DEF Works
<1>4. CASE \E f \in r.doomed : Removed(f) /\ job' = [job EXCEPT ![e].doomed = @ \ {f}]
  <2>1. PICK f \in r.doomed : Removed(f) /\ job' = [job EXCEPT ![e].doomed = @ \ {f}]
    BY <1>4
  <2>2. f \in Exchange
    BY <1>1 DEF Job
  <2>3. job[f].rows = 1 /\ f \notin Claimed
    BY <2>2 DEF IInv, Sound, Promised
  <2> DEFINE rest == r.doomed \ {f}
             j == [r EXCEPT !.doomed = rest]
  <2>4. job' = [job EXCEPT ![e] = j]
    BY <2>1
  <2>5. /\ j \in Job /\ j.at = r.at /\ j.owed = r.owed /\ j.rows = r.rows /\ j.doomed = rest
        /\ j.kept = r.kept /\ j.whole = r.whole /\ j.spoiled = r.spoiled
    <3>1. rest \subseteq Exchange
      BY <1>1 DEF Job
    <3> HIDE DEF r, rest
    <3> QED  BY <1>1, <3>1 DEF Job
  <2> HIDE DEF j
  <2>6. /\ job' \in [Exchange -> Job] /\ job'[e] = j /\ \A g \in Exchange : g # e => job'[g] = job[g]
    BY <2>4, <2>5 DEF IInv, TypeOK
  <2>7. \A g \in Exchange :
               /\ job'[g].at = job[g].at /\ job'[g].rows = job[g].rows
               /\ job'[g].owed <=> job[g].owed
               /\ job'[g].kept <=> job[g].kept
               /\ job'[g].whole <=> job[g].whole
               /\ job'[g].spoiled <=> job[g].spoiled
               /\ job'[g].doomed \subseteq job[g].doomed /\ job[g].doomed \ {f} \subseteq job'[g].doomed
    BY <2>5, <2>6
  <2>8. pruner' = pruner /\ pruner \in [at : {"idle", "unlink", "delete"}, refs : SUBSET Exchange]
    BY <1>1 DEF IInv, TypeOK
  <2> QED  BY <1>1, <2>1, <2>2, <2>3, <2>6, <2>7, <2>8, RemovalKeeps
<1> QED  BY <1>3, <1>4 DEF Unlink

-----------------------------------------------------------------------------
(* The prune, the calendar and the process *)

LEMMA AgeKeeps ==
    ASSUME IInv, Age
    PROVE  IInv'
<1>1. /\ UNCHANGED <<up, job, rows, ids, files, pruner, round, faults, crashes>>
      /\ horizon' = horizon + 1 /\ horizon' \in 0 .. N
  BY DEF IInv, TypeOK, Age
<1>2. TypeOK'
  BY <1>1 DEF IInv, TypeOK
<1>3. /\ Claimed' = Claimed /\ Pending' = Pending /\ Recorded' = Recorded
      /\ \A e \in Exchange : e \in Expired => e \in Expired'
  BY <1>1 DEF Claimed, Recorded, Expired, Pending, IInv, TypeOK
<1>4. ASSUME NEW e \in Exchange PROVE Sound(e)'
  <2>1. Sound(e)
    BY DEF IInv
  <2>2. JobIsSound(e)' /\ OwnFiles(e)' /\ RoundIsSound(e)'
    BY <1>1, <1>3, <2>1 DEF Sound, JobIsSound, OwnFiles, RoundIsSound, Excused
  <2>3. RowIsSound(e)'
    <3>1. \A g \in Exchange : Outlives(g, e) => Outlives(g, e)'
      BY <1>1 DEF Outlives
    <3> QED  BY <1>1, <1>3, <2>1, <3>1 DEF Sound, RowIsSound
  <2>4. Promised(e)' /\ Named(e)'
    BY <1>1, <1>3, <2>1 DEF Sound, Promised, Named, InHand
  <2> QED  BY <2>2, <2>3, <2>4 DEF Sound
<1>5. OneIsKept'
  BY <1>1, <1>3 DEF IInv, OneIsKept, Excused
<1> QED  BY <1>2, <1>4, <1>5 DEF IInv

\* What the prune has in hand is past the retention, and stays so.
LEMMA PrunerKeeps ==
    ASSUME IInv, UNCHANGED <<up, job, rows, ids, files, horizon, round, faults, crashes>>,
           pruner' \in [at : {"idle", "unlink", "delete"}, refs : SUBSET Exchange],
           \A e \in pruner'.refs : job[e].rows = 1 /\ e \in Expired
    PROVE  IInv'
<1>1. TypeOK'
  BY DEF IInv, TypeOK
<1>2. Claimed' = Claimed /\ Pending' = Pending /\ Recorded' = Recorded /\ Expired' = Expired
  BY DEF Claimed, Recorded, Expired, Pending
<1>3. ASSUME NEW e \in Exchange PROVE Sound(e)'
  <2>1. Sound(e)
    BY DEF IInv
  <2>2. JobIsSound(e)' /\ OwnFiles(e)' /\ RoundIsSound(e)'
    BY <1>2, <2>1 DEF Sound, JobIsSound, OwnFiles, RoundIsSound, Excused
  <2>3. RowIsSound(e)'
    <3>1. \A g \in Exchange : Outlives(g, e) => Outlives(g, e)'
      BY DEF Outlives
    <3> QED  BY <1>2, <2>1, <3>1 DEF Sound, RowIsSound
  <2>4. Promised(e)'
    BY <1>2, <2>1 DEF Sound, Promised
  <2>5. Named(e)'
    <3>1. InHand(e) => InHand(e)' \/ e \in Expired
      BY <2>1 DEF InHand, Sound, Promised
    <3> QED  BY <1>2, <2>1, <3>1 DEF Sound, Named
  <2> QED  BY <2>2, <2>3, <2>4, <2>5 DEF Sound
<1>4. OneIsKept'
  BY <1>2 DEF IInv, OneIsKept, Excused
<1> QED  BY <1>1, <1>3, <1>4 DEF IInv

LEMMA PruneKeeps ==
    ASSUME IInv, PruneList \/ PruneUnlink
    PROVE  IInv'
<1>1. pruner \in [at : {"idle", "unlink", "delete"}, refs : SUBSET Exchange]
  BY DEF IInv, TypeOK
<1>2. \A e \in pruner.refs : job[e].rows = 1 /\ e \in Expired
  BY <1>1 DEF IInv, Sound, Promised
<1>3. CASE PruneList
  <2>1. pruner' = [at |-> "unlink", refs |-> Claimed \cap Expired]
        /\ UNCHANGED <<up, job, rows, ids, files, horizon, round, faults, crashes>>
    BY <1>3 DEF PruneList
  <2>2. \A e \in Claimed : e \in Exchange /\ job[e].rows = 1
    BY DEF IInv, Sound, RowIsSound, Claimed, Recorded
  <2> QED  BY <2>1, <2>2, PrunerKeeps
<1>4. CASE PruneUnlink
  <2>1. UNCHANGED <<up, job, rows, ids, horizon, round, crashes>>
    BY <1>4 DEF PruneUnlink
  <2>2. CASE \E f \in pruner.refs : Removed(f) /\ pruner' = [pruner EXCEPT !.refs = @ \ {f}]
    <3>1. PICK f \in pruner.refs : Removed(f) /\ pruner' = [pruner EXCEPT !.refs = @ \ {f}]
      BY <2>2
    <3>2. pruner'.refs = pruner.refs \ {f} /\ f \in Exchange
          /\ pruner' \in [at : {"idle", "unlink", "delete"}, refs : SUBSET Exchange]
      BY <1>1, <3>1
    <3>3. job' \in [Exchange -> Job]
      BY <2>1 DEF IInv, TypeOK
    <3> QED  BY <1>2, <2>1, <3>1, <3>2, <3>3, RemovalKeeps
  <2>3. CASE pruner' = [pruner EXCEPT !.at = "delete"] /\ UNCHANGED <<files, faults>>
    <3>1. pruner'.refs = pruner.refs
          /\ pruner' \in [at : {"idle", "unlink", "delete"}, refs : SUBSET Exchange]
      BY <1>1, <2>3
    <3> QED  BY <1>2, <2>1, <2>3, <3>1, PrunerKeeps
  <2> QED  BY <1>4, <2>2, <2>3 DEF PruneUnlink
<1> QED  BY <1>3, <1>4

LEMMA PruneDeleteKeeps ==
    ASSUME IInv, PruneDelete
    PROVE  IInv'
<1>1. /\ UNCHANGED <<up, job, ids, files, horizon, round, faults, crashes>>
      /\ pruner' = [pruner EXCEPT !.at = "idle"]
      /\ rows' = [e \in Exchange |-> IF e \in Expired THEN None ELSE rows[e]]
  BY DEF PruneDelete
<1>2. TypeOK' /\ pruner'.refs = pruner.refs
  BY <1>1 DEF IInv, TypeOK
<1>3. /\ \A e \in Exchange : rows'[e] # None => rows'[e] = rows[e]
      /\ \A e \in Exchange : e \in Pending' => e \in Pending /\ rows'[e] = rows[e]
      /\ \A e \in Exchange : e \in Claimed' => e \in Claimed /\ rows'[e] = rows[e]
      /\ \A e \in Exchange : e \in Claimed => e \in Claimed' \/ e \in Expired'
      /\ Expired' = Expired
  BY <1>1 DEF Claimed, Recorded, Expired, Pending
<1>4. ASSUME NEW e \in Exchange PROVE Sound(e)'
  <2>1. Sound(e)
    BY DEF IInv
  <2>2. JobIsSound(e)' /\ OwnFiles(e)' /\ RoundIsSound(e)'
    BY <1>1, <1>3, <2>1 DEF Sound, JobIsSound, OwnFiles, RoundIsSound, Excused
  <2>3. RowIsSound(e)'
    <3>1. \A g \in Exchange : rows'[e] # None /\ Outlives(g, e) => Outlives(g, e)'
      BY <1>1, <1>3 DEF Outlives
    <3> QED  BY <1>1, <1>3, <2>1, <3>1 DEF Sound, RowIsSound
  <2>4. Promised(e)' /\ Named(e)'
    BY <1>1, <1>2, <1>3, <2>1 DEF Sound, Promised, Named, InHand
  <2> QED  BY <2>2, <2>3, <2>4 DEF Sound
<1>5. OneIsKept'
  BY <1>1, <1>3 DEF IInv, OneIsKept, Excused, Claimed, Recorded
<1> QED  BY <1>2, <1>4, <1>5 DEF IInv

\* The process dies: what was in hand is nobody's, until the sweep.
LEMMA CrashKeeps ==
    ASSUME IInv, Crash
    PROVE  IInv'
<1>1. /\ UNCHANGED <<rows, ids, files, horizon, faults>> /\ up' = FALSE
      /\ crashes' \in 0 .. MaxCrashes /\ crashes' > 0
      /\ round' = None /\ pruner' = [at |-> "idle", refs |-> {}]
  <2>1. crashes \in 0 .. MaxCrashes /\ crashes < MaxCrashes /\ crashes' = crashes + 1
    BY DEF IInv, TypeOK, Crash
  <2>2. crashes' \in 0 .. MaxCrashes /\ crashes' > 0
    BY <2>1
  <2> QED  BY <2>2 DEF Crash
<1>2. ASSUME NEW e \in Exchange
      PROVE  /\ job'[e] \in Job /\ job'[e].at \in {"new", "done"} /\ job'[e].rows = job[e].rows
             /\ job'[e].kept = job[e].kept /\ job'[e].whole = job[e].whole
             /\ job'[e].spoiled = job[e].spoiled /\ job'[e].doomed = {} /\ ~job'[e].owed
             /\ job'[e].at = "new" => job[e].at = "new"
  <2> DEFINE r == job[e]
  <2>1. r \in Job /\ JobIsSound(e)
    BY DEF IInv, TypeOK, Sound
  <2>2. CASE r.at \in {"new", "done"}
    <3>1. job'[e] = r
      BY <2>2 DEF Crash
    <3> QED  BY <2>1, <2>2, <3>1 DEF JobIsSound
  <2>3. CASE r.at \notin {"new", "done"}
    <3>1. job'[e] = [r EXCEPT !.at = "done", !.owed = FALSE, !.doomed = {}]
      BY <2>3 DEF Crash
    <3> HIDE DEF r
    <3>2. [r EXCEPT !.at = "done", !.owed = FALSE, !.doomed = {}] \in Job
      BY <2>1 DEF Job, Stage
    <3>3. /\ job'[e].at = "done" /\ job'[e].owed = FALSE /\ job'[e].doomed = {} /\ job'[e].rows = r.rows
          /\ job'[e].kept = r.kept /\ job'[e].whole = r.whole /\ job'[e].spoiled = r.spoiled
      BY <2>1, <3>1 DEF Job
    <3> QED  BY <3>1, <3>2, <3>3 DEF r
  <2> QED  BY <2>2, <2>3
<1>3. TypeOK'
  <2>1. job' \in [Exchange -> Job]
    BY <1>2 DEF Crash
  <2> QED  BY <1>1, <2>1 DEF IInv, TypeOK
<1>4. Claimed' = Claimed /\ Expired' = Expired /\ Recorded' = Recorded
  BY <1>1 DEF Claimed, Recorded, Expired
<1>5. ASSUME NEW e \in Exchange PROVE Sound(e)'
  <2>1. Sound(e)
    BY DEF IInv
  <2>2. JobIsSound(e)'
    BY <1>1, <1>2, <2>1 DEF Sound, JobIsSound, Unwritten, Flushed, Excused
  <2>3. RowIsSound(e)'
    <3>1. \A g \in Exchange : Outlives(g, e) => Outlives(g, e)'
      BY <1>1, <1>2 DEF Outlives
    <3> QED  BY <1>1, <1>2, <1>4, <2>1, <3>1 DEF Sound, RowIsSound
  <2>4. RoundIsSound(e)' /\ Promised(e)' /\ Named(e)'
    BY <1>1, <1>2 DEF RoundIsSound, Promised, Named
  <2>5. OwnFiles(e)'
    BY <1>1, <1>2, <2>1 DEF Sound, OwnFiles, Fileless
  <2> QED  BY <2>2, <2>3, <2>4, <2>5 DEF Sound
<1>6. OneIsKept'
  BY <1>1 DEF OneIsKept, Excused
<1> QED  BY <1>3, <1>5, <1>6 DEF IInv

LEMMA StartKeeps ==
    ASSUME IInv, Start
    PROVE  IInv'
<1>1. /\ UNCHANGED <<job, rows, ids, horizon, pruner, round, faults, crashes>> /\ up' = TRUE /\ ~up
      /\ files' = {f \in files : f[1] \in Claimed}
  BY DEF Start
<1>2. TypeOK'
  BY <1>1 DEF IInv, TypeOK
<1>3. /\ Claimed' = Claimed /\ Pending' = Pending /\ Recorded' = Recorded /\ Expired' = Expired
      /\ \A e \in Exchange, x \in Suffix :
            <<e, x>> \in files' <=> <<e, x>> \in files /\ e \in Claimed
  BY <1>1 DEF Claimed, Recorded, Expired, Pending
<1>4. ASSUME NEW e \in Exchange PROVE Sound(e)'
  <2>1. Sound(e) /\ job[e].at \in {"new", "done"}
    BY <1>1 DEF IInv, Sound, JobIsSound
  <2>2. JobIsSound(e)' /\ RoundIsSound(e)' /\ Promised(e)'
    BY <1>1, <1>3, <2>1 DEF Sound, JobIsSound, RoundIsSound, Promised, Excused
  <2>3. RowIsSound(e)'
    <3>1. \A g \in Exchange : Outlives(g, e) => Outlives(g, e)'
      BY <1>1 DEF Outlives
    <3>2. rows[e] # None /\ rows[e].body => Pair(e) \subseteq files' \/ e \in Expired
      BY <1>3, <2>1 DEF Sound, RowIsSound, Claimed, Recorded, Pair
    <3> QED  BY <1>1, <1>3, <2>1, <3>1, <3>2 DEF Sound, RowIsSound
  <2>4. OwnFiles(e)'
    BY <1>1, <1>3, <2>1 DEF Sound, OwnFiles
  <2>5. Named(e)'
    BY <1>3 DEF Named
  <2> QED  BY <2>2, <2>3, <2>4, <2>5 DEF Sound
<1>5. OneIsKept'
  BY <1>1, <1>3 DEF IInv, OneIsKept, Excused
<1> QED  BY <1>2, <1>4, <1>5 DEF IInv

-----------------------------------------------------------------------------
(* The receipt check *)

\* A step of the round changes of the rows only their verdicts and counts.
LEMMA JudgeKeeps ==
    ASSUME IInv, UNCHANGED <<up, job, ids, files, horizon, pruner, crashes>>,
           faults \subseteq faults', faults' \subseteq Exchange,
           rows' \in [Exchange -> Row \cup {None}],
           \A e \in Exchange :
               /\ rows'[e] = None <=> rows[e] = None
               /\ rows[e] # None => /\ rows'[e].id = rows[e].id
                                    /\ rows'[e].body <=> rows[e].body
                                    /\ rows'[e].whole <=> rows[e].whole
                                    /\ rows'[e].proof = "verified" => e \in Offers /\ job[e].whole,
           round' = None \/ (DOMAIN round' \subseteq Exchange /\ \A e \in DOMAIN round' : round'[e] \in Outcome),
           \A e \in Exchange : RoundIsSound(e)'
    PROVE  IInv'
<1>1. TypeOK'
  BY DEF IInv, TypeOK
<1>2. Claimed' = Claimed /\ Recorded' = Recorded /\ Expired' = Expired
  BY DEF Claimed, Recorded, Expired
<1>3. ASSUME NEW e \in Exchange PROVE Sound(e)'
  <2>1. Sound(e)
    BY DEF IInv
  <2>2. JobIsSound(e)' /\ OwnFiles(e)' /\ RoundIsSound(e)'
    BY <2>1 DEF Sound, JobIsSound, OwnFiles, Excused
  <2>3. RowIsSound(e)'
    <3>1. \A g \in Exchange : rows[e] # None /\ Outlives(g, e) => Outlives(g, e)'
      BY DEF Outlives
    <3> QED  BY <1>2, <2>1, <3>1 DEF Sound, RowIsSound
  <2>4. Promised(e)' /\ Named(e)'
    BY <1>2, <2>1 DEF Sound, Promised, Named, InHand
  <2> QED  BY <2>2, <2>3, <2>4 DEF Sound
<1>4. OneIsKept'
  BY <1>2 DEF IInv, OneIsKept, Excused, Claimed, Recorded
<1> QED  BY <1>1, <1>3, <1>4 DEF IInv

\* Only a row with both digests, from a backend that signs, may be verified.
LEMMA BeginKeeps ==
    ASSUME IInv, RoundBegin
    PROVE  IInv'
<1>1. PICK outcome \in [Oldest -> Outcome] :
        round' = outcome /\ \A e \in Oldest : outcome[e] \in Check(e)
  BY DEF RoundBegin
<1>2. UNCHANGED <<up, job, rows, ids, files, horizon, pruner, faults, crashes>>
  BY DEF RoundBegin
<1>3. Oldest \subseteq Exchange
  BY DEF Oldest, Candidates, Pending, Recorded
<1>4. ASSUME NEW e \in Oldest
      PROVE  /\ outcome[e] \in Outcome /\ rows[e].tries < MaxAttempts
             /\ outcome[e].label = "verified" => e \in Offers /\ job[e].whole
  <2>1. rows[e] # None /\ rows[e].tries < MaxAttempts
    BY DEF Oldest, Candidates, Pending, Recorded
  <2>2. outcome[e].label = "verified" => rows[e].whole /\ e \in Offers
    BY <1>1 DEF Check, Settle
  <2> QED  BY <1>1, <1>3, <2>1, <2>2 DEF IInv, Sound, RowIsSound
<1>5. ASSUME NEW e \in Exchange PROVE RoundIsSound(e)'
  BY <1>1, <1>2, <1>4 DEF RoundIsSound
<1>6. DOMAIN round' \subseteq Exchange /\ \A e \in DOMAIN round' : round'[e] \in Outcome
  BY <1>1, <1>3
<1>7. \A e \in Exchange : rows[e] # None /\ rows[e].proof = "verified" => e \in Offers /\ job[e].whole
  BY DEF IInv, Sound, RowIsSound
<1>8. rows' \in [Exchange -> Row \cup {None}]
  BY <1>2 DEF IInv, TypeOK
<1> QED  BY <1>2, <1>5, <1>6, <1>7, <1>8, JudgeKeeps DEF IInv, TypeOK

\* What is left of the round when e has been dealt with.
LEMMA WithoutIsSound ==
    ASSUME IInv, NEW e \in Exchange, InRound(e), round' = Without(e),
           UNCHANGED job, \A f \in Exchange : f # e => rows'[f] = rows[f]
    PROVE  /\ round' = None \/ (DOMAIN round' \subseteq Exchange /\ \A f \in DOMAIN round' : round'[f] \in Outcome)
           /\ \A f \in Exchange : RoundIsSound(f)'
<1>1. DOMAIN round \subseteq Exchange /\ \A f \in DOMAIN round : round[f] \in Outcome
  BY DEF InRound, IInv, TypeOK
<1>2. CASE round' = None
  BY <1>2 DEF RoundIsSound
<1>3. CASE round' = [f \in DOMAIN round \ {e} |-> round[f]]
  <2>1. DOMAIN round' = DOMAIN round \ {e} /\ \A f \in DOMAIN round' : round'[f] = round[f]
    BY <1>3
  <2>2. ASSUME NEW f \in Exchange PROVE RoundIsSound(f)'
    <3>1. f # e /\ f \in Pending' => f \in Pending /\ rows'[f] = rows[f]
      BY DEF Pending, Recorded
    <3>2. RoundIsSound(f) /\ round # None
      BY DEF IInv, Sound, InRound
    <3>3. CASE f \in DOMAIN round'
      BY <2>1, <3>1, <3>2, <3>3 DEF RoundIsSound
    <3>4. CASE f \notin DOMAIN round'
      BY <3>4 DEF RoundIsSound
    <3> QED  BY <3>3, <3>4
  <2> QED  BY <1>1, <2>1, <2>2
<1> QED  BY <1>2, <1>3 DEF Without

LEMMA DeferKeeps ==
    ASSUME IInv, NEW e \in Exchange, DeferProof(e)
    PROVE  IInv'
<1>1. InRound(e) /\ ~round[e].settle /\ e \in DOMAIN round /\ round # None
      /\ UNCHANGED <<up, job, ids, files, horizon, pruner, crashes>>
  BY DEF DeferProof, InRound
<1>2. faults \subseteq faults' /\ faults' \subseteq Exchange
  BY DEF DeferProof, Works, Fails, IInv, TypeOK
<1>3. rows' \in {rows, Tried(e)}
  BY DEF DeferProof
<1>4. ASSUME NEW f \in Exchange
      PROVE  /\ rows'[f] \in Row \cup {None}
             /\ rows'[f] = None <=> rows[f] = None
             /\ f # e => rows'[f] = rows[f]
             /\ rows[f] # None => /\ rows'[f].id = rows[f].id
                                  /\ rows'[f].body <=> rows[f].body
                                  /\ rows'[f].whole <=> rows[f].whole
                                  /\ rows'[f].proof = rows[f].proof
  <2>1. CASE rows' = rows
    BY <2>1 DEF IInv, TypeOK
  <2>2. CASE rows' = [rows EXCEPT ![e].tries = @ + 1] /\ e \in Pending
    <3> DEFINE old == rows[e]
               more == old.tries + 1
    <3>1. old \in Row /\ old.tries < MaxAttempts
      BY <1>1, <2>2 DEF IInv, TypeOK, Sound, RoundIsSound, Pending, Recorded
    <3>2. more \in 0 .. MaxAttempts
      BY <3>1 DEF Row
    <3>3. rows' = [rows EXCEPT ![e] = [old EXCEPT !.tries = more]]
      BY <2>2
    <3>4. /\ [old EXCEPT !.tries = more] \in Row
          /\ [old EXCEPT !.tries = more].id = old.id /\ [old EXCEPT !.tries = more].body = old.body
          /\ [old EXCEPT !.tries = more].whole = old.whole /\ [old EXCEPT !.tries = more].proof = old.proof
      <4> HIDE DEF old, more
      <4> QED  BY <3>1, <3>2 DEF Row
    <3>5. CASE f = e
      <4>1. rows'[e] = [old EXCEPT !.tries = more] /\ rows[e] # None
        BY <3>1, <3>3 DEF IInv, TypeOK
      <4> QED  BY <3>4, <3>5, <4>1
    <3>6. CASE f # e
      BY <3>3, <3>6 DEF IInv, TypeOK
    <3> QED  BY <3>5, <3>6
  <2> QED  BY <1>3, <2>1, <2>2 DEF Tried
<1>5. rows' \in [Exchange -> Row \cup {None}]
  <2>1. rows' \in [Exchange -> Row \cup {None}] \/ rows' = [f \in Exchange |-> rows'[f]]
    BY <1>3 DEF Tried, IInv, TypeOK
  <2> QED  BY <1>4, <2>1
<1>6. /\ round' = None \/ (DOMAIN round' \subseteq Exchange /\ \A f \in DOMAIN round' : round'[f] \in Outcome)
      /\ \A f \in Exchange : RoundIsSound(f)'
  <2>1. CASE round' = Without(e)
    BY <1>1, <1>4, <2>1, WithoutIsSound
  <2>2. CASE round' = [round EXCEPT ![e].settle = TRUE]
    <3>1. DOMAIN round \subseteq Exchange /\ \A f \in DOMAIN round : round[f] \in Outcome
      BY <1>1 DEF IInv, TypeOK
    <3>2. /\ DOMAIN round' = DOMAIN round
          /\ \A f \in DOMAIN round : /\ round'[f] \in Outcome /\ round'[f].label = round[f].label
                                     /\ f # e => round'[f] = round[f]
          /\ round'[e].settle
      BY <1>1, <2>2, <3>1 DEF Outcome
    <3>3. ASSUME NEW f \in Exchange PROVE RoundIsSound(f)'
      <4>1. f # e /\ f \in Pending' => f \in Pending /\ rows'[f] = rows[f]
        BY <1>4 DEF Pending, Recorded
      <4>2. RoundIsSound(f)
        BY DEF IInv, Sound
      <4>3. CASE f \in DOMAIN round
        BY <1>1, <3>2, <4>1, <4>2, <4>3 DEF RoundIsSound
      <4>4. CASE f \notin DOMAIN round
        BY <3>2, <4>4 DEF RoundIsSound
      <4> QED  BY <4>3, <4>4
    <3> QED  BY <3>1, <3>2, <3>3
  <2> QED  BY <2>1, <2>2 DEF DeferProof
<1>7. \A f \in Exchange : rows[f] # None /\ rows'[f].proof = "verified" => f \in Offers /\ job[f].whole
  BY <1>4 DEF IInv, Sound, RowIsSound
<1> QED  BY <1>1, <1>2, <1>4, <1>5, <1>6, <1>7, JudgeKeeps

LEMMA SettleKeeps ==
    ASSUME IInv, NEW e \in Exchange, SettleProof(e)
    PROVE  IInv'
<1>1. InRound(e) /\ e \in DOMAIN round /\ round # None /\ round' = Without(e)
      /\ UNCHANGED <<up, job, ids, files, horizon, pruner, crashes>>
  BY DEF SettleProof, InRound
<1>2. faults \subseteq faults' /\ faults' \subseteq Exchange
  BY DEF SettleProof, Works, Fails, IInv, TypeOK
<1> DEFINE old == rows[e]
           verdict == round[e].label
<1>3. verdict \in Verdict /\ (verdict = "verified" => e \in Offers /\ job[e].whole)
  BY <1>1 DEF IInv, TypeOK, Outcome, Sound, RoundIsSound
<1>4. ASSUME NEW f \in Exchange
      PROVE  /\ rows'[f] \in Row \cup {None}
             /\ rows'[f] = None <=> rows[f] = None
             /\ f # e => rows'[f] = rows[f]
             /\ rows[f] # None => /\ rows'[f].id = rows[f].id
                                  /\ rows'[f].body <=> rows[f].body
                                  /\ rows'[f].whole <=> rows[f].whole
                                  /\ rows'[f].proof = rows[f].proof \/ (f = e /\ rows'[f].proof = verdict)
  <2>1. CASE rows' = rows
    BY <2>1 DEF IInv, TypeOK
  <2>2. CASE rows' = [rows EXCEPT ![e].proof = round[e].label] /\ e \in Pending
    <3>1. old \in Row
      BY <2>2 DEF IInv, TypeOK, Pending, Recorded
    <3>2. rows' = [rows EXCEPT ![e] = [old EXCEPT !.proof = verdict]]
      BY <2>2
    <3>3. /\ [old EXCEPT !.proof = verdict] \in Row
          /\ [old EXCEPT !.proof = verdict].id = old.id /\ [old EXCEPT !.proof = verdict].body = old.body
          /\ [old EXCEPT !.proof = verdict].whole = old.whole /\ [old EXCEPT !.proof = verdict].proof = verdict
      <4> HIDE DEF old, verdict
      <4> QED  BY <1>3, <3>1 DEF Row, Proof
    <3>4. CASE f = e
      <4>1. rows'[e] = [old EXCEPT !.proof = verdict] /\ rows[e] # None
        BY <3>1, <3>2 DEF IInv, TypeOK
      <4> QED  BY <3>3, <3>4, <4>1
    <3>5. CASE f # e
      BY <3>2, <3>5 DEF IInv, TypeOK
    <3> QED  BY <3>4, <3>5
  <2> QED  BY <2>1, <2>2 DEF SettleProof
<1>5. rows' \in [Exchange -> Row \cup {None}]
  <2>1. rows' \in [Exchange -> Row \cup {None}] \/ rows' = [f \in Exchange |-> rows'[f]]
    BY DEF SettleProof, IInv, TypeOK
  <2> QED  BY <1>4, <2>1
<1>6. /\ round' = None \/ (DOMAIN round' \subseteq Exchange /\ \A f \in DOMAIN round' : round'[f] \in Outcome)
      /\ \A f \in Exchange : RoundIsSound(f)'
  BY <1>1, <1>4, WithoutIsSound
<1>7. \A f \in Exchange : rows[f] # None /\ rows'[f].proof = "verified" => f \in Offers /\ job[f].whole
  <2> HIDE DEF verdict
  <2> QED  BY <1>3, <1>4 DEF IInv, Sound, RowIsSound
<1> QED  BY <1>1, <1>2, <1>4, <1>5, <1>6, <1>7, JudgeKeeps

-----------------------------------------------------------------------------
(* The theorems *)

LEMMA StepHolds == IInv /\ [Next]_vars => IInv'
<1> SUFFICES ASSUME IInv, [Next]_vars PROVE IInv'
  OBVIOUS
<1>1. ASSUME NEW e \in Exchange, Serve(e) PROVE IInv'
  BY <1>1, ServeKeeps, OwedKeeps DEF Serve
<1>2. ASSUME NEW e \in Exchange, Write(e) PROVE IInv'
  BY <1>2, StoreKeeps, InsertKeeps, RollKeeps, UnlinkKeeps DEF Write
<1>3. CASE Prune
  BY <1>3, PruneKeeps, PruneDeleteKeeps DEF Prune
<1>4. CASE Judge
  BY <1>4, BeginKeeps, DeferKeeps, SettleKeeps DEF Judge
<1>5. CASE UNCHANGED vars
  <2>1. UNCHANGED <<up, job, rows, ids, files, horizon, pruner, round, faults, crashes>>
    BY <1>5 DEF vars
  <2>2. \A e \in Exchange : Stays(e)
    BY <2>1 DEF Stays
  <2> QED  BY <2>1, <2>2, MovesKeep DEF IInv, TypeOK
<1> QED  BY <1>1, <1>2, <1>3, <1>4, <1>5, RestartKeeps, AgeKeeps, CrashKeeps, StartKeeps DEF Next

\* A step of the records is a step of the ledger or of the screen.
LEMMA StepOfOne ==
    ASSUME [RecordsNext]_records  PROVE [Next]_vars /\ [UsageNext]_usageVars
BY DEF RecordsNext, records

LEMMA Invariance == RecordsSpec => []IInv
<1>1. RecordsInit => IInv
  BY InitHolds DEF RecordsInit
<1>2. IInv /\ [RecordsNext]_records => IInv'
  BY StepHolds, StepOfOne
<1> QED  BY <1>1, <1>2, PTL DEF RecordsSpec

\* Every variable of the ledger keeps its type, and no proof is tried more often
\* than `ProofSettings::max_attempts` allows (lib.rs, proof.rs).
THEOREM LedgerTypeCorrect == RecordsSpec => []TypeOK
<1>1. IInv => TypeOK
  BY DEF IInv
<1> QED  BY <1>1, Invariance, PTL

\* An exchange leaves one row, however its request ends: the guard, the handler
\* and the reply's tee never write two of them, and never leave it to each other
\* (facade/guard.rs, facade/mod.rs).
THEOREM OneRowEachAlways == RecordsSpec => []OneRowEach
  BY InvImplies, Invariance, PTL

\* Rows and body files agree while the prune, the roll and the writes run beside
\* each other, and a session keeps the bodies of what finished last, in whatever
\* order its exchanges began (bodies.rs, lib.rs, embed/prune.rs).
THEOREM RightBodiesKept == RecordsSpec => []RightBodiesAreKept
  BY InvImplies, Invariance, PTL

\* A proof is claimed only for a reply that came whole, from a backend that signs
\* its answers (proof.rs, facade/observe.rs).
THEOREM ProofIsOfAWhole == RecordsSpec => []ProvedIsWhole
  BY InvImplies, Invariance, PTL

-----------------------------------------------------------------------------
(* The status screen: the invariant *)

Request == [at : Int, on : Pools, fate : Fate \cup {"flying"}, used : Nat, nth : Nat]

Question == [stage : {"waits", "builds"}, now : {Now}, writes : Nat]

\* What the ledger knew when its change token was `token`.
Known(token, now) ==
    {i \in Rows : sent[i].nth <= token /\ sent[i].at >= now - HistoryTicks}

\* A row came with the token it was written under; a question has a token that
\* was the ledger's, and a report all that the ledger knew under its token.
ScreenInv ==
    /\ writes \in Nat
    /\ sent \in [Sent -> Request]
    /\ \A i \in Sent : sent[i].nth <= writes
    /\ asker \in [Askers -> {Idle} \cup Question]
    /\ \A a \in Askers : asker[a] # Idle => asker[a].writes <= writes
    /\ slot = Void \/ /\ slot.at = Now /\ slot.writes \in 0 .. writes
                      /\ Whole(slot.report) => Known(slot.writes, Now) \subseteq slot.report.read

LEMMA IdleAsksNothing == Idle \notin Question /\ Idle.stage = "idle"
                         /\ \A q \in Question : q.stage # "idle"
BY DEF Idle, Question

LEMMA ScreenInvInit == UsageInit => ScreenInv
<1> SUFFICES ASSUME UsageInit  PROVE ScreenInv
  OBVIOUS
<1>0. Now \in Nat /\ Sizes \subseteq Nat
  BY UsageAssumption
<1>1. Past \subseteq Request /\ \A r \in Past : r.nth = 0
  <2> SUFFICES ASSUME NEW r \in Past  PROVE r \in Request /\ r.nth = 0
    OBVIOUS
  <2>1. r \in [at : 0 .. Now, on : Pools, fate : Fate \cup {"flying"}, used : {0} \cup Sizes, nth : {0}]
    BY DEF Past
  <2>2. 0 .. Now \subseteq Int /\ {0} \cup Sizes \subseteq Nat /\ {0} \subseteq Nat
    BY <1>0
  <2> HIDE DEF Fate
  <2>3. r.at \in Int /\ r.on \in Pools /\ r.fate \in Fate \cup {"flying"} /\ r.used \in Nat /\ r.nth = 0
    BY <2>1, <2>2
  <2>4. r = [at |-> r.at, on |-> r.on, fate |-> r.fate, used |-> r.used, nth |-> r.nth]
    BY <2>1
  <2> QED  BY <2>3, <2>4 DEF Request
<1>2. sent \in [Sent -> Past]
  BY DEF UsageInit
<1> QED  BY <1>1, <1>2 DEF UsageInit, ScreenInv

\* A row that is written is newer than what anybody has asked for.
LEMMA RecordKeeps ==
    ASSUME ScreenInv, NEW i \in Sent, NEW fate \in Fate, NEW used \in {0} \cup Sizes,
           Record(i, fate, used)
    PROVE  ScreenInv'
<1>1. /\ sent[i].fate = "flying"
      /\ sent' = [sent EXCEPT ![i].fate = fate, ![i].used = used, ![i].nth = writes + 1]
      /\ writes' = writes + 1 /\ UNCHANGED <<asker, slot>>
  BY DEF Record
<1>2. used \in Nat /\ "flying" \notin Fate
  <2>1. Sizes \subseteq Nat
    BY UsageAssumption
  <2> QED  BY <2>1 DEF Fate
<1>3. ASSUME NEW j \in Sent
      PROVE  /\ sent'[j] \in Request
             /\ j # i => sent'[j] = sent[j]
             /\ j = i => sent'[j].nth = writes + 1
  BY <1>1, <1>2 DEF ScreenInv, Request
<1>4. sent' \in [Sent -> Request] /\ \A j \in Sent : sent'[j].nth <= writes'
  <2>1. sent' = [j \in Sent |-> sent'[j]]
    BY <1>1 DEF ScreenInv
  <2>2. ASSUME NEW j \in Sent  PROVE sent'[j].nth <= writes'
    <3>1. sent[j].nth \in Nat /\ sent[j].nth <= writes /\ writes \in Nat
      BY DEF ScreenInv, Request
    <3>2. (j # i => sent'[j].nth = sent[j].nth) /\ (j = i => sent'[j].nth = writes + 1)
      BY <1>3
    <3>3. writes' = writes + 1
      BY <1>1
    <3> QED  BY <3>1, <3>2, <3>3
  <2> QED  BY <1>3, <2>1, <2>2
<1>5. ASSUME NEW a \in Askers, asker[a] # Idle  PROVE asker[a].writes <= writes'
  BY <1>1, <1>5 DEF ScreenInv, Question
<1>6. ASSUME slot # Void, Whole(slot.report)
      PROVE  Known(slot.writes, Now)' \subseteq slot.report.read
  <2> SUFFICES ASSUME NEW j \in Known(slot.writes, Now)'  PROVE j \in slot.report.read
    OBVIOUS
  <2>1. j \in Sent /\ sent'[j].fate \in Fate /\ sent'[j].nth <= slot.writes
        /\ sent'[j].at >= Now - HistoryTicks
    BY <1>1 DEF Known, Rows
  <2>2. slot.writes \in 0 .. writes /\ writes \in Nat
    BY <1>6 DEF ScreenInv
  <2>3. j # i
    BY <1>3, <2>1, <2>2
  <2>4. j \in Known(slot.writes, Now)
    BY <1>3, <2>1, <2>3 DEF Known, Rows
  <2> QED  BY <1>6, <2>4 DEF ScreenInv
<1>7. slot' = Void \/ (slot'.at = Now /\ slot'.writes \in 0 .. writes')
  BY <1>1 DEF ScreenInv
<1>8. Whole(slot.report)' = Whole(slot.report)
  BY <1>1 DEF Whole
<1>9. ASSUME slot' # Void, Whole(slot.report)'
      PROVE  Known(slot.writes, Now)' \subseteq slot'.report.read
  BY <1>1, <1>6, <1>8, <1>9
<1>10. writes' \in Nat /\ asker' \in [Askers -> {Idle} \cup Question]
       /\ \A a \in Askers : asker'[a] # Idle => asker'[a].writes <= writes'
  BY <1>1, <1>5 DEF ScreenInv
<1> QED  BY <1>4, <1>7, <1>9, <1>10 DEF ScreenInv

\* A caller's step.
LEMMA CallersKeep ==
    ASSUME ScreenInv, NEW a \in Askers, Ask(a) \/ Reuse(a) \/ Enter(a) \/ Made(a) \/ Misread(a)
    PROVE  ScreenInv'
<1> DEFINE q == asker[a]
<1>0. writes \in Nat /\ q \in {Idle} \cup Question
  BY DEF ScreenInv
<1>1. UNCHANGED <<sent, writes>>
  BY DEF Ask, Reuse, Enter, Made, Misread, Built
<1>2. PICK n : asker' = [asker EXCEPT ![a] = n]
               /\ (n = Idle \/ (n \in Question /\ n.writes <= writes))
  <2>1. CASE Ask(a)
    <3>1. asker' = [asker EXCEPT ![a] = [stage |-> "waits", now |-> Now, writes |-> writes]]
      BY <2>1 DEF Ask
    <3> DEFINE n == [stage |-> "waits", now |-> Now, writes |-> writes]
    <3>2. n \in Question /\ n.writes <= writes
      BY <1>0 DEF Question
    <3> HIDE DEF n
    <3> QED  BY <3>1, <3>2 DEF n
  <2>2. CASE Enter(a)
    <3>1. q.stage = "waits" /\ asker' = [asker EXCEPT ![a] = [q EXCEPT !.stage = "builds"]]
      BY <2>2 DEF Enter
    <3>2. q \in Question /\ q.writes <= writes
      BY <1>0, <3>1, IdleAsksNothing DEF ScreenInv
    <3> HIDE DEF q
    <3> DEFINE n == [q EXCEPT !.stage = "builds"]
    <3>3. n \in Question /\ n.writes <= writes
      BY <3>2 DEF Question
    <3> HIDE DEF n
    <3> QED  BY <3>1, <3>3 DEF n
  <2>3. CASE Reuse(a) \/ Made(a) \/ Misread(a)
    BY <2>3 DEF Reuse, Made, Misread, Built
  <2> QED  BY <2>1, <2>2, <2>3
<1>3. /\ asker' \in [Askers -> {Idle} \cup Question]
      /\ \A b \in Askers : asker'[b] # Idle => asker'[b].writes <= writes
  BY <1>2 DEF ScreenInv
<1>4. slot' = Void \/ /\ slot'.at = Now /\ slot'.writes \in 0 .. writes
                      /\ Whole(slot'.report) => Known(slot'.writes, Now) \subseteq slot'.report.read
  <2>1. CASE slot' = slot
    BY <2>1 DEF ScreenInv
  <2>2. CASE q.stage = "builds"
    <3>1. q \in Question /\ q.writes <= writes
      BY <1>0, <2>2, IdleAsksNothing DEF ScreenInv
    <3>2. q.now = Now /\ q.writes \in 0 .. writes
      BY <1>0, <3>1 DEF Question
    <3>3. CASE Made(a)
      <4> DEFINE report == Report(Since(q.now), q.now)
      <4>1. slot' = [at |-> q.now, writes |-> q.writes, report |-> report]
        BY <3>3 DEF Made, Built
      <4>2. report.read = Since(Now)
        BY <3>2 DEF Report
      <4> HIDE DEF report, q
      <4>3. Known(q.writes, Now) \subseteq Since(Now)
        BY DEF Known, Since
      <4> QED  BY <3>2, <4>1, <4>2, <4>3
    <3>4. CASE Misread(a)
      <4>1. slot' = [at |-> q.now, writes |-> q.writes, report |-> Void]
        BY <3>4 DEF Misread, Built
      <4> QED  BY <3>2, <4>1 DEF Whole
    <3>5. CASE Ask(a) \/ Reuse(a) \/ Enter(a)
      BY <2>1, <3>5 DEF Ask, Reuse, Enter
    <3> QED  BY <3>3, <3>4, <3>5
  <2> QED  BY <2>1, <2>2 DEF Ask, Reuse, Enter, Made, Misread, Built
<1>5. \A token : Known(token, Now)' = Known(token, Now)
  BY <1>1 DEF Known, Rows
<1>6. Whole(slot.report)' = Whole(slot'.report)
  BY DEF Whole
<1>7. slot' = Void \/ /\ slot'.at = Now /\ slot'.writes \in 0 .. writes'
                      /\ Whole(slot.report)' => {i \in Rows : sent[i].nth <= slot'.writes
                                /\ sent[i].at >= Now - HistoryTicks} \subseteq slot'.report.read
  BY <1>1, <1>4, <1>6 DEF Known
<1> QED  BY <1>1, <1>3, <1>7 DEF ScreenInv, Known, Rows

\* An answer has all that the ledger knew when it was asked for.
LEMMA AnswersAreNotBehind ==
    ASSUME ScreenInv, UsageNext  PROVE NeverBehind
<1> SUFFICES ASSUME NEW b \in Askers, asker[b].stage \in {"waits", "builds"}, asker'[b] = Idle,
                    Whole(slot'.report)
             PROVE  Known(asker[b].writes, asker[b].now) \subseteq slot'.report.read
  BY DEF NeverBehind, Known
<1>1. asker[b] \in Question /\ asker[b] # Idle
  BY IdleAsksNothing DEF ScreenInv
<1>2. asker[b].now = Now /\ asker' # asker
  BY <1>1 DEF Question
<1>3. PICK a \in Askers : Ask(a) \/ Reuse(a) \/ Enter(a) \/ Made(a) \/ Misread(a)
  BY <1>2 DEF UsageNext, Record
<1>4. a = b
  <2>1. \E n : asker' = [asker EXCEPT ![a] = n]
    BY <1>3 DEF Ask, Reuse, Enter, Made, Misread, Built
  <2> QED  BY <1>1, <2>1 DEF ScreenInv
<1>5. CASE Reuse(b)
  <2>1. slot' = slot /\ slot # Void /\ slot.writes = asker[b].writes
    BY <1>5 DEF Reuse, Reusable
  <2> QED  BY <1>2, <2>1 DEF ScreenInv
<1>6. CASE Made(b)
  <2> DEFINE report == Report(Since(asker[b].now), asker[b].now)
  <2>1. slot'.report = report
    BY <1>6 DEF Made, Built
  <2>2. report.read = Since(Now)
    BY <1>2 DEF Report
  <2> HIDE DEF report
  <2>3. Known(asker[b].writes, Now) \subseteq Since(Now)
    BY DEF Known, Since
  <2> QED  BY <1>2, <2>1, <2>2, <2>3
<1>7. CASE Misread(b)
  BY <1>7 DEF Misread, Built, Whole
<1>8. ~Ask(b) /\ ~Enter(b)
  <2>1. ~Ask(b)
    BY <1>1 DEF Ask
  <2>2. ASSUME Enter(b)  PROVE FALSE
    <3>1. asker'[b] = [asker[b] EXCEPT !.stage = "builds"]
      BY <2>2 DEF Enter, ScreenInv
    <3>2. [asker[b] EXCEPT !.stage = "builds"] \in Question
      BY <1>1 DEF Question
    <3> QED  BY <3>1, <3>2, IdleAsksNothing
  <2> QED  BY <2>1, <2>2
<1> QED  BY <1>3, <1>4, <1>5, <1>6, <1>7, <1>8

\* The status screen never shows a caller a report built before what the ledger
\* had recorded when it was asked: a report kept for somebody else is used again
\* only under the token the caller read, and one built for it reads the rows after
\* (state.rs usage_report).
THEOREM StatusIsNeverBehind == RecordsSpec => [][NeverBehind]_usageVars
<1>1. ScreenInv /\ [UsageNext]_usageVars => ScreenInv'
  <2> SUFFICES ASSUME ScreenInv, [UsageNext]_usageVars  PROVE ScreenInv'
    OBVIOUS
  <2>1. CASE UsageNext
    BY <2>1, RecordKeeps, CallersKeep DEF UsageNext
  <2>2. CASE UNCHANGED usageVars
    BY <2>2 DEF usageVars, ScreenInv, Known, Rows, Whole
  <2> QED  BY <2>1, <2>2
<1>2. ScreenInv /\ [UsageNext]_usageVars => [NeverBehind]_usageVars
  BY AnswersAreNotBehind
<1>3. RecordsInit => ScreenInv
  BY ScreenInvInit DEF RecordsInit
<1>4. [RecordsNext]_records => [UsageNext]_usageVars
  BY StepOfOne
<1> QED  BY <1>1, <1>2, <1>3, <1>4, PTL DEF RecordsSpec

-----------------------------------------------------------------------------
(* The status screen: the windows                                          *)

LEMMA LeastNatural ==
    ASSUME NEW T, T \subseteq Nat, T # {}
    PROVE  \E x \in T : \A y \in T : x <= y
<1>1. PICK x \in T : \A y \in T : <<y, x>> \notin OpToRel(<, Nat)
  BY NatLessThanWellFounded, WFMin
<1>2. \A y \in T : ~(y < x)
  BY <1>1 DEF OpToRel
<1> QED  BY <1>2

\* What holds of 0 and goes from each number to the next holds up to n.
LEMMA Ladder ==
    ASSUME NEW n \in Nat, NEW G, 0 \in G, \A i \in 0 .. n : i < n /\ i \in G => i + 1 \in G
    PROVE  \A i \in 0 .. n : i \in G
<1> DEFINE T == {i \in 0 .. n : i \notin G}
<1> SUFFICES ASSUME T # {}  PROVE FALSE
  OBVIOUS
<1>0. T \subseteq Nat /\ T # {}
  OBVIOUS
<1> HIDE DEF T
<1>1. PICK x \in T : \A y \in T : x <= y
  BY <1>0, LeastNatural, Zenon
<1> USE DEF T
<1>2. x \in 0 .. n /\ x \notin G /\ x # 0
  OBVIOUS
<1>3. x - 1 \in 0 .. n /\ x - 1 < n /\ x - 1 \notin T
  BY <1>1, <1>2
<1>4. x - 1 \in G
  BY <1>3
<1>5. (x - 1) + 1 \in G
  BY <1>3, <1>4
<1> QED  BY <1>2, <1>5

\* The requests of b that count, and the windows that `cut` makes of a set of them.
Counted(read, b) == {i \in read : sent[i].on = b /\ sent[i].fate # "failed"}
CutBy(f, i, S) == IF i = 0 THEN <<>> ELSE IF i \in S THEN Cut(f[i - 1], i) ELSE f[i - 1]
Cutting(f, S, n) == f = [i \in 0 .. n |-> CutBy(f, i, S)]
Pieces(S) == (CHOOSE f : Cutting(f, S, MaxSent))[MaxSent]
Marked(w, now) == [w EXCEPT !.active = ~w.gap /\ w.end > now]

\* The function that Build recurses with is there.
LEMMA CuttingExists ==
    ASSUME NEW S, NEW n \in Nat
    PROVE  \E f : Cutting(f, S, n)
<1> DEFINE G == {m \in 0 .. n : \E f : Cutting(f, S, m)}
<1>1. 0 \in G
  <2> DEFINE f == [i \in 0 .. 0 |-> <<>>]
  <2>1. f = [i \in 0 .. 0 |-> CutBy(f, i, S)]
    BY DEF CutBy
  <2> HIDE DEF f
  <2> QED  BY <2>1 DEF Cutting
<1>2. ASSUME NEW m \in 0 .. n, m < n, m \in G  PROVE m + 1 \in G
  <2>1. PICK f : Cutting(f, S, m)
    BY <1>2
  <2> DEFINE h == [i \in 0 .. (m + 1) |-> IF i = m + 1 THEN CutBy(f, m + 1, S) ELSE f[i]]
  <2>2. \A i \in 0 .. m : f[i] = CutBy(f, i, S)
    BY <2>1 DEF Cutting
  <2>3. \A i \in 0 .. (m + 1) : h[i] = CutBy(h, i, S)
    <3>1. SUFFICES ASSUME NEW i \in 0 .. (m + 1)  PROVE h[i] = CutBy(h, i, S)
      OBVIOUS
    <3>2. CASE i = m + 1
      <4>1. h[i] = CutBy(f, m + 1, S) /\ h[i - 1] = f[m]
        BY <3>2
      <4> QED  BY <3>2, <4>1 DEF CutBy
    <3>3. CASE i = 0
      BY <2>2, <3>3 DEF CutBy
    <3>4. CASE i \in 1 .. m
      <4>1. h[i] = f[i] /\ h[i - 1] = f[i - 1]
        BY <3>4
      <4> QED  BY <2>2, <3>4, <4>1 DEF CutBy
    <3> QED  BY <3>2, <3>3, <3>4
  <2>4. h = [i \in 0 .. (m + 1) |-> CutBy(h, i, S)]
    <3>1. h = [i \in 0 .. (m + 1) |-> h[i]]
      OBVIOUS
    <3> HIDE DEF h
    <3> QED  BY <2>3, <3>1, Zenon
  <2> HIDE DEF h
  <2>5. Cutting(h, S, m + 1)
    BY <2>4 DEF Cutting
  <2>6. m + 1 \in 0 .. n /\ \E g : Cutting(g, S, m + 1)
    BY <1>2, <2>5
  <2> QED  BY <2>6
<1> HIDE DEF G
<1>3. n \in G
  BY <1>1, <1>2, Ladder
<1> QED  BY <1>3 DEF G

LEMMA BuildIs ==
    ASSUME NEW read, NEW now
    PROVE  Build(read, now) = {Marked(w, now) : w \in UNION {ToSet(Pieces(Counted(read, b))) : b \in Pools}}
BY DEF Build, Pieces, Cutting, CutBy, Counted, Marked

LEMMA PiecesAre ==
    ASSUME NEW S
    PROVE  \E f : /\ f[0] = <<>>
                  /\ \A i \in 1 .. MaxSent : f[i] = IF i \in S THEN Cut(f[i - 1], i) ELSE f[i - 1]
                  /\ Pieces(S) = f[MaxSent]
<1>0. MaxSent \in Nat
  BY UsageAssumption
<1> DEFINE f == CHOOSE g : Cutting(g, S, MaxSent)
<1>1. Cutting(f, S, MaxSent)
  BY <1>0, CuttingExists
<1>2. Pieces(S) = f[MaxSent]
  BY DEF Pieces
<1> HIDE DEF f
<1>3. \A i \in 0 .. MaxSent : f[i] = CutBy(f, i, S)
  BY <1>1 DEF Cutting
<1>4. f[0] = <<>>
  BY <1>0, <1>3 DEF CutBy
<1>5. \A i \in 1 .. MaxSent : f[i] = IF i \in S THEN Cut(f[i - 1], i) ELSE f[i - 1]
  BY <1>0, <1>3 DEF CutBy
<1> QED  BY <1>2, <1>4, <1>5

-----------------------------------------------------------------------------
(* The windows of one backend                                              *)

\* What is known of the requests: they are numbered as they begin.
Timely ==
    /\ \A i \in Sent : sent[i].at \in Int /\ sent[i].used \in Nat
    /\ \A i, j \in Sent : i < j => sent[i].at <= sent[j].at

AnyWindow == [on : Pools, start : Int, end : Int, last : Int \cup {Void}, gap : BOOLEAN,
              active : BOOLEAN, rows : SUBSET Sent, silent : Nat, tokens : Nat]

\* A window of b, over those of its requests S that are not behind n.
OfBackend(w, b, S, n) ==
    /\ w.on = b /\ w.rows \subseteq S
    /\ \A i \in w.rows : i <= n /\ w.start <= sent[i].at /\ sent[i].at < w.end
    /\ ~w.gap => /\ w.end = w.start + SessionTicks /\ w.start % Hour = 0
                 /\ w.last \in Int /\ w.start <= w.last /\ w.last < w.end
    /\ w.gap => w.rows = {} /\ \A i \in S : i <= n => sent[i].at <= w.start \/ sent[i].at >= w.end

\* Two windows of one backend, v before w.
Follows(v, w) == v.rows \cap w.rows = {} /\ (~v.gap /\ ~w.gap => v.end <= w.start)

Chain(ws, b, S, n) ==
    /\ ws \in Seq(AnyWindow)
    /\ \A x \in 1 .. Len(ws) : OfBackend(ws[x], b, S, n)
    /\ \A x, y \in 1 .. Len(ws) : x < y => Follows(ws[x], ws[y])

\* The last window is the one requests are added to.
Tip(ws, S, n) ==
    /\ \A i \in S : i <= n => \E x \in 1 .. Len(ws) : i \in ws[x].rows
    /\ Len(ws) > 0 =>
         /\ ~ws[Len(ws)].gap
         /\ \E j \in S : j <= n /\ sent[j].at = ws[Len(ws)].last
         /\ \A i \in S : i <= n => sent[i].at <= ws[Len(ws)].last
         /\ \A x \in 1 .. Len(ws) : ws[x].gap => ws[x].end <= ws[Len(ws)].last

Serves(S, b) == S \subseteq Sent /\ b \in Pools /\ \A i \in S : sent[i].on = b

LEMMA Numbers ==
    /\ MaxSent \in Nat /\ SessionTicks \in Nat /\ SessionTicks > 0 /\ SessionTicks % Hour = 0
    /\ \A i \in Sent : i \in Int
<1>1. MaxSent \in Nat /\ SessionTicks \in Nat /\ SessionTicks > 0 /\ SessionTicks % Hour = 0
  BY UsageAssumption
<1> QED  BY <1>1 DEF Sent

LEMMA AppendIs ==
    ASSUME NEW T, NEW ws \in Seq(T), NEW w \in T, NEW c, c = Append(ws, w)
    PROVE  /\ c \in Seq(T) /\ Len(c) = Len(ws) + 1 /\ c[Len(ws) + 1] = w /\ Len(ws) \in Nat
           /\ \A x \in 1 .. Len(ws) : c[x] = ws[x]
OBVIOUS

\* The chain c is ws with w behind it.
Behind(ws, w, b, S, n) ==
    Chain(ws, b, S, n) /\ w \in AnyWindow /\ OfBackend(w, b, S, n) /\ \A x \in 1 .. Len(ws) : Follows(ws[x], w)
Lengthened(c, ws, w, b, S, n) ==
    /\ Chain(c, b, S, n) /\ Len(c) = Len(ws) + 1 /\ c[Len(c)] = w /\ Len(ws) \in Nat
    /\ \A x \in 1 .. Len(ws) : c[x] = ws[x]

LEMMA ChainAdd ==
    ASSUME NEW ws, NEW b, NEW S, NEW n, NEW w, Behind(ws, w, b, S, n), NEW c, c = Append(ws, w)
    PROVE  Lengthened(c, ws, w, b, S, n)
<1>0. Chain(ws, b, S, n) /\ w \in AnyWindow /\ OfBackend(w, b, S, n) /\ \A x \in 1 .. Len(ws) : Follows(ws[x], w)
  BY DEF Behind
<1>1. /\ c \in Seq(AnyWindow) /\ Len(c) = Len(ws) + 1 /\ c[Len(ws) + 1] = w /\ Len(ws) \in Nat
      /\ \A x \in 1 .. Len(ws) : c[x] = ws[x]
  BY <1>0, AppendIs DEF Chain
<1>2. ASSUME NEW x \in 1 .. Len(c)  PROVE OfBackend(c[x], b, S, n)
  <2>1. CASE x = Len(ws) + 1
    BY <1>0, <1>1, <2>1
  <2>2. CASE x # Len(ws) + 1
    <3>1. x \in 1 .. Len(ws)
      BY <1>1, <2>2
    <3>2. OfBackend(ws[x], b, S, n)
      BY <1>0, <3>1 DEF Chain
    <3> QED  BY <1>1, <3>1, <3>2
  <2> QED  BY <2>1, <2>2
<1>3. ASSUME NEW x \in 1 .. Len(c), NEW y \in 1 .. Len(c), x < y  PROVE Follows(c[x], c[y])
  <2>1. x \in 1 .. Len(ws) /\ c[x] = ws[x]
    BY <1>1, <1>3
  <2>2. CASE y = Len(ws) + 1
    BY <1>0, <1>1, <2>1, <2>2
  <2>3. CASE y # Len(ws) + 1
    <3>1. y \in 1 .. Len(ws) /\ c[y] = ws[y]
      BY <1>1, <2>3
    <3>2. Follows(ws[x], ws[y])
      BY <1>0, <1>3, <2>1, <3>1 DEF Chain
    <3> QED  BY <2>1, <3>1, <3>2
  <2> QED  BY <2>2, <2>3
<1>4. Chain(c, b, S, n)
  BY <1>1, <1>2, <1>3 DEF Chain
<1> QED  BY <1>1, <1>4 DEF Lengthened

\* Windows stay sound when the next request is not in them.
LEMMA ChainLater ==
    ASSUME NEW ws, NEW b, NEW S, NEW n \in Nat, S \subseteq Sent, Chain(ws, b, S, n),
           n + 1 \in S => \A x \in 1 .. Len(ws) : ws[x].gap => sent[n + 1].at >= ws[x].end
    PROVE  Chain(ws, b, S, n + 1)
<1>1. \A i \in S : i \in Int /\ (i <= n + 1 => i <= n \/ i = n + 1)
  BY Numbers
<1>2. ASSUME NEW x \in 1 .. Len(ws)  PROVE OfBackend(ws[x], b, S, n + 1)
  <2>1. PICK w : w = ws[x]
    OBVIOUS
  <2>2. OfBackend(w, b, S, n) /\ (n + 1 \in S => (w.gap => sent[n + 1].at >= w.end))
    BY <2>1 DEF Chain
  <2>3. OfBackend(w, b, S, n + 1)
    BY <1>1, <2>2 DEF OfBackend
  <2> QED  BY <2>1, <2>3
<1> QED  BY <1>2 DEF Chain

\* A window that is opened for a request, and the request in it.
LEMMA WindowOpened ==
    ASSUME Timely, NEW S, NEW b, Serves(S, b), NEW i \in S, NEW n \in Nat, i <= n,
           NEW w, w = Added(Opened(i), i)
    PROVE  /\ w \in AnyWindow /\ OfBackend(w, b, S, n) /\ w.rows = {i} /\ ~w.gap
           /\ w.last = sent[i].at /\ w.start = sent[i].at - (sent[i].at % Hour)
<1>1. i \in Sent /\ sent[i].on = b /\ b \in Pools /\ sent[i].at \in Int /\ sent[i].used \in Nat /\ i \in Int
  BY Numbers DEF Timely, Serves
<1>2. PICK a, s, q : a = sent[i].at /\ s = a - (a % Hour) /\ q = (IF sent[i].fate = "silent" THEN 1 ELSE 0)
  BY Zenon
<1>3. a \in Int /\ s \in Int /\ s <= a /\ a < s + SessionTicks /\ s % Hour = 0 /\ SessionTicks \in Nat /\ q \in Nat
  BY <1>1, <1>2, Numbers DEF Hour
<1>4. w = [on |-> b, start |-> s, end |-> s + SessionTicks, last |-> a, gap |-> FALSE, active |-> FALSE,
           rows |-> {i}, silent |-> 0 + q, tokens |-> 0 + sent[i].used]
  <2>1. w = [on |-> b, start |-> s, end |-> s + SessionTicks, last |-> a, gap |-> FALSE, active |-> FALSE,
             rows |-> {} \cup {i}, silent |-> 0 + q, tokens |-> 0 + sent[i].used]
    BY <1>1, <1>2, w = Added(Opened(i), i) DEF Added, Opened
  <2> QED  BY <2>1
<1>5. w \in AnyWindow
  BY ONLY <1>1, <1>3, <1>4 DEF AnyWindow
<1>6. OfBackend(w, b, S, n)
  BY ONLY <1>1, <1>2, <1>3, <1>4, i \in S, i <= n DEF OfBackend
<1> QED  BY <1>2, <1>4, <1>5, <1>6

\* What cutting the requests up to n makes.
CutUp(ws, b, S, n) == Chain(ws, b, S, n) /\ Tip(ws, S, n)

LEMMA CutFirst ==
    ASSUME Timely, NEW S, NEW b, Serves(S, b), NEW n \in Nat, CutUp(<<>>, b, S, n), n + 1 \in S
    PROVE  CutUp(Cut(<<>>, n + 1), b, S, n + 1)
<1>1. PICK w : w = Added(Opened(n + 1), n + 1)
  OBVIOUS
<1>2. /\ w \in AnyWindow /\ OfBackend(w, b, S, n + 1) /\ w.rows = {n + 1} /\ ~w.gap
      /\ w.last = sent[n + 1].at
  BY <1>1, WindowOpened
<1>3. Cut(<<>>, n + 1) = <<w>>
  BY <1>1 DEF Cut
<1>4. \A i \in S : i \in Int /\ (i <= n + 1 => i = n + 1)
  <2>1. ASSUME NEW i \in S, i <= n  PROVE FALSE
    BY <2>1 DEF CutUp, Tip
  <2>2. \A i \in S : i \in Int
    BY Numbers DEF Serves
  <2> QED  BY <2>1, <2>2
<1>5. Chain(<<w>>, b, S, n + 1)
  BY <1>2 DEF Chain
<1>6. sent[n + 1].at \in Int
  BY DEF Timely, Serves
<1>7. Tip(<<w>>, S, n + 1)
  BY <1>2, <1>4, <1>6 DEF Tip
<1> QED  BY <1>3, <1>5, <1>7 DEF CutUp

\* A request goes on the window it finds.
LEMMA CutOn ==
    ASSUME Timely, NEW S, NEW b, Serves(S, b), NEW n \in Nat, NEW ws, ws # <<>>, CutUp(ws, b, S, n), n + 1 \in S,
           ~NeedsNew(Last(ws), n + 1)
    PROVE  CutUp(Cut(ws, n + 1), b, S, n + 1)
<1>1. PICK m, u, w, f : m = Len(ws) /\ u = Last(ws) /\ w = Added(u, n + 1) /\ f = Front(ws)
  OBVIOUS
<1>2. ws \in Seq(AnyWindow)
  BY DEF CutUp, Chain
<1>3. /\ m \in Nat /\ m > 0 /\ u = ws[m] /\ u \in AnyWindow
      /\ f \in Seq(AnyWindow) /\ Len(f) = m - 1 /\ \A x \in 1 .. (m - 1) : f[x] = ws[x]
  BY <1>1, <1>2 DEF Last, Front
<1>4. PICK c : c = Append(f, w)
  OBVIOUS
<1>5. Cut(ws, n + 1) = c
  BY <1>1, <1>4 DEF Cut
<1>6. PICK a : a = sent[n + 1].at
  OBVIOUS
<1>7. n + 1 \in Sent /\ a \in Int /\ sent[n + 1].used \in Nat /\ n + 1 \in Int
  BY <1>6, Numbers DEF Timely, Serves
<1>8. \A i \in S : i \in Sent /\ i \in Int /\ sent[i].at \in Int /\ (i <= n + 1 => i <= n \/ i = n + 1)
                   /\ (i <= n => sent[i].at <= a)
  BY <1>6, <1>7, Numbers DEF Timely, Serves
<1>9. OfBackend(u, b, S, n)
  <2>1. m \in 1 .. Len(ws)
    BY <1>1, <1>3
  <2> QED  BY <1>3, <2>1 DEF CutUp, Chain
<1>10. ~u.gap /\ u.last \in Int /\ u.last <= a /\ u.start <= a /\ a < u.end /\ u.start \in Int /\ u.end \in Int
  <2>1. ~u.gap /\ \E j \in S : j <= n /\ sent[j].at = u.last
    BY <1>1, <1>3 DEF CutUp, Tip
  <2>2. u.last \in Int /\ u.last <= a
    BY <1>8, <2>1
  <2>3. u.start \in Int /\ u.end \in Int
    BY <1>3 DEF AnyWindow
  <2>4. ~(a >= u.end)
    BY <1>1, <1>6 DEF NeedsNew
  <2> QED  BY <1>9, <1>7, <2>1, <2>2, <2>3, <2>4 DEF OfBackend
<1>11. /\ w.on = u.on /\ w.start = u.start /\ w.end = u.end /\ w.gap = u.gap /\ w.last = a
       /\ w.rows = u.rows \cup {n + 1} /\ w \in AnyWindow
  <2>1. PICK q : q = (IF sent[n + 1].fate = "silent" THEN 1 ELSE 0)
    OBVIOUS
  <2>2. q \in Nat
    BY <2>1
  <2>3. w = [u EXCEPT !.rows = @ \cup {n + 1}, !.last = a, !.tokens = @ + sent[n + 1].used, !.silent = @ + q]
    BY <1>1, <1>6, <2>1 DEF Added
  <2>4. /\ u.on \in Pools /\ u.start \in Int /\ u.end \in Int /\ u.last \in Int \cup {Void} /\ u.gap \in BOOLEAN
        /\ u.active \in BOOLEAN /\ u.rows \in SUBSET Sent /\ u.silent \in Nat /\ u.tokens \in Nat
    BY ONLY <1>3 DEF AnyWindow
  <2>5. u = [on |-> u.on, start |-> u.start, end |-> u.end, last |-> u.last, gap |-> u.gap, active |-> u.active,
             rows |-> u.rows, silent |-> u.silent, tokens |-> u.tokens]
    BY ONLY <1>3 DEF AnyWindow
  <2>6. w = [on |-> u.on, start |-> u.start, end |-> u.end, last |-> a, gap |-> u.gap, active |-> u.active,
             rows |-> u.rows \cup {n + 1}, silent |-> u.silent + q, tokens |-> u.tokens + sent[n + 1].used]
    BY ONLY <2>3, <2>5
  <2>7. u.rows \cup {n + 1} \in SUBSET Sent /\ u.silent + q \in Nat /\ u.tokens + sent[n + 1].used \in Nat
        /\ a \in Int \cup {Void}
    BY ONLY <1>7, <2>2, <2>4
  <2>8. w \in AnyWindow
    BY ONLY <2>4, <2>6, <2>7 DEF AnyWindow
  <2> QED  BY ONLY <2>6, <2>8
<1>12. OfBackend(w, b, S, n + 1)
  <2>1. ASSUME NEW i \in w.rows  PROVE i \in S /\ i <= n + 1 /\ w.start <= sent[i].at /\ sent[i].at < w.end
    <3>1. CASE i = n + 1
      BY <1>6, <1>10, <1>11, <3>1
    <3>2. CASE i \in u.rows
      <4>1. i \in S /\ i <= n /\ u.start <= sent[i].at /\ sent[i].at < u.end
        BY <1>9, <3>2 DEF OfBackend
      <4> QED  BY <1>8, <1>11, <4>1
    <3> QED  BY <1>11, <2>1, <3>1, <3>2
  <2>2. w.on = b /\ w.end = w.start + SessionTicks /\ w.start % Hour = 0 /\ ~w.gap
    BY <1>9, <1>10, <1>11 DEF OfBackend
  <2>3. w.last \in Int /\ w.start <= w.last /\ w.last < w.end
    BY <1>7, <1>10, <1>11
  <2> QED  BY <2>1, <2>2, <2>3 DEF OfBackend
<1>13. Chain(f, b, S, n + 1)
  <2>1. Chain(f, b, S, n)
    <3>1. \A x \in 1 .. Len(f) : x \in 1 .. Len(ws) /\ f[x] = ws[x]
      BY <1>1, <1>3
    <3> QED  BY <1>3, <3>1 DEF CutUp, Chain
  <2>2. \A x \in 1 .. Len(f) : f[x].gap => a >= f[x].end
    <3> SUFFICES ASSUME NEW x \in 1 .. Len(f), f[x].gap  PROVE a >= f[x].end
      OBVIOUS
    <3>1. x \in 1 .. Len(ws) /\ f[x] = ws[x] /\ ws[x] \in AnyWindow
      BY <1>1, <1>2, <1>3
    <3>2. ws[x].end <= u.last /\ ws[x].end \in Int
      BY <1>1, <1>3, <3>1 DEF CutUp, Tip, AnyWindow
    <3> QED  BY <1>7, <1>10, <3>1, <3>2
  <2>3. S \subseteq Sent
    BY DEF Serves
  <2> QED  BY <1>6, <2>1, <2>2, <2>3, ChainLater
<1>14. \A x \in 1 .. Len(f) : Follows(f[x], w)
  <2> SUFFICES ASSUME NEW x \in 1 .. Len(f)  PROVE Follows(f[x], w)
    OBVIOUS
  <2>1. x \in 1 .. Len(ws) /\ m \in 1 .. Len(ws) /\ x < m /\ f[x] = ws[x]
    BY <1>1, <1>3
  <2>2. Follows(f[x], u) /\ OfBackend(f[x], b, S, n)
    BY <1>3, <2>1 DEF CutUp, Chain
  <2>3. n + 1 \notin f[x].rows
    BY <1>7, <2>2 DEF OfBackend
  <2> QED  BY <1>11, <2>2, <2>3 DEF Follows
<1>15. Chain(c, b, S, n + 1) /\ Len(c) = m /\ c[m] = w /\ \A x \in 1 .. (m - 1) : c[x] = f[x]
  <2>1. /\ Chain(c, b, S, n + 1) /\ Len(c) = Len(f) + 1 /\ c[Len(c)] = w
        /\ \A x \in 1 .. Len(f) : c[x] = f[x]
    <3>1. PICK k : k = n + 1
      OBVIOUS
    <3>2. Behind(f, w, b, S, k)
      BY ONLY <1>11, <1>12, <1>13, <1>14, <3>1 DEF Behind
    <3>3. Lengthened(c, f, w, b, S, k)
      BY ONLY <1>4, <3>2, ChainAdd
    <3> QED  BY ONLY <3>1, <3>3 DEF Lengthened
  <2> QED  BY <1>3, <2>1
<1>16. Tip(c, S, n + 1)
  <2>1. ASSUME NEW i \in S, i <= n + 1  PROVE \E x \in 1 .. Len(c) : i \in c[x].rows
    <3>1. m \in 1 .. Len(c)
      BY <1>3, <1>15
    <3>2. CASE i = n + 1
      BY <1>11, <1>15, <3>1, <3>2
    <3>3. CASE i <= n
      <4>1. PICK x \in 1 .. Len(ws) : i \in ws[x].rows
        BY <3>3 DEF CutUp, Tip
      <4>2. CASE x = m
        BY <1>3, <1>11, <1>15, <3>1, <4>1, <4>2
      <4>3. CASE x # m
        <5>1. x \in 1 .. (m - 1) /\ x \in 1 .. Len(c)
          BY <1>1, <1>3, <1>15, <4>3
        <5> QED  BY <1>3, <1>15, <4>1, <5>1
      <4> QED  BY <4>2, <4>3
    <3> QED  BY <1>8, <2>1, <3>2, <3>3
  <2>2. ~c[Len(c)].gap /\ c[Len(c)].last = a
    BY <1>10, <1>11, <1>15
  <2>3. \A i \in S : i <= n + 1 => sent[i].at <= a
    BY <1>6, <1>7, <1>8
  <2>4. ASSUME NEW x \in 1 .. Len(c), c[x].gap  PROVE c[x].end <= a
    <3>1. x # m
      BY <1>10, <1>11, <1>15, <2>4
    <3>2. x \in 1 .. (m - 1) /\ x \in 1 .. Len(ws) /\ c[x] = ws[x]
      BY <1>1, <1>3, <1>15, <3>1
    <3>3. ws[x] \in AnyWindow /\ ws[x].end <= u.last
      BY <1>1, <1>2, <1>3, <2>4, <3>2 DEF CutUp, Tip
    <3>4. ws[x].end \in Int
      BY <3>3 DEF AnyWindow
    <3> QED  BY <1>7, <1>10, <3>2, <3>3, <3>4
  <2>5. n + 1 \in S /\ n + 1 <= n + 1
    OBVIOUS
  <2> QED  BY <1>6, <2>1, <2>2, <2>3, <2>4, <2>5 DEF Tip
<1> QED  BY <1>5, <1>15, <1>16 DEF CutUp

\* A silence, and the window after it.
Silence(u, k) == [Opened(k) EXCEPT !.start = u.last, !.end = sent[k].at, !.gap = TRUE]
SilenceIs(g, b, S, k) ==
    g \in AnyWindow /\ g.gap /\ g.rows = {} /\ g.end = sent[k].at /\ OfBackend(g, b, S, k)

LEMMA GapIs ==
    ASSUME Timely, NEW S, NEW b, Serves(S, b), NEW n \in Nat, NEW ws, CutUp(ws, b, S, n), NEW k, k = n + 1, k \in S,
           Len(ws) > 0, NEW u, u = ws[Len(ws)], NEW g, g = Silence(u, k)
    PROVE  SilenceIs(g, b, S, k)
<1>1. PICK a : a = sent[k].at
  OBVIOUS
<1>2. k \in Sent /\ a \in Int /\ sent[k].on = b /\ b \in Pools
  BY <1>1 DEF Timely, Serves
<1>3. /\ \E j \in S : j <= n /\ sent[j].at = u.last
      /\ \A i \in S : i <= n => sent[i].at <= u.last
  BY DEF CutUp, Tip
<1>4. u.last \in Int
  BY <1>3 DEF Timely, Serves
<1>5. PICK s, l, o, e : s = a - (a % Hour) /\ l = u.last /\ o = Opened(k) /\ e = s + SessionTicks
  BY Zenon
<1>6. o = [on |-> b, start |-> s, end |-> e, last |-> Void, gap |-> FALSE, active |-> FALSE,
           rows |-> {}, silent |-> 0, tokens |-> 0]
  BY ONLY <1>1, <1>2, <1>5 DEF Opened
<1>7. PICK p : p = [o EXCEPT !.start = l]
  OBVIOUS
<1>8. PICK q : q = [p EXCEPT !.end = a]
  OBVIOUS
<1>9. g = [on |-> b, start |-> l, end |-> a, last |-> Void, gap |-> TRUE, active |-> FALSE,
           rows |-> {}, silent |-> 0, tokens |-> 0]
  <2>1. p = [on |-> b, start |-> l, end |-> e, last |-> Void, gap |-> FALSE, active |-> FALSE,
             rows |-> {}, silent |-> 0, tokens |-> 0]
    BY ONLY <1>6, <1>7
  <2>2. q = [on |-> b, start |-> l, end |-> a, last |-> Void, gap |-> FALSE, active |-> FALSE,
             rows |-> {}, silent |-> 0, tokens |-> 0]
    BY ONLY <1>8, <2>1
  <2>3. g = [q EXCEPT !.gap = TRUE]
    BY <1>1, <1>5, <1>7, <1>8 DEF Silence
  <2> QED  BY ONLY <2>2, <2>3
<1>10. g \in AnyWindow
  BY ONLY <1>2, <1>4, <1>5, <1>9 DEF AnyWindow
<1>11. ASSUME NEW i \in S, i <= k  PROVE sent[i].at <= l \/ sent[i].at >= a
  <2>1. i \in Int /\ k \in Int
    BY Numbers DEF Serves
  <2>2. i <= n \/ i = k
    BY ONLY <2>1, <1>11, n \in Nat, k = n + 1
  <2>3. CASE i = k
    BY <1>1, <1>2, <2>3
  <2>4. CASE i <= n
    BY <1>3, <1>5, <2>4
  <2> QED  BY ONLY <2>2, <2>3, <2>4
<1>12. OfBackend(g, b, S, k)
  <2>1. g.on = b /\ g.rows = {} /\ g.gap = TRUE /\ g.start = l /\ g.end = a
    BY ONLY <1>9
  <2> QED  BY ONLY <2>1, <1>11 DEF OfBackend
<1> QED  BY <1>1, <1>9, <1>10, <1>12 DEF SilenceIs

\* A request that the last window is too old for opens another.
LEMMA CutNew ==
    ASSUME Timely, NEW S, NEW b, Serves(S, b), NEW n \in Nat, NEW ws, ws # <<>>, CutUp(ws, b, S, n), n + 1 \in S,
           NeedsNew(Last(ws), n + 1)
    PROVE  CutUp(Cut(ws, n + 1), b, S, n + 1)
<1>1. PICK m, u, w, k : m = Len(ws) /\ u = Last(ws) /\ w = Added(Opened(n + 1), n + 1) /\ k = n + 1
  OBVIOUS
<1>2. ws \in Seq(AnyWindow)
  BY DEF CutUp, Chain
<1>3. m \in Nat /\ m > 0 /\ u = ws[m] /\ u \in AnyWindow /\ m \in 1 .. Len(ws)
  BY <1>1, <1>2 DEF Last
<1>4. PICK a : a = sent[k].at
  OBVIOUS
<1>5. k \in Sent /\ a \in Int /\ k \in Int /\ k \in S /\ n < k /\ k \in Nat
  BY <1>1, <1>4, Numbers DEF Timely, Serves
<1>6. \A i \in S : i \in Sent /\ i \in Int /\ sent[i].at \in Int /\ (i <= k => i <= n \/ i = k)
                   /\ (i <= k => sent[i].at <= a)
  <2> SUFFICES ASSUME NEW i \in S
      PROVE i \in Sent /\ i \in Int /\ sent[i].at \in Int /\ (i <= k => i <= n \/ i = k)
            /\ (i <= k => sent[i].at <= a)
    OBVIOUS
  <2>1. i \in Sent /\ i \in Int /\ sent[i].at \in Int
    BY Numbers DEF Timely, Serves
  <2>2. i <= k => i <= n \/ i = k
    BY ONLY <1>1, <1>5, <2>1, n \in Nat
  <2>3. i < k => sent[i].at <= sent[k].at
    BY <1>5, <2>1 DEF Timely
  <2>4. i <= k => sent[i].at <= a
    BY ONLY <1>4, <1>5, <2>1, <2>3
  <2> QED  BY ONLY <2>1, <2>2, <2>4
<1>7. /\ w \in AnyWindow /\ OfBackend(w, b, S, k) /\ w.rows = {k} /\ ~w.gap
      /\ w.last = a /\ w.start = a - (a % Hour)
  BY <1>1, <1>4, <1>5, WindowOpened
<1>8. OfBackend(u, b, S, n) /\ ~u.gap /\ u.last \in Int /\ u.last <= a /\ u.end = u.start + SessionTicks
      /\ u.start <= u.last /\ u.start % Hour = 0 /\ u.start \in Int
  <2>1. OfBackend(u, b, S, n)
    BY <1>3 DEF CutUp, Chain
  <2>2. ~u.gap /\ \E j \in S : j <= n /\ sent[j].at = u.last
    BY <1>1, <1>3 DEF CutUp, Tip
  <2>3. u.last \in Int /\ u.last <= a
    BY <1>5, <1>6, <2>2
  <2>4. u.start \in Int
    BY <1>3 DEF AnyWindow
  <2> QED  BY <2>1, <2>2, <2>3, <2>4 DEF OfBackend
\* The window before is over.
<1>9. u.end <= w.start
  <2>1. a >= u.end \/ a - u.last >= SessionTicks
    BY <1>1, <1>4 DEF NeedsNew
  <2>2. a >= u.end
    BY ONLY <1>5, <1>8, <2>1, Numbers
  <2>3. u.end % Hour = 0 /\ u.end \in Int
    BY ONLY <1>8, Numbers DEF Hour
  <2> QED  BY ONLY <1>5, <1>7, <2>2, <2>3 DEF Hour
<1>10. \A x \in 1 .. m : ws[x] \in AnyWindow /\ ws[x].end \in Int /\ (ws[x].gap => ws[x].end <= a)
  <2> SUFFICES ASSUME NEW x \in 1 .. m  PROVE ws[x] \in AnyWindow /\ ws[x].end \in Int /\ (ws[x].gap => ws[x].end <= a)
    OBVIOUS
  <2>1. ws[x] \in AnyWindow /\ (ws[x].gap => ws[x].end <= u.last)
    BY <1>1, <1>2, <1>3 DEF CutUp, Tip
  <2>2. ws[x].end \in Int
    BY <2>1 DEF AnyWindow
  <2> QED  BY <1>5, <1>8, <2>1, <2>2
<1>11. Chain(ws, b, S, k)
  <2>1. Chain(ws, b, S, n + 1)
    BY <1>1, <1>4, <1>10, ChainLater DEF CutUp, Serves
  <2> QED  BY <1>1, <2>1
<1>12. \A x \in 1 .. m : k \notin ws[x].rows /\ (~ws[x].gap => ws[x].end <= w.start)
  <2> SUFFICES ASSUME NEW x \in 1 .. m  PROVE k \notin ws[x].rows /\ (~ws[x].gap => ws[x].end <= w.start)
    OBVIOUS
  <2>1. OfBackend(ws[x], b, S, n)
    BY <1>1 DEF CutUp, Chain
  <2>2. k \notin ws[x].rows
    BY <1>5, <2>1 DEF OfBackend
  <2>3. ASSUME ~ws[x].gap  PROVE ws[x].end <= w.start
    <3>1. CASE x = m
      BY <1>3, <1>9, <3>1
    <3>2. CASE x # m
      <4>1. x < m
        BY <1>3, <3>2
      <4>2. Follows(ws[x], ws[m])
        BY <1>1, <1>3, <4>1 DEF CutUp, Chain
      <4>3. ws[x].end <= u.start
        BY <1>3, <1>8, <2>3, <4>2 DEF Follows
      <4>4. w.start \in Int /\ ws[x].end \in Int
        BY <1>7, <1>10 DEF AnyWindow
      <4> QED  BY <1>8, <1>9, <4>3, <4>4, Numbers
    <3> QED  BY <3>1, <3>2
  <2> QED  BY <2>2, <2>3
\* The gap, where there is one.
<1>13. PICK d : /\ Chain(d, b, S, k) /\ Cut(ws, k) = Append(d, w) /\ Len(d) \in Nat
                /\ \A x \in 1 .. m : x \in 1 .. Len(d) /\ d[x] = ws[x]
                /\ \A x \in 1 .. Len(d) : x \notin 1 .. m => d[x].rows = {} /\ d[x].gap /\ d[x].end = a
  <2>1. Cut(ws, k) = ws \o Gap(u, k) \o <<w>>
    BY <1>1 DEF Cut
  <2>2. CASE Gap(u, k) = <<>>
    <3>1. ws \o Gap(u, k) = ws
      BY <1>2, <2>2
    <3>2. Cut(ws, k) = Append(ws, w)
      BY <1>2, <1>7, <2>1, <3>1
    <3> QED  BY <1>1, <1>3, <1>11, <3>2
  <2>3. CASE Gap(u, k) # <<>>
    <3>1. PICK g : g = Silence(u, k)
      OBVIOUS
    <3>2. Gap(u, k) = <<g>>
      BY <2>3, <3>1 DEF Gap, Silence
    <3>3. /\ g \in AnyWindow /\ g.gap /\ g.rows = {} /\ g.end = a
          /\ OfBackend(g, b, S, k)
      <4>1. Len(ws) > 0 /\ u = ws[Len(ws)]
        BY <1>1, <1>3
      <4>2. k = n + 1 /\ k \in S
        BY <1>1, <1>5
      <4>3. SilenceIs(g, b, S, k)
        BY <3>1, <4>1, <4>2, GapIs
      <4> QED  BY <1>4, <4>3 DEF SilenceIs
    <3>4. PICK d : d = Append(ws, g)
      OBVIOUS
    <3>5. ws \o Gap(u, k) = d
      BY <1>2, <3>2, <3>3, <3>4
    <3>6. Behind(ws, g, b, S, k)
      BY <1>11, <3>3 DEF Behind, Follows
    <3>7. Lengthened(d, ws, g, b, S, k)
      BY ONLY <3>4, <3>6, ChainAdd
    <3>8. /\ Chain(d, b, S, k) /\ Len(d) = m + 1 /\ d[m + 1] = g /\ \A x \in 1 .. m : d[x] = ws[x]
      BY <1>1, <3>7 DEF Lengthened
    <3>9. Cut(ws, k) = Append(d, w)
      <4>1. d \in Seq(AnyWindow)
        BY <3>8 DEF Chain
      <4> QED  BY <1>7, <2>1, <3>5, <4>1
    <3>10. \A x \in 1 .. Len(d) : x \notin 1 .. m => x = m + 1
      BY <1>3, <3>8
    <3>11. \A x \in 1 .. m : x \in 1 .. Len(d)
      BY <1>3, <3>8
    <3> QED  BY <1>3, <3>3, <3>8, <3>9, <3>10, <3>11
  <2> QED  BY <2>2, <2>3
<1>14. PICK c : c = Append(d, w)
  OBVIOUS
<1>15. Behind(d, w, b, S, k)
  <2>1. ASSUME NEW x \in 1 .. Len(d)  PROVE Follows(d[x], w)
    <3>1. CASE x \in 1 .. m
      BY <1>7, <1>12, <1>13, <3>1 DEF Follows
    <3>2. CASE x \notin 1 .. m
      BY <1>13, <3>2 DEF Follows
    <3> QED  BY <3>1, <3>2
  <2> QED  BY <1>7, <1>13, <2>1 DEF Behind
<1>16. Lengthened(c, d, w, b, S, k)
  BY ONLY <1>14, <1>15, ChainAdd
<1>17. Chain(c, b, S, k) /\ Len(c) = Len(d) + 1 /\ c[Len(c)] = w /\ \A x \in 1 .. Len(d) : c[x] = d[x]
  BY <1>16 DEF Lengthened
<1>18. Tip(c, S, k)
  <2>1. ASSUME NEW i \in S, i <= k  PROVE \E x \in 1 .. Len(c) : i \in c[x].rows
    <3>1. CASE i = k
      <4>1. Len(c) \in 1 .. Len(c)
        BY <1>13, <1>17
      <4> QED  BY <1>7, <1>17, <3>1, <4>1
    <3>2. CASE i <= n
      <4>1. PICK x \in 1 .. Len(ws) : i \in ws[x].rows
        BY <3>2 DEF CutUp, Tip
      <4>2. x \in 1 .. Len(d) /\ d[x] = ws[x]
        BY <1>1, <1>13
      <4>3. x \in 1 .. Len(c) /\ c[x] = ws[x]
        BY <1>13, <1>17, <4>2
      <4> QED  BY <4>1, <4>3
    <3> QED  BY <1>6, <2>1, <3>1, <3>2
  <2>2. ~c[Len(c)].gap /\ c[Len(c)].last = a
    BY <1>7, <1>17
  <2>3. ASSUME NEW x \in 1 .. Len(c), c[x].gap  PROVE c[x].end <= a
    <3>1. x # Len(c)
      BY <2>2, <2>3
    <3>2. x \in 1 .. Len(d) /\ c[x] = d[x]
      BY <1>13, <1>17, <3>1
    <3>3. CASE x \in 1 .. m
      BY <1>10, <1>13, <2>3, <3>2, <3>3
    <3>4. CASE x \notin 1 .. m
      BY <1>5, <1>13, <3>2, <3>4
    <3> QED  BY <3>3, <3>4
  <2>4. k \in S /\ k <= k /\ sent[k].at = a
    BY <1>4, <1>5
  <2> QED  BY <1>6, <2>1, <2>2, <2>3, <2>4 DEF Tip
<1> QED  BY <1>1, <1>13, <1>14, <1>17, <1>18 DEF CutUp

\* A request of another backend changes nothing.
LEMMA CutSkips ==
    ASSUME NEW S, NEW b, Serves(S, b), NEW n \in Nat, NEW ws, CutUp(ws, b, S, n), n + 1 \notin S
    PROVE  CutUp(ws, b, S, n + 1)
<1>1. S \subseteq Sent
  BY DEF Serves
<1>2. Chain(ws, b, S, n + 1)
  BY <1>1, ChainLater DEF CutUp
<1>3. \A i \in S : i <= n + 1 => i <= n
  BY <1>1, Numbers
<1>4. \A i \in S : i <= n => i <= n + 1
  BY <1>1, Numbers
<1>5. Tip(ws, S, n + 1)
  BY <1>3, <1>4 DEF CutUp, Tip
<1> QED  BY <1>2, <1>5 DEF CutUp

\* The windows of a backend account for all its requests.
LEMMA PiecesCut ==
    ASSUME Timely, NEW S, NEW b, Serves(S, b)
    PROVE  CutUp(Pieces(S), b, S, MaxSent)
<1>0. MaxSent \in Nat
  BY Numbers
<1>1. PICK f : /\ f[0] = <<>>
               /\ \A i \in 1 .. MaxSent : f[i] = IF i \in S THEN Cut(f[i - 1], i) ELSE f[i - 1]
               /\ Pieces(S) = f[MaxSent]
  BY PiecesAre
<1>2. PICK G : G = {i \in 0 .. MaxSent : CutUp(f[i], b, S, i)}
  OBVIOUS
<1>3. 0 \in G
  <2>1. Chain(<<>>, b, S, 0)
    BY DEF Chain
  <2>2. \A i \in S : ~(i <= 0)
    BY <1>0 DEF Serves, Sent
  <2>3. Tip(<<>>, S, 0)
    BY <2>2 DEF Tip
  <2> QED  BY <1>0, <1>1, <1>2, <2>1, <2>3 DEF CutUp
<1>4. ASSUME NEW i \in 0 .. MaxSent, i < MaxSent, i \in G  PROVE i + 1 \in G
  <2>1. i + 1 \in 1 .. MaxSent /\ i + 1 \in 0 .. MaxSent /\ i \in Nat /\ (i + 1) - 1 = i
    BY <1>0, <1>4
  <2>2. f[i + 1] = IF i + 1 \in S THEN Cut(f[i], i + 1) ELSE f[i]
    <3>1. PICK k : k = i + 1
      OBVIOUS
    <3>2. f[k] = IF k \in S THEN Cut(f[k - 1], k) ELSE f[k - 1]
      BY <1>1, <2>1, <3>1
    <3> QED  BY <2>1, <3>1, <3>2
  <2>3. PICK ws : ws = f[i]
    OBVIOUS
  <2>4. CutUp(ws, b, S, i)
    BY <1>2, <1>4, <2>3
  <2>5. CASE i + 1 \notin S
    BY <1>2, <2>1, <2>2, <2>3, <2>4, <2>5, CutSkips
  <2>6. CASE i + 1 \in S
    <3>1. CutUp(Cut(ws, i + 1), b, S, i + 1)
      <4>1. CASE ws = <<>>
        BY <2>1, <2>4, <2>6, <4>1, CutFirst
      <4>2. CASE ws # <<>> /\ NeedsNew(Last(ws), i + 1)
        BY <2>1, <2>4, <2>6, <4>2, CutNew
      <4>3. CASE ws # <<>> /\ ~NeedsNew(Last(ws), i + 1)
        BY <2>1, <2>4, <2>6, <4>3, CutOn
      <4> QED  BY <4>1, <4>2, <4>3
    <3> QED  BY <1>2, <2>1, <2>2, <2>3, <2>6, <3>1
  <2> QED  BY <2>5, <2>6
<1>5. MaxSent \in G
  BY <1>0, <1>3, <1>4, Ladder
<1> QED  BY <1>1, <1>2, <1>5

-----------------------------------------------------------------------------
(* The windows of a report                                                 *)

\* What WindowsAddUp says of one report.
Accounted(ws, read) ==
    /\ \A i \in read :
          sent[i].fate # "failed" =>
            \E w \in ws : i \in w.rows /\ \A v \in ws \ {w} : i \notin v.rows
    /\ \A w \in ws : \A i \in read :
          /\ i \in w.rows => /\ sent[i].on = w.on /\ sent[i].fate # "failed"
                             /\ w.start <= sent[i].at /\ sent[i].at < w.end
          /\ w.gap /\ sent[i].on = w.on /\ sent[i].fate # "failed" =>
                sent[i].at \notin w.start + 1 .. w.end - 1
    /\ \A v, w \in ws : v # w /\ v.on = w.on /\ ~v.gap /\ ~w.gap =>
          v.end <= w.start \/ w.end <= v.start

\* w is what the x-th window of backend b becomes.
Piece(w, read, now, b, x, p) ==
    /\ b \in Pools /\ x \in 1 .. Len(Pieces(Counted(read, b))) /\ p = Pieces(Counted(read, b))[x]
    /\ p \in AnyWindow /\ OfBackend(p, b, Counted(read, b), MaxSent) /\ w = Marked(p, now)
    /\ w.on = p.on /\ w.start = p.start /\ w.end = p.end /\ w.last = p.last /\ w.gap = p.gap /\ w.rows = p.rows
    /\ w.silent = p.silent /\ w.tokens = p.tokens /\ w.active = (~p.gap /\ p.end > now)
Readable(read) == read \subseteq Sent /\ \A i \in read : sent[i].on \in Pools

LEMMA CountedServe ==
    ASSUME NEW read, Readable(read), NEW b \in Pools
    PROVE  Serves(Counted(read, b), b)
BY DEF Readable, Serves, Counted

\* Which windows a report has.
LEMMA PieceIs ==
    ASSUME Timely, NEW read, Readable(read), NEW now, NEW b \in Pools, NEW x \in 1 .. Len(Pieces(Counted(read, b)))
    PROVE  /\ Piece(Marked(Pieces(Counted(read, b))[x], now), read, now, b, x, Pieces(Counted(read, b))[x])
           /\ Marked(Pieces(Counted(read, b))[x], now) \in Build(read, now)
<1>1. PICK ws : ws = Pieces(Counted(read, b))
  OBVIOUS
<1>2. Chain(ws, b, Counted(read, b), MaxSent)
  BY <1>1, CountedServe, PiecesCut DEF CutUp
<1>3. PICK p, w : p = ws[x] /\ w = Marked(p, now)
  OBVIOUS
<1>4. p \in AnyWindow /\ OfBackend(p, b, Counted(read, b), MaxSent) /\ p \in ToSet(ws)
  BY <1>1, <1>2, <1>3 DEF Chain, ToSet
<1>5. PICK act : act = (~p.gap /\ p.end > now)
  OBVIOUS
<1>6. w = [p EXCEPT !.active = act]
  BY <1>3, <1>5 DEF Marked
<1>7. /\ w.on = p.on /\ w.start = p.start /\ w.end = p.end /\ w.last = p.last /\ w.gap = p.gap /\ w.rows = p.rows
      /\ w.silent = p.silent /\ w.tokens = p.tokens /\ w.active = act
  BY ONLY <1>4, <1>6 DEF AnyWindow
<1>8. Piece(w, read, now, b, x, p)
  BY <1>1, <1>3, <1>4, <1>5, <1>7 DEF Piece
<1>9. w \in Build(read, now)
  BY <1>1, <1>3, <1>4, BuildIs
<1> QED  BY <1>1, <1>3, <1>8, <1>9

LEMMA BuildHas ==
    ASSUME Timely, NEW read, Readable(read), NEW now, NEW w \in Build(read, now)
    PROVE  \E b, x, p : Piece(w, read, now, b, x, p)
<1>0. PICK b \in Pools : \E r \in ToSet(Pieces(Counted(read, b))) : w = Marked(r, now)
  BY BuildIs
<1>1. PICK p \in ToSet(Pieces(Counted(read, b))) : w = Marked(p, now)
  BY <1>0
<1>2. PICK x \in 1 .. Len(Pieces(Counted(read, b))) : p = Pieces(Counted(read, b))[x]
  <2>1. PICK ws : ws = Pieces(Counted(read, b))
    OBVIOUS
  <2>2. Chain(ws, b, Counted(read, b), MaxSent)
    BY <2>1, CountedServe, PiecesCut DEF CutUp
  <2>3. ws \in Seq(AnyWindow)
    BY <2>2 DEF Chain
  <2>4. \E x \in 1 .. Len(ws) : p = ws[x]
    BY <1>1, <2>1, <2>3 DEF ToSet
  <2> QED  BY <2>1, <2>4
<1> QED  BY <1>1, <1>2, PieceIs

\* Two windows of one backend.
LEMMA TwoPieces ==
    ASSUME Timely, NEW read, Readable(read), NEW now,
           NEW v, NEW w, NEW b, NEW x, NEW y, NEW p, NEW q, v # w,
           Piece(v, read, now, b, x, p), Piece(w, read, now, b, y, q)
    PROVE  Follows(p, q) \/ Follows(q, p)
<1>1. PICK ws : ws = Pieces(Counted(read, b))
  OBVIOUS
<1>2. Chain(ws, b, Counted(read, b), MaxSent)
  BY <1>1, CountedServe, PiecesCut DEF CutUp, Piece
<1>3. x \in 1 .. Len(ws) /\ y \in 1 .. Len(ws) /\ p = ws[x] /\ q = ws[y] /\ p # q
  BY <1>1 DEF Piece
<1>4. x < y \/ y < x
  <2>1. x \in Int /\ y \in Int /\ x # y
    BY <1>3
  <2> QED  BY <2>1
<1> QED  BY <1>2, <1>3, <1>4 DEF Chain

\* All its windows together.
LEMMA BuildAddsUp ==
    ASSUME Timely, NEW read, Readable(read), NEW now
    PROVE  Accounted(Build(read, now), read)
<1>1. ASSUME NEW i \in read, sent[i].fate # "failed"
      PROVE \E w \in Build(read, now) : i \in w.rows /\ \A v \in Build(read, now) \ {w} : i \notin v.rows
  <2>1. PICK b : b = sent[i].on
    OBVIOUS
  <2>2. b \in Pools /\ i \in Counted(read, b) /\ i <= MaxSent
    BY <1>1, <2>1, Numbers DEF Readable, Counted, Sent
  <2>3. PICK x \in 1 .. Len(Pieces(Counted(read, b))) : i \in Pieces(Counted(read, b))[x].rows
    BY <2>2, CountedServe, PiecesCut DEF CutUp, Tip
  <2>4. PICK p : p = Pieces(Counted(read, b))[x]
    OBVIOUS
  <2>5. PICK w : w = Marked(p, now)
    OBVIOUS
  <2>6. Piece(w, read, now, b, x, p) /\ w \in Build(read, now)
    BY <2>2, <2>4, <2>5, PieceIs
  <2>7. i \in p.rows /\ i \in w.rows
    BY <2>3, <2>4, <2>6 DEF Piece
  <2>8. ASSUME NEW v \in Build(read, now), v # w, i \in v.rows  PROVE FALSE
    <3>1. PICK c, y, q : Piece(v, read, now, c, y, q)
      BY BuildHas
    <3>2. i \in q.rows
      BY <2>8, <3>1 DEF Piece
    <3>3. i \in Counted(read, c)
      BY <3>1, <3>2 DEF Piece, OfBackend
    <3>4. c = b
      BY <2>1, <3>3 DEF Counted
    <3>5. Follows(p, q) \/ Follows(q, p)
      BY <2>6, <2>8, <3>1, <3>4, TwoPieces
    <3> QED  BY <2>7, <3>2, <3>5 DEF Follows
  <2> QED  BY <2>6, <2>7, <2>8
<1>2. ASSUME NEW w \in Build(read, now), NEW i \in read
      PROVE /\ i \in w.rows => /\ sent[i].on = w.on /\ sent[i].fate # "failed"
                               /\ w.start <= sent[i].at /\ sent[i].at < w.end
            /\ w.gap /\ sent[i].on = w.on /\ sent[i].fate # "failed" =>
                  sent[i].at \notin w.start + 1 .. w.end - 1
  <2>1. PICK b, x, p : Piece(w, read, now, b, x, p)
    BY BuildHas
  <2>2. OfBackend(p, b, Counted(read, b), MaxSent) /\ p \in AnyWindow
    BY <2>1 DEF Piece
  <2>3. w.on = b /\ w.start = p.start /\ w.end = p.end /\ w.gap = p.gap /\ w.rows = p.rows
    BY <2>1, <2>2 DEF Piece, OfBackend
  <2>4. i \in Sent /\ sent[i].at \in Int /\ i <= MaxSent /\ p.start \in Int /\ p.end \in Int
    <3>1. i \in Sent
      BY DEF Readable
    <3>2. sent[i].at \in Int /\ i <= MaxSent
      BY <3>1, Numbers DEF Timely, Sent
    <3> QED  BY <2>2, <3>1, <3>2 DEF AnyWindow
  <2>5. ASSUME i \in w.rows
        PROVE sent[i].on = w.on /\ sent[i].fate # "failed" /\ w.start <= sent[i].at /\ sent[i].at < w.end
    <3>1. i \in Counted(read, b) /\ p.start <= sent[i].at /\ sent[i].at < p.end
      BY <2>2, <2>3, <2>5 DEF OfBackend
    <3> QED  BY <2>3, <3>1 DEF Counted
  <2>6. ASSUME w.gap, sent[i].on = w.on, sent[i].fate # "failed"
        PROVE sent[i].at \notin w.start + 1 .. w.end - 1
    <3>1. i \in Counted(read, b)
      BY <2>3, <2>6 DEF Counted
    <3>2. sent[i].at <= p.start \/ sent[i].at >= p.end
      BY <2>2, <2>3, <2>4, <2>6, <3>1 DEF OfBackend
    <3> QED  BY <2>3, <2>4, <3>2
  <2> QED  BY <2>5, <2>6
<1>3. ASSUME NEW v \in Build(read, now), NEW w \in Build(read, now), v # w, v.on = w.on, ~v.gap, ~w.gap
      PROVE v.end <= w.start \/ w.end <= v.start
  <2>1. PICK b, x, p : Piece(v, read, now, b, x, p)
    BY BuildHas
  <2>2. PICK c, y, q : Piece(w, read, now, c, y, q)
    BY BuildHas
  <2>3. b = c
    BY <1>3, <2>1, <2>2 DEF Piece, OfBackend
  <2>4. Follows(p, q) \/ Follows(q, p)
    BY <1>3, <2>1, <2>2, <2>3, TwoPieces
  <2> QED  BY <1>3, <2>1, <2>2, <2>4 DEF Piece, Follows
<1> QED  BY <1>1, <1>2, <1>3 DEF Accounted

-----------------------------------------------------------------------------
(* Forecasts: a quotient against a ceiling                                 *)

LEMMA QuotientGrows ==
    ASSUME NEW x \in Nat, NEW d \in Nat, d > 0, NEW c \in Nat
    PROVE  /\ x \div d \in Nat
           /\ c * d < x => x \div d >= c
           /\ c * d >= x => x \div d <= c
<1>1. PICK q : q = x \div d
  OBVIOUS
<1>2. q \in Nat /\ d * q <= x /\ x < d * (q + 1)
  BY <1>1
<1>3. c * d < x => q >= c
  <2> SUFFICES ASSUME c * d < x, q < c  PROVE FALSE
    BY <1>2
  <2>1. q + 1 <= c
    BY <1>2
  <2>2. d * (q + 1) <= d * c
    BY <1>2, <2>1
  <2> QED  BY <1>2, <2>2
<1>4. c * d >= x => q <= c
  <2> SUFFICES ASSUME c * d >= x, c < q  PROVE FALSE
    BY <1>2
  <2>1. c + 1 <= q
    BY <1>2
  <2>2. d * (c + 1) <= d * q
    BY <1>2, <2>1
  <2>3. d * (c + 1) = d * c + d /\ d * c = c * d /\ d * c \in Nat /\ d * q \in Nat
    BY <1>2
  <2> QED  BY ONLY <1>2, <2>2, <2>3, c * d >= x, x \in Nat, d \in Nat, d > 0, c \in Nat
<1> QED  BY <1>1, <1>2, <1>3, <1>4

-----------------------------------------------------------------------------
(* The percentile: what is at a rank, and below it                         *)

\* The windows that used no more than n, and those that used less.
Below(ws, n) == {w \in ws : w.tokens <= n}
Under(ws, n) == {w \in ws : w.tokens < n}
Weighed(ws) == IsFiniteSet(ws) /\ \A w \in ws : w.tokens \in Nat
\* n is the k-th smallest number of tokens.
Rank(ws, k, n) ==
    /\ n \in Nat /\ n \in {w.tokens : w \in ws}
    /\ Cardinality(Under(ws, n)) < k /\ k <= Cardinality(Below(ws, n))

LEMMA BelowGrows ==
    ASSUME NEW ws, IsFiniteSet(ws), NEW A, NEW B, A \subseteq B, B \subseteq ws
    PROVE  /\ Cardinality(A) \in Nat /\ Cardinality(B) \in Nat /\ Cardinality(ws) \in Nat
           /\ Cardinality(A) <= Cardinality(B) /\ Cardinality(B) <= Cardinality(ws)
<1>1. IsFiniteSet(B) /\ Cardinality(B) <= Cardinality(ws)
  BY FS_Subset
<1>2. IsFiniteSet(A) /\ Cardinality(A) <= Cardinality(B)
  BY <1>1, FS_Subset
<1> QED  BY <1>1, <1>2, FS_CardinalityType

\* There is a largest one.
LEMMA MostTokens ==
    ASSUME NEW ws, Weighed(ws)
    PROVE  \E M \in Nat : \A w \in ws : w.tokens <= M
<1>1. PICK c : c = Cardinality(ws)
  OBVIOUS
<1>2. c \in Nat /\ ExistsBijection(1 .. c, ws)
  BY <1>1, FS_CardinalityType DEF Weighed
<1>3. PICK f : f \in [1 .. c -> ws] /\ \A w \in ws : \E j \in 1 .. c : f[j] = w
  BY <1>2 DEF ExistsBijection, Bijection, Surjection
<1>4. PICK G : G = {i \in 0 .. c : \E M \in Nat : \A j \in 1 .. i : f[j].tokens <= M}
  OBVIOUS
<1>5. 0 \in G
  BY <1>2, <1>4
<1>6. ASSUME NEW i \in 0 .. c, i < c, i \in G  PROVE i + 1 \in G
  <2>1. PICK M \in Nat : \A j \in 1 .. i : f[j].tokens <= M
    BY <1>4, <1>6
  <2>2. i + 1 \in 1 .. c /\ i + 1 \in 0 .. c
    BY <1>2, <1>6
  <2>3. PICK t : t = f[i + 1].tokens
    OBVIOUS
  <2>4. t \in Nat
    BY <1>3, <2>2, <2>3 DEF Weighed
  <2>5. PICK L \in Nat : M <= L /\ t <= L
    BY <2>4
  <2>6. \A j \in 1 .. (i + 1) : f[j].tokens <= L
    <3> SUFFICES ASSUME NEW j \in 1 .. (i + 1)  PROVE f[j].tokens <= L
      OBVIOUS
    <3>1. CASE j = i + 1
      BY <2>3, <2>5, <3>1
    <3>2. CASE j \in 1 .. i
      <4>1. j \in 1 .. c
        BY <1>2, <1>6, <3>2
      <4>2. f[j].tokens \in Nat /\ f[j].tokens <= M
        BY <1>3, <2>1, <3>2, <4>1 DEF Weighed
      <4> QED  BY <2>5, <4>2
    <3> QED  BY <1>2, <3>1, <3>2
  <2> QED  BY <1>4, <2>2, <2>6
<1>7. c \in G
  <2>1. c \in Nat
    BY <1>2
  <2>2. \A i \in 0 .. c : i < c /\ i \in G => i + 1 \in G
    BY <1>6
  <2>3. \A i \in 0 .. c : i \in G
    BY ONLY <1>5, <2>1, <2>2, Ladder
  <2> QED  BY <2>1, <2>3
<1>8. PICK M \in Nat : \A j \in 1 .. c : f[j].tokens <= M
  BY <1>4, <1>7
<1> QED  BY <1>3, <1>8

\* Every rank is taken, by the least number that enough windows do not exceed.
LEMMA RankExists ==
    ASSUME NEW ws, Weighed(ws), NEW k \in 1 .. Cardinality(ws)
    PROVE  \E n : Rank(ws, k, n)
<1>0. IsFiniteSet(ws) /\ \A w \in ws : w.tokens \in Nat
  BY DEF Weighed
<1>1. PICK M \in Nat : \A w \in ws : w.tokens <= M
  BY MostTokens
<1>2. PICK T : T = {n \in Nat : k <= Cardinality(Below(ws, n))}
  OBVIOUS
<1>3. M \in T
  <2>1. Below(ws, M) = ws
    BY <1>1 DEF Below
  <2> QED  BY <1>2, <2>1
<1>4. PICK x \in T : \A y \in T : x <= y
  <2>1. T \subseteq Nat /\ T # {}
    BY <1>2, <1>3
  <2> QED  BY <2>1, LeastNatural
<1>5. x \in Nat /\ k <= Cardinality(Below(ws, x)) /\ k \in Nat /\ k > 0
  BY <1>2, <1>4
<1>6. Cardinality(Under(ws, x)) < k
  <2>1. CASE x = 0
    <3>1. Under(ws, x) = {}
      BY <1>0, <2>1 DEF Under
    <3> QED  BY <1>5, <3>1, FS_EmptySet
  <2>2. CASE x # 0
    <3>1. x - 1 \in Nat /\ x - 1 \notin T
      BY <1>4, <1>5, <2>2
    <3>2. Under(ws, x) = Below(ws, x - 1)
      BY <1>0, <1>5 DEF Under, Below
    <3>3. Cardinality(Below(ws, x - 1)) \in Nat
      <4>1. Below(ws, x - 1) \subseteq ws
        BY DEF Below
      <4> QED  BY <1>0, <4>1, BelowGrows
    <3> QED  BY <1>2, <1>5, <3>1, <3>2, <3>3
  <2> QED  BY <2>1, <2>2
<1>7. x \in {w.tokens : w \in ws}
  <2> SUFFICES ASSUME x \notin {w.tokens : w \in ws}  PROVE FALSE
    OBVIOUS
  <2>1. Under(ws, x) = Below(ws, x)
    BY <1>0, <1>5 DEF Under, Below
  <2>2. Cardinality(Below(ws, x)) \in Nat
    <3>1. Below(ws, x) \subseteq ws
      BY DEF Below
    <3> QED  BY <1>0, <3>1, BelowGrows
  <2> QED  BY <1>5, <1>6, <2>1, <2>2
<1> QED  BY <1>5, <1>6, <1>7 DEF Rank

LEMMA SortedIs ==
    ASSUME NEW ws, Weighed(ws), NEW k \in 1 .. Cardinality(ws)
    PROVE  Rank(ws, k, Sorted(ws)[k])
<1>1. \E n \in {w.tokens : w \in ws} :
        Cardinality({w \in ws : w.tokens < n}) < k /\ k <= Cardinality({w \in ws : w.tokens <= n})
  BY RankExists DEF Rank, Under, Below
<1>2. PICK n : n = CHOOSE t \in {w.tokens : w \in ws} :
        Cardinality({w \in ws : w.tokens < t}) < k /\ k <= Cardinality({w \in ws : w.tokens <= t})
  OBVIOUS
<1>3. Sorted(ws)[k] = n
  BY <1>2 DEF Sorted
<1>4. n \in {w.tokens : w \in ws} /\ Cardinality({w \in ws : w.tokens < n}) < k /\ k <= Cardinality({w \in ws : w.tokens <= n})
  BY <1>1, <1>2, Zenon
<1>5. n \in Nat
  BY <1>4 DEF Weighed
<1> QED  BY <1>3, <1>4, <1>5 DEF Rank, Under, Below

LEMMA RanksGrow ==
    ASSUME NEW ws, Weighed(ws), NEW j, NEW k, j \in 1 .. Cardinality(ws), k \in 1 .. Cardinality(ws), j < k,
           NEW s, NEW t, Rank(ws, j, s), Rank(ws, k, t)
    PROVE  s <= t
<1> SUFFICES ASSUME t < s  PROVE FALSE
  BY DEF Rank
<1>0. IsFiniteSet(ws) /\ (\A w \in ws : w.tokens \in Nat) /\ s \in Nat /\ t \in Nat
  BY DEF Weighed, Rank
<1>1. Below(ws, t) \subseteq Under(ws, s) /\ Under(ws, s) \subseteq ws
  BY <1>0 DEF Below, Under
<1>2. PICK x, y : x = Cardinality(Below(ws, t)) /\ y = Cardinality(Under(ws, s))
  OBVIOUS
<1>3. x \in Nat /\ y \in Nat /\ x <= y
  BY <1>0, <1>1, <1>2, BelowGrows
<1>4. k <= x /\ y < j
  BY <1>2 DEF Rank
<1>5. j \in Int /\ k \in Int
  OBVIOUS
<1> QED  BY ONLY <1>3, <1>4, <1>5, j < k

LEMMA SortedSeq ==
    ASSUME NEW ws, Weighed(ws)
    PROVE  Sorted(ws) \in Seq(Nat) /\ Len(Sorted(ws)) = Cardinality(ws)
<1>1. PICK c, s : c = Cardinality(ws) /\ s = Sorted(ws)
  OBVIOUS
<1>2. c \in Nat
  BY <1>1, FS_CardinalityType DEF Weighed
<1>3. \A k \in 1 .. c : s[k] \in Nat
  BY <1>1, SortedIs DEF Rank
<1>4. DOMAIN s = 1 .. c /\ s = [k \in 1 .. c |-> s[k]]
  <2>1. DOMAIN Sorted(ws) = 1 .. Cardinality(ws)
    BY Zenon DEF Sorted
  <2> DEFINE Nth(k) == CHOOSE n \in {w.tokens : w \in ws} :
                        /\ Cardinality({w \in ws : w.tokens < n}) < k
                        /\ k <= Cardinality({w \in ws : w.tokens <= n})
  <2>2. Sorted(ws) = [k \in 1 .. Cardinality(ws) |-> Nth(k)]
    BY DEF Sorted
  <2> HIDE DEF Nth
  <2>3. s = [k \in 1 .. c |-> Nth(k)]
    BY <1>1, <2>2
  <2>4. \A k \in 1 .. c : s[k] = Nth(k)
    BY <2>3
  <2>5. s = [k \in 1 .. c |-> s[k]]
    BY <2>3, <2>4, Zenon
  <2> QED  BY <1>1, <2>1, <2>5
<1>5. s \in [1 .. c -> Nat]
  BY ONLY <1>3, <1>4
<1>6. s \in Seq(Nat)
  BY ONLY <1>2, <1>5
<1>7. Len(s) \in Nat /\ 1 .. Len(s) = 1 .. c
  BY ONLY <1>4, <1>6, LenProperties
<1>8. Len(s) = c
  BY ONLY <1>2, <1>7
<1> QED  BY <1>1, <1>6, <1>8

\* Where `percentile` looks among c values, and what it finds: j is the rank before
\* the cut point, d its distance from it in tenths.
NinthAt(c, j, d) ==
    /\ j = (IF (9 * (c + 1)) \div 10 > c - 1 THEN c - 1 ELSE (9 * (c + 1)) \div 10)
    /\ d = 9 * (c + 1) - j * 10
NinthIs(s, c, j, d) ==
    /\ j \in 1 .. (c - 1) /\ j \in 1 .. c /\ j + 1 \in 1 .. c /\ d \in Nat
    /\ Percentile(s, 9, 10) = (s[j] * (10 - d) + s[j + 1] * d) \div 10
    /\ (d <= 9 /\ 10 * j >= 9 * c) \/ (d >= 10 /\ j + 1 = c)

\* The ninth of ten cut points, by its position: between the values of two
\* neighbouring ranks, or beyond the last.
LEMMA PositionIs ==
    ASSUME NEW c \in Nat, c > 1, NEW s, NEW j, NEW d,
           Len(s) = c, NinthAt(c, j, d)
    PROVE  NinthIs(s, c, j, d)
<1>0. /\ j = (IF (9 * (c + 1)) \div 10 > c - 1 THEN c - 1 ELSE (9 * (c + 1)) \div 10)
      /\ d = 9 * (c + 1) - j * 10
  BY DEF NinthAt
<1>1. PICK w : w = (9 * (c + 1)) \div 10
  OBVIOUS
<1>2. w \in Int /\ 10 * w <= 9 * (c + 1) /\ 9 * (c + 1) < 10 * w + 10
  BY <1>1
<1>3. w >= 1
  BY <1>2
<1>4. /\ j \in 1 .. (c - 1) /\ j \in 1 .. c /\ j + 1 \in 1 .. c /\ d \in Nat
      /\ (d <= 9 /\ 10 * j >= 9 * c) \/ (d >= 10 /\ j + 1 = c)
  <2>1. CASE w > c - 1
    <3>1. j = c - 1 /\ c <= 9
      BY <1>0, <1>1, <1>2, <2>1
    <3> QED  BY <1>0, <1>2, <3>1
  <2>2. CASE ~(w > c - 1)
    <3>1. j = w
      BY <1>0, <1>1, <2>2
    <3> QED  BY <1>0, <1>2, <1>3, <2>2, <3>1
  <2> QED  BY <2>1, <2>2
<1>5. Percentile(s, 9, 10) = (s[j] * (10 - d) + s[j + 1] * d) \div 10
  <2>1. c # 1 /\ ~(w < 1)
    BY <1>2, <1>3
  <2>2. j = (IF w < 1 THEN 1 ELSE IF w > c - 1 THEN c - 1 ELSE w)
    BY <1>0, <1>1, <2>1
  <2> QED  BY ONLY <1>0, <1>1, <2>1, <2>2, Len(s) = c DEF Percentile
<1> QED  BY <1>4, <1>5 DEF NinthIs

\* Beyond the rank before, and beyond the next when d is ten or more.
LEMMA Between ==
    ASSUME NEW a \in Nat, NEW b \in Nat, a <= b, NEW d \in Nat, NEW q, q = (a * (10 - d) + b * d) \div 10
    PROVE  q \in Nat /\ a <= q /\ (d >= 10 => b <= q)
<1>1. PICK x : x = a * (10 - d) + b * d
  OBVIOUS
<1>2. PICK e \in Nat : b = a + e
  <2>1. b - a \in Nat /\ b = a + (b - a)
    OBVIOUS
  <2> QED  BY <2>1
<1>3. x \in Int /\ x = 10 * a + e * d
  <2>1. b * d = a * d + e * d /\ a * (10 - d) = 10 * a - a * d /\ a * d \in Nat /\ e * d \in Nat
    BY <1>2
  <2> QED  BY <1>1, <2>1
<1>4. e * d \in Nat /\ (d >= 10 => e * d >= 10 * e)
  BY <1>2
<1>5. q \in Int /\ 10 * q <= x /\ x < 10 * q + 10
  BY <1>1, <1>3
<1>6. q >= a
  BY <1>3, <1>4, <1>5
<1>7. d >= 10 => b <= q
  BY <1>2, <1>3, <1>4, <1>5
<1> QED  BY <1>5, <1>6, <1>7

\* Nine out of ten stay under the ninth cut point.
LEMMA NinthDecile ==
    ASSUME NEW ws, Weighed(ws), ws # {}, NEW q, q = Percentile(Sorted(ws), 9, 10)
    PROVE  q \in Nat /\ 10 * Cardinality(Below(ws, q)) >= 9 * Cardinality(ws)
<1>1. PICK c, s : c = Cardinality(ws) /\ s = Sorted(ws)
  OBVIOUS
<1>2. c \in Nat /\ c # 0 /\ Len(s) = c
  BY <1>1, SortedSeq, FS_CardinalityType, FS_EmptySet DEF Weighed
<1>3. \A k \in 1 .. c : Rank(ws, k, s[k])
  BY <1>1, SortedIs
<1>4. ASSUME NEW k \in 1 .. c, s[k] <= q, q \in Nat  PROVE k <= Cardinality(Below(ws, q)) /\ Cardinality(Below(ws, q)) \in Nat
  <2>1. PICK v : v = s[k]
    OBVIOUS
  <2>2. v \in Nat /\ k <= Cardinality(Below(ws, v))
    BY <1>3, <1>4, <2>1 DEF Rank
  <2>3. Below(ws, v) \subseteq Below(ws, q) /\ Below(ws, q) \subseteq ws
    BY <1>4, <2>1, <2>2 DEF Below, Weighed
  <2>4. PICK x, y : x = Cardinality(Below(ws, v)) /\ y = Cardinality(Below(ws, q))
    OBVIOUS
  <2>5. x \in Nat /\ y \in Nat /\ x <= y
    BY <2>3, <2>4, BelowGrows DEF Weighed
  <2> QED  BY <1>4, <2>2, <2>4, <2>5
<1>5. CASE c = 1
  <2>1. q = s[1]
    BY <1>1, <1>2, <1>5 DEF Percentile
  <2>2. q \in Nat /\ 1 \in 1 .. c
    BY <1>3, <1>5, <2>1 DEF Rank
  <2> QED  BY <1>1, <1>4, <1>5, <2>1, <2>2
<1>6. CASE c > 1
  <2>1. PICK j : j = (IF (9 * (c + 1)) \div 10 > c - 1 THEN c - 1 ELSE (9 * (c + 1)) \div 10)
    OBVIOUS
  <2>2. PICK d : d = 9 * (c + 1) - j * 10
    OBVIOUS
  <2>3. /\ j \in 1 .. (c - 1) /\ j \in 1 .. c /\ j + 1 \in 1 .. c /\ d \in Nat
        /\ Percentile(s, 9, 10) = (s[j] * (10 - d) + s[j + 1] * d) \div 10
        /\ (d <= 9 /\ 10 * j >= 9 * c) \/ (d >= 10 /\ j + 1 = c)
    <3>1. NinthAt(c, j, d)
      BY ONLY <2>1, <2>2 DEF NinthAt
    <3>2. NinthIs(s, c, j, d)
      BY ONLY <1>2, <1>6, <3>1, PositionIs
    <3> QED  BY ONLY <3>2 DEF NinthIs
  <2>4. PICK a, b : a = s[j] /\ b = s[j + 1]
    OBVIOUS
  <2>5. Rank(ws, j, a) /\ a \in Nat /\ b \in Nat
    BY <1>3, <2>3, <2>4 DEF Rank
  <2>6. PICK k : k = j + 1
    OBVIOUS
  <2>7. Rank(ws, k, b) /\ k \in 1 .. Cardinality(ws) /\ j \in 1 .. Cardinality(ws) /\ j < k
    BY <1>1, <1>3, <2>3, <2>4, <2>6
  <2>8. a <= b
    BY ONLY <2>5, <2>7, RanksGrow, Weighed(ws)
  <2>9. q = (a * (10 - d) + b * d) \div 10
    BY <1>1, <2>3, <2>4
  <2>10. q \in Nat /\ a <= q /\ (d >= 10 => b <= q)
    BY ONLY <2>3, <2>5, <2>8, <2>9, Between
  <2>11. CASE d <= 9 /\ 10 * j >= 9 * c
    <3>1. j <= Cardinality(Below(ws, q)) /\ Cardinality(Below(ws, q)) \in Nat
      BY <1>4, <2>3, <2>4, <2>10
    <3> QED  BY <1>1, <1>2, <2>3, <2>10, <2>11, <3>1
  <2>12. CASE d >= 10 /\ j + 1 = c
    <3>1. c <= Cardinality(Below(ws, q)) /\ Cardinality(Below(ws, q)) \in Nat
      BY <1>4, <2>3, <2>4, <2>10, <2>12
    <3> QED  BY <1>1, <1>2, <2>10, <3>1
  <2> QED  BY <2>3, <2>11, <2>12
<1> QED  BY <1>2, <1>5, <1>6

-----------------------------------------------------------------------------
(* The last hour: sums over a set, by the least counterexample among the   *)
(* numbers of elements                                                     *)

\* The sum over a set, by the element that comes first.
First(T) == CHOOSE x \in T : TRUE
AddRest(f, T, it) == IF T = {} THEN 0 ELSE f[First(T)] + it[T \ {First(T)}]
Adding(f, W, it) == it = [T \in SUBSET W |-> AddRest(f, T, it)]
UpTo(W, n) == {T \in SUBSET W : Cardinality(T) <= n}
Weights(f, W) == IsFiniteSet(W) /\ \A x \in W : f[x] \in Nat

LEMMA OneLess ==
    ASSUME NEW W, IsFiniteSet(W), NEW T \in SUBSET W, NEW x \in T
    PROVE  /\ T \ {x} \in SUBSET W
           /\ Cardinality(T) \in Nat \ {0} /\ Cardinality(T \ {x}) \in Nat
           /\ Cardinality(T \ {x}) = Cardinality(T) - 1 /\ Cardinality(T \ {x}) < Cardinality(T)
<1>1. IsFiniteSet(T)
  BY FS_Subset
<1>2. Cardinality(T) \in Nat /\ Cardinality(T) # 0
  BY <1>1, FS_CardinalityType, FS_EmptySet
<1>3. Cardinality(T \ {x}) = Cardinality(T) - 1
  BY <1>1, FS_RemoveElement
<1> QED  BY <1>2, <1>3

LEMMA FirstIs ==
    ASSUME NEW T, T # {}
    PROVE  First(T) \in T
BY DEF First

\* What holds of a set when it holds of the smaller ones holds of all.
LEMMA BySize ==
    ASSUME NEW W, IsFiniteSet(W), NEW G,
           \A U \in SUBSET W : (\A V \in SUBSET W : Cardinality(V) < Cardinality(U) => V \in G) => U \in G
    PROVE  \A U \in SUBSET W : U \in G
<1> SUFFICES ASSUME NEW U \in SUBSET W, U \notin G  PROVE FALSE
  OBVIOUS
<1>1. \A V \in SUBSET W : Cardinality(V) \in Nat
  BY FS_Subset, FS_CardinalityType
<1>2. PICK T : T = {n \in Nat : \E V \in SUBSET W : V \notin G /\ Cardinality(V) = n}
  OBVIOUS
<1>3. T \subseteq Nat /\ T # {}
  BY <1>1, <1>2
<1>4. PICK m \in T : \A n \in T : m <= n
  BY <1>3, LeastNatural
<1>5. PICK V \in SUBSET W : V \notin G /\ Cardinality(V) = m
  BY <1>2, <1>4
<1>6. PICK X \in SUBSET W : Cardinality(X) < Cardinality(V) /\ X \notin G
  BY <1>5
<1>7. Cardinality(X) \in T /\ Cardinality(X) \in Nat /\ m \in Nat
  BY <1>1, <1>2, <1>3, <1>6
<1> QED  BY <1>4, <1>5, <1>6, <1>7

LEMMA AddingExists ==
    ASSUME NEW f, NEW W, IsFiniteSet(W)
    PROVE  \E it : Adding(f, W, it)
<1> DEFINE Bad == {n \in Nat : ~ \E it : it = [T \in UpTo(W, n) |-> AddRest(f, T, it)]}
<1>1. ASSUME Bad # {}  PROVE FALSE
  <2>1. PICK m \in Bad : \A n \in Bad : m <= n
    <3>1. Bad \subseteq Nat
      OBVIOUS
    <3> HIDE DEF Bad
    <3> QED  BY <1>1, <3>1, LeastNatural
  <2>2. m \in Nat /\ ~ \E it : it = [T \in UpTo(W, m) |-> AddRest(f, T, it)]
    OBVIOUS
  <2>3. CASE m = 0
    <3> DEFINE it == [T \in UpTo(W, 0) |-> 0]
    <3>1. \A T \in UpTo(W, 0) : T = {}
      <4> SUFFICES ASSUME NEW T \in SUBSET W, Cardinality(T) <= 0, T # {}  PROVE FALSE
        BY DEF UpTo
      <4>1. Cardinality(T) \in Nat \ {0}
        BY OneLess
      <4> QED  BY <4>1
    <3>2. it = [T \in UpTo(W, 0) |-> AddRest(f, T, it)]
      BY <3>1 DEF AddRest
    <3> HIDE DEF it
    <3> QED  BY <2>2, <2>3, <3>2
  <2>4. CASE m # 0
    <3>1. m - 1 \in Nat /\ m - 1 \notin Bad
      BY <2>1, <2>2, <2>4
    <3>2. PICK it : it = [T \in UpTo(W, m - 1) |-> AddRest(f, T, it)]
      BY <3>1
    <3> DEFINE g == [T \in UpTo(W, m) |-> AddRest(f, T, it)]
    <3>3. ASSUME NEW T \in UpTo(W, m)  PROVE AddRest(f, T, it) = AddRest(f, T, g)
      <4>1. CASE T = {}
        BY <4>1 DEF AddRest
      <4>2. CASE T # {}
        <5> DEFINE U == T \ {First(T)}
        <5>1. U \in UpTo(W, m - 1) /\ U \in UpTo(W, m)
          <6>1. T \in SUBSET W /\ First(T) \in T /\ Cardinality(T) <= m
            BY <4>2, FirstIs DEF UpTo
          <6>2. U \in SUBSET W /\ Cardinality(U) = Cardinality(T) - 1 /\ Cardinality(T) \in Nat
            BY <6>1, OneLess
          <6> QED  BY <2>2, <6>1, <6>2 DEF UpTo
        <5>2. it[U] = AddRest(f, U, it) /\ g[U] = AddRest(f, U, it)
          <6> HIDE DEF U
          <6> QED  BY <3>2, <5>1
        <5> HIDE DEF g
        <5> QED  BY <4>2, <5>2 DEF AddRest
      <4> QED  BY <4>1, <4>2
    <3>4. g = [T \in UpTo(W, m) |-> AddRest(f, T, g)]
      <4> HIDE DEF g
      <4>1. g = [T \in UpTo(W, m) |-> AddRest(f, T, it)]
        BY DEF g
      <4> QED  BY <3>3, <4>1
    <3> HIDE DEF g
    <3> QED  BY <2>2, <3>4
  <2> QED  BY <2>3, <2>4
<1>2. Cardinality(W) \in Nat
  BY FS_CardinalityType
<1>3. UpTo(W, Cardinality(W)) = SUBSET W
  BY FS_Subset DEF UpTo
<1>4. \E it : it = [T \in UpTo(W, Cardinality(W)) |-> AddRest(f, T, it)]
  BY <1>1, <1>2
<1> QED  BY <1>3, <1>4 DEF Adding

LEMMA SumIs ==
    ASSUME NEW W, IsFiniteSet(W), NEW f, DOMAIN f = W
    PROVE  \E it : Adding(f, W, it) /\ SumFunction(f) = it[W]
<1> DEFINE it == CHOOSE g : g = [T \in SUBSET W |-> AddRest(f, T, g)]
<1>1. SumFunction(f) = it[W]
  BY DEF SumFunction, SumFunctionOnSet, FoldFunctionOnSet, MapThenFoldSet, AddRest, First
<1>2. Adding(f, W, it)
  BY AddingExists DEF Adding
<1> QED  BY <1>1, <1>2

LEMMA AddingIs ==
    ASSUME NEW f, NEW W, NEW it, Weights(f, W), Adding(f, W, it)
    PROVE  /\ it[{}] = 0
           /\ \A T \in SUBSET W : T # {} => it[T] = f[First(T)] + it[T \ {First(T)}]
           /\ \A T \in SUBSET W : it[T] \in Nat
<1>1. \A T \in SUBSET W : it[T] = AddRest(f, T, it)
  BY DEF Adding
<1>2. it[{}] = 0 /\ \A T \in SUBSET W : T # {} => it[T] = f[First(T)] + it[T \ {First(T)}]
  BY <1>1 DEF AddRest
<1>3. PICK G : G = {T \in SUBSET W : it[T] \in Nat}
  OBVIOUS
<1>4. ASSUME NEW U \in SUBSET W, \A V \in SUBSET W : Cardinality(V) < Cardinality(U) => V \in G  PROVE U \in G
  <2>1. CASE U = {}
    BY <1>2, <1>3, <2>1
  <2>2. CASE U # {}
    <3>1. PICK p, V : p = First(U) /\ V = U \ {p}
      OBVIOUS
    <3>2. p \in U /\ V \in SUBSET W /\ Cardinality(V) < Cardinality(U)
      BY <2>2, <3>1, FirstIs, OneLess DEF Weights
    <3>3. it[V] \in Nat /\ f[p] \in Nat
      BY <1>3, <1>4, <3>2 DEF Weights
    <3>4. it[U] = f[p] + it[V]
      BY <1>2, <2>2, <3>1
    <3>5. it[U] \in Nat
      BY ONLY <3>3, <3>4
    <3> QED  BY <1>3, <3>5
  <2> QED  BY <2>1, <2>2
<1>5. \A U \in SUBSET W : U \in G
  <2>1. IsFiniteSet(W)
    BY DEF Weights
  <2> QED  BY ONLY <1>4, <2>1, BySize
<1> QED  BY <1>2, <1>3, <1>5

LEMMA AddingFirst ==
    ASSUME NEW f, NEW W, NEW it, Weights(f, W), Adding(f, W, it), NEW T \in SUBSET W, T # {},
           NEW p, p = First(T), NEW V, V = T \ {p}
    PROVE  it[T] = f[p] + it[V]
<1>1. it[T] = f[First(T)] + it[T \ {First(T)}]
  BY AddingIs
<1> QED  BY <1>1

\* It does not matter which element comes first.
LEMMA AddingOne ==
    ASSUME NEW f, NEW W, NEW it, Weights(f, W), Adding(f, W, it)
    PROVE  \A U \in SUBSET W : \A x \in U : it[U] = f[x] + it[U \ {x}]
<1>1. PICK G : G = {U \in SUBSET W : \A x \in U : it[U] = f[x] + it[U \ {x}]}
  OBVIOUS
<1>2. ASSUME NEW U \in SUBSET W, \A V \in SUBSET W : Cardinality(V) < Cardinality(U) => V \in G  PROVE U \in G
  <2> SUFFICES ASSUME NEW x \in U  PROVE it[U] = f[x] + it[U \ {x}]
    BY <1>1
  <2>1. PICK p, V, X, Y : p = First(U) /\ V = U \ {p} /\ X = U \ {x} /\ Y = V \ {x}
    BY Zenon
  <2>2. p \in U
    BY <2>1, FirstIs
  <2>3. it[U] = f[p] + it[V]
    BY <2>1, AddingFirst
  <2>4. /\ V \in SUBSET W /\ Cardinality(V) < Cardinality(U) /\ X \in SUBSET W /\ Cardinality(X) < Cardinality(U)
        /\ Y \in SUBSET W
    BY <2>1, <2>2, OneLess DEF Weights
  <2>5. CASE p = x
    BY <2>1, <2>3, <2>5
  <2>6. CASE p # x
    <3>1. x \in V /\ p \in X /\ X \ {p} = Y
      BY <2>1, <2>2, <2>6
    <3>2. it[V] = f[x] + it[Y]
      <4>1. V \in G
        BY <1>2, <2>4
      <4>2. it[V] = f[x] + it[V \ {x}]
        BY ONLY <1>1, <3>1, <4>1
      <4> QED  BY ONLY <2>1, <4>2
    <3>3. it[X] = f[p] + it[Y]
      <4>1. X \in G
        BY <1>2, <2>4
      <4>2. it[X] = f[p] + it[X \ {p}]
        BY ONLY <1>1, <3>1, <4>1
      <4> QED  BY ONLY <3>1, <4>2
    <3>4. it[Y] \in Nat /\ f[x] \in Nat /\ f[p] \in Nat
      BY <2>2, <2>4, AddingIs DEF Weights
    <3>5. it[U] = f[x] + it[X]
      BY ONLY <2>3, <3>2, <3>3, <3>4
    <3> QED  BY <2>1, <3>5
  <2> QED  BY <2>5, <2>6
<1>3. \A U \in SUBSET W : U \in G
  <2>1. IsFiniteSet(W)
    BY DEF Weights
  <2> QED  BY ONLY <1>2, <2>1, BySize
<1> QED  BY <1>1, <1>3

\* A larger set has a larger sum.
LEMMA AddingMore ==
    ASSUME NEW f, NEW W, NEW it, Weights(f, W), Adding(f, W, it)
    PROVE  \A V \in SUBSET W : \A U \in SUBSET V : it[U] <= it[V]
<1>1. PICK G : G = {V \in SUBSET W : \A U \in SUBSET V : it[U] <= it[V]}
  OBVIOUS
<1>2. ASSUME NEW V \in SUBSET W, \A X \in SUBSET W : Cardinality(X) < Cardinality(V) => X \in G  PROVE V \in G
  <2> SUFFICES ASSUME NEW U \in SUBSET V  PROVE it[U] <= it[V]
    BY <1>1
  <2>0. it[U] \in Nat /\ it[V] \in Nat /\ U \in SUBSET W
    BY AddingIs
  <2>1. CASE V = {}
    <3>1. U = V
      BY <2>1
    <3> QED  BY <2>0, <3>1
  <2>2. CASE V # {}
    <3>1. PICK p, X, Y : p = First(V) /\ X = V \ {p} /\ Y = U \ {p}
      BY Zenon
    <3>2. p \in V /\ it[V] = f[p] + it[X]
      BY <2>2, <3>1, FirstIs, AddingFirst
    <3>3. X \in SUBSET W /\ Cardinality(X) < Cardinality(V) /\ f[p] \in Nat /\ it[X] \in Nat /\ Y \in SUBSET X
      BY <3>1, <3>2, OneLess, AddingIs DEF Weights
    <3>4. it[Y] <= it[X] /\ it[Y] \in Nat
      <4>1. X \in G /\ Y \in SUBSET W
        BY <1>2, <3>3
      <4> QED  BY <1>1, <3>3, <4>1, AddingIs
    <3>5. CASE p \in U
      <4>1. it[U] = f[p] + it[Y]
        BY <2>0, <3>1, <3>5, AddingOne
      <4> QED  BY ONLY <3>2, <3>3, <3>4, <4>1
    <3>6. CASE p \notin U
      <4>1. U = Y
        BY <3>1, <3>6
      <4> QED  BY ONLY <3>2, <3>3, <3>4, <4>1
    <3> QED  BY <3>5, <3>6
  <2> QED  BY <2>1, <2>2
<1>3. \A U \in SUBSET W : U \in G
  <2>1. IsFiniteSet(W)
    BY DEF Weights
  <2> QED  BY ONLY <1>2, <2>1, BySize
<1> QED  BY <1>1, <1>3

\* A part of a sum, every share of which is at most c times the whole's.
LEMMA SumsCompare ==
    ASSUME NEW W, IsFiniteSet(W), NEW T \in SUBSET W, NEW c \in Nat,
           NEW g, DOMAIN g = W, \A x \in W : g[x] \in Nat,
           NEW f, DOMAIN f = T, \A x \in T : f[x] \in Nat /\ f[x] <= c * g[x]
    PROVE  SumFunction(f) <= c * SumFunction(g)
<1>1. IsFiniteSet(T)
  BY FS_Subset
<1>2. PICK ig : Adding(g, W, ig) /\ SumFunction(g) = ig[W]
  BY SumIs
<1>3. PICK jf : Adding(f, T, jf) /\ SumFunction(f) = jf[T]
  BY <1>1, SumIs
<1>4. Weights(g, W) /\ Weights(f, T)
  BY <1>1 DEF Weights
<1>5. PICK G : G = {U \in SUBSET T : jf[U] <= c * ig[U]}
  OBVIOUS
<1>6. ASSUME NEW U \in SUBSET T, \A X \in SUBSET T : Cardinality(X) < Cardinality(U) => X \in G  PROVE U \in G
  <2>0. U \in SUBSET W
    OBVIOUS
  <2>1. CASE U = {}
    <3>1. jf[{}] = 0 /\ ig[{}] = 0
      BY <1>2, <1>3, <1>4, AddingIs
    <3> QED  BY <1>5, <2>1, <3>1
  <2>2. CASE U # {}
    <3>1. PICK p, X : p = First(U) /\ X = U \ {p}
      OBVIOUS
    <3>2. p \in U /\ X \in SUBSET T /\ Cardinality(X) < Cardinality(U) /\ X \in SUBSET W
      BY <1>1, <2>2, <3>1, FirstIs, OneLess
    <3>3. jf[U] = f[p] + jf[X] /\ jf[X] \in Nat
      <4>1. jf[U] = f[p] + jf[X]
        BY ONLY <1>3, <1>4, <2>2, <3>1, AddingFirst, U \in SUBSET T
      <4>2. jf[X] \in Nat
        BY ONLY <1>3, <1>4, <3>2, AddingIs
      <4> QED  BY <4>1, <4>2
    <3>4. ig[U] = g[p] + ig[X] /\ ig[X] \in Nat
      <4>1. ig[U] = g[p] + ig[X]
        BY ONLY <1>2, <1>4, <2>0, <2>2, <3>1, AddingFirst
      <4>2. ig[X] \in Nat
        BY ONLY <1>2, <1>4, <3>2, AddingIs
      <4> QED  BY <4>1, <4>2
    <3>5. jf[X] <= c * ig[X]
      BY <1>5, <1>6, <3>2
    <3>6. f[p] \in Nat /\ g[p] \in Nat /\ f[p] <= c * g[p]
      BY <3>2
    <3>7. c * (g[p] + ig[X]) = c * g[p] + c * ig[X] /\ c * g[p] \in Nat /\ c * ig[X] \in Nat
      BY ONLY <3>4, <3>6, c \in Nat
    <3>8. jf[U] <= c * ig[U]
      BY ONLY <3>3, <3>4, <3>5, <3>6, <3>7
    <3> QED  BY <1>5, <3>8
  <2> QED  BY <2>1, <2>2
<1>7. \A U \in SUBSET T : U \in G
  BY ONLY <1>1, <1>6, BySize
<1>8. jf[T] <= c * ig[T]
  BY <1>5, <1>7
<1>9. ig[T] <= ig[W]
  BY <1>2, <1>4, AddingMore
<1>10. jf[T] \in Nat /\ ig[T] \in Nat /\ ig[W] \in Nat
  BY <1>2, <1>3, <1>4, AddingIs
<1>11. c * ig[T] <= c * ig[W] /\ c * ig[T] \in Nat /\ c * ig[W] \in Nat
  BY ONLY <1>9, <1>10, c \in Nat
<1>12. jf[T] <= c * ig[W]
  BY ONLY <1>8, <1>10, <1>11
<1> QED  BY <1>2, <1>3, <1>12

-----------------------------------------------------------------------------
(* What a report says                                                      *)

LEMMA ToSetFinite ==
    ASSUME NEW T, NEW s \in Seq(T)
    PROVE  IsFiniteSet(ToSet(s))
<1>1. Len(s) \in Nat /\ s \in [1 .. Len(s) -> T]
  BY LenProperties
<1>2. IsFiniteSet(1 .. Len(s))
  BY <1>1, FS_Interval
<1>3. ToSet(s) = {s[i] : i \in 1 .. Len(s)}
  BY <1>1 DEF ToSet
<1>4. s \in Surjection(1 .. Len(s), ToSet(s))
  BY <1>1, <1>3 DEF Surjection
<1> QED  BY <1>2, <1>4, FS_Surjection

LEMMA UnionFinite ==
    ASSUME NEW B, IsFiniteSet(B), NEW F, \A b \in B : IsFiniteSet(F[b])
    PROVE  IsFiniteSet(UNION {F[b] : b \in B})
<1>1. PICK G : G = {U \in SUBSET B : IsFiniteSet(UNION {F[b] : b \in U})}
  OBVIOUS
<1>2. ASSUME NEW U \in SUBSET B, \A V \in SUBSET B : Cardinality(V) < Cardinality(U) => V \in G  PROVE U \in G
  <2>1. CASE U = {}
    <3>1. UNION {F[b] : b \in U} = {}
      BY <2>1
    <3> QED  BY <1>1, <3>1, FS_EmptySet
  <2>2. CASE U # {}
    <3>1. PICK p, V : p = First(U) /\ V = U \ {p}
      OBVIOUS
    <3>2. p \in U /\ V \in SUBSET B /\ Cardinality(V) < Cardinality(U)
      BY <2>2, <3>1, FirstIs, OneLess
    <3>3. UNION {F[b] : b \in U} = F[p] \cup UNION {F[b] : b \in V}
      BY <3>1, <3>2
    <3>4. IsFiniteSet(UNION {F[b] : b \in V}) /\ IsFiniteSet(F[p])
      BY <1>1, <1>2, <3>2
    <3>5. IsFiniteSet(F[p] \cup UNION {F[b] : b \in V})
      BY <3>4, FS_Union
    <3> QED  BY <1>1, <3>3, <3>5
  <2> QED  BY <2>1, <2>2
<1>3. \A U \in SUBSET B : U \in G
  BY ONLY <1>2, BySize, IsFiniteSet(B)
<1> QED  BY <1>1, <1>3

\* A report has finitely many windows.
LEMMA BuildFinite ==
    ASSUME Timely, NEW read, Readable(read), NEW now
    PROVE  IsFiniteSet(Build(read, now))
<1>1. PICK F : F = [b \in Pools |-> ToSet(Pieces(Counted(read, b)))]
  OBVIOUS
<1>2. ASSUME NEW b \in Pools  PROVE IsFiniteSet(F[b])
  <2>1. PICK ws : ws = Pieces(Counted(read, b))
    OBVIOUS
  <2>2. ws \in Seq(AnyWindow)
    BY <2>1, CountedServe, PiecesCut DEF CutUp, Chain
  <2> QED  BY <1>1, <2>1, <2>2, ToSetFinite
<1>3. IsFiniteSet(Pools)
  BY UsageAssumption
<1>4. PICK X : X = UNION {F[b] : b \in Pools}
  OBVIOUS
<1>5. IsFiniteSet(X)
  BY <1>2, <1>3, <1>4, UnionFinite
<1>6. X = UNION {ToSet(Pieces(Counted(read, b))) : b \in Pools}
  BY <1>1, <1>4
<1>7. Build(read, now) = {Marked(w, now) : w \in X}
  BY <1>6, BuildIs
<1>8. PICK h : h = [w \in X |-> Marked(w, now)]
  OBVIOUS
<1>9. h \in Surjection(X, Build(read, now))
  BY <1>7, <1>8 DEF Surjection
<1> QED  BY <1>5, <1>9, FS_Surjection

\* What is known of a window that is shown.
Window(w, now) ==
    /\ w.tokens \in Nat /\ w.start \in Int /\ w.end \in Int
    /\ ~w.gap => w.last \in Int /\ w.start <= w.last /\ w.last < w.end
    /\ w.active => ~w.gap /\ w.end > now

LEMMA BuildMade ==
    ASSUME Timely, NEW read, Readable(read), NEW now
    PROVE  Weighed(Build(read, now)) /\ \A w \in Build(read, now) : Window(w, now)
<1>1. ASSUME NEW w \in Build(read, now)  PROVE Window(w, now)
  <2>1. PICK b, x, p : Piece(w, read, now, b, x, p)
    BY BuildHas
  <2>2. /\ p \in AnyWindow /\ OfBackend(p, b, Counted(read, b), MaxSent)
        /\ w.start = p.start /\ w.end = p.end /\ w.last = p.last /\ w.gap = p.gap
        /\ w.tokens = p.tokens /\ w.active = (~p.gap /\ p.end > now)
    BY <2>1 DEF Piece
  <2>3. p.tokens \in Nat /\ p.start \in Int /\ p.end \in Int /\ p.gap \in BOOLEAN
    BY ONLY <2>2 DEF AnyWindow
  <2>4. ~p.gap => p.last \in Int /\ p.start <= p.last /\ p.last < p.end
    BY <2>2 DEF OfBackend
  <2> QED  BY ONLY <2>2, <2>3, <2>4 DEF Window
<1> QED  BY <1>1, BuildFinite DEF Weighed, Window

LEMMA P90Is ==
    ASSUME NEW ws, Weighed(ws), NEW q, q = P90(ws), q # Void
    PROVE  q \in Nat /\ 10 * Cardinality(Below(Samples(ws), q)) >= 9 * Cardinality(Samples(ws))
<1>1. PICK S, n : S = Samples(ws) /\ n = Percentile(Sorted(S), 9, 10)
  OBVIOUS
<1>2. S \subseteq ws
  BY <1>1 DEF Samples
<1>3. Weighed(S)
  BY <1>2, FS_Subset DEF Weighed
<1>4. S # {} /\ q = IF n < Minimum THEN Minimum ELSE n
  BY <1>1 DEF P90
<1>5. n \in Nat /\ 10 * Cardinality(Below(S, n)) >= 9 * Cardinality(S)
  BY <1>1, <1>3, <1>4, NinthDecile
<1>6. q \in Nat /\ n <= q
  BY <1>4, <1>5 DEF Minimum
<1>7. Below(S, n) \subseteq Below(S, q) /\ Below(S, q) \subseteq S
  BY <1>3, <1>5, <1>6 DEF Below, Weighed
<1>8. PICK x, y, c : x = Cardinality(Below(S, n)) /\ y = Cardinality(Below(S, q)) /\ c = Cardinality(S)
  BY Zenon
<1>9. x \in Nat /\ y \in Nat /\ c \in Nat /\ x <= y
  BY <1>3, <1>7, <1>8, BelowGrows DEF Weighed
<1>10. 10 * y >= 9 * c
  BY <1>5, <1>8, <1>9
<1> QED  BY <1>1, <1>6, <1>8, <1>10

LEMMA CeilingIs ==
    ASSUME plan \in Plans, NEW ws, Weighed(ws), NEW c, c = Ceiling(ws), c # Void
    PROVE  c \in Nat
<1>1. CASE plan = Void
  BY <1>1, P90Is DEF Ceiling
<1>2. CASE plan # Void
  <2>1. plan \in DOMAIN Limits
    BY <1>2, UsageAssumption
  <2>2. c = Limits[plan]
    BY <1>2 DEF Ceiling
  <2> QED  BY <2>1, <2>2 DEF Limits
<1> QED  BY <1>1, <1>2

\* A forecast and its verdict.
LEMMA Foretold ==
    ASSUME NEW now \in Int, NEW w, Window(w, now), NEW c, c # Void => c \in Nat,
           NEW e, e = Exhausts(w, c, now), e # Void, NEW p, p = Projected(w, now), p # Void
    PROVE  IF e THEN p >= c ELSE p <= c
<1>1. PICK A, R, t : A = ActiveMinutes(w) /\ R = RemainingMinutes(w, now) /\ t = w.tokens
  BY Zenon
<1>2. /\ ~(c = Void \/ ~HasRate(w) \/ c <= t) /\ e = ((c - t) * A < R * t)
  BY <1>1 DEF Exhausts
<1>3. HasRate(w) /\ R > 0 /\ p = t + (t * R) \div A
  BY <1>1 DEF Projected
<1>4. c \in Nat /\ t \in Nat /\ c - t \in Nat
  BY <1>1, <1>2 DEF Window
<1>5. w.active /\ ~w.gap /\ w.start \in Int /\ w.last \in Int /\ w.end \in Int
  BY <1>3 DEF HasRate, Window
<1>6. R \in Nat
  BY <1>1, <1>5 DEF RemainingMinutes, MinutesOf
<1>7. A \in Nat /\ A > 0
  <2>1. PICK l : l = (IF w.last = Void THEN w.end ELSE w.last) - w.start
    OBVIOUS
  <2>2. l \in Int
    BY <1>5, <2>1
  <2>3. A = IF 30 * l > 1 THEN 30 * l ELSE 1
    BY <1>1, <2>1 DEF ActiveMinutes, MinutesOf
  <2> QED  BY <2>2, <2>3
<1>8. PICK x, k, y : x = t * R /\ k = c - t /\ y = x \div A
  BY Zenon
<1>9. x \in Nat /\ k \in Nat /\ x = R * t
  BY <1>4, <1>6, <1>8
<1>10. y \in Nat /\ (k * A < x => y >= k) /\ (k * A >= x => y <= k)
  BY ONLY <1>7, <1>8, <1>9, QuotientGrows
<1>11. p = t + y /\ e = (k * A < x)
  BY <1>2, <1>3, <1>8, <1>9
<1>12. k * A \in Nat
  BY <1>7, <1>9
<1>13. CASE e
  <2>1. y >= k
    BY <1>10, <1>11, <1>13
  <2> QED  BY <1>4, <1>8, <1>10, <1>11, <1>13, <2>1
<1>14. CASE ~e
  <2>1. y <= k
    <3>1. PICK z : z = k * A
      OBVIOUS
    <3>2. ~(z < x)
      BY ONLY <1>11, <1>14, <3>1
    <3>3. z >= x
      BY ONLY <1>9, <1>12, <3>1, <3>2
    <3> QED  BY ONLY <1>10, <3>1, <3>3
  <2> QED  BY <1>4, <1>8, <1>10, <1>11, <1>14, <2>1
<1> QED  BY <1>13, <1>14

\* The share of the last hour that a window has.
ShareOf(w, now) ==
    LET from == now - Hour
        ends == IF w.active THEN now ELSE w.last
        begins == IF w.start > from THEN w.start ELSE from
    IN  (1000 * w.tokens * (ends - begins)) \div (ends - w.start)
Touches(w, now) ==
    LET from == now - Hour
        ends == IF w.active THEN now ELSE w.last
        begins == IF w.start > from THEN w.start ELSE from
    IN  ~w.gap /\ w.tokens # 0 /\ ends > begins

LEMMA ShareIsLess ==
    ASSUME NEW now \in Int, NEW w, Window(w, now), Touches(w, now)
    PROVE  ShareOf(w, now) \in Nat /\ ShareOf(w, now) <= 1000 * w.tokens
<1>1. PICK t, s, e, g : /\ t = w.tokens /\ s = w.start /\ e = (IF w.active THEN now ELSE w.last)
                        /\ g = (IF w.start > now - Hour THEN w.start ELSE now - Hour)
  BY Zenon
<1>2. t \in Nat /\ s \in Int /\ e \in Int /\ g \in Int /\ s <= g /\ g < e
  BY <1>1 DEF Window, Touches, Hour
<1>3. ShareOf(w, now) = (1000 * t * (e - g)) \div (e - s)
  BY <1>1 DEF ShareOf
<1>4. PICK a, d, c, x : a = e - g /\ d = e - s /\ c = 1000 * t /\ x = c * a
  BY Zenon
<1>5. a \in Nat /\ d \in Nat /\ d > 0 /\ c \in Nat /\ a <= d
  BY <1>2, <1>4
<1>6. x \in Nat /\ c * d >= x
  <2>1. x \in Nat
    BY <1>4, <1>5
  <2>2. PICK r \in Nat : d = a + r
    <3>1. d - a \in Nat /\ d = a + (d - a)
      BY <1>5
    <3> QED  BY <3>1
  <2>3. c * d = c * a + c * r /\ c * r \in Nat
    BY <1>5, <2>2
  <2> QED  BY <1>4, <2>1, <2>3
<1>7. x \div d \in Nat /\ x \div d <= c
  BY ONLY <1>5, <1>6, QuotientGrows
<1>8. ShareOf(w, now) = x \div d
  <2>1. 1000 * t * (e - g) = c * a
    BY <1>4
  <2> QED  BY <1>3, <1>4, <2>1
<1> QED  BY <1>1, <1>4, <1>7, <1>8

LessIn(f, g, T, W, c) ==
    /\ IsFiniteSet(W) /\ T \in SUBSET W /\ c \in Nat
    /\ DOMAIN g = W /\ \A x \in W : g[x] \in Nat
    /\ DOMAIN f = T /\ \A x \in T : f[x] \in Nat /\ f[x] <= c * g[x]
SumIsLess(f, g, c) == SumFunction(f) <= c * SumFunction(g)

LEMMA SumsCompareTo ==
    ASSUME NEW f, NEW g, NEW T, NEW W, NEW c, LessIn(f, g, T, W, c)
    PROVE  SumIsLess(f, g, c)
BY SumsCompare DEF LessIn, SumIsLess

LEMMA HourIs ==
    ASSUME NEW now \in Int, NEW ws, Weighed(ws), \A w \in ws : Window(w, now),
           NEW h, h = HourlyTokens(ws, now), h # Void
    PROVE  h <= 1000 * SumFunction([w \in ws |-> w.tokens])
<1>1. PICK T : T = {w \in ws : Touches(w, now)}
  OBVIOUS
<1>2. PICK f, g : f = [w \in T |-> ShareOf(w, now)] /\ g = [w \in ws |-> w.tokens]
  OBVIOUS
<1>3. h = SumFunction(f)
  BY <1>1, <1>2, Zenon DEF HourlyTokens, Touches, ShareOf
<1>4. T \in SUBSET ws /\ IsFiniteSet(ws)
  BY <1>1 DEF Weighed
<1>5. DOMAIN g = ws /\ \A w \in ws : g[w] \in Nat
  BY <1>2 DEF Weighed
<1>6. DOMAIN f = T /\ \A w \in T : f[w] \in Nat /\ f[w] <= 1000 * g[w]
  <2> SUFFICES ASSUME NEW w \in T  PROVE f[w] \in Nat /\ f[w] <= 1000 * g[w]
    BY <1>2
  <2>1. w \in ws /\ Touches(w, now) /\ Window(w, now)
    BY <1>1
  <2>2. f[w] = ShareOf(w, now) /\ g[w] = w.tokens
    BY <1>2, <2>1
  <2> QED  BY <2>1, <2>2, ShareIsLess
<1>7. PICK c : c = 1000
  OBVIOUS
<1>8. c \in Nat /\ \A w \in T : f[w] \in Nat /\ f[w] <= c * g[w]
  BY <1>6, <1>7
<1>9. SumFunction(f) <= c * SumFunction(g)
  <2>1. LessIn(f, g, T, ws, c)
    BY ONLY <1>4, <1>5, <1>6, <1>8 DEF LessIn
  <2>2. SumIsLess(f, g, c)
    BY ONLY <2>1, SumsCompareTo
  <2> QED  BY ONLY <2>2 DEF SumIsLess
<1> QED  BY <1>2, <1>3, <1>7, <1>9

\* What the four properties say of one report.
AgreesWith(r) ==
    \A s \in r.sessions :
        s.exhausts # Void /\ s.projected # Void =>
            IF s.exhausts THEN s.projected >= s.ceiling ELSE s.projected <= s.ceiling
NineOf(r) ==
    r.p90 # Void => 10 * Cardinality(Below(Samples(r.windows), r.p90)) >= 9 * Cardinality(Samples(r.windows))
PartOf(r) == r.hourly # Void => r.hourly <= 1000 * SumFunction([w \in r.windows |-> w.tokens])
Truthful(r) == Accounted(r.windows, r.read) /\ AgreesWith(r) /\ NineOf(r) /\ PartOf(r)

\* A report is true of the rows it is made from.
LEMMA ReportIsTruthful ==
    ASSUME Timely, plan \in Plans, NEW read, Readable(read), NEW now \in Int, NEW r, r = Report(read, now)
    PROVE  Truthful(r)
<1>1. PICK ws : ws = Build(read, now)
  OBVIOUS
<1>2. /\ r.read = read /\ r.windows = ws /\ r.p90 = P90(ws) /\ r.hourly = HourlyTokens(ws, now)
      /\ r.sessions = {Shown(w, ws, now) : w \in {w \in ws : w.active}}
  BY <1>1 DEF Report
<1>3. Weighed(ws) /\ \A w \in ws : Window(w, now)
  BY <1>1, BuildMade
<1>4. Accounted(r.windows, r.read)
  BY <1>1, <1>2, BuildAddsUp
<1>5. AgreesWith(r)
  <2> SUFFICES ASSUME NEW s \in r.sessions, s.exhausts # Void, s.projected # Void
               PROVE  IF s.exhausts THEN s.projected >= s.ceiling ELSE s.projected <= s.ceiling
    BY DEF AgreesWith
  <2>1. PICK w \in ws : s = Shown(w, ws, now)
    BY <1>2
  <2>2. PICK c : c = Ceiling(ws)
    OBVIOUS
  <2>3. s.exhausts = Exhausts(w, c, now) /\ s.projected = Projected(w, now) /\ s.ceiling = c
    BY <2>1, <2>2 DEF Shown
  <2>4. c # Void => c \in Nat
    BY <1>3, <2>2, CeilingIs
  <2>5. PICK e, p : e = Exhausts(w, c, now) /\ p = Projected(w, now)
    OBVIOUS
  <2>6. IF e THEN p >= c ELSE p <= c
    BY <1>3, <2>3, <2>4, <2>5, Foretold
  <2> QED  BY ONLY <2>3, <2>5, <2>6
<1>6. NineOf(r)
  BY <1>2, <1>3, P90Is DEF NineOf
<1>7. PartOf(r)
  BY <1>2, <1>3, HourIs DEF PartOf
<1> QED  BY <1>4, <1>5, <1>6, <1>7 DEF Truthful

-----------------------------------------------------------------------------
(* The status screen: the invariant of its report                          *)

\* The requests are numbered as they began; the report that is kept was of rows
\* that do not change any more.
Told ==
    /\ ScreenInv /\ plan \in Plans
    /\ \A i, j \in Sent : i < j => sent[i].at <= sent[j].at
    /\ slot # Void /\ Whole(slot.report) => slot.report.read \subseteq Rows /\ Truthful(slot.report)

LEMMA ToldIsTimely ==
    ASSUME Told
    PROVE  Timely /\ \A read : read \subseteq Sent => Readable(read)
<1>1. \A i \in Sent : sent[i].at \in Int /\ sent[i].used \in Nat /\ sent[i].on \in Pools
  BY DEF Told, ScreenInv, Request
<1> QED  BY <1>1 DEF Told, Timely, Readable

LEMMA ToldInit == UsageInit => Told
  BY ScreenInvInit DEF UsageInit, Told

LEMMA AccountedStays ==
    ASSUME NEW ws, NEW read, Accounted(ws, read), \A i \in read : sent'[i] = sent[i]
    PROVE  Accounted(ws, read)'
BY DEF Accounted

\* A report says nothing of a row that can change.
LEMMA TruthfulStays ==
    ASSUME NEW r, Truthful(r), \A i \in r.read : sent'[i] = sent[i]
    PROVE  Truthful(r)'
<1>1. PICK ws, read : ws = r.windows /\ read = r.read
  OBVIOUS
<1>2. Accounted(ws, read)'
  BY <1>1, AccountedStays DEF Truthful
<1>3. AgreesWith(r)' /\ NineOf(r)' /\ PartOf(r)'
  BY DEF Truthful, AgreesWith, NineOf, PartOf, Below, Samples, IsComplete, HitALimit
<1> QED  BY <1>1, <1>2, <1>3 DEF Truthful

LEMMA RecordKeepsTold ==
    ASSUME Told, NEW i \in Sent, NEW fate \in Fate, NEW used \in {0} \cup Sizes, Record(i, fate, used)
    PROVE  Told'
<1>1. ScreenInv'
  BY RecordKeeps DEF Told
<1>2. /\ sent[i].fate = "flying" /\ UNCHANGED <<slot, plan>>
      /\ sent' = [sent EXCEPT ![i].fate = fate, ![i].used = used, ![i].nth = writes + 1]
  BY DEF Record
<1>3. \A j \in Sent : sent[j] \in Request
  BY DEF Told, ScreenInv
<1>4. \A j \in Sent : (j # i => sent'[j] = sent[j]) /\ sent'[j].at = sent[j].at
  BY <1>2, <1>3 DEF Told, ScreenInv, Request
<1>5. \A j, k \in Sent : j < k => sent'[j].at <= sent'[k].at
  BY <1>4 DEF Told
<1>6. i \notin Rows
  BY <1>2 DEF Rows, Fate
<1>7. ASSUME slot # Void, Whole(slot.report)  PROVE slot.report.read \subseteq Rows' /\ Truthful(slot.report)'
  <2>1. PICK r : r = slot.report
    OBVIOUS
  <2>2. r.read \subseteq Rows /\ Truthful(r)
    BY <1>7, <2>1 DEF Told
  <2>3. \A j \in r.read : j \in Sent /\ sent'[j] = sent[j]
    BY <1>4, <1>6, <2>2 DEF Rows
  <2>4. Truthful(r)'
    BY <2>2, <2>3, TruthfulStays
  <2>5. r.read \subseteq Rows'
    BY <2>2, <2>3 DEF Rows
  <2>6. slot' = slot
    BY <1>2
  <2>7. Truthful(slot.report)'
    BY <2>1, <2>4, <2>6
  <2> QED  BY <2>1, <2>5, <2>7
<1> QED  BY <1>1, <1>2, <1>5, <1>7 DEF Told, Whole

LEMMA CallersKeepTold ==
    ASSUME Told, NEW a \in Askers, Ask(a) \/ Reuse(a) \/ Enter(a) \/ Made(a) \/ Misread(a)
    PROVE  Told'
<1>1. ScreenInv'
  BY CallersKeep DEF Told
<1>2. UNCHANGED <<sent, plan>>
  BY DEF Ask, Reuse, Enter, Made, Misread, Built
<1>3. PICK r : r = slot'.report
  OBVIOUS
<1>4. ASSUME slot' # Void, Whole(r)  PROVE r.read \subseteq Rows /\ Truthful(r)
  <2>1. CASE slot' = slot
    BY <1>3, <1>4, <2>1 DEF Told
  <2>2. CASE Made(a)
    <3>1. PICK n, read : n = asker[a].now /\ read = Since(n)
      OBVIOUS
    <3>2. r = Report(read, n)
      BY <1>3, <2>2, <3>1 DEF Made, Built
    <3>3. asker[a] \in Question
      <4>1. asker[a].stage = "builds" /\ asker[a] \in {Idle} \cup Question
        BY <2>2 DEF Made, Built, Told, ScreenInv
      <4> QED  BY <4>1, IdleAsksNothing
    <3>4. n \in Int
      BY <3>1, <3>3, UsageAssumption DEF Question
    <3>5. read \subseteq Rows /\ Rows \subseteq Sent /\ r.read = read
      BY <3>1, <3>2 DEF Since, Rows, Report
    <3>6. Timely /\ Readable(read) /\ plan \in Plans
      BY <3>5, ToldIsTimely DEF Told
    <3> QED  BY <3>2, <3>4, <3>5, <3>6, ReportIsTruthful
  <2>3. CASE Misread(a)
    BY <1>3, <1>4, <2>3 DEF Misread, Built, Whole
  <2> QED  BY <2>1, <2>2, <2>3 DEF Ask, Reuse, Enter
<1>5. ASSUME slot' # Void, Whole(r)  PROVE r.read \subseteq Rows' /\ Truthful(r)'
  <2>1. Rows' = Rows
    BY <1>2 DEF Rows
  <2>2. Truthful(r)'
    BY <1>2, <1>4, <1>5, TruthfulStays
  <2> QED  BY <1>4, <1>5, <2>1, <2>2
<1>6. slot' # Void /\ Whole(slot.report)' => slot'.report.read \subseteq Rows' /\ Truthful(slot.report)'
  <2> SUFFICES ASSUME slot' # Void, Whole(slot.report)'
               PROVE  slot'.report.read \subseteq Rows' /\ Truthful(slot.report)'
    OBVIOUS
  <2>1. Whole(r)
    BY <1>3 DEF Whole
  <2>2. r.read \subseteq Rows' /\ Truthful(r)'
    BY <1>5, <2>1
  <2>3. Truthful(slot.report)'
    BY <1>3, <2>2
  <2> QED  BY <1>3, <2>2, <2>3
<1>7. plan' \in Plans /\ \A i, j \in Sent : i < j => sent'[i].at <= sent'[j].at
  BY <1>2 DEF Told
<1> QED  BY <1>1, <1>6, <1>7 DEF Told

LEMMA ToldKept ==
    ASSUME Told, [UsageNext]_usageVars  PROVE Told'
<1>1. CASE UsageNext
  BY <1>1, RecordKeepsTold, CallersKeepTold DEF UsageNext
<1>2. CASE UNCHANGED usageVars
  <2>1. UNCHANGED <<sent, writes, plan, asker, slot, misreads>>
    BY <1>2 DEF usageVars
  <2>2. ScreenInv'
    BY <2>1 DEF Told, ScreenInv, Known, Rows, Whole
  <2>3. ASSUME slot # Void, Whole(slot.report)  PROVE slot.report.read \subseteq Rows' /\ Truthful(slot.report)'
    <3>1. PICK r : r = slot.report
      OBVIOUS
    <3>2. r.read \subseteq Rows /\ Truthful(r)
      BY <2>3, <3>1 DEF Told
    <3>3. Truthful(r)'
      BY <2>1, <3>2, TruthfulStays
    <3>4. Rows' = Rows
      BY <2>1 DEF Rows
    <3>5. Truthful(slot.report)'
      BY <2>1, <3>1, <3>3
    <3> QED  BY <3>1, <3>2, <3>4, <3>5
  <2> QED  BY <2>1, <2>2, <2>3 DEF Told, Whole
<1> QED  BY <1>1, <1>2

LEMMA ToldIsHonest == Told => WindowsAddUp /\ ForecastsAgree /\ NineInTen /\ HourIsAShare
<1> SUFFICES ASSUME Told  PROVE WindowsAddUp /\ ForecastsAgree /\ NineInTen /\ HourIsAShare
  OBVIOUS
<1>1. slot # Void /\ Whole(slot.report) => Truthful(slot.report)
  BY DEF Told
<1>2. WindowsAddUp
  BY <1>1 DEF WindowsAddUp, Truthful, Accounted
<1>3. ForecastsAgree
  BY <1>1 DEF ForecastsAgree, Truthful, AgreesWith
<1>4. NineInTen
  BY <1>1 DEF NineInTen, Truthful, NineOf, Below
<1>5. HourIsAShare
  BY <1>1 DEF HourIsAShare, Truthful, PartOf
<1> QED  BY <1>2, <1>3, <1>4, <1>5

\* What the status screen says is true of the rows it was made from, and never
\* behind them.  Every request is in one window of its backend, open when it began,
\* and the windows do not overlap, in whatever order the rows came (blocks.rs cut);
\* a forecast and its verdict agree (burn.rs project, lib.rs
\* exhausts_before_close); the ceiling was enough in nine of ten past sessions
\* (p90.rs percentile); the last hour is charged no more than was used (burn.rs
\* hourly_burn_rate); and nobody is shown a report built before what the ledger had
\* recorded when he asked (state.rs usage_report).
THEOREM StatusHonest == RecordsSpec => StatusIsHonest
<1>1. RecordsInit => Told
  BY ToldInit DEF RecordsInit
<1>2. Told /\ [RecordsNext]_records => Told'
  BY ToldKept, StepOfOne
<1>3. RecordsSpec => []Told
  BY <1>1, <1>2, PTL DEF RecordsSpec
<1>4. RecordsSpec => [](WindowsAddUp /\ ForecastsAgree /\ NineInTen /\ HourIsAShare)
  BY <1>3, ToldIsHonest, PTL
<1> QED  BY <1>4, StatusIsNeverBehind DEF StatusIsHonest
=============================================================================
