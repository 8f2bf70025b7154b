------------------------------- MODULE Ledger -------------------------------
(***************************************************************************)
(* What one exchange leaves behind: its row in the trace ledger, the files *)
(* of its bodies, and the verdict on its proof, with `capture.bodies` and  *)
(* `capture.receipts` on.                                                  *)
(*                                                                         *)
(* Four parties share the rows and the files.  A request's handler, whose  *)
(* row is owed by a guard until a refusal or the reply's tee takes the     *)
(* debt over; the tee, which writes the row when the reply ends or is      *)
(* dropped and then rolls the session's window of bodies; the daily prune; *)
(* and the round that checks receipts.  Each SQL statement, or transaction *)
(* of them, and each file operation is a step.  The process may die        *)
(* between any two.                                                        *)
(*                                                                         *)
(* An exchange is its place in the order of arrival, and is also the name  *)
(* of its files.  Abstracted: the bytes, tokens and prices, the token      *)
(* spool (module Spool), what else a row says, and the clock, of which     *)
(* only the number of exchanges past the retention is kept.                *)
(***************************************************************************)
EXTENDS Integers, FiniteSetsExt

CONSTANTS
    N,             \* the exchanges that arrive
    SessionOf,     \* the retention key of each
    OpenAi,        \* those on the OpenAI facade
    Offers,        \* those whose backend signs its answers
    Batch,         \* `ProofSettings::batch`
    MaxAttempts,   \* `ProofSettings::max_attempts`
    MaxFaults,     \* failed I/O operations, at most
    MaxCrashes,    \* deaths of the process, at most
    None

Exchange == 1 .. N

ASSUME LedgerAssumption ==
    /\ N \in Nat /\ Batch \in Nat \ {0} /\ MaxAttempts \in Nat \ {0}
    /\ MaxFaults \in Nat /\ MaxCrashes \in Nat
    /\ OpenAi \subseteq Exchange /\ Offers \subseteq Exchange
    /\ None \notin Exchange

VARIABLES
    up,        \* the process is running
    job,       \* exchange -> how far its handling has come
    rows,      \* exchange -> its row, or None
    ids,       \* AUTOINCREMENT: ids are never used twice
    files,     \* the body files on disk
    horizon,   \* exchanges 1 .. horizon started before the retention window
    pruner,    \* the daily prune: idle, the references it has yet to unlink
    round,     \* the receipt check: None, or the outcomes it has yet to apply
    faults,    \* the exchanges an I/O operation failed for
    crashes

vars == <<up, job, rows, ids, files, horizon, pruner, round, faults, crashes>>

\* The job of an exchange.  `owed`: its row is the guard's to write.  `signs`:
\* its reply is recorded as one a receipt exists for.
\* `spoiled`: its reply yielded an error.  `kept`: both its bodies are on disk.
\* `doomed`: the references its write superseded.  `rows`: the rows it left.
Stage == {"new", "handling", "settling", "answered", "streaming", "unrecorded",
          "store", "half", "insert", "roll", "unlink", "done"}
Job == [at : Stage, owed : BOOLEAN, signs : BOOLEAN, spoiled : BOOLEAN, whole : BOOLEAN, kept : BOOLEAN,
        doomed : SUBSET Exchange, rows : 0 .. 2]
Fresh == [at |-> "new", owed |-> FALSE, signs |-> FALSE, spoiled |-> FALSE, whole |-> FALSE, kept |-> FALSE,
          doomed |-> {}, rows |-> 0]

Verdict == {"verified", "failed", "gateway_only", "unattested", "unavailable"}
Proof   == Verdict \cup {"pending", "outside", "absent"}
Row     == [id : Nat, body : BOOLEAN, whole : BOOLEAN, named : BOOLEAN,
            proof : Proof, tries : 0 .. MaxAttempts]

ASSUME NoneIsNoRow == None \notin Row

Suffix == {"req", "res"}
Pair(e) == {e} \X Suffix

Recorded == {e \in Exchange : rows[e] # None}
Expired  == 1 .. horizon
Claimed  == {e \in Recorded : rows[e].body}

Init ==
    /\ up = TRUE
    /\ job = [e \in Exchange |-> Fresh]
    /\ rows = [e \in Exchange |-> None]
    /\ ids = 0
    /\ files = {}
    /\ horizon = 0
    /\ pruner = [at |-> "idle", refs |-> {}]
    /\ round = None
    /\ faults = {}
    /\ crashes = 0

At(e, stage) == up /\ job[e].at = stage

Become(e, stage) == job' = [job EXCEPT ![e].at = stage]

\* An I/O operation on behalf of e works, or fails, once at most.
Works    == UNCHANGED faults
Fails(e) == e \notin faults /\ Cardinality(faults) < MaxFaults /\ faults' = faults \cup {e}

-----------------------------------------------------------------------------
(* The handler, and the guard around it *)

\* `PendingRow::arm`: from here the guard owes the request a row.
Arrive(e) ==
    /\ At(e, "new")
    /\ \A f \in Exchange : f < e => job[f].at # "new"
    /\ job' = [job EXCEPT ![e] = [@ EXCEPT !.at = "handling", !.owed = TRUE]]
    /\ UNCHANGED <<up, rows, ids, files, horizon, pruner, round, faults, crashes>>

NewRow(e, body, whole, named, proof) ==
    /\ rows' = [rows EXCEPT ![e] = [id |-> ids + 1, body |-> body, whole |-> whole,
                                    named |-> named, proof |-> proof, tries |-> 0]]
    /\ ids' = ids + 1

\* The row of a request nothing answered names no proof.
RefusalRow(e, stage) ==
    \/ /\ Works
       /\ NewRow(e, FALSE, FALSE, FALSE, "absent")
       /\ job' = [job EXCEPT ![e] = [@ EXCEPT !.at = stage, !.owed = FALSE, !.rows = job[e].rows + 1]]
    \/ /\ Fails(e)
       /\ job' = [job EXCEPT ![e] = [@ EXCEPT !.at = stage, !.owed = FALSE]]
       /\ UNCHANGED <<rows, ids>>

\* The handler turns the request away before routing it, and leaves the row to
\* the guard: too large, not JSON, no such login.
Reject(e) ==
    /\ At(e, "handling")
    /\ Become(e, "settling")
    /\ UNCHANGED <<up, rows, ids, files, horizon, pruner, round, faults, crashes>>

\* Dispatch fails: the handler writes the row and says it is arranged.
Refuse(e) ==
    /\ At(e, "handling")
    /\ RefusalRow(e, "settling")
    /\ UNCHANGED <<up, files, horizon, pruner, round, crashes>>

\* Mutant: the handler that built the tee does not claim the row.
AnswerUnclaimed(e) ==
    /\ At(e, "handling")
    /\ job' = [job EXCEPT ![e] = [@ EXCEPT !.at = "answered", !.signs = e \in Offers]]
    /\ UNCHANGED <<up, rows, ids, files, horizon, pruner, round, faults, crashes>>

\* Dispatch succeeds: the tee is built and the row is arranged.
Answer(e) ==
    /\ At(e, "handling")
    /\ job' = [job EXCEPT ![e] = [@ EXCEPT !.at = "answered", !.owed = FALSE, !.signs = e \in Offers]]
    /\ UNCHANGED <<up, rows, ids, files, horizon, pruner, round, faults, crashes>>

\* `PendingRow::settle` and its Drop: a row nobody arranged is the guard's.
GuardRow(e, stage) ==
    \/ job[e].owed /\ RefusalRow(e, stage)
    \/ ~job[e].owed /\ Become(e, stage) /\ UNCHANGED <<rows, ids, faults>>

\* The handler returns its response to the guard.
Return(e) ==
    /\ \/ At(e, "settling") /\ GuardRow(e, "done")
       \/ At(e, "answered") /\ GuardRow(e, "streaming")
    /\ UNCHANGED <<up, files, horizon, pruner, round, crashes>>

\* The client hangs up, or the handler panics: the guard's future ends, and
\* a tee that was built by then is dropped.
Abandon(e) ==
    /\ \/ At(e, "handling") /\ GuardRow(e, "done")
       \/ At(e, "answered") /\ GuardRow(e, "insert")
    /\ UNCHANGED <<up, files, horizon, pruner, round, crashes>>

-----------------------------------------------------------------------------
(* The reply *)

\* The row is written as the tee flushes, with digests if the capture is whole.
Flush(e, whole) ==
    job' = [job EXCEPT ![e] = [@ EXCEPT !.at = IF whole THEN "store" ELSE "insert", !.whole = whole]]

\* The backend's stream yields an error.  The native lane hands it to the tee,
\* which flushes; a translated reply is closed in order, as if it had ended.
Break(e) ==
    /\ At(e, "streaming")
    /\ ~job[e].spoiled
    /\ \/ job' = [job EXCEPT ![e] = [@ EXCEPT !.at = "insert", !.spoiled = TRUE]]
       \/ job' = [job EXCEPT ![e].spoiled = TRUE]
    /\ UNCHANGED <<up, rows, ids, files, horizon, pruner, round, faults, crashes>>

\* Mutant: a stream that failed and then ended passes for a whole one.
EndUnlatched(e) ==
    /\ At(e, "streaming")
    /\ Flush(e, TRUE)
    /\ UNCHANGED <<up, rows, ids, files, horizon, pruner, round, faults, crashes>>

\* The stream ends: whole, unless it had failed before.
End(e) ==
    /\ At(e, "streaming")
    /\ Flush(e, ~job[e].spoiled)
    /\ UNCHANGED <<up, rows, ids, files, horizon, pruner, round, faults, crashes>>

\* The body is dropped unread, or half read.  A dropped reply has no digest.
Hangup(e) ==
    /\ At(e, "streaming")
    /\ Flush(e, FALSE)
    /\ UNCHANGED <<up, rows, ids, files, horizon, pruner, round, faults, crashes>>

\* The stream stalls before it has said anything and is restarted.  The old
\* reply is dropped, and writes its row.  The new one is an exchange of its
\* own on the OpenAI facade, recorded under what the old one's backend signs;
\* on the Anthropic one its tee records nothing.
Restart(e, f) ==
    /\ At(e, "streaming") /\ At(f, "new")
    /\ SessionOf[f] = SessionOf[e] /\ (f \in OpenAi) = (e \in OpenAi)
    /\ \A g \in Exchange : g < f => job[g].at # "new"
    /\ job' = [job EXCEPT ![e].at = "insert",
                          ![f] = [@ EXCEPT !.at = IF e \in OpenAi THEN "streaming" ELSE "unrecorded",
                                           !.signs = job[e].signs]]
    /\ UNCHANGED <<up, rows, ids, files, horizon, pruner, round, faults, crashes>>

-----------------------------------------------------------------------------
(* LedgerContext::write *)

\* `BodyStore::store`: the request, then the response.  A failure leaves what
\* was written, and the row goes in without a reference.
StoreRequest(e) ==
    /\ At(e, "store")
    /\ \/ Works /\ files' = files \cup {<<e, "req">>} /\ Become(e, "half")
       \/ Fails(e) /\ Become(e, "insert") /\ UNCHANGED files
    /\ UNCHANGED <<up, rows, ids, horizon, pruner, round, crashes>>

StoreResponse(e) ==
    /\ At(e, "half")
    /\ \/ /\ Works
          /\ files' = files \cup {<<e, "res">>}
          /\ job' = [job EXCEPT ![e] = [@ EXCEPT !.at = "insert", !.kept = TRUE]]
       \/ Fails(e) /\ Become(e, "insert") /\ UNCHANGED files
    /\ UNCHANGED <<up, rows, ids, horizon, pruner, round, crashes>>

\* `Ledger::record`.  The window is rolled only behind a row with bodies.
Insert(e) ==
    /\ At(e, "insert")
    /\ \/ /\ Works
          /\ \E named \in BOOLEAN :
                NewRow(e, job[e].kept, job[e].whole, named,
                       IF job[e].signs THEN "pending" ELSE "outside")
          /\ job' = [job EXCEPT ![e] = [@ EXCEPT !.at = IF job[e].kept THEN "roll" ELSE "done",
                                                 !.rows = job[e].rows + 1]]
       \/ /\ Fails(e)
          /\ Become(e, "done")
          /\ UNCHANGED <<rows, ids>>
    /\ UNCHANGED <<up, files, horizon, pruner, round, crashes>>

\* Mutant: whichever rolls last keeps its bodies.
SupersededAll(e) == {f \in Claimed \ {e} : SessionOf[f] = SessionOf[e]}

\* The rows of e's session that still hold bodies, of those that ended before it.
Superseded(e) ==
    {f \in Claimed : SessionOf[f] = SessionOf[e] /\ rows[f].id < rows[e].id}

\* `supersede_bodies`, one transaction.
Roll(e) ==
    /\ At(e, "roll")
    /\ \/ /\ Works
          /\ rows' = [f \in Exchange |->
                        IF f \in Superseded(e) THEN [rows[f] EXCEPT !.body = FALSE] ELSE rows[f]]
          /\ job' = [job EXCEPT ![e] = [@ EXCEPT !.at = "unlink", !.doomed = Superseded(e)]]
       \/ /\ Fails(e)
          /\ Become(e, "done")
          /\ UNCHANGED rows
    /\ UNCHANGED <<up, ids, files, horizon, pruner, round, crashes>>

\* `BodyStore::remove`: one file, then the other; an error stops it there.
Removed(f) ==
    \/ Works /\ files' = files \ Pair(f)
    \/ Fails(f) /\ files' \in {files, files \ {<<f, "req">>}}

\* What the roll dropped is unlinked.  A failure leaves it to the next start.
Unlink(e) ==
    /\ At(e, "unlink")
    /\ \/ \E f \in job[e].doomed : Removed(f) /\ job' = [job EXCEPT ![e].doomed = @ \ {f}]
       \/ job[e].doomed = {} /\ Become(e, "done") /\ UNCHANGED <<files, faults>>
    /\ UNCHANGED <<up, rows, ids, horizon, pruner, round, crashes>>

-----------------------------------------------------------------------------
(* The daily prune, and the sweep at the start *)

\* One more exchange is past the retention.  No reply lasts that long.
Age ==
    /\ horizon < N
    /\ job[horizon + 1].at \in {"done", "unrecorded"}
    /\ horizon' = horizon + 1
    /\ UNCHANGED <<up, job, rows, ids, files, pruner, round, faults, crashes>>

\* Mutant: the files go one exchange ahead of the rows.
PruneListEarly ==
    /\ up /\ pruner.at = "idle"
    /\ pruner' = [at |-> "unlink", refs |-> Claimed \cap 1 .. horizon + 1]
    /\ UNCHANGED <<up, job, rows, ids, files, horizon, round, faults, crashes>>

\* The references to unlink are read by the clock of this moment ...
PruneList ==
    /\ up /\ pruner.at = "idle"
    /\ pruner' = [at |-> "unlink", refs |-> Claimed \cap Expired]
    /\ UNCHANGED <<up, job, rows, ids, files, horizon, round, faults, crashes>>

PruneUnlink ==
    /\ up /\ pruner.at = "unlink"
    /\ \/ \E f \in pruner.refs : Removed(f) /\ pruner' = [pruner EXCEPT !.refs = @ \ {f}]
       \/ /\ pruner.refs = {} /\ pruner' = [pruner EXCEPT !.at = "delete"]
          /\ UNCHANGED <<files, faults>>
    /\ UNCHANGED <<up, job, rows, ids, horizon, round, crashes>>

\* ... and the rows to delete by the clock of this one.
PruneDelete ==
    /\ up /\ pruner.at = "delete"
    /\ rows' = [e \in Exchange |-> IF e \in Expired THEN None ELSE rows[e]]
    /\ pruner' = [pruner EXCEPT !.at = "idle"]
    /\ UNCHANGED <<up, job, ids, files, horizon, round, faults, crashes>>

\* The process dies.  Whatever was in hand is lost; rows and files stay.
Crash ==
    /\ up /\ crashes < MaxCrashes
    /\ up' = FALSE
    /\ crashes' = crashes + 1
    /\ job' = [e \in Exchange |-> IF job[e].at \in {"new", "done"} THEN job[e]
                                  ELSE [job[e] EXCEPT !.at = "done", !.owed = FALSE,
                                                      !.doomed = {}]]
    /\ pruner' = [at |-> "idle", refs |-> {}]
    /\ round' = None
    /\ UNCHANGED <<rows, ids, files, horizon, faults>>

\* `sweep_bodies`, before the first request: what no row claims goes.
Start ==
    /\ ~up
    /\ up' = TRUE
    /\ files' = {f \in files : f[1] \in Claimed}
    /\ UNCHANGED <<job, rows, ids, horizon, pruner, round, faults, crashes>>

-----------------------------------------------------------------------------
(* The receipt check: crate::proof *)

Settle(label) == [settle |-> TRUE, label |-> label]
Defer(label)  == [settle |-> FALSE, label |-> label]
Outcome == [settle : BOOLEAN, label : Verdict]

\* What the attestor may make of a receipt that names the model as its signer.
Attested ==
    {Settle("verified"), Settle("failed"), Settle("unattested"), Defer("unattested")}

\* What a receipt that was fetched may come to.
Judged == {Settle("failed"), Settle("gateway_only")} \cup Attested

\* `check`: what may be decided of a row, whatever the provider answers.  A
\* row without both digests, or whose provider named no answer or rewrote it,
\* has nothing to check; a backend that is gone or signs nothing offers nothing.
Check(e) ==
    IF rows[e].whole /\ rows[e].named /\ e \in Offers
    THEN Judged \cup {Settle("unavailable"), Defer("unavailable")}
    ELSE {Settle("unavailable")}

Pending    == {e \in Recorded : rows[e].proof = "pending"}
\* Mutant: the retry budget is not enforced by the query.
CandidatesEver == Pending
Candidates == {e \in Pending : rows[e].tries < MaxAttempts}

\* The oldest candidates, by id.
Oldest == {e \in Candidates : Cardinality({f \in Candidates : rows[f].id < rows[e].id}) < Batch}

\* `run_once` reads its candidates and asks for all of them at once.
RoundBegin ==
    /\ up /\ round = None /\ Candidates # {}
    /\ \E outcome \in [Oldest -> Outcome] :
        /\ \A e \in Oldest : outcome[e] \in Check(e)
        /\ round' = outcome
    /\ UNCHANGED <<up, job, rows, ids, files, horizon, pruner, faults, crashes>>

Without(e) == IF DOMAIN round = {e} THEN None
              ELSE [f \in DOMAIN round \ {e} |-> round[f]]

InRound(e) == up /\ round # None /\ e \in DOMAIN round

\* Mutant: a deferral does not count.
Untried(e) == rows

Tried(e) == IF e \in Pending THEN [rows EXCEPT ![e].tries = @ + 1] ELSE rows

\* `defer_proof`: one attempt more on a row still pending, and how many that
\* makes.  A row that spent its last one is settled next, on the fallback.
\* The row may be gone; and a count that cannot be read back is taken for 0.
DeferProof(e) ==
    /\ InRound(e) /\ ~round[e].settle
    /\ \/ /\ Works
          /\ rows' = Tried(e)
          /\ round' = IF e \in Recorded /\ rows'[e].tries >= MaxAttempts
                      THEN [round EXCEPT ![e].settle = TRUE] ELSE Without(e)
       \/ Fails(e) /\ rows' \in {rows, Tried(e)} /\ round' = Without(e)
    /\ UNCHANGED <<up, job, ids, files, horizon, pruner, crashes>>

\* `settle_proof`: a verdict is only ever written over `pending`.
SettleProof(e) ==
    /\ InRound(e) /\ round[e].settle
    /\ \/ Works /\ rows' = IF e \in Pending THEN [rows EXCEPT ![e].proof = round[e].label] ELSE rows
       \/ Fails(e) /\ UNCHANGED rows
    /\ round' = Without(e)
    /\ UNCHANGED <<up, job, ids, files, horizon, pruner, crashes>>

-----------------------------------------------------------------------------
Serve(e) == Arrive(e) \/ Reject(e) \/ Refuse(e) \/ Answer(e) \/ Return(e)
            \/ Abandon(e) \/ Break(e) \/ End(e) \/ Hangup(e)
Write(e) == StoreRequest(e) \/ StoreResponse(e) \/ Insert(e) \/ Roll(e) \/ Unlink(e)
Prune    == PruneList \/ PruneUnlink \/ PruneDelete
Judge    == RoundBegin \/ \E e \in Exchange : DeferProof(e) \/ SettleProof(e)

Next ==
    \/ \E e \in Exchange : Serve(e) \/ Write(e)
    \/ \E e, f \in Exchange : Restart(e, f)
    \/ Age \/ Prune
    \/ Crash \/ Start
    \/ Judge

\* A reply's write is synchronous, the round is on a timer, and a daemon that
\* died is started again.  Nothing makes a client ask, or a day pass.
Spec ==
    /\ Init /\ [][Next]_vars
    /\ WF_vars(\E e \in Exchange : Write(e))
    /\ WF_vars(Start)
    /\ WF_vars(Judge)
-----------------------------------------------------------------------------
(* What must hold *)

\* Every variable has its type.
TypeOK ==
    /\ up \in BOOLEAN
    /\ job \in [Exchange -> Job]
    /\ rows \in [Exchange -> Row \cup {None}]
    /\ ids \in Nat
    /\ files \subseteq Exchange \X Suffix
    /\ horizon \in 0 .. N
    /\ pruner \in [at : {"idle", "unlink", "delete"}, refs : SUBSET Exchange]
    /\ round = None \/ (DOMAIN round \subseteq Exchange /\ \A e \in DOMAIN round : round[e] \in Outcome)
    /\ faults \subseteq Exchange
    /\ crashes \in 0 .. MaxCrashes

\* However its request ends (refused, abandoned, broken off, restarted), an
\* exchange leaves one row: neither none, unless the write failed or the
\* process died, nor one from the guard and one from the reply.
OneRowEach ==
    \A e \in Exchange :
        /\ job[e].rows <= 1
        /\ job[e].at = "done" /\ e \notin faults /\ crashes = 0 => job[e].rows = 1

\* Files somebody still has to write down or to unlink.
InHand(e) ==
    \/ job[e].at \in {"store", "half", "insert"}
    \/ \E f \in Exchange : e \in job[f].doomed
    \/ e \in pruner.refs

\* The rows and the files agree while the prune, the roll and the writes run
\* beside each other: a row within the retention that names bodies has both,
\* and a file no row names is in somebody's hand, unless an operation on it
\* failed, or its exchange is past the retention.
BodiesMatchRows ==
    /\ \A e \in Claimed \ Expired : Pair(e) \subseteq files
    /\ up => \A file \in files :
                file[1] \in Claimed \cup Expired \cup faults \/ InHand(file[1])

\* A session keeps the bodies of the exchange that finished last, and no
\* others, in whatever order its exchanges began and their writes interleave.
LatestBodiesAreKept ==
    /\ \A e, f \in Claimed :
        SessionOf[e] = SessionOf[f] /\ rows[e].id < rows[f].id
            => job[f].at = "roll" \/ f \in faults \/ crashes > 0
    /\ \A e \in Recorded :
        job[e].kept /\ ~rows[e].body
            => \E f \in Exchange \ {e} :
                /\ SessionOf[f] = SessionOf[e] /\ job[f].kept /\ job[f].rows = 1
                /\ f \in Recorded => rows[f].id > rows[e].id

\* The bodies kept are those of rows that say so, and of the exchange of each
\* session that finished last.  Code: facade/guard.rs, bodies.rs, embed/prune.rs.
RightBodiesAreKept == BodiesMatchRows /\ LatestBodiesAreKept

\* Proof is claimed only for a reply that came whole from a backend that signs.
ProvedIsWhole ==
    \A e \in Recorded : rows[e].proof = "verified" => e \in Offers /\ job[e].whole /\ ~job[e].spoiled

\* A row that waits for its proof gets a verdict, or is pruned, whatever the
\* provider does; unless its last attempt was counted and the verdict then
\* failed to be written, or the process died in between.
PendingIsSettled ==
    \A e \in Exchange :
        e \in Pending ~> \/ e \notin Pending
                         \/ rows[e].tries >= MaxAttempts /\ (e \in faults \/ crashes > 0)

\* The row of an answer from a backend that signs waits for its proof
\* (`LedgerContext::backend_offers_receipts`).
OutsideIsUnsigned ==
    \A e \in Recorded : rows[e].proof = "outside" => e \notin Offers
=============================================================================
