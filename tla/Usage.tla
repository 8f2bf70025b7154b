------------------------------- MODULE Usage -------------------------------
(***************************************************************************)
(* What the status screen says of the traffic of the last days: the rows   *)
(* of the ledger cut into session windows per backend, the rate of the     *)
(* open ones, the ceiling they are compared with and whether they reach    *)
(* it (ironwire_usage), built on demand and remembered under the ledger's  *)
(* change token (AppState::usage_report).                                  *)
(*                                                                         *)
(* A request is recorded when it ends, under the time it began; so rows    *)
(* come late and out of order, while several callers ask at once.          *)
(*                                                                         *)
(* Time runs in ticks of half an hour and tokens in thousands.             *)
(* Abstracted: the split of the tokens, prices and models, which are added *)
(* up in the same way, the order of the screen, and `usage.enabled`, on.   *)
(***************************************************************************)
EXTENDS Integers, FiniteSets, SequencesExt

CONSTANTS
    Pools,           \* the backends
    Sizes,           \* what a request may use
    Plans,           \* what `usage.plan` may say, Void if nothing
    Askers,          \* the callers of the status endpoint
    MaxSent,         \* requests of the history, at most
    MaxFlying,       \* of them still running, at most
    Now,             \* the time of asking
    MaxMisreads,     \* reads of the ledger that fail, at most
    SessionTicks,    \* `usage.session_hours`
    HistoryTicks,    \* `usage.history_hours`
    Void

Hour == 2
MinutesOf(ticks) == 30 * ticks
MaxAge == 1            \* USAGE_MAX_AGE: less than a tick

Sent == 1 .. MaxSent

\* Plan::limits
Limits == [pro |-> 19, max5 |-> 88, max20 |-> 220, team |-> 19]

ASSUME UsageAssumption ==
    /\ Plans \subseteq {Void} \cup DOMAIN Limits
    /\ {MaxSent, MaxFlying, Now, MaxMisreads, SessionTicks, HistoryTicks} \subseteq Nat /\ IsFiniteSet(Pools)
    /\ SessionTicks > 0 /\ SessionTicks % Hour = 0 /\ Sizes \subseteq Nat \ {0}

VARIABLES
    sent,      \* request -> when it began, on what, what it is recorded to have used, and how many were before
    writes,    \* Ledger::writes, the change token
    plan,      \* `usage.plan`, if it names one
    asker,     \* caller -> how far its question has come
    slot,      \* AppState::usage: the last report, and what it was built under
    misreads

usageVars == <<sent, writes, plan, asker, slot, misreads>>

Idle   == [stage |-> "idle"]

\* Rows the ledger has.  `failed`: IronWire answered itself; `silent`: the provider
\* reported no usage; `served`: it reported what `used` says.
Fate == {"failed", "silent", "served"}
Rows == {i \in Sent : sent[i].fate \in Fate}
Past == {r \in [at : 0 .. Now, on : Pools, fate : Fate \cup {"flying"}, used : {0} \cup Sizes,
                nth : {0}] : r.fate = "served" <=> r.used # 0}

-----------------------------------------------------------------------------
(* Session windows *)

\* open: a window starts at the top of the hour of its first request.
Opened(i) ==
    LET start == sent[i].at - (sent[i].at % Hour)
    IN  [on |-> sent[i].on, start |-> start, end |-> start + SessionTicks,
         last |-> Void, gap |-> FALSE, active |-> FALSE,
         rows |-> {}, silent |-> 0, tokens |-> 0]

\* add
Added(w, i) ==
    [w EXCEPT !.rows = @ \cup {i}, !.last = sent[i].at, !.tokens = @ + sent[i].used,
              !.silent = @ + IF sent[i].fate = "silent" THEN 1 ELSE 0]

NeedsNew(w, i) ==
    \/ sent[i].at >= w.end
    \/ sent[i].at - w.last >= SessionTicks

\* gap_between: a silence of a session or more after the last request seen.
Gap(w, i) ==
    IF sent[i].at - w.last >= SessionTicks
    THEN << [Opened(i) EXCEPT !.start = w.last, !.end = sent[i].at, !.gap = TRUE] >>
    ELSE <<>>

\* cut, one request after the other; the last window is the current one.
Cut(ws, i) ==
    IF ws = <<>> THEN << Added(Opened(i), i) >>
    ELSE IF NeedsNew(Last(ws), i)
         THEN ws \o Gap(Last(ws), i) \o << Added(Opened(i), i) >>
         ELSE Append(Front(ws), Added(Last(ws), i))

\* build: the windows of every backend with traffic of its own.  Requests are
\* numbered as they begin, so this is the order of `started_at`.
Build(read, now) ==
    LET On(b) == {i \in read : sent[i].on = b /\ sent[i].fate # "failed"}
        Of(b) == LET cut[i \in 0 .. MaxSent] ==
                       IF i = 0 THEN <<>>
                       ELSE IF i \in On(b) THEN Cut(cut[i - 1], i) ELSE cut[i - 1]
                 IN  cut[MaxSent]
        Marked(w) == [w EXCEPT !.active = ~w.gap /\ w.end > now]
    IN  {Marked(w) : w \in UNION {ToSet(Of(b)) : b \in Pools}}

ActiveMinutes(w)  ==
    LET worked == MinutesOf((IF w.last = Void THEN w.end ELSE w.last) - w.start)
    IN  IF worked > 1 THEN worked ELSE 1
RemainingMinutes(w, now) == IF w.end > now THEN MinutesOf(w.end - now) ELSE 0
IsComplete(w) == ~w.gap /\ ~w.active /\ w.tokens > 0

-----------------------------------------------------------------------------
(* Rates, the percentile and the ceiling *)

\* block_burn_rate: two requests make an interval.  The rate is w.tokens in
\* ActiveMinutes(w).
HasRate(w) == w.active /\ Cardinality(w.rows) >= 2 /\ w.tokens # 0

\* project
Projected(w, now) ==
    IF HasRate(w) /\ RemainingMinutes(w, now) > 0
    THEN w.tokens + (w.tokens * RemainingMinutes(w, now)) \div ActiveMinutes(w)
    ELSE Void

\* hourly_burn_rate: every window gives the last hour its share of it; the
\* tokens of that hour, in parts of a thousandth.
HourlyTokens(ws, now) ==
    LET from == now - Hour
        EndOf(w) == IF w.active THEN now ELSE w.last
        Start(w) == IF w.start > from THEN w.start ELSE from
        Touching == {w \in ws : ~w.gap /\ w.tokens # 0 /\ EndOf(w) > Start(w)}
        Share(w) == (1000 * w.tokens * (EndOf(w) - Start(w))) \div (EndOf(w) - w.start)
    IN  IF Touching = {} THEN Void
        ELSE SumFunction([w \in Touching |-> Share(w)])

CommonLimits == {19, 88, 220, 880}
Minimum == 19
HitALimit(tokens) == \E limit \in CommonLimits : 100 * tokens >= 95 * limit

\* percentile: the i-th of n cut points by the exclusive method.
Percentile(sorted, i, n) ==
    LET count == Len(sorted)
        m     == count + 1
        whole == (i * m) \div n
        j     == IF whole < 1 THEN 1 ELSE IF whole > count - 1 THEN count - 1 ELSE whole
        delta == i * m - j * n
    IN  IF count = 1 THEN sorted[1]
        ELSE (sorted[j] * (n - delta) + sorted[j + 1] * delta) \div n

\* p90_limit: over the windows that ran into a limit, or else all completed ones.
Samples(ws) ==
    LET done   == {w \in ws : IsComplete(w)}
        capped == {w \in done : HitALimit(w.tokens)}
    IN  IF capped = {} THEN done ELSE capped
Sorted(ws) ==
    [k \in 1 .. Cardinality(ws) |->
        CHOOSE n \in {w.tokens : w \in ws} :
            /\ Cardinality({w \in ws : w.tokens < n}) < k
            /\ k <= Cardinality({w \in ws : w.tokens <= n})]
P90(ws) ==
    LET nine == Percentile(Sorted(Samples(ws)), 9, 10)
    IN  IF Samples(ws) = {} THEN Void ELSE IF nine < Minimum THEN Minimum ELSE nine

\* ceiling: a declared plan wins over the history.
Ceiling(ws) == IF plan # Void THEN Limits[plan] ELSE P90(ws)

\* minutes_until and exhausts_before_close: Void when there is no ceiling, no
\* rate, or nothing left of it.
Exhausts(w, ceiling, now) ==
    IF ceiling = Void \/ ~HasRate(w) \/ ceiling <= w.tokens THEN Void
    ELSE (ceiling - w.tokens) * ActiveMinutes(w) < RemainingMinutes(w, now) * w.tokens

\* session
Shown(w, ws, now) ==
    [on |-> w.on, rows |-> w.rows, tokens |-> w.tokens, silent |-> w.silent,
     projected |-> Projected(w, now), ceiling |-> Ceiling(ws),
     exhausts |-> Exhausts(w, Ceiling(ws), now)]

\* report.  `read` and `windows`, what it was made from, are kept for the properties.
Report(read, now) ==
    LET ws == Build(read, now)
    IN  [read |-> read, windows |-> ws, p90 |-> P90(ws), hourly |-> HourlyTokens(ws, now),
         sessions |-> {Shown(w, ws, now) : w \in {w \in ws : w.active}}]

-----------------------------------------------------------------------------
(* Requests, and callers of the status endpoint *)

UsageInit ==
    /\ writes = 0 /\ misreads = 0
    /\ sent \in [Sent -> Past]
    /\ \A i, j \in Sent : i < j => sent[i].at <= sent[j].at
    /\ Cardinality({i \in Sent : sent[i].fate = "flying"}) <= MaxFlying
    /\ plan \in Plans
    /\ asker = [a \in Askers |-> Idle]
    /\ slot = Void

\* Ledger::record: the row and the token, under the connection's lock.
Record(i, fate, used) ==
    /\ sent[i].fate = "flying" /\ (fate = "served" <=> used # 0)
    /\ sent' = [sent EXCEPT ![i].fate = fate, ![i].used = used, ![i].nth = writes + 1]
    /\ writes' = writes + 1
    /\ UNCHANGED <<plan, asker, slot, misreads>>

\* usage: the token is read before the slot is waited for.
Ask(a) ==
    /\ asker[a] = Idle
    /\ asker' = [asker EXCEPT ![a] = [stage |-> "waits", now |-> Now, writes |-> writes]]
    /\ UNCHANGED <<sent, writes, plan, slot, misreads>>

ReusableByAge(memo, now, token) ==
    /\ memo # Void
    /\ now >= memo.at /\ now - memo.at < MaxAge
Reusable(memo, now, token) ==
    /\ memo # Void /\ memo.writes = token
    /\ now >= memo.at /\ now - memo.at < MaxAge

\* usage_report.  The slot is held while the report is built; `since` reads the
\* ledger at some moment of that, and a read that fails makes an empty report.
Reuse(a) ==
    LET q == asker[a] IN
    /\ q.stage = "waits" /\ \A o \in Askers : asker[o].stage # "builds"
    /\ Reusable(slot, q.now, q.writes)
    /\ asker' = [asker EXCEPT ![a] = Idle]
    /\ UNCHANGED <<sent, writes, plan, slot, misreads>>
Enter(a) ==
    LET q == asker[a] IN
    /\ q.stage = "waits" /\ \A o \in Askers : asker[o].stage # "builds"
    /\ ~Reusable(slot, q.now, q.writes)
    /\ asker' = [asker EXCEPT ![a].stage = "builds"]
    /\ UNCHANGED <<sent, writes, plan, slot, misreads>>
Built(a, report) ==
    LET q == asker[a] IN
    /\ q.stage = "builds"
    /\ slot' = [at |-> q.now, writes |-> q.writes, report |-> report]
    /\ asker' = [asker EXCEPT ![a] = Idle]
    /\ UNCHANGED <<sent, writes, plan>>
Since(now) == {i \in Rows : sent[i].at >= now - HistoryTicks}
Made(a) ==
    /\ Built(a, Report(Since(asker[a].now), asker[a].now))
    /\ UNCHANGED misreads
Misread(a) ==
    /\ misreads < MaxMisreads /\ misreads' = misreads + 1
    /\ Built(a, Void)

UsageNext ==
    \/ \E i \in Sent, fate \in Fate, used \in {0} \cup Sizes : Record(i, fate, used)
    \/ \E a \in Askers : Ask(a) \/ Reuse(a) \/ Enter(a) \/ Made(a) \/ Misread(a)

UsageSpec == UsageInit /\ [][UsageNext]_usageVars

-----------------------------------------------------------------------------
(* Properties *)

UsageTypeOK ==
    /\ writes \in 0 .. MaxSent
    /\ misreads \in 0 .. MaxMisreads /\ plan \in Plans
    /\ \A i \in Sent : sent[i].at \in 0 .. Now /\ sent[i].on \in Pools
    /\ \A a \in Askers : asker[a].stage \in {"idle", "waits", "builds"}
    /\ \A a, b \in Askers : asker[a].stage = "builds" /\ asker[b].stage = "builds" => a = b

Whole(report) == report # Void

\* A caller is never told less than the ledger knew when it asked: what was
\* recorded by then and began within the history is in its report, even one that
\* was built for somebody else.  Code: state.rs usage_report, "never showing a
\* report built before the traffic the caller is asking about".
NeverBehind ==
    \A a \in Askers :
        asker[a].stage \in {"waits", "builds"} /\ asker'[a] = Idle /\ Whole(slot'.report) =>
            {i \in Rows : /\ sent[i].nth <= asker[a].writes
                         /\ sent[i].at >= asker[a].now - HistoryTicks}
                \subseteq slot'.report.read

\* Windows account for every request that was made once, in a window of its
\* backend that was open when it began; windows of one backend do not overlap, and
\* a gap was silent, however late the rows came.  Code: blocks.rs build, cut.
WindowsAddUp ==
    slot # Void /\ Whole(slot.report) =>
        LET ws == slot.report.windows IN
        /\ \A i \in slot.report.read :
              sent[i].fate # "failed" =>
                \E w \in ws : i \in w.rows /\ \A v \in ws \ {w} : i \notin v.rows
        /\ \A w \in ws : \A i \in slot.report.read :
              /\ i \in w.rows => /\ sent[i].on = w.on /\ sent[i].fate # "failed"
                                 /\ w.start <= sent[i].at /\ sent[i].at < w.end
              /\ w.gap /\ sent[i].on = w.on /\ sent[i].fate # "failed" =>
                    sent[i].at \notin w.start + 1 .. w.end - 1
        /\ \A v, w \in ws : v # w /\ v.on = w.on /\ ~v.gap /\ ~w.gap =>
              v.end <= w.start \/ w.end <= v.start

\* What the screen says of an open window is of one mind: it is said to reach the
\* ceiling only if its projection does, and to close before only if its projection
\* stays under.  Code: lib.rs exhausts_before_close, burn.rs project.
ForecastsAgree ==
    slot # Void /\ Whole(slot.report) =>
        \A s \in slot.report.sessions :
            s.exhausts # Void /\ s.projected # Void =>
                IF s.exhausts THEN s.projected >= s.ceiling ELSE s.projected <= s.ceiling

\* "In nine out of ten of your past sessions you used no more than this".
\* Code: p90.rs percentile.
NineInTen ==
    slot # Void /\ Whole(slot.report) /\ slot.report.p90 # Void =>
        LET past == Samples(slot.report.windows)
        IN  10 * Cardinality({w \in past : w.tokens <= slot.report.p90}) >= 9 * Cardinality(past)

\* The last hour is charged no more than the windows that touched it used.
\* Code: burn.rs hourly_burn_rate.
HourIsAShare ==
    slot # Void /\ Whole(slot.report) /\ slot.report.hourly # Void =>
        slot.report.hourly <= 1000 * SumFunction([w \in slot.report.windows |-> w.tokens])

\* What a caller is told is at least what was known when it asked, its windows
\* account for every row once, and its rates and ceilings follow from them.
\* Code: state.rs usage_report, ironwire_usage.
StatusIsHonest ==
    /\ [](WindowsAddUp /\ ForecastsAgree /\ NineInTen /\ HourIsAShare)
    /\ [][NeverBehind]_usageVars
=============================================================================
