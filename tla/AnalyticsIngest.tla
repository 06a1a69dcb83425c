--------------------------- MODULE AnalyticsIngest ---------------------------
(***************************************************************************)
(* AnalyticsService with FallbackAnalyticsRepository: anonymous events are *)
(* deduplicated, bursts are blocked and taken back, and only counters are  *)
(* stored, in PostgreSQL or, when a statement fails, in memory.            *)
(*                                                                         *)
(* The events are those of sessions; views and clicks run the same code    *)
(* with keys of their own.  A delivery is decided when it arrives, without *)
(* an await; then the repository is awaited, and an accepted event is      *)
(* remembered only after that.  The statements of one event are relative   *)
(* updates in one transaction, so they take effect at its commit.          *)
(***************************************************************************)
EXTENDS Naturals, Sequences, SequencesExt, FiniteSets, FiniteSetsExt

CONSTANTS
    Slots,           \* deliveries that the server handles at once
    Keys,            \* event keys (session nonces)
    Rows,            \* rows of the total table (route, locale, storage mode)
    Bursts,          \* spike keys (route, locale)
    BurstOf,         \* BurstOf[w]: the spike key of row w
    DedupeWindow,    \* seconds in which a key is not counted again
    KeepWindow,      \* the longest dedupe window of all kinds of events
    SpikeThreshold, SpikeWindow,   \* events of one spike key in that many seconds
    SeriesDays,      \* days of the in-memory chart
    DayLength,       \* seconds of a day
    Outages,         \* may the database come and go?
    Overlap,         \* may an event be delivered again while it is in flight?
    None,
    MaxClock         \* bound on the clock

ASSUME IngestAssumption ==
    /\ IsFiniteSet(Slots)
    /\ BurstOf \in [Rows -> Bursts]
    /\ {DedupeWindow, KeepWindow, SpikeWindow, MaxClock} \subseteq Nat
    /\ {SpikeThreshold, SeriesDays, DayLength} \subseteq Nat \ {0}
    /\ DedupeWindow <= KeepWindow
    /\ None \notin Nat
    /\ Outages \in BOOLEAN /\ Overlap \in BOOLEAN

Times == 0 .. MaxClock

Event == [row : Rows, time : Times]

Day(e) == e.time \div DayLength

Days == 0 .. MaxClock \div DayLength

VARIABLES
    clock,      \* datetime.now()
    online,     \* do the statements of a session succeed?
    recent,     \* store.recent_events: recent[k] is a time, or None
    bucket,     \* store.spike_buckets: accepted events by spike key
    jobs,       \* jobs[r]: the delivery that slot r has handed to the repository
    database,   \* session_daily and session_total
    memory,     \* store.dashboard_snapshot: the chart and the total
    accepted,   \* history: accepted[k], the times at which k was accepted
    standing,   \* history: standing[e], accepted events not handed to a rollback
    steady      \* history: has the database been there, or away, all the time?

vars == <<clock, online, recent, bucket, jobs, database, memory,
          accepted, standing, steady>>

stores == <<database, memory, steady>>

NoJob == [stage |-> "idle"]

Jobs == [stage : {"idle"}]
        \cup [stage : {"count"}, key : Keys, event : Event]
        \cup [stage : {"block"}, event : Event, rollback : Seq(Event)]

(***************************************************************************)
(* _is_duplicate, _prune_recent_events                                     *)
(***************************************************************************)
Kept ==
    [k \in Keys |-> IF recent[k] # None /\ recent[k] + KeepWindow < clock
                    THEN None ELSE recent[k]]

Duplicate(k) == Kept[k] # None /\ clock < Kept[k] + DedupeWindow

(***************************************************************************)
(* _consume_spike_bucket: events are dropped from the left until one is    *)
(* still in the window.                                                    *)
(***************************************************************************)
Inside(b) == {i \in 1 .. Len(bucket[b]) : clock <= bucket[b][i].time + SpikeWindow}

InWindow(b) ==
    IF Inside(b) = {} THEN <<>> ELSE SubSeq(bucket[b], Min(Inside(b)), Len(bucket[b]))

\* Variant of Spike: one more event than the threshold is let through.
Spike_OneMore(b) == Len(InWindow(b)) > SpikeThreshold

Spike(b) == Len(InWindow(b)) >= SpikeThreshold

(***************************************************************************)
(* SqlAlchemyAnalyticsRepository: upsert the day's row and the total;      *)
(* greatest(... - n, 0) takes a blocked burst back from existing rows.     *)
(***************************************************************************)
Minus(a, b) == IF b <= a THEN a - b ELSE 0

NoCount == [count |-> 0, blocked |-> 0, rolledBack |-> 0]

DayCount == [count : Nat, blocked : Nat, rolledBack : Nat]

\* The sum of the counts f[x] of all x in S.
Sum(f, S) == Cardinality(UNION {{x} \X (1 .. f[x]) : x \in S})

HowMany(events, Test(_)) == Cardinality({i \in 1 .. Len(events) : Test(events[i])})

Added(db, e) ==
    [daily |-> [db.daily EXCEPT ![Day(e)][e.row].count = @ + 1],
     total |-> [db.total EXCEPT ![e.row] = @ + 1]]

Blocked(db, e) == [db EXCEPT !.daily[Day(e)][e.row].blocked = @ + 1]

RolledBack(day, n) ==
    IF day = NoCount THEN day
    ELSE [day EXCEPT !.count = Minus(@, n), !.rolledBack = @ + n]

\* Variant of TakenBack: the all-time totals are left alone.
TakenBack_DailyOnly(db, events) ==
    LET onDay(d, w) == HowMany(events, LAMBDA e : Day(e) = d /\ e.row = w)
    IN  [db EXCEPT !.daily =
            [d \in Days |-> [w \in Rows |-> RolledBack(db.daily[d][w], onDay(d, w))]]]

\* Variant of TakenBack: every event is taken back from the first day.
TakenBack_FirstDay(db, events) ==
    LET ofRow(w) == HowMany(events, LAMBDA e : e.row = w)
        onDay(d, w) == IF d = Day(events[1]) THEN ofRow(w) ELSE 0
    IN  [daily |-> [d \in Days |-> [w \in Rows |-> RolledBack(db.daily[d][w], onDay(d, w))]],
         total |-> [w \in Rows |-> Minus(db.total[w], ofRow(w))]]

TakenBack(db, events) ==
    LET ofRow(w) == HowMany(events, LAMBDA e : e.row = w)
        onDay(d, w) == HowMany(events, LAMBDA e : Day(e) = d /\ e.row = w)
    IN  [daily |-> [d \in Days |-> [w \in Rows |-> RolledBack(db.daily[d][w], onDay(d, w))]],
         total |-> [w \in Rows |-> Minus(db.total[w], ofRow(w))]]

InDatabase(job) ==
    IF job.stage = "count"
    THEN Added(database, job.event)
    ELSE TakenBack(Blocked(database, job.event), job.rollback)

(***************************************************************************)
(* InMemoryAnalyticsRepository: a chart of the last days, which every      *)
(* event moves so that it ends at the event's own day, and one total.      *)
(***************************************************************************)
Synced(series, day) ==
    [d \in Days |-> IF d <= day /\ day < d + SeriesDays
                    THEN series[d] ELSE [value |-> 0, blocked |-> 0]]

Incremented(mem, e) ==
    [series |-> [Synced(mem.series, Day(e)) EXCEPT ![Day(e)].value = @ + 1],
     total  |-> mem.total + 1]

\* Variant of IncrementedBlocked: the blocked event is in the total, too.
IncrementedBlocked_Total(mem, e) ==
    [series |-> [Synced(mem.series, Day(e)) EXCEPT ![Day(e)].blocked = @ + 1],
     total  |-> mem.total + 1]

IncrementedBlocked(mem, e) ==
    [series |-> [Synced(mem.series, Day(e)) EXCEPT ![Day(e)].blocked = @ + 1],
     total  |-> mem.total]

Decremented(mem, e) ==
    [series |-> [Synced(mem.series, Day(e)) EXCEPT ![Day(e)].value = Minus(@, 1)],
     total  |-> Minus(mem.total, 1)]

InMemory(job) ==
    IF job.stage = "count"
    THEN Incremented(memory, job.event)
    ELSE FoldLeft(Decremented, IncrementedBlocked(memory, job.event), job.rollback)

(***************************************************************************)
(* FallbackAnalyticsRepository: the database, and memory if that fails.  A *)
(* COMMIT that is applied but reported as failed counts in both.           *)
(***************************************************************************)
Store(job) ==
    \/ /\ online
       /\ database' = InDatabase(job)
       /\ UNCHANGED <<memory, steady>>
    \/ /\ ~online
       /\ memory' = InMemory(job)
       /\ UNCHANGED <<database, steady>>
    \/ /\ online /\ Outages
       /\ database' = InDatabase(job)
       /\ memory' = InMemory(job)
       /\ steady' = FALSE

(***************************************************************************)
(* register_session_event, up to its await                                 *)
(***************************************************************************)
Deduplicate(k) ==
    /\ Duplicate(k)
    /\ recent' = Kept
    /\ UNCHANGED <<clock, online, bucket, jobs, stores, accepted, standing>>

InFlight(k) == \E r \in Slots : jobs[r].stage = "count" /\ jobs[r].key = k

Arrives(r, k) ==
    /\ jobs[r] = NoJob
    /\ ~Overlap => ~InFlight(k)
    /\ ~Duplicate(k)
    /\ recent' = Kept
    /\ UNCHANGED <<clock, online, stores, accepted>>

Admit(r, k, w) ==
    LET b == BurstOf[w] IN
    /\ Arrives(r, k)
    /\ ~Spike(b)
    /\ bucket' = [bucket EXCEPT ![b] = InWindow(b)]
    /\ jobs' = [jobs EXCEPT ![r] = [stage |-> "count", key |-> k,
                                    event |-> [row |-> w, time |-> clock]]]
    /\ UNCHANGED standing

\* Variant of Block: the bucket is cleared before its events are listed.
Block_ListsNothing(r, k, w) ==
    LET b == BurstOf[w] IN
    /\ Arrives(r, k)
    /\ Spike(b)
    /\ bucket' = [bucket EXCEPT ![b] = <<>>]
    /\ jobs' = [jobs EXCEPT ![r] = [stage |-> "block", rollback |-> <<>>,
                                    event |-> [row |-> w, time |-> clock]]]
    /\ UNCHANGED standing

Block(r, k, w) ==
    LET b == BurstOf[w] IN
    /\ Arrives(r, k)
    /\ Spike(b)
    /\ bucket' = [bucket EXCEPT ![b] = <<>>]
    /\ jobs' = [jobs EXCEPT ![r] = [stage |-> "block", rollback |-> InWindow(b),
                                    event |-> [row |-> w, time |-> clock]]]
    /\ standing' = [e \in Event |-> standing[e] - HowMany(InWindow(b), LAMBDA x : x = e)]

(***************************************************************************)
(* ... and after it                                                        *)
(***************************************************************************)
Finish(r) == jobs' = [jobs EXCEPT ![r] = NoJob]

\* Variant of Remember: an entry that is still there keeps its time.
Remember_First(k, time) ==
    recent' = IF recent[k] = None THEN [recent EXCEPT ![k] = time] ELSE recent

\* _remember_event: with the time of the arrival.
Remember(k, time) == recent' = [recent EXCEPT ![k] = time]

\* The end of register_session_event, with _append_tracked_event.
Count(r) ==
    LET job == jobs[r] IN
    /\ job.stage = "count"
    /\ Store(job)
    /\ Remember(job.key, job.event.time)
    /\ bucket' = [bucket EXCEPT ![BurstOf[job.event.row]] = Append(@, job.event)]
    /\ accepted' = [accepted EXCEPT ![job.key] = Append(@, job.event.time)]
    /\ standing' = [standing EXCEPT ![job.event] = @ + 1]
    /\ Finish(r)
    /\ UNCHANGED <<clock, online>>

Revoke(r) ==
    /\ jobs[r].stage = "block"
    /\ Store(jobs[r])
    /\ Finish(r)
    /\ UNCHANGED <<clock, online, recent, bucket, accepted, standing>>

\* A refused connection is an OSError, which nobody catches: the delivery is
\* answered with an error and counted nowhere.
Lose(r) ==
    /\ Outages
    /\ jobs[r] # NoJob
    /\ Finish(r)
    /\ steady' = FALSE
    /\ UNCHANGED <<clock, online, recent, bucket, database, memory, accepted, standing>>

(***************************************************************************)
(* The specification: one run of the server process; the database outlives *)
(* it, but its counters are only ever added to.                            *)
(***************************************************************************)
Switch ==
    /\ Outages
    /\ online' = ~online
    /\ steady' = FALSE
    /\ UNCHANGED <<clock, recent, bucket, jobs, database, memory, accepted, standing>>

Tick ==
    /\ clock < MaxClock
    /\ clock' = clock + 1
    /\ UNCHANGED <<online, recent, bucket, jobs, stores, accepted, standing>>

Init ==
    /\ clock = 0
    /\ online \in BOOLEAN
    /\ recent = [k \in Keys |-> None]
    /\ bucket = [b \in Bursts |-> <<>>]
    /\ jobs = [r \in Slots |-> NoJob]
    /\ database = [daily |-> [d \in Days |-> [w \in Rows |-> NoCount]],
                   total |-> [w \in Rows |-> 0]]
    /\ memory = [series |-> [d \in Days |-> [value |-> 0, blocked |-> 0]], total |-> 0]
    /\ accepted = [k \in Keys |-> <<>>]
    /\ standing = [e \in Event |-> 0]
    /\ steady = TRUE

Next ==
    \/ Tick
    \/ Switch
    \/ \E k \in Keys : Deduplicate(k)
    \/ \E r \in Slots :
          \/ Count(r) \/ Revoke(r) \/ Lose(r)
          \/ \E k \in Keys, w \in Rows : Admit(r, k, w) \/ Block(r, k, w)

Spec == Init /\ [][Next]_vars

(***************************************************************************)
(* Properties.                                                             *)
(***************************************************************************)
\* What decides about the next delivery has its type.
ControlTypes ==
    /\ clock \in Times
    /\ recent \in [Keys -> Times \cup {None}]
    /\ bucket \in [Bursts -> Seq(Event)]
    /\ jobs \in [Slots -> Jobs]
    /\ accepted \in [Keys -> Seq(Times)]

Apart(s, t) == s + DedupeWindow <= t \/ t + DedupeWindow <= s

\* The same event is not accepted twice within its dedupe window, and refused
\* as a duplicate only within one, though keys are remembered for as long as
\* the longest window of all kinds of events.  An event that is delivered again
\* while it is in flight is accepted twice, as its key is remembered only after
\* the await: with Overlap this does not hold.
CountedOnce ==
    \A k \in Keys :
        /\ \A i \in 1 .. Len(accepted[k]) : \A j \in 1 .. Len(accepted[k]) :
              i # j => Apart(accepted[k][i], accepted[k][j])
        /\ Duplicate(k) =>
              \E i \in 1 .. Len(accepted[k]) : clock < accepted[k][i] + DedupeWindow

\* A bucket never holds more than the threshold and the deliveries that were
\* in flight beside the one that reached it.
BucketBound ==
    \A b \in Bursts : Len(bucket[b]) < SpikeThreshold + Cardinality(Slots)

\* Whatever overlaps, no more accepted events of one spike key than that are in
\* any spike window without having been handed to a rollback.  Whether a
\* rollback reaches the store is what DatabaseExact says; one that is lost
\* leaves its events counted for good, as their bucket is empty by then.
SpikeBound ==
    \A b \in Bursts : \A s \in 0 .. clock :
        LET inside == {e \in Event : /\ BurstOf[e.row] = b
                                     /\ e.time \in s .. s + SpikeWindow}
        IN  Sum(standing, inside) < SpikeThreshold + Cardinality(Slots)

\* Accepted events that are still counted: a rollback under way has yet to
\* take its events back.
StillCounted(events) ==
    LET revoking == {r \in Slots : jobs[r].stage = "block"}
        revoked == [r \in revoking |-> HowMany(jobs[r].rollback, LAMBDA e : e \in events)]
    IN  Sum(standing, events) + Sum(revoked, revoking)

\* With the database there all the time, each day's row shows exactly the
\* accepted events of that day that were not taken back: a rollback takes
\* back what was counted, where it was counted, once.
DatabaseExact ==
    steady /\ online =>
        \A d \in Days, w \in Rows :
            database.daily[d][w].count =
                StillCounted({e \in Event : Day(e) = d /\ e.row = w})

\* Without a database, the total in memory is exact, and the chart never
\* shows more than what was counted on a day (it may show less: a rollback
\* of yesterday's events moves the chart back and forgets today).
FallbackExact ==
    steady /\ ~online =>
        /\ memory.total = StillCounted(Event)
        /\ \A d \in Days :
              memory.series[d].value <= StillCounted({e \in Event : Day(e) = d})

\* The all-time total of a row is the sum of its days.
TotalsMatchDays ==
    \A w \in Rows :
        database.total[w] = Sum([d \in Days |-> database.daily[d][w].count], Days)

\* The same as long as the database stays or stays away.
TotalsMatchDaysWhileSteady == steady => TotalsMatchDays
=============================================================================
