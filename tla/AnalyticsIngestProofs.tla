------------------------ MODULE AnalyticsIngestProofs ------------------------
(***************************************************************************)
(* Proofs about AnalyticsIngest, for all windows and thresholds, any       *)
(* number of keys, and any length of a run.  In the order of the file: the *)
(* types, deduplication, buckets; sums and occurrences, which the rest     *)
(* needs; spikes; the database; the fallback in memory.                    *)
(***************************************************************************)
EXTENDS AnalyticsIngest, NumberLemmas, FiniteSetTheorems, TLAPS

LEMMA Numbers ==
    /\ DedupeWindow \in Nat /\ KeepWindow \in Nat /\ SpikeWindow \in Nat
    /\ MaxClock \in Nat /\ SpikeThreshold \in Nat /\ SpikeThreshold > 0
    /\ DedupeWindow <= KeepWindow
    /\ None \notin Nat
    /\ \A w \in Rows : BurstOf[w] \in Bursts
  BY IngestAssumption

(***************************************************************************)
(* Types.                                                                  *)
(***************************************************************************)
LEMMA WindowType ==
    ASSUME ControlTypes, NEW b \in Bursts
    PROVE  InWindow(b) \in Seq(Event)
<1>. DEFINE events == bucket[b]
<1>1. events \in Seq(Event)
  BY DEF ControlTypes
<1>2. CASE Inside(b) = {}
  BY <1>2 DEF InWindow
<1>3. CASE Inside(b) # {}
  <2>1. Inside(b) \subseteq 1 .. Len(events)
    BY DEF Inside
  <2>2. Len(events) \in Nat
    BY <1>1
  <2>3. \E x \in Inside(b) : \A y \in Inside(b) : x <= y
    BY <1>3, <2>1, <2>2, LeastNumber
  <2>4. Min(Inside(b)) \in 1 .. Len(events)
    BY <2>1, <2>3 DEF Min
  <2>5. SubSeq(events, Min(Inside(b)), Len(events)) \in Seq(Event)
    BY <1>1, <2>4
  <2>. QED
    BY <1>3, <2>5 DEF InWindow
<1>. QED
  BY <1>2, <1>3

LEMMA KeptType ==
    ASSUME ControlTypes
    PROVE  Kept \in [Keys -> Times \cup {None}]
  BY DEF ControlTypes, Kept

LEMMA InitTypes == Init => ControlTypes
  BY Numbers DEF Init, ControlTypes, Times, Jobs, NoJob

LEMMA NextTypes ==
    ASSUME ControlTypes, [Next]_vars
    PROVE  ControlTypes'
<1>. USE DEF ControlTypes
<1>1. CASE Tick
  BY <1>1, Numbers DEF Tick, Times
<1>2. CASE Switch
  BY <1>2 DEF Switch
<1>3. ASSUME NEW k \in Keys, Deduplicate(k)
      PROVE  ControlTypes'
  BY <1>3, KeptType DEF Deduplicate
<1>4. ASSUME NEW r \in Slots, Count(r)
      PROVE  ControlTypes'
  <2>. DEFINE job == jobs[r]
  <2>1. job \in [stage : {"count"}, key : Keys, event : Event]
    BY <1>4 DEF Count, Jobs
  <2>2. job.key \in Keys /\ job.event \in Event
    BY <2>1
  <2>3. job.event.time \in Times /\ BurstOf[job.event.row] \in Bursts
    BY <2>2, Numbers DEF Event
  <2>. HIDE DEF job
  <2>4. recent' \in [Keys -> Times \cup {None}]
    BY <1>4, <2>2, <2>3 DEF Count, Remember, job
  <2>5. bucket' \in [Bursts -> Seq(Event)]
    BY <1>4, <2>2, <2>3 DEF Count, job
  <2>6. accepted' \in [Keys -> Seq(Times)]
    BY <1>4, <2>2, <2>3 DEF Count, job
  <2>7. jobs' \in [Slots -> Jobs]
    BY <1>4 DEF Count, Finish, Jobs, NoJob
  <2>8. clock' \in Times
    BY <1>4 DEF Count
  <2>. QED
    BY <2>4, <2>5, <2>6, <2>7, <2>8
<1>5. ASSUME NEW r \in Slots, Revoke(r) \/ Lose(r)
      PROVE  ControlTypes'
  <2>1. NoJob \in Jobs
    BY DEF NoJob, Jobs
  <2>2. jobs' = [jobs EXCEPT ![r] = NoJob]
    BY <1>5 DEF Revoke, Lose, Finish
  <2>3. UNCHANGED <<clock, recent, bucket, accepted>>
    BY <1>5 DEF Revoke, Lose
  <2>. QED
    BY <2>1, <2>2, <2>3
<1>6. ASSUME NEW r \in Slots, NEW k \in Keys, NEW w \in Rows, Admit(r, k, w)
      PROVE  ControlTypes'
  <2>1. InWindow(BurstOf[w]) \in Seq(Event)
    BY Numbers, WindowType
  <2>2. [stage |-> "count", key |-> k, event |-> [row |-> w, time |-> clock]] \in Jobs
    BY DEF Jobs, Event
  <2>. QED
    BY <1>6, <2>1, <2>2, KeptType DEF Admit, Arrives
<1>7. ASSUME NEW r \in Slots, NEW k \in Keys, NEW w \in Rows, Block(r, k, w)
      PROVE  ControlTypes'
  <2>1. InWindow(BurstOf[w]) \in Seq(Event)
    BY Numbers, WindowType
  <2>2. [stage |-> "block", rollback |-> InWindow(BurstOf[w]),
         event |-> [row |-> w, time |-> clock]] \in Jobs
    BY <2>1 DEF Jobs, Event
  <2>3. jobs' \in [Slots -> Jobs]
    BY <1>7, <2>2 DEF Block
  <2>4. UNCHANGED <<clock, accepted>> /\ recent' = Kept
    BY <1>7 DEF Block, Arrives
  <2>5. bucket' \in [Bursts -> Seq(Event)]
    BY <1>7, Numbers DEF Block
  <2>. QED
    BY <2>3, <2>4, <2>5, KeptType
<1>8. CASE UNCHANGED vars
  BY <1>8 DEF vars
<1>. QED
  BY <1>1, <1>2, <1>3, <1>4, <1>5, <1>6, <1>7, <1>8 DEF Next

\* What the next decision rests on always has its type: the remembered keys,
\* the buckets and the deliveries in flight.
THEOREM IngestTypes == Spec => []ControlTypes
<1>1. Init => ControlTypes
  BY InitTypes
<1>2. ControlTypes /\ [Next]_vars => ControlTypes'
  BY NextTypes
<1>. QED
  BY <1>1, <1>2, PTL DEF Spec

(***************************************************************************)
(* Deduplication, as long as an event is not delivered while it is in      *)
(* flight.  What is remembered of a key is its latest acceptance, and a    *)
(* forgotten one is older than every window; a delivery in flight came     *)
(* after the windows of all acceptances so far, and nothing is accepted    *)
(* under its key before it is.                                             *)
(***************************************************************************)
Carries(r, k) == jobs[r].stage = "count" /\ jobs[r].key = k

Remembered(k) ==
    \A i \in 1 .. Len(accepted[k]) :
        IF recent[k] = None
        THEN accepted[k][i] + KeepWindow < clock
        ELSE accepted[k][i] <= recent[k] /\ recent[k] <= clock

OneInFlight(k) == \A r, q \in Slots : Carries(r, k) /\ Carries(q, k) => r = q

CameLater(k) ==
    \A r \in Slots : Carries(r, k) =>
        /\ jobs[r].event.time <= clock
        /\ \A i \in 1 .. Len(accepted[k]) :
              accepted[k][i] + DedupeWindow <= jobs[r].event.time

AcceptedApart(k) ==
    \A i \in 1 .. Len(accepted[k]) : \A j \in 1 .. Len(accepted[k]) :
        i # j => Apart(accepted[k][i], accepted[k][j])

KeyInv(k) == Remembered(k) /\ OneInFlight(k) /\ CameLater(k) /\ AcceptedApart(k)

DedupeInv == \A k \in Keys : KeyInv(k)

LEMMA InitDedupe == Init => DedupeInv
<1>. SUFFICES ASSUME Init, NEW k \in Keys
              PROVE  KeyInv(k)
  BY DEF DedupeInv
<1>1. Len(accepted[k]) = 0
  BY DEF Init
<1>2. \A r \in Slots : ~Carries(r, k)
  BY DEF Init, Carries, NoJob
<1>. QED
  BY <1>1, <1>2 DEF KeyInv, Remembered, OneInFlight, CameLater, AcceptedApart

\* Pruning keeps what the next decision needs.
LEMMA KeptRemembers ==
    ASSUME ControlTypes, NEW k \in Keys, Remembered(k), NEW i \in 1 .. Len(accepted[k])
    PROVE  IF Kept[k] = None
           THEN accepted[k][i] + KeepWindow < clock
           ELSE accepted[k][i] <= Kept[k] /\ Kept[k] <= clock
<1>1. accepted[k] \in Seq(Times) /\ recent[k] \in Times \cup {None} /\ clock \in Nat
  BY Numbers DEF ControlTypes, Times
<1>2. accepted[k][i] \in Nat
  BY <1>1, Numbers DEF Times
<1>3. recent[k] # None => recent[k] \in Nat
  BY <1>1, Numbers DEF Times
<1>4. Kept[k] = IF recent[k] # None /\ recent[k] + KeepWindow < clock
                THEN None ELSE recent[k]
  BY DEF Kept
<1>. QED
  BY <1>2, <1>3, <1>4, <1>1, Numbers DEF Remembered

\* A key that is not a duplicate now was accepted a window ago or earlier.
LEMMA NotDuplicate ==
    ASSUME ControlTypes, NEW k \in Keys, Remembered(k), ~Duplicate(k),
           NEW i \in 1 .. Len(accepted[k])
    PROVE  accepted[k][i] + DedupeWindow <= clock
<1>1. accepted[k] \in Seq(Times) /\ recent[k] \in Times \cup {None} /\ clock \in Nat
  BY Numbers DEF ControlTypes, Times
<1>2. accepted[k][i] \in Nat
  BY <1>1, Numbers DEF Times
<1>3. Kept[k] # None => Kept[k] \in Nat
  BY KeptType, Numbers DEF Times
<1>4. Kept[k] # None => Kept[k] + DedupeWindow <= clock
  BY <1>1, <1>3, Numbers DEF Duplicate
<1>. QED
  BY <1>1, <1>2, <1>3, <1>4, Numbers, KeptRemembers

\* A step that accepts nothing, takes no delivery in and moves the clock
\* forward at most.
LEMMA DedupeQuiet ==
    ASSUME ControlTypes, ControlTypes', NEW k \in Keys, KeyInv(k),
           accepted' = accepted, clock <= clock',
           recent'[k] = recent[k] \/ recent'[k] = Kept[k],
           \A r \in Slots : jobs'[r] = jobs[r] \/ jobs'[r].stage # "count"
    PROVE  KeyInv(k)'
<1>1. clock \in Nat /\ clock' \in Nat /\ accepted[k] \in Seq(Times)
  BY Numbers DEF ControlTypes, Times
<1>2. \A i \in 1 .. Len(accepted[k]) : accepted[k][i] \in Nat
  BY <1>1, Numbers DEF Times
<1>3. recent'[k] # None => recent'[k] \in Nat
  BY Numbers DEF ControlTypes, Times
<1>4. Remembered(k)'
  <2>. SUFFICES ASSUME NEW i \in 1 .. Len(accepted[k])
                PROVE  IF recent'[k] = None
                       THEN accepted[k][i] + KeepWindow < clock'
                       ELSE accepted[k][i] <= recent'[k] /\ recent'[k] <= clock'
    BY DEF Remembered
  <2>1. IF recent'[k] = None
        THEN accepted[k][i] + KeepWindow < clock
        ELSE accepted[k][i] <= recent'[k] /\ recent'[k] <= clock
    BY KeptRemembers DEF KeyInv, Remembered
  <2>. QED
    BY <1>1, <1>2, <1>3, <2>1, Numbers
<1>5. \A r \in Slots : Carries(r, k)' => Carries(r, k) /\ jobs'[r] = jobs[r]
  BY DEF Carries
<1>6. OneInFlight(k)'
  BY <1>5 DEF KeyInv, OneInFlight
<1>7. CameLater(k)'
  <2>. SUFFICES ASSUME NEW r \in Slots, Carries(r, k)'
                PROVE  /\ jobs[r].event.time <= clock'
                       /\ \A i \in 1 .. Len(accepted[k]) :
                             accepted[k][i] + DedupeWindow <= jobs[r].event.time
    BY <1>5 DEF CameLater
  <2>1. Carries(r, k)
    BY <1>5
  <2>2. jobs[r].event.time \in Nat
    BY <2>1, Numbers DEF ControlTypes, Jobs, Carries, Event, Times
  <2>. QED
    BY <1>1, <2>1, <2>2 DEF KeyInv, CameLater
<1>8. AcceptedApart(k)'
  BY DEF KeyInv, AcceptedApart
<1>. QED
  BY <1>4, <1>6, <1>7, <1>8 DEF KeyInv

\* A delivery is admitted.
LEMMA DedupeAdmit ==
    ASSUME ControlTypes, ControlTypes', ~Overlap, DedupeInv,
           NEW r \in Slots, NEW k \in Keys, NEW w \in Rows, Admit(r, k, w)
    PROVE  DedupeInv'
<1>. SUFFICES ASSUME NEW x \in Keys
              PROVE  KeyInv(x)'
  BY DEF DedupeInv
<1>1. KeyInv(x) /\ KeyInv(k)
  BY DEF DedupeInv
<1>2. accepted' = accepted /\ clock' = clock /\ clock \in Nat /\ recent'[x] = Kept[x]
  BY Numbers DEF Admit, Arrives, ControlTypes, Times
<1>3. /\ jobs'[r].stage = "count" /\ jobs'[r].key = k /\ jobs'[r].event.time = clock
      /\ \A q \in Slots \ {r} : jobs'[q] = jobs[q]
  BY DEF Admit, ControlTypes
<1>4. CASE x # k
  <2>1. \A q \in Slots : Carries(q, x)' => Carries(q, x) /\ jobs'[q] = jobs[q]
    BY <1>3, <1>4 DEF Carries
  <2>2. Remembered(x)'
    BY <1>1, <1>2, KeptRemembers DEF KeyInv, Remembered
  <2>3. OneInFlight(x)'
    BY <1>1, <2>1 DEF KeyInv, OneInFlight
  <2>4. CameLater(x)'
    BY <1>1, <1>2, <2>1 DEF KeyInv, CameLater
  <2>. QED
    BY <1>1, <1>2, <2>2, <2>3, <2>4 DEF KeyInv, AcceptedApart
<1>5. CASE x = k
  <2>1. \A q \in Slots : ~Carries(q, k)
    BY DEF Admit, Arrives, InFlight, Carries
  <2>2. \A q \in Slots : Carries(q, k)' => q = r
    BY <1>3, <2>1 DEF Carries
  <2>3. Remembered(k)'
    BY <1>1, <1>2, <1>5, KeptRemembers DEF KeyInv, Remembered
  <2>4. OneInFlight(k)'
    BY <2>2 DEF OneInFlight
  <2>5. \A i \in 1 .. Len(accepted[k]) : accepted[k][i] + DedupeWindow <= clock
    BY <1>1, NotDuplicate DEF KeyInv, Admit, Arrives
  <2>6. CameLater(k)'
    BY <1>2, <1>3, <2>2, <2>5 DEF CameLater
  <2>. QED
    BY <1>1, <1>2, <1>5, <2>3, <2>4, <2>6 DEF KeyInv, AcceptedApart
<1>. QED
  BY <1>4, <1>5

\* A delivery is accepted and remembered.
LEMMA DedupeCount ==
    ASSUME ControlTypes, ControlTypes', DedupeInv, NEW r \in Slots, Count(r)
    PROVE  DedupeInv'
<1>0. jobs[r].key \in Keys /\ jobs[r].event.time \in Nat
  <2>1. jobs[r] \in [stage : {"count"}, key : Keys, event : Event]
    BY DEF Count, ControlTypes, Jobs
  <2>. QED
    BY <2>1, Numbers DEF Event, Times
<1>. SUFFICES ASSUME NEW k \in Keys, NEW time \in Nat,
                     jobs[r].key = k, jobs[r].event.time = time
              PROVE  DedupeInv'
  BY <1>0
<1>1. clock \in Nat
  BY Numbers DEF ControlTypes, Times
<1>2. Carries(r, k)
  BY DEF Count, Carries
<1>3. /\ accepted' = [accepted EXCEPT ![k] = Append(accepted[k], time)]
      /\ recent' = [recent EXCEPT ![k] = time]
      /\ clock' = clock
      /\ jobs' = [jobs EXCEPT ![r] = NoJob]
  BY DEF Count, Remember, Finish
<1>4. /\ ~Carries(r, k)' /\ \A q \in Slots \ {r} : jobs'[q] = jobs[q]
      /\ jobs'[r].stage # "count"
  BY <1>3 DEF Carries, ControlTypes, NoJob
<1>. SUFFICES ASSUME NEW x \in Keys
              PROVE  KeyInv(x)'
  BY DEF DedupeInv
<1>5. KeyInv(x) /\ KeyInv(k)
  BY <1>1 DEF DedupeInv
<1>6. CASE x # k
  <2>1. accepted'[x] = accepted[x] /\ recent'[x] = recent[x]
    BY <1>3, <1>6 DEF ControlTypes
  <2>2. \A q \in Slots : Carries(q, x)' => Carries(q, x) /\ jobs'[q] = jobs[q]
    BY <1>4 DEF Carries
  <2>3. Remembered(x)'
    BY <1>3, <1>5, <2>1 DEF KeyInv, Remembered
  <2>4. OneInFlight(x)'
    BY <1>5, <2>2 DEF KeyInv, OneInFlight
  <2>5. CameLater(x)'
    BY <1>3, <1>5, <2>1, <2>2 DEF KeyInv, CameLater
  <2>. QED
    BY <1>5, <2>1, <2>3, <2>4, <2>5 DEF KeyInv, AcceptedApart
<1>7. CASE x = k
  <2>. DEFINE times == accepted[k]
              n == Len(times)
  <2>1. times \in Seq(Times) /\ n \in Nat
    BY <1>1 DEF ControlTypes
  <2>2. /\ accepted'[k] = Append(times, time) /\ recent'[k] = time
        /\ Len(accepted'[k]) = n + 1 /\ accepted'[k][n + 1] = time
        /\ \A i \in 1 .. n : accepted'[k][i] = times[i]
    BY <1>1, <1>3, <2>1 DEF ControlTypes
  <2>3. \A i \in 1 .. n : times[i] \in Nat /\ times[i] + DedupeWindow <= time
    BY <1>2, <1>5, <2>1, Numbers DEF KeyInv, CameLater, Times
  <2>4. time <= clock
    BY <1>2, <1>5, <1>1 DEF KeyInv, CameLater
  <2>. HIDE DEF times, n
  <2>5. \A q \in Slots : ~Carries(q, k)'
    <3>. SUFFICES ASSUME NEW q \in Slots, Carries(q, k)'
                  PROVE  FALSE
      OBVIOUS
    <3>1. q # r /\ Carries(q, k)
      BY <1>3, <1>4 DEF Carries
    <3>. QED
      BY <1>2, <1>5, <3>1 DEF KeyInv, OneInFlight
  <2>6. Remembered(k)'
    <3>1. \A i \in 1 .. n + 1 : accepted'[k][i] <= time
      BY <1>1, <2>1, <2>2, <2>3, Numbers
    <3>2. time # None
      BY <1>1, Numbers
    <3>. QED
      BY <1>3, <2>2, <2>4, <3>1, <3>2 DEF Remembered
  <2>7. OneInFlight(k)' /\ CameLater(k)'
    BY <2>5 DEF OneInFlight, CameLater
  <2>8. AcceptedApart(k)'
    <3>. SUFFICES ASSUME NEW i \in 1 .. n + 1, NEW j \in 1 .. n + 1, i # j
                  PROVE  Apart(accepted'[k][i], accepted'[k][j])
      BY <2>2 DEF AcceptedApart
    <3>1. CASE i <= n /\ j <= n
      <4>1. i \in 1 .. n /\ j \in 1 .. n
        BY <2>1, <3>1
      <4>. QED
        BY <1>5, <2>2, <4>1 DEF KeyInv, AcceptedApart, times, n
    <3>2. CASE i = n + 1
      <4>1. j \in 1 .. n
        BY <2>1, <3>2
      <4>. QED
        BY <2>2, <2>3, <3>2, <4>1 DEF Apart
    <3>3. CASE j = n + 1
      <4>1. i \in 1 .. n
        BY <2>1, <3>3
      <4>. QED
        BY <2>2, <2>3, <3>3, <4>1 DEF Apart
    <3>. QED
      BY <2>1, <3>1, <3>2, <3>3
  <2>. QED
    BY <1>7, <2>6, <2>7, <2>8 DEF KeyInv
<1>. QED
  BY <1>6, <1>7

LEMMA NextDedupe ==
    ASSUME ControlTypes, ~Overlap, DedupeInv, [Next]_vars
    PROVE  DedupeInv'
<1>1. ControlTypes'
  BY NextTypes
<1>2. ASSUME accepted' = accepted, clock <= clock',
             recent' = recent \/ recent' = Kept,
             \A q \in Slots : jobs'[q] = jobs[q] \/ jobs'[q].stage # "count"
      PROVE  DedupeInv'
  <2>. SUFFICES ASSUME NEW x \in Keys
                PROVE  KeyInv(x)'
    BY DEF DedupeInv
  <2>. QED
    BY <1>1, <1>2, DedupeQuiet DEF DedupeInv
<1>3. clock \in Nat /\ clock <= clock
  BY Numbers DEF ControlTypes, Times
<1>4. CASE Tick
  BY <1>2, <1>3, <1>4 DEF Tick
<1>5. CASE Switch
  BY <1>2, <1>3, <1>5 DEF Switch
<1>6. ASSUME NEW k \in Keys, Deduplicate(k)
      PROVE  DedupeInv'
  BY <1>2, <1>3, <1>6 DEF Deduplicate
<1>7. ASSUME NEW r \in Slots, Count(r)
      PROVE  DedupeInv'
  BY <1>1, <1>7, DedupeCount
<1>8. ASSUME NEW r \in Slots, Revoke(r) \/ Lose(r)
      PROVE  DedupeInv'
  <2>1. \A q \in Slots : jobs'[q] = jobs[q] \/ jobs'[q].stage # "count"
    BY <1>8 DEF Revoke, Lose, Finish, NoJob, ControlTypes
  <2>2. UNCHANGED <<clock, recent, accepted>>
    BY <1>8 DEF Revoke, Lose
  <2>. QED
    BY <1>2, <1>3, <2>1, <2>2
<1>9. ASSUME NEW r \in Slots, NEW k \in Keys, NEW w \in Rows, Admit(r, k, w)
      PROVE  DedupeInv'
  BY <1>1, <1>9, DedupeAdmit
<1>10. ASSUME NEW r \in Slots, NEW k \in Keys, NEW w \in Rows, Block(r, k, w)
       PROVE  DedupeInv'
  <2>1. \A q \in Slots : jobs'[q] = jobs[q] \/ jobs'[q].stage # "count"
    BY <1>10 DEF Block, ControlTypes
  <2>2. UNCHANGED <<clock, accepted>> /\ recent' = Kept
    BY <1>10 DEF Block, Arrives
  <2>. QED
    BY <1>2, <1>3, <2>1, <2>2
<1>11. CASE UNCHANGED vars
  BY <1>2, <1>3, <1>11 DEF vars
<1>. QED
  BY <1>4, <1>5, <1>6, <1>7, <1>8, <1>9, <1>10, <1>11 DEF Next

\* What is remembered of a key is the time of one of its acceptances.
RecentWasAccepted ==
    \A k \in Keys : recent[k] # None =>
        \E i \in 1 .. Len(accepted[k]) : accepted[k][i] = recent[k]

LEMMA NextRecent ==
    ASSUME ControlTypes, RecentWasAccepted, [Next]_vars
    PROVE  RecentWasAccepted'
<1>1. /\ recent \in [Keys -> Times \cup {None}]
      /\ accepted \in [Keys -> Seq(Times)]
  BY DEF ControlTypes
<1>2. ASSUME recent' \in {recent, Kept}, accepted' = accepted
      PROVE  RecentWasAccepted'
  BY <1>1, <1>2 DEF RecentWasAccepted, Kept
<1>3. ASSUME NEW r \in Slots, Count(r)
      PROVE  RecentWasAccepted'
  <2>. DEFINE key == jobs[r].key
              time == jobs[r].event.time
  <2>1. key \in Keys /\ time \in Times
    BY <1>3, Numbers DEF ControlTypes, Jobs, Count, Event
  <2>2. /\ recent' = [recent EXCEPT ![key] = time]
        /\ accepted' = [accepted EXCEPT ![key] = Append(@, time)]
    BY <1>3 DEF Count, Remember
  <2>. HIDE DEF key, time
  <2>. SUFFICES ASSUME NEW k \in Keys, recent'[k] # None
                PROVE  \E i \in 1 .. Len(accepted'[k]) : accepted'[k][i] = recent'[k]
    BY DEF RecentWasAccepted
  <2>3. CASE k = key
    <3>1. accepted'[k] = Append(accepted[k], time) /\ recent'[k] = time
      BY <1>1, <2>2, <2>3
    <3>2. accepted[k] \in Seq(Times)
      BY <1>1
    <3>3. Len(accepted'[k]) = Len(accepted[k]) + 1
      BY <2>1, <3>1, <3>2
    <3>4. accepted'[k][Len(accepted[k]) + 1] = time
      BY <2>1, <3>1, <3>2
    <3>5. Len(accepted[k]) + 1 \in 1 .. Len(accepted'[k])
      BY <3>2, <3>3
    <3>. QED
      BY <3>1, <3>4, <3>5
  <2>4. CASE k # key
    BY <1>1, <2>2, <2>4 DEF RecentWasAccepted
  <2>. QED
    BY <2>3, <2>4
<1>. QED
  BY <1>2, <1>3
     DEF Next, vars, stores, Tick, Switch, Deduplicate, Admit, Block, Arrives, Revoke, Lose

\* If a client never sends an event again before it was answered, the event
\* is counted once per dedupe window, and refused only within one, whatever the
\* other clients do and however the database fails.
THEOREM EventsCountedOnce ==
    ASSUME ~Overlap
    PROVE  Spec => []CountedOnce
<1>1. Init => ControlTypes /\ DedupeInv
  BY InitTypes, InitDedupe
<1>2. ControlTypes /\ DedupeInv /\ [Next]_vars => ControlTypes' /\ DedupeInv'
  BY NextTypes, NextDedupe
<1>3. Init => RecentWasAccepted
  BY DEF Init, RecentWasAccepted
<1>4. ControlTypes /\ DedupeInv /\ RecentWasAccepted => CountedOnce
  BY DEF DedupeInv, KeyInv, AcceptedApart, CountedOnce, RecentWasAccepted, Duplicate, Kept,
         ControlTypes
<1>. QED
  BY <1>1, <1>2, <1>3, <1>4, NextRecent, PTL DEF Spec

(***************************************************************************)
(* Buckets.  A delivery that was admitted found its bucket below the       *)
(* threshold; those in flight and the events that are there already are    *)
(* together fewer than the threshold and the slots.                        *)
(***************************************************************************)
Counting(b) == {r \in Slots : jobs[r].stage = "count" /\ BurstOf[jobs[r].event.row] = b}

RoomFor(b) ==
    Len(bucket[b]) + Cardinality(Counting(b)) < SpikeThreshold + Cardinality(Slots)

BucketInv == \A b \in Bursts : RoomFor(b)

LEMMA SlotSubsets ==
    /\ IsFiniteSet(Slots) /\ Cardinality(Slots) \in Nat
    /\ \A S \in SUBSET Slots : /\ IsFiniteSet(S) /\ Cardinality(S) \in Nat
                               /\ Cardinality(S) <= Cardinality(Slots)
<1>1. IsFiniteSet(Slots)
  BY IngestAssumption
<1>2. ASSUME NEW S \in SUBSET Slots
      PROVE  /\ IsFiniteSet(S) /\ Cardinality(S) \in Nat
             /\ Cardinality(S) <= Cardinality(Slots)
  BY <1>1, <1>2, FS_Subset, FS_CardinalityType
<1>. QED
  BY <1>1, <1>2, FS_CardinalityType

LEMMA BucketLength ==
    ASSUME ControlTypes, NEW b \in Bursts
    PROVE  Len(bucket[b]) \in Nat
  BY DEF ControlTypes

LEMMA InitBucket == Init => BucketInv
<1>. SUFFICES ASSUME Init, NEW b \in Bursts
              PROVE  RoomFor(b)
  BY DEF BucketInv
<1>1. Len(bucket[b]) = 0
  BY DEF Init
<1>2. Counting(b) = {}
  BY DEF Init, Counting, NoJob
<1>. QED
  BY <1>1, <1>2, SlotSubsets, FS_EmptySet, Numbers DEF RoomFor

\* A step that puts nothing into a bucket and takes no delivery in for it, or
\* leaves the bucket below the threshold.
LEMMA BucketQuiet ==
    ASSUME ControlTypes, ControlTypes', NEW b \in Bursts, RoomFor(b),
           \/ bucket'[b] = bucket[b] /\ Counting(b)' \subseteq Counting(b)
           \/ Len(bucket'[b]) < SpikeThreshold
    PROVE  RoomFor(b)'
<1>1. Len(bucket[b]) \in Nat /\ Len(bucket'[b]) \in Nat
  BY DEF ControlTypes
<1>2. Counting(b) \in SUBSET Slots /\ Counting(b)' \in SUBSET Slots
  BY DEF Counting
<1>3. /\ IsFiniteSet(Counting(b)) /\ Cardinality(Counting(b)) \in Nat
      /\ Cardinality(Counting(b)') \in Nat /\ Cardinality(Slots) \in Nat
      /\ Cardinality(Counting(b)') <= Cardinality(Slots)
  BY <1>2, SlotSubsets
<1>4. CASE bucket'[b] = bucket[b] /\ Counting(b)' \subseteq Counting(b)
  <2>1. Cardinality(Counting(b)') <= Cardinality(Counting(b))
    BY <1>3, <1>4, FS_Subset
  <2>. QED
    BY <1>1, <1>3, <1>4, <2>1, Numbers DEF RoomFor
<1>5. CASE Len(bucket'[b]) < SpikeThreshold
  BY <1>1, <1>3, <1>5, Numbers DEF RoomFor
<1>. QED
  BY <1>4, <1>5

LEMMA BucketCount ==
    ASSUME ControlTypes, ControlTypes', NEW b \in Bursts, RoomFor(b),
           NEW r \in Slots, Count(r)
    PROVE  RoomFor(b)'
<1>0. jobs[r].stage = "count" /\ BurstOf[jobs[r].event.row] \in Bursts
  <2>1. jobs[r] \in [stage : {"count"}, key : Keys, event : Event]
    BY DEF Count, ControlTypes, Jobs
  <2>. QED
    BY <2>1, Numbers DEF Event
<1>1. /\ jobs' = [jobs EXCEPT ![r] = NoJob]
      /\ bucket' = [bucket EXCEPT ![BurstOf[jobs[r].event.row]]
                       = Append(bucket[BurstOf[jobs[r].event.row]], jobs[r].event)]
  BY DEF Count, Finish
<1>2. Counting(b)' = Counting(b) \ {r}
  BY <1>1 DEF Counting, ControlTypes, NoJob
<1>3. CASE BurstOf[jobs[r].event.row] # b
  <2>1. bucket'[b] = bucket[b]
    BY <1>1, <1>3 DEF ControlTypes
  <2>. QED
    BY <1>2, <2>1, BucketQuiet
<1>4. CASE BurstOf[jobs[r].event.row] = b
  <2>1. r \in Counting(b) /\ Counting(b) \in SUBSET Slots
    BY <1>0, <1>4 DEF Counting
  <2>2. IsFiniteSet(Counting(b)) /\ Cardinality(Counting(b)) \in Nat
    BY <2>1, SlotSubsets
  <2>3. Cardinality(Counting(b)') = Cardinality(Counting(b)) - 1
    BY <1>2, <2>1, <2>2, FS_RemoveElement
  <2>4. bucket'[b] = Append(bucket[b], jobs[r].event) /\ bucket[b] \in Seq(Event)
    BY <1>1, <1>4 DEF ControlTypes
  <2>5. Len(bucket'[b]) = Len(bucket[b]) + 1 /\ Len(bucket[b]) \in Nat
    BY <2>4
  <2>. QED
    BY <2>2, <2>3, <2>5, SlotSubsets, Numbers DEF RoomFor
<1>. QED
  BY <1>3, <1>4

LEMMA NextBucket ==
    ASSUME ControlTypes, BucketInv, [Next]_vars
    PROVE  BucketInv'
<1>1. ControlTypes'
  BY NextTypes
<1>. SUFFICES ASSUME NEW b \in Bursts
              PROVE  RoomFor(b)'
  BY DEF BucketInv
<1>2. RoomFor(b)
  BY DEF BucketInv
<1>3. CASE UNCHANGED <<bucket, jobs>>
  BY <1>1, <1>2, <1>3, BucketQuiet DEF Counting
<1>4. CASE Tick \/ Switch \/ (\E k \in Keys : Deduplicate(k)) \/ UNCHANGED vars
  BY <1>3, <1>4 DEF Tick, Switch, Deduplicate, vars
<1>5. ASSUME NEW r \in Slots, Count(r)
      PROVE  RoomFor(b)'
  BY <1>1, <1>2, <1>5, BucketCount
<1>6. ASSUME NEW r \in Slots, Revoke(r) \/ Lose(r)
      PROVE  RoomFor(b)'
  <2>1. jobs' = [jobs EXCEPT ![r] = NoJob] /\ bucket' = bucket
    BY <1>6 DEF Revoke, Lose, Finish
  <2>2. Counting(b)' \subseteq Counting(b)
    BY <2>1 DEF Counting, ControlTypes, NoJob
  <2>. QED
    BY <1>1, <1>2, <2>1, <2>2, BucketQuiet
<1>7. ASSUME NEW r \in Slots, NEW k \in Keys, NEW w \in Rows, Admit(r, k, w)
      PROVE  RoomFor(b)'
  <2>1. /\ bucket' = [bucket EXCEPT ![BurstOf[w]] = InWindow(BurstOf[w])]
        /\ jobs' = [jobs EXCEPT ![r] = [stage |-> "count", key |-> k,
                                        event |-> [row |-> w, time |-> clock]]]
        /\ ~Spike(BurstOf[w])
    BY <1>7 DEF Admit
  <2>2. CASE BurstOf[w] # b
    <3>1. bucket'[b] = bucket[b] /\ Counting(b)' \subseteq Counting(b)
      BY <2>1, <2>2 DEF Counting, ControlTypes
    <3>. QED
      BY <1>1, <1>2, <3>1, BucketQuiet
  <2>3. CASE BurstOf[w] = b
    <3>1. bucket'[b] = InWindow(b) /\ InWindow(b) \in Seq(Event)
      BY <2>1, <2>3, WindowType DEF ControlTypes
    <3>2. Len(bucket'[b]) < SpikeThreshold
      BY <2>1, <2>3, <3>1, Numbers DEF Spike
    <3>. QED
      BY <1>1, <1>2, <3>2, BucketQuiet
  <2>. QED
    BY <2>2, <2>3
<1>8. ASSUME NEW r \in Slots, NEW k \in Keys, NEW w \in Rows, Block(r, k, w)
      PROVE  RoomFor(b)'
  <2>1. /\ bucket' = [bucket EXCEPT ![BurstOf[w]] = <<>>]
        /\ jobs'[r].stage = "block" /\ \A q \in Slots \ {r} : jobs'[q] = jobs[q]
    BY <1>8 DEF Block, ControlTypes
  <2>2. CASE BurstOf[w] # b
    <3>1. bucket'[b] = bucket[b] /\ Counting(b)' \subseteq Counting(b)
      BY <2>1, <2>2 DEF Counting, ControlTypes
    <3>. QED
      BY <1>1, <1>2, <3>1, BucketQuiet
  <2>3. CASE BurstOf[w] = b
    <3>1. bucket'[b] = <<>>
      BY <2>1, <2>3 DEF ControlTypes
    <3>. QED
      BY <1>1, <1>2, <3>1, Numbers, BucketQuiet
  <2>. QED
    BY <2>2, <2>3
<1>. QED
  BY <1>4, <1>5, <1>6, <1>7, <1>8 DEF Next

\* However many deliveries overlap, and whatever fails, a bucket holds fewer
\* events than the threshold and the deliveries that the server handles at
\* once.
THEOREM BucketsStayBounded == Spec => []BucketBound
<1>1. Init => ControlTypes /\ BucketInv
  BY InitTypes, InitBucket
<1>2. ControlTypes /\ BucketInv /\ [Next]_vars => ControlTypes' /\ BucketInv'
  BY NextTypes, NextBucket
<1>3. ControlTypes /\ BucketInv => BucketBound
  <2>. SUFFICES ASSUME ControlTypes, BucketInv, NEW b \in Bursts
                PROVE  Len(bucket[b]) < SpikeThreshold + Cardinality(Slots)
    BY DEF BucketBound
  <2>1. Counting(b) \in SUBSET Slots
    BY DEF Counting
  <2>2. Cardinality(Counting(b)) \in Nat /\ Cardinality(Slots) \in Nat
    BY <2>1, SlotSubsets
  <2>. QED
    BY <2>2, BucketLength, Numbers DEF BucketInv, RoomFor
<1>. QED
  BY <1>1, <1>2, <1>3, PTL DEF Spec

(***************************************************************************)
(* Sums.  Sum(f, S) counts the cells of the columns of f over S.           *)
(***************************************************************************)
Column(f, x) == {x} \X (1 .. f[x])

Cells(f, S) == UNION {Column(f, x) : x \in S}

Summable(f, S) == IsFiniteSet(S) /\ \A x \in S : f[x] \in Nat

LEMMA ColumnHeight ==
    ASSUME NEW f, NEW x, f[x] \in Nat
    PROVE  IsFiniteSet(Column(f, x)) /\ Cardinality(Column(f, x)) = f[x]
<1>1. IsFiniteSet({x}) /\ Cardinality({x}) = 1
  BY FS_Singleton
<1>2. IsFiniteSet(1 .. f[x]) /\ Cardinality(1 .. f[x]) = f[x]
  <2>1. 1 \in Int /\ f[x] \in Int
    OBVIOUS
  <2>. QED
    BY <2>1, FS_Interval, SMTT(30)
<1>3. IsFiniteSet({x} \X (1 .. f[x]))
      /\ Cardinality({x} \X (1 .. f[x])) = Cardinality({x}) * Cardinality(1 .. f[x])
  BY <1>1, <1>2, FS_Product
<1>4. 1 * f[x] = f[x]
  OBVIOUS
<1>. QED
  BY <1>1, <1>2, <1>3, <1>4 DEF Column

LEMMA SumType ==
    ASSUME NEW f, NEW S, Summable(f, S)
    PROVE  IsFiniteSet(Cells(f, S)) /\ Sum(f, S) = Cardinality(Cells(f, S)) /\ Sum(f, S) \in Nat
<1>1. IsFiniteSet({Column(f, x) : x \in S})
  <2>. DEFINE g == [x \in S |-> Column(f, x)]
  <2>1. g \in Surjection(S, {Column(f, x) : x \in S})
    BY DEF Surjection
  <2>. QED
    BY <2>1, FS_Surjection DEF Summable
<1>2. \A C \in {Column(f, x) : x \in S} : IsFiniteSet(C)
  BY ColumnHeight DEF Summable
<1>3. IsFiniteSet(Cells(f, S))
  BY <1>1, <1>2, FS_UNION DEF Cells
<1>4. Sum(f, S) = Cardinality(Cells(f, S))
  BY DEF Sum, Cells, Column
<1>. QED
  BY <1>3, <1>4, FS_CardinalityType

LEMMA SumEmpty == \A f : Sum(f, {}) = 0
  BY FS_EmptySet DEF Sum

LEMMA SumDisjoint ==
    ASSUME NEW f, NEW S, NEW T, Summable(f, S), Summable(f, T), S \cap T = {}
    PROVE  Summable(f, S \cup T) /\ Sum(f, S \cup T) = Sum(f, S) + Sum(f, T)
<1>1. Summable(f, S \cup T)
  BY FS_Union DEF Summable
<1>2. Cells(f, S \cup T) = Cells(f, S) \cup Cells(f, T)
  BY DEF Cells
<1>3. Cells(f, S) \cap Cells(f, T) = {}
  BY DEF Cells, Column
<1>4. Cardinality(Cells(f, S \cup T)) = Cardinality(Cells(f, S)) + Cardinality(Cells(f, T))
  <2>1. Cardinality({}) = 0
    BY FS_EmptySet
  <2>2. IsFiniteSet(Cells(f, S)) /\ IsFiniteSet(Cells(f, T))
    BY SumType
  <2>3. Cardinality(Cells(f, S)) \in Nat /\ Cardinality(Cells(f, T)) \in Nat
    BY <2>2, FS_CardinalityType
  <2>4. Cardinality(Cells(f, S) \cup Cells(f, T))
           = Cardinality(Cells(f, S)) + Cardinality(Cells(f, T))
             - Cardinality(Cells(f, S) \cap Cells(f, T))
    BY <2>2, FS_Union
  <2>5. Cardinality(Cells(f, S) \cap Cells(f, T)) = 0
    BY <1>3, <2>1, Zenon
  <2>6. Cardinality(Cells(f, S \cup T)) = Cardinality(Cells(f, S) \cup Cells(f, T))
    BY <1>2, Zenon
  <2>. QED
    BY <2>3, <2>4, <2>5, <2>6
<1>. QED
  BY <1>1, <1>4, SumType

LEMMA SumAdd ==
    ASSUME NEW f, NEW S, NEW x, Summable(f, S), x \notin S, f[x] \in Nat
    PROVE  Summable(f, S \cup {x}) /\ Sum(f, S \cup {x}) = Sum(f, S) + f[x]
<1>1. Summable(f, {x})
  BY FS_Singleton DEF Summable
<1>2. Sum(f, {x}) = f[x]
  <2>1. Cells(f, {x}) = Column(f, x)
    BY DEF Cells
  <2>. QED
    BY <1>1, <2>1, ColumnHeight, SumType
<1>3. S \cap {x} = {}
  OBVIOUS
<1>. QED
  BY <1>1, <1>2, <1>3, SumDisjoint

LEMMA SumRemove ==
    ASSUME NEW f, NEW S, NEW x \in S, Summable(f, S)
    PROVE  Summable(f, S \ {x}) /\ Sum(f, S) = Sum(f, S \ {x}) + f[x]
<1>1. Summable(f, S \ {x})
  BY FS_Subset DEF Summable
<1>2. (S \ {x}) \cup {x} = S /\ f[x] \in Nat
  BY DEF Summable
<1>. QED
  BY <1>1, <1>2, SumAdd

LEMMA SumSame ==
    ASSUME NEW f, NEW g, NEW S, \A x \in S : f[x] = g[x]
    PROVE  Sum(f, S) = Sum(g, S)
  BY DEF Sum

LEMMA SumSubset ==
    ASSUME NEW f, NEW S, NEW T \in SUBSET S, Summable(f, S)
    PROVE  Summable(f, T) /\ Sum(f, T) <= Sum(f, S)
<1>1. Summable(f, T)
  BY FS_Subset DEF Summable
<1>2. Cells(f, T) \in SUBSET Cells(f, S)
  BY DEF Cells
<1>. QED
  BY <1>1, <1>2, SumType, FS_Subset

LEMMA SumMonotone ==
    ASSUME NEW f, NEW g, NEW S, Summable(f, S), Summable(g, S), \A x \in S : f[x] <= g[x]
    PROVE  Sum(f, S) <= Sum(g, S)
<1>1. Cells(f, S) \in SUBSET Cells(g, S)
  BY DEF Cells, Column, Summable
<1>. QED
  BY <1>1, SumType, FS_Subset

\* A sum of sums, by induction over the set.
Splits(h, f, g, S) == \A x \in S : h[x] = f[x] + g[x]

LEMMA SumPlus ==
    ASSUME NEW f, NEW g, NEW h, NEW S, Summable(f, S), Summable(g, S),
           Splits(h, f, g, S)
    PROVE  Summable(h, S) /\ Sum(h, S) = Sum(f, S) + Sum(g, S)
<1>. DEFINE F == {U \in SUBSET S : Sum(h, U) = Sum(f, U) + Sum(g, U)}
<1>1. {} \in F
  BY SumEmpty
<1>2. ASSUME NEW U \in SUBSET S, NEW x \in S \ U, U \in F
      PROVE  U \cup {x} \in F
  <2>1. /\ IsFiniteSet(U)
        /\ \A y \in U : f[y] \in Nat /\ g[y] \in Nat /\ h[y] \in Nat
        /\ f[x] \in Nat /\ g[x] \in Nat /\ h[x] = f[x] + g[x] /\ h[x] \in Nat
    BY FS_Subset DEF Summable, Splits
  <2>2. Summable(f, U) /\ Summable(g, U) /\ Summable(h, U)
    BY <2>1 DEF Summable
  <2>3. /\ Sum(f, U \cup {x}) = Sum(f, U) + f[x]
        /\ Sum(g, U \cup {x}) = Sum(g, U) + g[x]
        /\ Sum(h, U \cup {x}) = Sum(h, U) + h[x]
    BY <2>1, <2>2, SumAdd
  <2>4. Sum(f, U) \in Nat /\ Sum(g, U) \in Nat /\ Sum(h, U) \in Nat
    BY <2>2, SumType
  <2>5. Sum(h, U) = Sum(f, U) + Sum(g, U)
    BY <1>2
  <2>6. Sum(h, U \cup {x}) = Sum(f, U \cup {x}) + Sum(g, U \cup {x})
    BY <2>1, <2>3, <2>4, <2>5
  <2>. QED
    BY <2>6
<1>3. IsFiniteSet(S)
  BY DEF Summable
<1>. HIDE DEF F
<1>4. S \in F
  BY <1>1, <1>2, <1>3, FiniteInduction
<1>5. Summable(h, S)
  BY DEF Summable, Splits
<1>. QED
  BY <1>4, <1>5 DEF F

(***************************************************************************)
(* Occurrences.                                                            *)
(***************************************************************************)
Places(q, E) == {i \in 1 .. Len(q) : q[i] \in E}

Within(q, E) == HowMany(q, LAMBDA e : e \in E)

LEMMA WithinType ==
    ASSUME NEW q \in Seq(Event), NEW E
    PROVE  /\ IsFiniteSet(Places(q, E)) /\ Within(q, E) = Cardinality(Places(q, E))
           /\ Within(q, E) \in Nat /\ Within(q, E) <= Len(q)
<1>1. IsFiniteSet(1 .. Len(q)) /\ Cardinality(1 .. Len(q)) = Len(q)
  <2>1. 1 \in Int /\ Len(q) \in Int /\ Len(q) \in Nat
    OBVIOUS
  <2>. QED
    BY <2>1, FS_Interval, SMTT(30)
<1>2. Places(q, E) \in SUBSET (1 .. Len(q))
  BY DEF Places
<1>3. IsFiniteSet(Places(q, E)) /\ Cardinality(Places(q, E)) <= Len(q)
  BY <1>1, <1>2, FS_Subset
<1>4. Within(q, E) = Cardinality(Places(q, E))
  BY DEF Within, HowMany, Places
<1>. QED
  BY <1>3, <1>4, FS_CardinalityType

LEMMA WithinNothing ==
    /\ \A E : Within(<<>>, E) = 0
    /\ \A q \in Seq(Event) : \A E : (\A i \in 1 .. Len(q) : q[i] \notin E) => Within(q, E) = 0
<1>1. ASSUME NEW q \in Seq(Event), NEW E, \A i \in 1 .. Len(q) : q[i] \notin E
      PROVE  Within(q, E) = 0
  <2>1. Places(q, E) = {}
    BY <1>1 DEF Places
  <2>2. Within(q, E) = Cardinality({})
    BY <2>1, WithinType, Zenon
  <2>. QED
    BY <2>2, FS_EmptySet
<1>2. ASSUME NEW E
      PROVE  Within(<<>>, E) = 0
  <2>1. Places(<<>>, E) = {}
    BY DEF Places
  <2>2. <<>> \in Seq(Event)
    OBVIOUS
  <2>3. Within(<<>>, E) = Cardinality({})
    BY <2>1, <2>2, WithinType, Zenon
  <2>. QED
    BY <2>3, FS_EmptySet
<1>. QED
  BY <1>1, <1>2

LEMMA WithinDisjoint ==
    ASSUME NEW q \in Seq(Event), NEW E, NEW G, E \cap G = {}
    PROVE  Within(q, E \cup G) = Within(q, E) + Within(q, G)
<1>1. Places(q, E \cup G) = Places(q, E) \cup Places(q, G)
  BY DEF Places
<1>2. Places(q, E) \cap Places(q, G) = {}
  BY DEF Places
<1>3. Cardinality(Places(q, E) \cup Places(q, G))
         = Cardinality(Places(q, E)) + Cardinality(Places(q, G))
           - Cardinality(Places(q, E) \cap Places(q, G))
  BY WithinType, FS_Union
<1>4. Cardinality(Places(q, E) \cap Places(q, G)) = 0
  BY <1>2, FS_EmptySet, Zenon
<1>5. Cardinality(Places(q, E \cup G)) = Cardinality(Places(q, E) \cup Places(q, G))
  BY <1>1, Zenon
<1>. QED
  BY <1>3, <1>4, <1>5, WithinType

LEMMA WithinSame ==
    ASSUME NEW q \in Seq(Event), NEW E, NEW G, E \cap Event = G \cap Event
    PROVE  Within(q, E) = Within(q, G)
<1>1. \A i \in 1 .. Len(q) : q[i] \in Event
  OBVIOUS
<1>2. Places(q, E) = Places(q, G)
  BY <1>1 DEF Places
<1>. QED
  BY <1>2, WithinType, Zenon

\* What is counted piece by piece: E is the union of the disjoint p[x].
LEMMA WithinSum ==
    ASSUME NEW q \in Seq(Event), NEW D, IsFiniteSet(D), NEW p, NEW f,
           \A x, y \in D : x # y => p[x] \cap p[y] = {},
           \A x \in D : f[x] = Within(q, p[x])
    PROVE  Summable(f, D) /\ Sum(f, D) = Within(q, UNION {p[x] : x \in D})
<1>0. \A x \in D : f[x] \in Nat
  BY WithinType
<1>. DEFINE All(U) == UNION {p[x] : x \in U}
            F == {U \in SUBSET D : Sum(f, U) = Within(q, All(U))}
<1>1. {} \in F
  <2>1. All({}) = {}
    OBVIOUS
  <2>2. Within(q, {}) = 0
    BY WithinNothing
  <2>3. Within(q, All({})) = 0
    BY <2>1, <2>2, Zenon
  <2>. QED
    BY <2>3, SumEmpty
<1>2. ASSUME NEW U \in SUBSET D, NEW x \in D \ U, U \in F
      PROVE  U \cup {x} \in F
  <2>1. All(U \cup {x}) = All(U) \cup p[x] /\ All(U) \cap p[x] = {}
    OBVIOUS
  <2>2. Within(q, All(U) \cup p[x]) = Within(q, All(U)) + Within(q, p[x])
    BY <2>1, WithinDisjoint
  <2>3. Summable(f, U) /\ f[x] \in Nat
    BY <1>0, FS_Subset DEF Summable
  <2>4. Sum(f, U \cup {x}) = Sum(f, U) + f[x]
    BY <2>3, SumAdd
  <2>5. Sum(f, U) = Within(q, All(U)) /\ f[x] = Within(q, p[x])
    BY <1>2
  <2>6. Within(q, All(U \cup {x})) = Within(q, All(U) \cup p[x])
    BY <2>1, Zenon
  <2>. HIDE DEF All
  <2>7. Sum(f, U \cup {x}) = Within(q, All(U \cup {x}))
    BY <2>2, <2>4, <2>5, <2>6
  <2>. QED
    BY <2>7
<1>. HIDE DEF F
<1>3. D \in F
  BY <1>1, <1>2, FiniteInduction
<1>. QED
  BY <1>0, <1>3 DEF F, Summable

LEMMA WithinAppend ==
    ASSUME NEW q \in Seq(Event), NEW e \in Event, NEW E
    PROVE  Within(Append(q, e), E) = IF e \in E THEN Within(q, E) + 1 ELSE Within(q, E)
<1>. DEFINE n == Len(q)
<1>1. /\ Append(q, e) \in Seq(Event) /\ n \in Nat /\ Len(Append(q, e)) = n + 1
      /\ Append(q, e)[n + 1] = e
      /\ \A i \in 1 .. n : Append(q, e)[i] = q[i]
  OBVIOUS
<1>2. IsFiniteSet(Places(q, E)) /\ n + 1 \notin Places(q, E)
  <2>1. Places(q, E) \subseteq 1 .. n
    BY DEF Places
  <2>. QED
    BY <1>1, <2>1, WithinType
<1>3. CASE e \in E
  <2>1. Places(Append(q, e), E) = Places(q, E) \cup {n + 1}
    BY <1>1, <1>3 DEF Places
  <2>2. Cardinality(Places(q, E) \cup {n + 1}) = Cardinality(Places(q, E)) + 1
    BY <1>2, FS_AddElement
  <2>3. Cardinality(Places(Append(q, e), E)) = Cardinality(Places(q, E) \cup {n + 1})
    BY <2>1, Zenon
  <2>. QED
    BY <1>1, <1>3, <2>2, <2>3, WithinType
<1>4. CASE e \notin E
  <2>1. Places(Append(q, e), E) = Places(q, E)
    BY <1>1, <1>4 DEF Places
  <2>2. Cardinality(Places(Append(q, e), E)) = Cardinality(Places(q, E))
    BY <2>1, Zenon
  <2>. QED
    BY <1>1, <1>4, <2>2, WithinType
<1>. QED
  BY <1>3, <1>4

\* What is left after dropping events from the left.
LEMMA WithinSuffix ==
    ASSUME NEW q \in Seq(Event), NEW m \in 1 .. Len(q), NEW E
    PROVE  LET rest == SubSeq(q, m, Len(q))
           IN  /\ Within(rest, E) <= Within(q, E)
               /\ (\A i \in 1 .. m - 1 : q[i] \notin E) => Within(rest, E) = Within(q, E)
<1>. DEFINE n == Len(q)
            rest == SubSeq(q, m, n)
            T == {i \in Places(q, E) : m <= i}
            g == [j \in Places(rest, E) |-> j + (m - 1)]
<1>1. n \in Nat /\ m \in Nat /\ 1 <= m /\ m <= n
  OBVIOUS
<1>2. /\ rest \in Seq(Event) /\ Len(rest) = n - m + 1
      /\ \A j \in 1 .. n - m + 1 : rest[j] = q[j + (m - 1)]
  OBVIOUS
<1>3. \A j \in Places(rest, E) : j \in Nat /\ j + (m - 1) \in T
  BY <1>1, <1>2 DEF Places
<1>4. \A i \in T : i - (m - 1) \in Places(rest, E) /\ i \in Nat
  BY <1>1, <1>2 DEF Places
<1>. HIDE DEF rest
<1>5. g \in Bijection(Places(rest, E), T)
  <2>1. g \in [Places(rest, E) -> T]
    BY <1>3
  <2>2. \A j, l \in Places(rest, E) : g[j] = g[l] => j = l
    BY <1>1, <1>3
  <2>3. \A i \in T : \E j \in Places(rest, E) : g[j] = i
    <3>. TAKE i \in T
    <3>1. i - (m - 1) \in Places(rest, E) /\ g[i - (m - 1)] = i
      BY <1>1, <1>4
    <3>. QED
      BY <3>1
  <2>4. DOMAIN g = Places(rest, E)
    OBVIOUS
  <2>. HIDE DEF g, T
  <2>5. g \in Injection(Places(rest, E), T)
    BY <2>1, <2>2, <2>4 DEF Injection, IsInjective
  <2>6. g \in Surjection(Places(rest, E), T)
    BY <2>1, <2>3 DEF Surjection
  <2>. QED
    BY <2>5, <2>6 DEF Bijection
<1>6. IsFiniteSet(Places(rest, E)) /\ Within(rest, E) = Cardinality(Places(rest, E))
  BY <1>2, WithinType
<1>7. Cardinality(T) = Cardinality(Places(rest, E))
  BY <1>5, <1>6, FS_Bijection DEF ExistsBijection
<1>8. T \in SUBSET Places(q, E)
  OBVIOUS
<1>9. IsFiniteSet(Places(q, E)) /\ Within(q, E) = Cardinality(Places(q, E))
  BY WithinType
<1>10. Within(rest, E) <= Within(q, E)
  <2>. HIDE DEF T
  <2>. QED
    BY <1>6, <1>7, <1>8, <1>9, FS_Subset
<1>11. ASSUME \A i \in 1 .. m - 1 : q[i] \notin E
       PROVE  Within(rest, E) = Within(q, E)
  <2>1. T = Places(q, E)
    <3>. SUFFICES ASSUME NEW i \in Places(q, E)
                  PROVE  m <= i
      OBVIOUS
    <3>1. i \in 1 .. n /\ q[i] \in E
      BY DEF Places
    <3>. QED
      BY <1>1, <1>11, <3>1
  <2>. QED
    BY <1>6, <1>7, <1>9, <2>1, Zenon
<1>. QED
  BY <1>10, <1>11 DEF rest

(***************************************************************************)
(* Spikes.  Accepted events that are still in the window are still in      *)
(* their bucket, as often as they are standing; older ones may have been   *)
(* dropped.  So a delivery that finds its bucket below the threshold finds *)
(* fewer than that many events standing in any window that it falls into.  *)
(***************************************************************************)
Known(e) == Within(bucket[BurstOf[e.row]], {e})

OwnBuckets ==
    \A b \in Bursts : \A i \in 1 .. Len(bucket[b]) : BurstOf[bucket[b][i].row] = b

StandingKnown ==
    \A e \in Event : /\ Known(e) <= standing[e]
                     /\ clock <= e.time + SpikeWindow => Known(e) = standing[e]

NoneFromFuture ==
    /\ \A e \in Event : standing[e] > 0 => e.time <= clock
    /\ \A r \in Slots : jobs[r].stage = "count" => jobs[r].event.time <= clock

StandingInv ==
    standing \in [Event -> Nat] /\ OwnBuckets /\ StandingKnown /\ NoneFromFuture

LEMMA EventsFinite ==
    ASSUME IsFiniteSet(Rows)
    PROVE  IsFiniteSet(Event)
<1>. DEFINE g == [x \in Rows \X Times |-> [row |-> x[1], time |-> x[2]]]
<1>1. IsFiniteSet(Times)
  <2>1. 0 \in Int /\ MaxClock \in Int
    BY Numbers
  <2>. QED
    BY <2>1, FS_Interval DEF Times
<1>2. IsFiniteSet(Rows \X Times)
  BY <1>1, FS_Product
<1>3. g \in Surjection(Rows \X Times, Event)
  <2>1. g \in [Rows \X Times -> Event]
    BY DEF Event
  <2>2. \A e \in Event : \E x \in Rows \X Times : g[x] = e
    <3>. TAKE e \in Event
    <3>1. <<e.row, e.time>> \in Rows \X Times /\ g[<<e.row, e.time>>] = e
      BY DEF Event
    <3>. QED
      BY <3>1
  <2>. QED
    BY <2>1, <2>2 DEF Surjection
<1>. QED
  BY <1>2, <1>3, FS_Surjection

LEMMA EventParts ==
    ASSUME NEW e \in Event
    PROVE  e.row \in Rows /\ e.time \in Times /\ e.time \in Nat /\ BurstOf[e.row] \in Bursts
  BY Numbers DEF Event, Times

LEMMA BucketType ==
    ASSUME ControlTypes, NEW b \in Bursts
    PROVE  bucket[b] \in Seq(Event)
  BY DEF ControlTypes

\* How the model counts the occurrences of one event.
LEMMA OccurrencesOfOne ==
    \A q \in Seq(Event) : \A e : HowMany(q, LAMBDA x : x = e) = Within(q, {e})
<1>. SUFFICES ASSUME NEW q \in Seq(Event), NEW e
              PROVE  HowMany(q, LAMBDA x : x = e) = Within(q, {e})
  OBVIOUS
<1>1. {i \in 1 .. Len(q) : q[i] = e} = Places(q, {e})
  BY DEF Places
<1>2. HowMany(q, LAMBDA x : x = e) = Cardinality({i \in 1 .. Len(q) : q[i] = e})
  BY DEF HowMany
<1>. QED
  BY <1>1, <1>2, WithinType, Zenon

\* Dropping the events before the window leaves those in the window.
LEMMA WindowKeeps ==
    ASSUME ControlTypes, NEW b \in Bursts, NEW E
    PROVE  /\ Within(InWindow(b), E) <= Within(bucket[b], E)
           /\ (\A e \in E \cap Event : clock <= e.time + SpikeWindow)
                 => Within(InWindow(b), E) = Within(bucket[b], E)
<1>. DEFINE q == bucket[b]
<1>1. q \in Seq(Event) /\ Len(q) \in Nat
  BY DEF ControlTypes
<1>2. \A i \in 1 .. Len(q) : q[i] \in Event
  BY <1>1
<1>3. Inside(b) = {i \in 1 .. Len(q) : clock <= q[i].time + SpikeWindow}
  BY DEF Inside
<1>4. CASE Inside(b) = {}
  <2>1. Within(InWindow(b), E) = 0
    BY <1>4, WithinNothing DEF InWindow
  <2>2. ASSUME \A e \in E \cap Event : clock <= e.time + SpikeWindow
        PROVE  Within(q, E) = 0
    <3>1. \A i \in 1 .. Len(q) : q[i] \notin E
      BY <1>2, <1>3, <1>4, <2>2
    <3>. QED
      BY <1>1, <3>1, WithinNothing
  <2>3. Within(q, E) \in Nat
    BY <1>1, WithinType
  <2>. QED
    BY <2>1, <2>2, <2>3
<1>5. CASE Inside(b) # {}
  <2>1. \E x \in Inside(b) : \A y \in Inside(b) : x <= y
    BY <1>1, <1>3, <1>5, LeastNumber
  <2>2. PICK m \in Inside(b) : m = Min(Inside(b)) /\ \A y \in Inside(b) : m <= y
    BY <2>1 DEF Min
  <2>3. m \in 1 .. Len(q)
    BY <1>3
  <2>4. InWindow(b) = SubSeq(q, m, Len(q))
    BY <1>5, <2>2 DEF InWindow
  <2>5. ASSUME \A e \in E \cap Event : clock <= e.time + SpikeWindow
        PROVE  \A i \in 1 .. m - 1 : q[i] \notin E
    <3>. SUFFICES ASSUME NEW i \in 1 .. m - 1, q[i] \in E
                  PROVE  FALSE
      OBVIOUS
    <3>1. i \in 1 .. Len(q) /\ i < m /\ i \in Nat /\ m \in Nat
      BY <1>1, <2>3
    <3>2. i \in Inside(b)
      BY <1>2, <1>3, <2>5, <3>1
    <3>. QED
      BY <2>2, <3>1, <3>2
  <2>. HIDE DEF q
  <2>6. /\ Within(SubSeq(q, m, Len(q)), E) <= Within(q, E)
        /\ (\A i \in 1 .. m - 1 : q[i] \notin E)
              => Within(SubSeq(q, m, Len(q)), E) = Within(q, E)
    BY <1>1, <2>3, WithinSuffix
  <2>. QED
    BY <2>4, <2>5, <2>6 DEF q
<1>. QED
  BY <1>4, <1>5

\* The events that are left are events of the bucket.
LEMMA WindowOwn ==
    ASSUME ControlTypes, NEW b \in Bursts, OwnBuckets
    PROVE  \A i \in 1 .. Len(InWindow(b)) : BurstOf[InWindow(b)[i].row] = b
<1>. SUFFICES ASSUME NEW i \in 1 .. Len(InWindow(b)), BurstOf[InWindow(b)[i].row] # b
              PROVE  FALSE
  OBVIOUS
<1>. DEFINE e == InWindow(b)[i]
<1>1. InWindow(b) \in Seq(Event) /\ bucket[b] \in Seq(Event)
  BY WindowType, BucketType
<1>2. i \in Places(InWindow(b), {e})
  BY DEF Places
<1>3. Within(InWindow(b), {e}) # 0
  BY <1>1, <1>2, WithinType, FS_EmptySet
<1>4. \A j \in 1 .. Len(bucket[b]) : bucket[b][j] \notin {e}
  BY DEF OwnBuckets
<1>. HIDE DEF e
<1>5. Within(bucket[b], {e}) = 0
  BY <1>1, <1>4, WithinNothing
<1>6. Within(InWindow(b), {e}) <= 0 /\ Within(InWindow(b), {e}) \in Nat
  BY <1>1, <1>5, WindowKeeps, WithinType
<1>. QED
  BY <1>3, <1>6

LEMMA InitStanding == Init => StandingInv
<1>. SUFFICES ASSUME Init
              PROVE  StandingInv
  OBVIOUS
<1>1. clock = 0 /\ standing = [e \in Event |-> 0] /\ jobs = [r \in Slots |-> NoJob]
      /\ bucket = [b \in Bursts |-> <<>>]
  BY DEF Init
<1>2. \A e \in Event : Known(e) = 0
  BY <1>1, EventParts, WithinNothing DEF Known
<1>. QED
  BY <1>1, <1>2 DEF StandingInv, OwnBuckets, StandingKnown, NoneFromFuture, NoJob

\* A step that leaves what is standing and the buckets alone and takes no
\* delivery in.
LEMMA StandingQuiet ==
    ASSUME ControlTypes, ControlTypes', StandingInv, UNCHANGED <<standing, bucket>>,
           clock <= clock',
           \A r \in Slots : jobs'[r] = jobs[r] \/ jobs'[r].stage # "count"
    PROVE  StandingInv'
<1>1. clock \in Nat /\ clock' \in Nat
  BY Numbers DEF ControlTypes, Times
<1>2. \A e \in Event : e.time \in Nat
  BY EventParts
<1>3. \A e \in Event : Known(e)' = Known(e)
  BY DEF Known
<1>4. StandingKnown'
  BY <1>1, <1>2, <1>3, Numbers DEF StandingInv, StandingKnown
<1>5. NoneFromFuture'
  <2>1. \A e \in Event : standing'[e] > 0 => e.time <= clock'
    BY <1>1, <1>2 DEF StandingInv, NoneFromFuture
  <2>2. ASSUME NEW r \in Slots, jobs'[r].stage = "count"
        PROVE  jobs'[r].event.time <= clock'
    <3>1. jobs'[r] = jobs[r] /\ jobs[r].event \in Event
      BY <2>2 DEF ControlTypes, Jobs
    <3>. QED
      BY <1>1, <1>2, <2>2, <3>1 DEF StandingInv, NoneFromFuture
  <2>. QED
    BY <2>1, <2>2 DEF NoneFromFuture
<1>. QED
  BY <1>4, <1>5 DEF StandingInv, OwnBuckets

\* The bucket of the delivery is cut to the window, and emptied if the
\* delivery is blocked; what was in the window is not standing any more then.
LEMMA StandingArrives ==
    ASSUME ControlTypes, ControlTypes', StandingInv, NEW r \in Slots, NEW k \in Keys,
           NEW w \in Rows, Admit(r, k, w) \/ Block(r, k, w)
    PROVE  /\ StandingInv'
           /\ \A e \in Event : standing'[e] <= standing[e]
           /\ Block(r, k, w) =>
                 \A e \in Event :
                    standing[e] = standing'[e] + Within(InWindow(BurstOf[w]), {e})
<1>. SUFFICES ASSUME NEW b \in Bursts, b = BurstOf[w]
              PROVE  /\ StandingInv'
                     /\ \A e \in Event : standing'[e] <= standing[e]
                     /\ Block(r, k, w) =>
                           \A e \in Event :
                              standing[e] = standing'[e] + Within(InWindow(b), {e})
  BY Numbers
<1>1. clock' = clock /\ clock \in Nat
  <2>1. clock' = clock
    BY DEF Admit, Block, Arrives
  <2>. QED
    BY <2>1, Numbers DEF ControlTypes, Times
<1>2. InWindow(b) \in Seq(Event) /\ bucket[b] \in Seq(Event)
  BY WindowType, BucketType
<1>3. \A e \in Event : Within(InWindow(b), {e}) \in Nat /\ Known(e) \in Nat /\ standing[e] \in Nat
  <2>. TAKE e \in Event
  <2>1. bucket[BurstOf[e.row]] \in Seq(Event)
    BY EventParts, BucketType
  <2>. QED
    BY <1>2, <2>1, WithinType DEF Known, StandingInv
<1>4. \A e \in Event : BurstOf[e.row] = b =>
         /\ Within(InWindow(b), {e}) <= Known(e)
         /\ clock <= e.time + SpikeWindow => Within(InWindow(b), {e}) = Known(e)
  <2>. SUFFICES ASSUME NEW e \in Event, BurstOf[e.row] = b
                PROVE  /\ Within(InWindow(b), {e}) <= Known(e)
                       /\ clock <= e.time + SpikeWindow => Within(InWindow(b), {e}) = Known(e)
    OBVIOUS
  <2>. QED
    BY WindowKeeps DEF Known
<1>5. \A e \in Event : BurstOf[e.row] # b => Within(InWindow(b), {e}) = 0
  <2>. SUFFICES ASSUME NEW e \in Event, BurstOf[e.row] # b
                PROVE  Within(InWindow(b), {e}) = 0
    OBVIOUS
  <2>1. \A i \in 1 .. Len(InWindow(b)) : InWindow(b)[i] \notin {e}
    BY WindowOwn DEF StandingInv
  <2>. QED
    BY <1>2, <2>1, WithinNothing
<1>6. CASE Admit(r, k, w)
  <2>1. bucket' = [bucket EXCEPT ![b] = InWindow(b)] /\ standing' = standing
        /\ jobs' = [jobs EXCEPT ![r] = [stage |-> "count", key |-> k,
                                        event |-> [row |-> w, time |-> clock]]]
    BY <1>6 DEF Admit
  <2>2. OwnBuckets'
    <3>. SUFFICES ASSUME NEW c \in Bursts, NEW i \in 1 .. Len(bucket'[c])
                  PROVE  BurstOf[bucket'[c][i].row] = c
      BY DEF OwnBuckets
    <3>1. CASE c = b
      <4>1. bucket'[c] = InWindow(b)
        BY <2>1, <3>1 DEF ControlTypes
      <4>. QED
        BY <3>1, <4>1, WindowOwn DEF StandingInv
    <3>2. CASE c # b
      BY <2>1, <3>2 DEF ControlTypes, StandingInv, OwnBuckets
    <3>. QED
      BY <3>1, <3>2
  <2>3. \A e \in Event : IF BurstOf[e.row] = b THEN Known(e)' = Within(InWindow(b), {e})
                                               ELSE Known(e)' = Known(e)
    BY <2>1, EventParts DEF Known, ControlTypes
  <2>4. StandingKnown'
    <3>. SUFFICES ASSUME NEW e \in Event
                  PROVE  /\ Known(e)' <= standing'[e]
                         /\ clock' <= e.time + SpikeWindow => Known(e)' = standing'[e]
      BY DEF StandingKnown
    <3>1. /\ Known(e) <= standing[e]
          /\ clock <= e.time + SpikeWindow => Known(e) = standing[e]
      BY DEF StandingInv, StandingKnown
    <3>2. e.time \in Nat /\ standing'[e] = standing[e]
      BY <2>1, EventParts
    <3>3. Within(InWindow(b), {e}) \in Nat /\ Known(e) \in Nat /\ standing[e] \in Nat
      BY <1>3
    <3>4. BurstOf[e.row] = b =>
             /\ Within(InWindow(b), {e}) <= Known(e)
             /\ clock <= e.time + SpikeWindow => Within(InWindow(b), {e}) = Known(e)
      BY <1>4
    <3>5. IF BurstOf[e.row] = b THEN Known(e)' = Within(InWindow(b), {e})
                                ELSE Known(e)' = Known(e)
      BY <2>3
    <3>. QED
      BY <1>1, <3>1, <3>2, <3>3, <3>4, <3>5, Numbers
  <2>5. NoneFromFuture'
    BY <1>1, <2>1 DEF ControlTypes, StandingInv, NoneFromFuture
  <2>6. ~Block(r, k, w)
    BY <1>6 DEF Admit, Block
  <2>. QED
    BY <1>3, <2>1, <2>2, <2>4, <2>5, <2>6 DEF StandingInv
<1>7. CASE Block(r, k, w)
  <2>1. /\ bucket' = [bucket EXCEPT ![b] = <<>>]
        /\ jobs'[r].stage = "block" /\ \A q \in Slots \ {r} : jobs'[q] = jobs[q]
    BY <1>7 DEF Block, ControlTypes
  <2>2. standing' = [e \in Event |-> standing[e] - Within(InWindow(b), {e})]
    <3>1. standing' = [e \in Event |-> standing[e] - HowMany(InWindow(b), LAMBDA x : x = e)]
      BY <1>7 DEF Block
    <3>2. \A e \in Event : HowMany(InWindow(b), LAMBDA x : x = e) = Within(InWindow(b), {e})
      BY <1>2, OccurrencesOfOne
    <3>. QED
      BY <3>1, <3>2
  <2>3. \A e \in Event : /\ standing'[e] = standing[e] - Within(InWindow(b), {e})
                         /\ Within(InWindow(b), {e}) <= standing[e]
                         /\ standing'[e] \in Nat
    <3>. SUFFICES ASSUME NEW e \in Event
                  PROVE  /\ standing'[e] = standing[e] - Within(InWindow(b), {e})
                         /\ Within(InWindow(b), {e}) <= standing[e]
                         /\ standing'[e] \in Nat
      OBVIOUS
    <3>1. Known(e) <= standing[e]
      BY DEF StandingInv, StandingKnown
    <3>2. standing'[e] = standing[e] - Within(InWindow(b), {e})
      BY <2>2
    <3>. QED
      BY <1>3, <1>4, <1>5, <3>1, <3>2
  <2>4. standing' \in [Event -> Nat]
    BY <2>2, <2>3
  <2>5. OwnBuckets'
    <3>. SUFFICES ASSUME NEW c \in Bursts, NEW i \in 1 .. Len(bucket'[c])
                  PROVE  BurstOf[bucket'[c][i].row] = c
      BY DEF OwnBuckets
    <3>1. c # b
      BY <2>1 DEF ControlTypes
    <3>. QED
      BY <2>1, <3>1 DEF ControlTypes, StandingInv, OwnBuckets
  <2>6. \A e \in Event : IF BurstOf[e.row] = b THEN Known(e)' = 0 ELSE Known(e)' = Known(e)
    BY <2>1, EventParts, WithinNothing DEF Known, ControlTypes
  <2>7. StandingKnown'
    <3>. SUFFICES ASSUME NEW e \in Event
                  PROVE  /\ Known(e)' <= standing'[e]
                         /\ clock' <= e.time + SpikeWindow => Known(e)' = standing'[e]
      BY DEF StandingKnown
    <3>1. /\ Known(e) <= standing[e]
          /\ clock <= e.time + SpikeWindow => Known(e) = standing[e]
      BY DEF StandingInv, StandingKnown
    <3>2. e.time \in Nat
      BY EventParts
    <3>3. /\ Within(InWindow(b), {e}) \in Nat /\ Known(e) \in Nat /\ standing[e] \in Nat
          /\ standing'[e] \in Nat /\ standing'[e] = standing[e] - Within(InWindow(b), {e})
      BY <1>3, <2>3
    <3>4. CASE BurstOf[e.row] = b
      <4>1. Known(e)' = 0
        BY <2>6, <3>4
      <4>2. clock <= e.time + SpikeWindow => Within(InWindow(b), {e}) = Known(e)
        BY <1>4, <3>4
      <4>. QED
        BY <1>1, <3>1, <3>2, <3>3, <4>1, <4>2, Numbers
    <3>5. CASE BurstOf[e.row] # b
      <4>1. Known(e)' = Known(e) /\ Within(InWindow(b), {e}) = 0
        BY <1>5, <2>6, <3>5
      <4>. QED
        BY <1>1, <3>1, <3>2, <3>3, <4>1, Numbers
    <3>. QED
      BY <3>4, <3>5
  <2>8. NoneFromFuture'
    <3>1. ASSUME NEW e \in Event, standing'[e] > 0
          PROVE  e.time <= clock'
      <4>1. standing[e] > 0
        <5>1. /\ Within(InWindow(b), {e}) \in Nat /\ standing[e] \in Nat
              /\ standing'[e] = standing[e] - Within(InWindow(b), {e})
          BY <1>3, <2>3
        <5>. QED
          BY <3>1, <5>1
      <4>. QED
        BY <1>1, <4>1 DEF StandingInv, NoneFromFuture
    <3>2. \A q \in Slots : jobs'[q].stage = "count" => jobs'[q].event.time <= clock'
      BY <1>1, <2>1 DEF StandingInv, NoneFromFuture
    <3>. QED
      BY <3>1, <3>2 DEF NoneFromFuture
  <2>9. \A e \in Event : /\ standing'[e] <= standing[e]
                         /\ standing[e] = standing'[e] + Within(InWindow(b), {e})
    <3>. TAKE e \in Event
    <3>1. /\ Within(InWindow(b), {e}) \in Nat /\ standing[e] \in Nat
          /\ standing'[e] = standing[e] - Within(InWindow(b), {e})
      BY <1>3, <2>3
    <3>. QED
      BY <3>1
  <2>. QED
    BY <2>4, <2>5, <2>7, <2>8, <2>9 DEF StandingInv
<1>. QED
  BY <1>6, <1>7

LEMMA CountedEvent ==
    ASSUME ControlTypes, NEW r \in Slots, Count(r)
    PROVE  /\ jobs[r].event \in Event /\ jobs[r].stage = "count"
           /\ standing' = [standing EXCEPT ![jobs[r].event] = standing[jobs[r].event] + 1]
           /\ bucket' = [bucket EXCEPT ![BurstOf[jobs[r].event.row]]
                            = Append(bucket[BurstOf[jobs[r].event.row]], jobs[r].event)]
           /\ jobs' = [jobs EXCEPT ![r] = NoJob] /\ clock' = clock
<1>1. jobs[r] \in [stage : {"count"}, key : Keys, event : Event]
  BY DEF Count, ControlTypes, Jobs
<1>. QED
  BY <1>1 DEF Count, Finish

\* The places of a sequence that has grown by one element.
LEMMA Appended ==
    ASSUME NEW s \in Seq(Event), NEW e \in Event, NEW i \in 1 .. Len(Append(s, e))
    PROVE  (i \in 1 .. Len(s) /\ Append(s, e)[i] = s[i]) \/ Append(s, e)[i] = e
OBVIOUS

LEMMA StandingCount ==
    ASSUME ControlTypes, ControlTypes', StandingInv, NEW r \in Slots, Count(r)
    PROVE  StandingInv'
<1>. SUFFICES ASSUME NEW e \in Event, NEW b \in Bursts, e = jobs[r].event, b = BurstOf[e.row]
              PROVE  StandingInv'
  BY CountedEvent, EventParts
<1>1. /\ standing' = [standing EXCEPT ![e] = standing[e] + 1]
      /\ bucket' = [bucket EXCEPT ![b] = Append(bucket[b], e)]
      /\ jobs' = [jobs EXCEPT ![r] = NoJob] /\ clock' = clock /\ jobs[r].stage = "count"
  BY CountedEvent
<1>2. standing \in [Event -> Nat] /\ bucket[b] \in Seq(Event) /\ clock \in Nat
  BY BucketType, Numbers DEF StandingInv, ControlTypes, Times
<1>3. standing' \in [Event -> Nat]
  BY <1>1, <1>2
<1>4. OwnBuckets'
  <2>. SUFFICES ASSUME NEW c \in Bursts, NEW i \in 1 .. Len(bucket'[c])
                PROVE  BurstOf[bucket'[c][i].row] = c
    BY DEF OwnBuckets
  <2>1. CASE c = b
    <3>1. bucket'[c] = Append(bucket[b], e)
      BY <1>1, <2>1 DEF ControlTypes
    <3>2. bucket'[c][i] = Append(bucket[b], e)[i]
      BY <3>1, Zenon
    <3>3. bucket[b] \in Seq(Event) /\ i \in 1 .. Len(Append(bucket[b], e))
      BY <1>2, <3>1, Zenon
    <3>4. \/ i \in 1 .. Len(bucket[b]) /\ bucket'[c][i] = bucket[b][i]
          \/ bucket'[c][i] = e
      BY <3>2, <3>3, Appended, Zenon
    <3>5. CASE i \in 1 .. Len(bucket[b]) /\ bucket'[c][i] = bucket[b][i]
      <4>1. BurstOf[bucket[b][i].row] = b
        BY <3>5, Zenon DEF StandingInv, OwnBuckets
      <4>. QED
        BY <2>1, <3>5, <4>1, Zenon
    <3>. QED
      BY <2>1, <3>4, <3>5, Zenon
  <2>2. CASE c # b
    BY <1>1, <2>2 DEF ControlTypes, StandingInv, OwnBuckets
  <2>. QED
    BY <2>1, <2>2
<1>5. StandingKnown'
  <2>. SUFFICES ASSUME NEW x \in Event
                PROVE  /\ Known(x)' <= standing'[x]
                       /\ clock' <= x.time + SpikeWindow => Known(x)' = standing'[x]
    BY DEF StandingKnown
  <2>1. /\ Known(x) <= standing[x]
        /\ clock <= x.time + SpikeWindow => Known(x) = standing[x]
    BY DEF StandingInv, StandingKnown
  <2>2. Known(x) \in Nat /\ standing[x] \in Nat
    BY <1>2, EventParts, BucketType, WithinType DEF Known
  <2>3. IF x = e THEN Known(x)' = Known(x) + 1 /\ standing'[x] = standing[x] + 1
                 ELSE Known(x)' = Known(x) /\ standing'[x] = standing[x]
    <3>1. CASE BurstOf[x.row] # b
      BY <1>1, <1>2, <3>1, EventParts DEF Known, ControlTypes
    <3>2. CASE BurstOf[x.row] = b
      <4>1. Known(x) = Within(bucket[b], {x}) /\ Known(x)' = Within(Append(bucket[b], e), {x})
        BY <1>1, <3>2 DEF Known, ControlTypes
      <4>2. Within(Append(bucket[b], e), {x})
               = IF e \in {x} THEN Within(bucket[b], {x}) + 1 ELSE Within(bucket[b], {x})
        BY <1>2, WithinAppend
      <4>. QED
        BY <1>1, <1>2, <4>1, <4>2
    <3>. QED
      BY <3>1, <3>2
  <2>. QED
    BY <1>1, <2>1, <2>2, <2>3
<1>6. NoneFromFuture'
  <2>1. e.time <= clock
    BY <1>1 DEF StandingInv, NoneFromFuture
  <2>2. \A x \in Event : standing'[x] > 0 => x.time <= clock'
    BY <1>1, <1>2, <2>1 DEF StandingInv, NoneFromFuture
  <2>3. \A q \in Slots : jobs'[q].stage = "count" => jobs'[q].event.time <= clock'
    BY <1>1 DEF ControlTypes, NoJob, StandingInv, NoneFromFuture
  <2>. QED
    BY <2>2, <2>3 DEF NoneFromFuture
<1>. QED
  BY <1>3, <1>4, <1>5, <1>6 DEF StandingInv

LEMMA NextStanding ==
    ASSUME ControlTypes, StandingInv, [Next]_vars
    PROVE  StandingInv'
<1>1. ControlTypes' /\ clock \in Nat
  BY NextTypes, Numbers DEF ControlTypes, Times
<1>2. ASSUME UNCHANGED <<standing, bucket>>, clock <= clock',
             \A r \in Slots : jobs'[r] = jobs[r] \/ jobs'[r].stage # "count"
      PROVE  StandingInv'
  BY <1>1, <1>2, StandingQuiet
<1>3. CASE Tick
  BY <1>1, <1>2, <1>3 DEF Tick
<1>4. CASE Switch \/ (\E k \in Keys : Deduplicate(k)) \/ UNCHANGED vars
  BY <1>1, <1>2, <1>4 DEF Switch, Deduplicate, vars
<1>5. ASSUME NEW r \in Slots, Revoke(r) \/ Lose(r)
      PROVE  StandingInv'
  <2>1. \A q \in Slots : jobs'[q] = jobs[q] \/ jobs'[q].stage # "count"
    BY <1>5 DEF Revoke, Lose, Finish, NoJob, ControlTypes
  <2>2. UNCHANGED <<clock, standing, bucket>>
    BY <1>5 DEF Revoke, Lose
  <2>. QED
    BY <1>1, <1>2, <2>1, <2>2
<1>6. ASSUME NEW r \in Slots, Count(r)
      PROVE  StandingInv'
  BY <1>1, <1>6, StandingCount
<1>7. ASSUME NEW r \in Slots, NEW k \in Keys, NEW w \in Rows, Admit(r, k, w) \/ Block(r, k, w)
      PROVE  StandingInv'
  BY <1>1, <1>7, StandingArrives
<1>. QED
  BY <1>3, <1>4, <1>5, <1>6, <1>7 DEF Next

SpikeEvents(b, s) ==
    {e \in Event : BurstOf[e.row] = b /\ e.time \in s .. s + SpikeWindow}

InFlightSince(b, s) ==
    {r \in Slots : jobs[r].stage = "count" /\ jobs[r].event \in SpikeEvents(b, s)}

RoomSince(b, s) ==
    Sum(standing, SpikeEvents(b, s)) + Cardinality(InFlightSince(b, s))
       < SpikeThreshold + Cardinality(Slots)

SpikeInv == \A b \in Bursts : \A s \in 0 .. clock : RoomSince(b, s)

LEMMA SumZero ==
    ASSUME NEW f, NEW S, \A x \in S : f[x] = 0
    PROVE  Sum(f, S) = 0
<1>1. UNION {{x} \X (1 .. f[x]) : x \in S} = {}
  <2>1. \A x \in S : 1 .. f[x] = {}
    OBVIOUS
  <2>. QED
    BY <2>1
<1>. QED
  BY <1>1, FS_EmptySet, Zenon DEF Sum

LEMMA SumIncrement ==
    ASSUME NEW f, NEW g, NEW S, NEW x, Summable(f, S), x \in S => g[x] = f[x] + 1,
           \A y \in S \ {x} : g[y] = f[y]
    PROVE  Summable(g, S) /\ Sum(g, S) = IF x \in S THEN Sum(f, S) + 1 ELSE Sum(f, S)
<1>1. Summable(g, S)
  BY DEF Summable
<1>2. CASE x \notin S
  BY <1>1, <1>2, SumSame
<1>3. CASE x \in S
  <2>1. Sum(f, S) = Sum(f, S \ {x}) + f[x] /\ Summable(f, S \ {x})
    BY <1>3, SumRemove
  <2>2. Sum(g, S) = Sum(g, S \ {x}) + g[x]
    BY <1>1, <1>3, SumRemove
  <2>3. Sum(g, S \ {x}) = Sum(f, S \ {x})
    BY SumSame
  <2>4. f[x] \in Nat /\ Sum(f, S \ {x}) \in Nat
    BY <1>3, <2>1, SumType DEF Summable
  <2>. QED
    BY <1>1, <1>3, <2>1, <2>2, <2>3, <2>4
<1>. QED
  BY <1>2, <1>3

LEMMA StandingSummable ==
    ASSUME IsFiniteSet(Rows), NEW f \in [Event -> Nat], NEW E \in SUBSET Event
    PROVE  Summable(f, E)
  BY EventsFinite, FS_Subset DEF Summable

\* A step after which no more events stand and no more are in flight.
LEMMA SpikeQuiet ==
    ASSUME IsFiniteSet(Rows), StandingInv, StandingInv',
           \A e \in Event : standing'[e] <= standing[e],
           NEW b, NEW s, RoomSince(b, s), InFlightSince(b, s)' \subseteq InFlightSince(b, s)
    PROVE  RoomSince(b, s)'
<1>. DEFINE E == SpikeEvents(b, s)
<1>1. E \in SUBSET Event
  BY DEF SpikeEvents
<1>. HIDE DEF E
<1>2. Summable(standing, E) /\ Summable(standing', E)
  BY <1>1, StandingSummable DEF StandingInv
<1>3. Sum(standing', E) <= Sum(standing, E)
  BY <1>1, <1>2, SumMonotone
<1>4. Sum(standing, E) \in Nat /\ Sum(standing', E) \in Nat
  BY <1>2, SumType
<1>5. InFlightSince(b, s) \in SUBSET Slots
  BY DEF InFlightSince
<1>6. /\ Cardinality(InFlightSince(b, s)') <= Cardinality(InFlightSince(b, s))
      /\ Cardinality(InFlightSince(b, s)') \in Nat /\ Cardinality(InFlightSince(b, s)) \in Nat
  BY <1>5, SlotSubsets, FS_Subset, FS_CardinalityType
<1>7. Sum(standing, E) + Cardinality(InFlightSince(b, s))
         < SpikeThreshold + Cardinality(Slots)
  BY DEF RoomSince, E
<1>8. Sum(standing', E) + Cardinality(InFlightSince(b, s)')
         < SpikeThreshold + Cardinality(Slots)
  BY <1>3, <1>4, <1>6, <1>7, SlotSubsets, Numbers
<1>. QED
  BY <1>8 DEF RoomSince, E, SpikeEvents

\* A window that no event is in.
LEMMA SpikeEmpty ==
    ASSUME ControlTypes, StandingInv, NEW b, NEW s \in Nat, clock < s
    PROVE  Sum(standing, SpikeEvents(b, s)) = 0 /\ InFlightSince(b, s) = {}
<1>0. clock \in Nat
  BY Numbers DEF ControlTypes, Times
<1>1. ASSUME NEW e \in SpikeEvents(b, s)
      PROVE  e \in Event /\ clock < e.time /\ e.time \in Nat
  <2>1. e \in Event /\ e.time \in s .. s + SpikeWindow
    BY DEF SpikeEvents
  <2>. QED
    BY <1>0, <2>1, EventParts, Numbers
<1>2. \A e \in SpikeEvents(b, s) : standing[e] = 0
  <2>. TAKE e \in SpikeEvents(b, s)
  <2>1. ~(standing[e] > 0) /\ standing[e] \in Nat
    BY <1>0, <1>1 DEF StandingInv, NoneFromFuture
  <2>. QED
    BY <2>1
<1>3. \A r \in Slots : jobs[r].stage = "count" => jobs[r].event \notin SpikeEvents(b, s)
  BY <1>0, <1>1 DEF StandingInv, NoneFromFuture
<1>. QED
  BY <1>2, <1>3, SumZero DEF InFlightSince

\* The events of a set, one by one.
LEMMA OccurrencesSum ==
    ASSUME IsFiniteSet(Rows), NEW q \in Seq(Event), NEW E \in SUBSET Event, NEW f,
           \A x \in E : f[x] = Within(q, {x})
    PROVE  Summable(f, E) /\ Sum(f, E) = Within(q, E)
<1>. DEFINE p == [x \in E |-> {x}]
<1>1. \A x, y \in E : x # y => p[x] \cap p[y] = {}
  OBVIOUS
<1>2. \A x \in E : f[x] = Within(q, p[x])
  OBVIOUS
<1>3. UNION {p[x] : x \in E} = E
  OBVIOUS
<1>4. IsFiniteSet(E)
  BY EventsFinite, FS_Subset
<1>. HIDE DEF p
<1>5. Summable(f, E) /\ Sum(f, E) = Within(q, UNION {p[x] : x \in E})
  BY <1>1, <1>2, <1>4, WithinSum, SMTT(30)
<1>. QED
  BY <1>3, <1>5, Zenon

\* A delivery is admitted: the events of its window are in its bucket.
LEMMA SpikeAdmit ==
    ASSUME IsFiniteSet(Rows), ControlTypes, StandingInv, StandingInv',
           NEW r \in Slots, NEW k \in Keys, NEW w \in Rows, Admit(r, k, w),
           NEW b \in Bursts, NEW s \in 0 .. clock, RoomSince(b, s)
    PROVE  RoomSince(b, s)'
<1>. DEFINE E == SpikeEvents(b, s)
            e == [row |-> w, time |-> clock]
<1>1. /\ jobs' = [jobs EXCEPT ![r] = [stage |-> "count", key |-> k, event |-> e]]
      /\ standing' = standing /\ jobs[r] = NoJob /\ ~Spike(BurstOf[w])
  BY DEF Admit, Arrives
<1>2. clock \in Nat /\ s \in Nat /\ s <= clock /\ e \in Event
  BY Numbers DEF ControlTypes, Times, Event
<1>3. E \in SUBSET Event
  BY DEF SpikeEvents
<1>4. CASE e \notin E
  <2>1. InFlightSince(b, s)' \subseteq InFlightSince(b, s)
    BY <1>1, <1>4 DEF InFlightSince, ControlTypes, SpikeEvents
  <2>2. \A x \in Event : standing'[x] <= standing[x]
    BY <1>1 DEF StandingInv
  <2>. QED
    BY <2>1, <2>2, SpikeQuiet
<1>5. CASE e \in E
  <2>1. b = BurstOf[w] /\ clock <= s + SpikeWindow
    BY <1>5 DEF SpikeEvents
  <2>2. \A x \in E : x \in Event /\ BurstOf[x.row] = b /\ clock <= x.time + SpikeWindow
    <3>. TAKE x \in E
    <3>1. x \in Event /\ BurstOf[x.row] = b /\ x.time \in s .. s + SpikeWindow
      BY DEF SpikeEvents
    <3>. QED
      BY <1>2, <2>1, <3>1, Numbers
  <2>. HIDE DEF E
  <2>3. \A x \in E : standing[x] = Within(bucket[b], {x})
    BY <2>2 DEF StandingInv, StandingKnown, Known
  <2>4. Sum(standing, E) = Within(bucket[b], E)
    BY <1>3, <2>3, BucketType, OccurrencesSum
  <2>5. Within(bucket[b], E) = Within(InWindow(b), E)
    BY <2>2, WindowKeeps
  <2>6. InWindow(b) \in Seq(Event) /\ Len(InWindow(b)) < SpikeThreshold
    <3>1. InWindow(b) \in Seq(Event)
      BY WindowType
    <3>2. ~(Len(InWindow(b)) >= SpikeThreshold)
      BY <1>1, <2>1 DEF Spike
    <3>. QED
      BY <3>1, <3>2, Numbers
  <2>7. Within(InWindow(b), E) <= Len(InWindow(b)) /\ Within(InWindow(b), E) \in Nat
    BY <2>6, WithinType
  <2>8. InFlightSince(b, s)' \in SUBSET Slots
    BY DEF InFlightSince
  <2>9. Cardinality(InFlightSince(b, s)') <= Cardinality(Slots)
        /\ Cardinality(InFlightSince(b, s)') \in Nat /\ Cardinality(Slots) \in Nat
    BY <2>8, SlotSubsets
  <2>10. Len(InWindow(b)) \in Nat
    BY <2>6
  <2>11. Sum(standing', E) + Cardinality(InFlightSince(b, s)')
            < SpikeThreshold + Cardinality(Slots)
    BY <1>1, <2>4, <2>5, <2>6, <2>7, <2>9, <2>10, Numbers
  <2>. QED
    BY <2>11 DEF RoomSince, E, SpikeEvents
<1>. QED
  BY <1>4, <1>5

\* A delivery is accepted: what was in flight stands.
LEMMA SpikeCount ==
    ASSUME IsFiniteSet(Rows), ControlTypes, StandingInv, StandingInv',
           NEW r \in Slots, Count(r), NEW b, NEW s, RoomSince(b, s)
    PROVE  RoomSince(b, s)'
<1>. DEFINE E == SpikeEvents(b, s)
<1>. SUFFICES ASSUME NEW e \in Event, e = jobs[r].event
              PROVE  RoomSince(b, s)'
  BY CountedEvent
<1>1. /\ standing' = [standing EXCEPT ![e] = standing[e] + 1]
      /\ jobs' = [jobs EXCEPT ![r] = NoJob] /\ jobs[r].stage = "count"
  BY CountedEvent
<1>2. E \in SUBSET Event
  BY DEF SpikeEvents
<1>3. InFlightSince(b, s)' = InFlightSince(b, s) \ {r}
      /\ (r \in InFlightSince(b, s) <=> e \in E)
  BY <1>1 DEF InFlightSince, ControlTypes, NoJob, SpikeEvents
<1>. HIDE DEF E
<1>4. Summable(standing, E)
  BY <1>2, StandingSummable DEF StandingInv
<1>5. /\ e \in E => standing'[e] = standing[e] + 1
      /\ \A x \in E \ {e} : standing'[x] = standing[x]
  BY <1>1, <1>2 DEF StandingInv
<1>6. Sum(standing', E) = IF e \in E THEN Sum(standing, E) + 1 ELSE Sum(standing, E)
  BY <1>4, <1>5, SumIncrement
<1>7. Sum(standing, E) \in Nat
  BY <1>4, SumType
<1>8. InFlightSince(b, s) \in SUBSET Slots
  BY DEF InFlightSince
<1>9. IsFiniteSet(InFlightSince(b, s)) /\ Cardinality(InFlightSince(b, s)) \in Nat
  BY <1>8, SlotSubsets
<1>10. Cardinality(InFlightSince(b, s) \ {r})
          = IF r \in InFlightSince(b, s) THEN Cardinality(InFlightSince(b, s)) - 1
                                         ELSE Cardinality(InFlightSince(b, s))
  BY <1>9, FS_RemoveElement
<1>11. Cardinality(InFlightSince(b, s)') = Cardinality(InFlightSince(b, s) \ {r})
  BY <1>3, Zenon
<1>12. Sum(standing, E) + Cardinality(InFlightSince(b, s))
          < SpikeThreshold + Cardinality(Slots)
  BY DEF RoomSince, E
<1>13. Sum(standing', E) + Cardinality(InFlightSince(b, s)')
          = Sum(standing, E) + Cardinality(InFlightSince(b, s))
  <2>1. r \in InFlightSince(b, s) <=> e \in E
    BY <1>3, Zenon
  <2>. QED
    BY <1>6, <1>7, <1>9, <1>10, <1>11, <2>1
<1>14. Sum(standing', E) + Cardinality(InFlightSince(b, s)')
          < SpikeThreshold + Cardinality(Slots)
  BY <1>12, <1>13
<1>. QED
  BY <1>14 DEF RoomSince, E, SpikeEvents

LEMMA NextSpike ==
    ASSUME IsFiniteSet(Rows), ControlTypes, StandingInv, SpikeInv, [Next]_vars
    PROVE  SpikeInv'
<1>1. ControlTypes' /\ StandingInv' /\ clock \in Nat
  BY NextTypes, NextStanding, Numbers DEF ControlTypes, Times
<1>2. SUFFICES ASSUME NEW b \in Bursts, NEW s \in 0 .. clock'
               PROVE  RoomSince(b, s)'
  BY DEF SpikeInv
<1>3. \A e \in Event : standing[e] <= standing[e]
  BY DEF StandingInv
<1>4. CASE Tick
  <2>1. clock' = clock + 1 /\ UNCHANGED <<jobs, standing>>
    BY <1>4 DEF Tick
  <2>2. CASE s \in 0 .. clock
    BY <2>1, <2>2 DEF SpikeInv, RoomSince, InFlightSince, SpikeEvents
  <2>3. CASE s \notin 0 .. clock
    <3>1. s \in Nat /\ clock < s
      BY <1>1, <2>1, <2>3
    <3>2. Sum(standing, SpikeEvents(b, s)) = 0 /\ InFlightSince(b, s) = {}
      BY <3>1, SpikeEmpty
    <3>3. Cardinality(InFlightSince(b, s)) = 0
      BY <3>2, FS_EmptySet, Zenon
    <3>4. RoomSince(b, s)
      BY <3>2, <3>3, SlotSubsets, Numbers DEF RoomSince
    <3>. QED
      BY <2>1, <3>4 DEF RoomSince, InFlightSince, SpikeEvents
  <2>. QED
    BY <2>2, <2>3
<1>5. CASE clock' = clock
  <2>1. RoomSince(b, s)
    BY <1>5 DEF SpikeInv
  <2>2. ASSUME UNCHANGED standing, \A r \in Slots : jobs'[r] = jobs[r] \/ jobs'[r].stage # "count"
        PROVE  RoomSince(b, s)'
    <3>1. InFlightSince(b, s)' \subseteq InFlightSince(b, s)
      BY <2>2 DEF InFlightSince, SpikeEvents
    <3>. QED
      BY <1>1, <1>3, <2>1, <2>2, <3>1, SpikeQuiet
  <2>3. CASE Switch \/ (\E k \in Keys : Deduplicate(k)) \/ UNCHANGED vars
    BY <2>2, <2>3 DEF Switch, Deduplicate, vars
  <2>4. ASSUME NEW r \in Slots, Revoke(r) \/ Lose(r)
        PROVE  RoomSince(b, s)'
    <3>1. \A q \in Slots : jobs'[q] = jobs[q] \/ jobs'[q].stage # "count"
      BY <2>4 DEF Revoke, Lose, Finish, NoJob, ControlTypes
    <3>2. UNCHANGED standing
      BY <2>4 DEF Revoke, Lose
    <3>. QED
      BY <2>2, <3>1, <3>2
  <2>5. ASSUME NEW r \in Slots, Count(r)
        PROVE  RoomSince(b, s)'
    BY <1>1, <2>1, <2>5, SpikeCount
  <2>6. ASSUME NEW r \in Slots, NEW k \in Keys, NEW w \in Rows, Admit(r, k, w)
        PROVE  RoomSince(b, s)'
    BY <1>1, <1>5, <2>1, <2>6, SpikeAdmit
  <2>7. ASSUME NEW r \in Slots, NEW k \in Keys, NEW w \in Rows, Block(r, k, w)
        PROVE  RoomSince(b, s)'
    <3>1. jobs'[r].stage = "block" /\ \A q \in Slots \ {r} : jobs'[q] = jobs[q]
      BY <2>7 DEF Block, ControlTypes
    <3>2. InFlightSince(b, s)' \subseteq InFlightSince(b, s)
      BY <3>1 DEF InFlightSince, SpikeEvents
    <3>3. \A e \in Event : standing'[e] <= standing[e]
      BY <1>1, <2>7, StandingArrives
    <3>. QED
      BY <1>1, <2>1, <3>2, <3>3, SpikeQuiet
  <2>8. CASE Tick
    BY <1>1, <1>5, <2>8 DEF Tick
  <2>. QED
    BY <2>3, <2>4, <2>5, <2>6, <2>7, <2>8 DEF Next
<1>6. Tick \/ clock' = clock
  BY DEF Next, vars, Switch, Deduplicate, Count, Revoke, Lose, Admit, Block, Arrives
<1>. QED
  BY <1>4, <1>5, <1>6

\* However many deliveries overlap and whatever fails, fewer accepted events
\* of one spike key are left out of all rollbacks, in any window, than the
\* threshold and the deliveries that the server handles at once: what came in
\* a burst was handed to the rollback of the delivery that was blocked.
THEOREM SpikesTakenBack ==
    ASSUME IsFiniteSet(Rows)
    PROVE  Spec => []SpikeBound
<1>1. Init => ControlTypes /\ StandingInv
  BY InitTypes, InitStanding
<1>2. Init /\ ControlTypes /\ StandingInv => SpikeInv
  <2>. SUFFICES ASSUME Init, ControlTypes, StandingInv, NEW b \in Bursts, NEW s \in 0 .. clock
                PROVE  RoomSince(b, s)
    BY DEF SpikeInv
  <2>1. Sum(standing, SpikeEvents(b, s)) = 0
    <3>1. \A e \in SpikeEvents(b, s) : standing[e] = 0
      BY DEF Init, SpikeEvents
    <3>. QED
      BY <3>1, SumZero
  <2>2. InFlightSince(b, s) = {}
    BY DEF InFlightSince, Init, NoJob
  <2>3. Cardinality(InFlightSince(b, s)) = 0
    BY <2>2, FS_EmptySet, Zenon
  <2>. QED
    BY <2>1, <2>3, SlotSubsets, Numbers DEF RoomSince
<1>3. ControlTypes /\ StandingInv /\ SpikeInv /\ [Next]_vars
         => ControlTypes' /\ StandingInv' /\ SpikeInv'
  BY NextTypes, NextStanding, NextSpike
<1>4. ControlTypes /\ StandingInv /\ SpikeInv => SpikeBound
  <2>. SUFFICES ASSUME ControlTypes, StandingInv, SpikeInv, NEW b \in Bursts, NEW s \in 0 .. clock
                PROVE  Sum(standing, SpikeEvents(b, s)) < SpikeThreshold + Cardinality(Slots)
    BY DEF SpikeBound, SpikeEvents
  <2>1. RoomSince(b, s)
    BY DEF SpikeInv
  <2>2. SpikeEvents(b, s) \in SUBSET Event /\ InFlightSince(b, s) \in SUBSET Slots
    BY DEF SpikeEvents, InFlightSince
  <2>3. Sum(standing, SpikeEvents(b, s)) \in Nat
    BY <2>2, StandingSummable, SumType DEF StandingInv
  <2>4. Cardinality(InFlightSince(b, s)) \in Nat /\ Cardinality(Slots) \in Nat
    BY <2>2, SlotSubsets
  <2>. QED
    BY <2>1, <2>3, <2>4, Numbers DEF RoomSince
<1>. QED
  BY <1>1, <1>2, <1>3, <1>4, PTL DEF Spec

(***************************************************************************)
(* The database.  The events that are still counted are those standing and *)
(* those of the rollbacks under way, so a rollback never takes back more   *)
(* than what the rows show, and the floor at zero is not reached.          *)
(***************************************************************************)
LEMMA DayType ==
    ASSUME NEW e \in Event
    PROVE  Day(e) \in Days
<1>. DEFINE t == e.time
            m == MaxClock \div DayLength
<1>1. t \in Nat /\ t <= MaxClock /\ MaxClock \in Nat
  BY Numbers DEF Event, Times
<1>2. DayLength \in Nat /\ DayLength > 0
  BY IngestAssumption
<1>3. t \div DayLength \in Nat /\ m \in Nat
  BY <1>1, <1>2
<1>4. t \div DayLength <= m
  BY <1>1, <1>2
<1>. QED
  BY <1>3, <1>4 DEF Day, Days

Database == [daily : [Days -> [Rows -> DayCount]], total : [Rows -> Nat]]

OnDay(d, w) == {e \in Event : Day(e) = d /\ e.row = w}

OfRow(w) == {e \in Event : e.row = w}

Revoking == {r \in Slots : jobs[r].stage = "block"}

Revoked(E) == [r \in Revoking |-> Within(jobs[r].rollback, E)]

LEMMA StillCountedIs ==
    \A E : StillCounted(E) = Sum(standing, E) + Sum(Revoked(E), Revoking)
  BY DEF StillCounted, Revoked, Revoking, Within

LEMMA RollbackType ==
    ASSUME ControlTypes, NEW r \in Revoking
    PROVE  jobs[r].rollback \in Seq(Event)
  BY DEF ControlTypes, Jobs, Revoking

LEMMA RevokedSummable ==
    ASSUME ControlTypes, NEW E
    PROVE  Summable(Revoked(E), Revoking)
<1>1. IsFiniteSet(Revoking)
  <2>1. Revoking \in SUBSET Slots
    BY DEF Revoking
  <2>. QED
    BY <2>1, SlotSubsets
<1>2. \A r \in Revoking : Revoked(E)[r] \in Nat
  BY RollbackType, WithinType DEF Revoked
<1>. QED
  BY <1>1, <1>2 DEF Summable

\* A step that leaves what is standing and the rollbacks under way alone.
LEMMA StillCountedSame ==
    ASSUME UNCHANGED standing,
           \A r \in Slots : \/ jobs'[r] = jobs[r]
                            \/ jobs[r].stage # "block" /\ jobs'[r].stage # "block",
           NEW E
    PROVE  StillCounted(E)' = StillCounted(E)
<1>1. Revoking' = Revoking
  BY DEF Revoking
<1>2. Revoked(E)' = Revoked(E)
  BY <1>1 DEF Revoked, Revoking
<1>3. StillCounted(E)' = Sum(standing', E) + Sum(Revoked(E)', Revoking')
  BY DEF StillCounted, Revoked, Revoking, Within
<1>. QED
  BY <1>1, <1>2, <1>3, StillCountedIs, Zenon

\* An accepted event is counted once more.
LEMMA StillCountedCount ==
    ASSUME IsFiniteSet(Rows), ControlTypes, StandingInv, NEW r \in Slots, Count(r),
           NEW E \in SUBSET Event
    PROVE  StillCounted(E)' = IF jobs[r].event \in E THEN StillCounted(E) + 1
                                                     ELSE StillCounted(E)
<1>. SUFFICES ASSUME NEW e \in Event, e = jobs[r].event
              PROVE  StillCounted(E)' = IF e \in E THEN StillCounted(E) + 1 ELSE StillCounted(E)
  BY CountedEvent
<1>1. /\ standing' = [standing EXCEPT ![e] = standing[e] + 1]
      /\ jobs' = [jobs EXCEPT ![r] = NoJob] /\ jobs[r].stage = "count"
  BY CountedEvent
<1>2. Revoking' = Revoking /\ \A q \in Revoking : jobs'[q] = jobs[q]
  BY <1>1 DEF Revoking, ControlTypes, NoJob
<1>3. Revoked(E)' = Revoked(E)
  BY <1>2 DEF Revoked
<1>4. Summable(standing, E)
  BY StandingSummable DEF StandingInv
<1>5. /\ e \in E => standing'[e] = standing[e] + 1
      /\ \A x \in E \ {e} : standing'[x] = standing[x]
  BY <1>1 DEF StandingInv
<1>6. Sum(standing', E) = IF e \in E THEN Sum(standing, E) + 1 ELSE Sum(standing, E)
  BY <1>4, <1>5, SumIncrement
<1>7. StillCounted(E)' = Sum(standing', E) + Sum(Revoked(E)', Revoking')
  BY DEF StillCounted, Revoked, Revoking, Within
<1>8. Sum(Revoked(E)', Revoking') = Sum(Revoked(E), Revoking)
  BY <1>2, <1>3, Zenon
<1>9. Sum(standing, E) \in Nat /\ Sum(Revoked(E), Revoking) \in Nat
  BY <1>4, RevokedSummable, SumType
<1>. QED
  BY <1>6, <1>7, <1>8, <1>9, StillCountedIs

\* What is left of h when the occurrences in q are taken out.
LEMMA SumWithout ==
    ASSUME IsFiniteSet(Rows), NEW q \in Seq(Event), NEW E \in SUBSET Event, NEW f, NEW h,
           Summable(f, E), \A e \in E : h[e] = f[e] + Within(q, {e})
    PROVE  Sum(h, E) = Sum(f, E) + Within(q, E)
<1>. DEFINE g == [e \in E |-> Within(q, {e})]
<1>1. Summable(g, E) /\ Sum(g, E) = Within(q, E)
  BY OccurrencesSum
<1>2. Splits(h, f, g, E)
  BY DEF Splits
<1>. HIDE DEF g
<1>3. Sum(h, E) = Sum(f, E) + Sum(g, E)
  BY <1>1, <1>2, SumPlus
<1>. QED
  BY <1>1, <1>3

\* The events of a blocked burst are still counted: they are in its rollback.
LEMMA StillCountedBlock ==
    ASSUME IsFiniteSet(Rows), ControlTypes, ControlTypes', StandingInv, StandingInv',
           NEW r \in Slots, NEW k \in Keys, NEW w \in Rows, Block(r, k, w),
           NEW E \in SUBSET Event
    PROVE  StillCounted(E)' = StillCounted(E)
<1>. SUFFICES ASSUME NEW q \in Seq(Event), q = InWindow(BurstOf[w])
              PROVE  StillCounted(E)' = StillCounted(E)
  BY WindowType, Numbers
<1>1. /\ jobs' = [jobs EXCEPT ![r] = [stage |-> "block", rollback |-> q,
                                      event |-> [row |-> w, time |-> clock]]]
      /\ jobs[r] = NoJob
  BY DEF Block, Arrives
<1>2. /\ r \notin Revoking /\ Revoking' = Revoking \cup {r}
      /\ jobs'[r].rollback = q /\ \A p \in Revoking : jobs'[p] = jobs[p]
  BY <1>1 DEF Revoking, ControlTypes, NoJob
<1>3. /\ Revoked(E)'[r] = Within(q, E)
      /\ \A p \in Revoking : Revoked(E)'[p] = Revoked(E)[p]
  BY <1>2 DEF Revoked
<1>4. Within(q, E) \in Nat
  BY WithinType
<1>5. Sum(Revoked(E)', Revoking') = Sum(Revoked(E), Revoking) + Within(q, E)
  <2>1. Summable(Revoked(E), Revoking)
    BY RevokedSummable
  <2>2. Summable(Revoked(E)', Revoking)
    BY <1>3, <2>1 DEF Summable
  <2>3. Sum(Revoked(E)', Revoking \cup {r}) = Sum(Revoked(E)', Revoking) + Revoked(E)'[r]
    BY <1>2, <1>3, <1>4, <2>2, SumAdd
  <2>4. Sum(Revoked(E)', Revoking) = Sum(Revoked(E), Revoking)
    BY <1>3, SumSame
  <2>5. Sum(Revoked(E)', Revoking') = Sum(Revoked(E)', Revoking \cup {r})
    BY <1>2, Zenon
  <2>. QED
    BY <1>3, <2>3, <2>4, <2>5
<1>6. Sum(standing, E) = Sum(standing', E) + Within(q, E)
  <2>1. Summable(standing', E)
    BY StandingSummable DEF StandingInv
  <2>2. \A e \in E : standing[e] = standing'[e] + Within(q, {e})
    BY StandingArrives
  <2>. QED
    BY <2>1, <2>2, SumWithout
<1>7. StillCounted(E)' = Sum(standing', E) + Sum(Revoked(E)', Revoking')
  BY DEF StillCounted, Revoked, Revoking, Within
<1>8. Sum(standing', E) \in Nat /\ Sum(Revoked(E), Revoking) \in Nat
  BY RevokedSummable, StandingSummable, SumType DEF StandingInv
<1>. QED
  BY <1>4, <1>5, <1>6, <1>7, <1>8, StillCountedIs

\* When a rollback is done its events are not counted any more.
LEMMA StillCountedRevoke ==
    ASSUME IsFiniteSet(Rows), ControlTypes, StandingInv, NEW r \in Slots, Revoke(r),
           NEW E \in SUBSET Event
    PROVE  /\ StillCounted(E) = StillCounted(E)' + Within(jobs[r].rollback, E)
           /\ StillCounted(E)' \in Nat /\ Within(jobs[r].rollback, E) \in Nat
<1>1. r \in Revoking /\ jobs' = [jobs EXCEPT ![r] = NoJob] /\ standing' = standing
  BY DEF Revoke, Revoking, Finish
<1>2. Revoking' = Revoking \ {r} /\ \A p \in Revoking \ {r} : jobs'[p] = jobs[p]
  BY <1>1 DEF Revoking, ControlTypes, NoJob
<1>3. /\ Revoked(E)[r] = Within(jobs[r].rollback, E)
      /\ \A p \in Revoking \ {r} : Revoked(E)'[p] = Revoked(E)[p]
  BY <1>1, <1>2 DEF Revoked
<1>4. Within(jobs[r].rollback, E) \in Nat
  BY <1>1, RollbackType, WithinType
<1>5. /\ Sum(Revoked(E), Revoking) = Sum(Revoked(E), Revoking \ {r}) + Revoked(E)[r]
      /\ Sum(Revoked(E), Revoking \ {r}) \in Nat
  BY <1>1, RevokedSummable, SumRemove, SumType
<1>6. Sum(Revoked(E)', Revoking \ {r}) = Sum(Revoked(E), Revoking \ {r})
  BY <1>3, SumSame
<1>7. Sum(Revoked(E)', Revoking') = Sum(Revoked(E)', Revoking \ {r})
  BY <1>2, Zenon
<1>8. StillCounted(E)' = Sum(standing, E) + Sum(Revoked(E)', Revoking')
  BY <1>1 DEF StillCounted, Revoked, Revoking, Within
<1>9. Sum(standing, E) \in Nat
  BY StandingSummable, SumType DEF StandingInv
<1>. QED
  BY <1>3, <1>4, <1>5, <1>6, <1>7, <1>8, <1>9, StillCountedIs

LEMMA RolledBackType ==
    ASSUME NEW day \in DayCount, NEW n \in Nat
    PROVE  RolledBack(day, n) \in DayCount
<1>1. Minus(day.count, n) \in Nat /\ day.rolledBack + n \in Nat
  BY DEF Minus, DayCount
<1>2. CASE day = NoCount
  BY <1>2 DEF RolledBack
<1>3. CASE day # NoCount
  <2>1. RolledBack(day, n) = [day EXCEPT !.count = Minus(day.count, n),
                                         !.rolledBack = day.rolledBack + n]
    BY <1>3 DEF RolledBack, DayCount
  <2>. QED
    BY <1>1, <2>1 DEF DayCount
<1>. QED
  BY <1>2, <1>3

\* Taking a rollback back, in terms of what it holds of a day and of a row.
LEMMA TakenBackIs ==
    ASSUME NEW db \in Database, NEW q \in Seq(Event)
    PROVE  /\ TakenBack(db, q) \in Database
           /\ \A w \in Rows : TakenBack(db, q).total[w] = Minus(db.total[w], Within(q, OfRow(w)))
           /\ \A d \in Days, w \in Rows :
                 TakenBack(db, q).daily[d][w] = RolledBack(db.daily[d][w], Within(q, OnDay(d, w)))
<1>. DEFINE ofRow(w) == HowMany(q, LAMBDA e : e.row = w)
            onDay(d, w) == HowMany(q, LAMBDA e : Day(e) = d /\ e.row = w)
<1>1. \A i \in 1 .. Len(q) : q[i] \in Event
  OBVIOUS
<1>2. \A w \in Rows : ofRow(w) = Within(q, OfRow(w))
  <2>. TAKE w \in Rows
  <2>1. {i \in 1 .. Len(q) : q[i].row = w} = Places(q, OfRow(w))
    BY <1>1 DEF Places, OfRow
  <2>2. ofRow(w) = Cardinality({i \in 1 .. Len(q) : q[i].row = w})
    BY DEF HowMany
  <2>. HIDE DEF ofRow
  <2>. QED
    BY <2>1, <2>2, WithinType, Zenon
<1>3. \A d \in Days, w \in Rows : onDay(d, w) = Within(q, OnDay(d, w))
  <2>. TAKE d \in Days, w \in Rows
  <2>1. {i \in 1 .. Len(q) : Day(q[i]) = d /\ q[i].row = w} = Places(q, OnDay(d, w))
    BY <1>1 DEF Places, OnDay
  <2>2. onDay(d, w) = Cardinality({i \in 1 .. Len(q) : Day(q[i]) = d /\ q[i].row = w})
    BY DEF HowMany
  <2>. HIDE DEF onDay
  <2>. QED
    BY <2>1, <2>2, WithinType, Zenon
<1>4. TakenBack(db, q)
         = [daily |-> [d \in Days |-> [w \in Rows |-> RolledBack(db.daily[d][w], onDay(d, w))]],
            total |-> [w \in Rows |-> Minus(db.total[w], ofRow(w))]]
  BY DEF TakenBack
<1>. HIDE DEF ofRow, onDay
<1>5. \A d \in Days, w \in Rows : RolledBack(db.daily[d][w], onDay(d, w)) \in DayCount
  <2>. TAKE d \in Days, w \in Rows
  <2>1. db.daily[d][w] \in DayCount /\ onDay(d, w) \in Nat
    BY <1>3, WithinType DEF Database
  <2>. QED
    BY <2>1, RolledBackType
<1>6. \A w \in Rows : Minus(db.total[w], ofRow(w)) \in Nat
  <2>. TAKE w \in Rows
  <2>1. db.total[w] \in Nat /\ ofRow(w) \in Nat
    BY <1>2, WithinType DEF Database
  <2>. QED
    BY <2>1 DEF Minus
<1>7. TakenBack(db, q) \in Database
  BY <1>4, <1>5, <1>6 DEF Database
<1>. QED
  BY <1>2, <1>3, <1>4, <1>7

LEMMA AddedIs ==
    ASSUME NEW db \in Database, NEW e \in Event
    PROVE  /\ Added(db, e) \in Database
           /\ \A w \in Rows : Added(db, e).total[w]
                 = IF e.row = w THEN db.total[w] + 1 ELSE db.total[w]
           /\ \A d \in Days, w \in Rows : Added(db, e).daily[d][w].count
                 = IF e \in OnDay(d, w) THEN db.daily[d][w].count + 1
                                        ELSE db.daily[d][w].count
<1>. SUFFICES ASSUME NEW day \in Days, day = Day(e)
              PROVE  /\ Added(db, e) \in Database
                     /\ \A w \in Rows : Added(db, e).total[w]
                           = IF e.row = w THEN db.total[w] + 1 ELSE db.total[w]
                     /\ \A d \in Days, w \in Rows : Added(db, e).daily[d][w].count
                           = IF e \in OnDay(d, w) THEN db.daily[d][w].count + 1
                                                  ELSE db.daily[d][w].count
  BY DayType
<1>1. e.row \in Rows
  BY EventParts
<1>2. Added(db, e) = [daily |-> [db.daily EXCEPT ![day][e.row].count = @ + 1],
                      total |-> [db.total EXCEPT ![e.row] = @ + 1]]
  BY DEF Added
<1>3. \A d \in Days, w \in Rows : e \in OnDay(d, w) <=> day = d /\ e.row = w
  BY DEF OnDay
<1>. QED
  BY <1>1, <1>2, <1>3 DEF Database, DayCount

LEMMA BlockedIs ==
    ASSUME NEW db \in Database, NEW e \in Event
    PROVE  /\ Blocked(db, e) \in Database /\ Blocked(db, e).total = db.total
           /\ \A d \in Days, w \in Rows :
                 Blocked(db, e).daily[d][w].count = db.daily[d][w].count
<1>. SUFFICES ASSUME NEW day \in Days, day = Day(e)
              PROVE  /\ Blocked(db, e) \in Database /\ Blocked(db, e).total = db.total
                     /\ \A d \in Days, w \in Rows :
                           Blocked(db, e).daily[d][w].count = db.daily[d][w].count
  BY DayType
<1>1. e.row \in Rows
  BY EventParts
<1>. DEFINE daily == [db.daily EXCEPT ![day][e.row].blocked = @ + 1]
<1>2. Blocked(db, e) = [db EXCEPT !.daily = daily]
  BY DEF Blocked, Database
<1>3. /\ daily \in [Days -> [Rows -> DayCount]]
      /\ \A d \in Days, w \in Rows : daily[d][w].count = db.daily[d][w].count
  BY <1>1 DEF Database, DayCount
<1>. HIDE DEF daily
<1>. QED
  BY <1>2, <1>3 DEF Database

\* A day's row shows what is left of it, if it showed as much as is taken.
LEMMA RolledBackCount ==
    ASSUME NEW day \in DayCount, NEW n \in Nat, n <= day.count
    PROVE  RolledBack(day, n).count = day.count - n
  BY DEF RolledBack, DayCount, Minus, NoCount

LEMMA DaysFinite == IsFiniteSet(Days)
<1>1. MaxClock \div DayLength \in Int
  BY IngestAssumption
<1>. QED
  BY <1>1, FS_Interval DEF Days

RowExact(d, w) == database.daily[d][w].count = StillCounted(OnDay(d, w))

TotalExact(w) == database.total[w] = Sum([d \in Days |-> database.daily[d][w].count], Days)

DatabaseInv ==
    /\ database \in Database
    /\ steady /\ online => \A d \in Days, w \in Rows : RowExact(d, w)
    /\ steady => \A w \in Rows : TotalExact(w)

LEMMA InitDatabase == Init => DatabaseInv
<1>. SUFFICES ASSUME Init
              PROVE  DatabaseInv
  OBVIOUS
<1>1. database = [daily |-> [d \in Days |-> [w \in Rows |-> NoCount]],
                  total |-> [w \in Rows |-> 0]]
  BY DEF Init
<1>2. database \in Database /\ \A d \in Days, w \in Rows : database.daily[d][w].count = 0
  BY <1>1 DEF Database, DayCount, NoCount
<1>3. ASSUME NEW d \in Days, NEW w \in Rows
      PROVE  RowExact(d, w)
  <2>1. \A e \in OnDay(d, w) : standing[e] = 0
    BY DEF Init, OnDay
  <2>2. Revoking = {}
    BY DEF Init, Revoking, NoJob
  <2>3. Sum(Revoked(OnDay(d, w)), Revoking) = 0
    BY <2>2, SumZero
  <2>4. Sum(standing, OnDay(d, w)) = 0
    BY <2>1, SumZero
  <2>. QED
    BY <1>2, <2>3, <2>4, StillCountedIs DEF RowExact
<1>4. ASSUME NEW w \in Rows
      PROVE  TotalExact(w)
  <2>1. \A d \in Days : [c \in Days |-> database.daily[c][w].count][d] = 0
    BY <1>2
  <2>2. Sum([d \in Days |-> database.daily[d][w].count], Days) = 0
    BY <2>1, SumZero
  <2>. QED
    BY <1>1, <2>2 DEF TotalExact
<1>. QED
  BY <1>2, <1>3, <1>4 DEF DatabaseInv

\* The events of a row, day by day.
LEMMA DaysOfRow ==
    ASSUME NEW q \in Seq(Event), NEW w, NEW f, \A d \in Days : f[d] = Within(q, OnDay(d, w))
    PROVE  Summable(f, Days) /\ Sum(f, Days) = Within(q, OfRow(w))
<1>. DEFINE p == [d \in Days |-> OnDay(d, w)]
<1>1. \A c, d \in Days : c # d => p[c] \cap p[d] = {}
  BY DEF OnDay
<1>2. \A d \in Days : f[d] = Within(q, p[d])
  OBVIOUS
<1>3. UNION {p[d] : d \in Days} = OfRow(w)
  BY DayType DEF OnDay, OfRow
<1>. HIDE DEF p
<1>4. Summable(f, Days) /\ Sum(f, Days) = Within(q, UNION {p[d] : d \in Days})
  BY <1>1, <1>2, DaysFinite, WithinSum, SMTT(30)
<1>. QED
  BY <1>3, <1>4, Zenon

\* A step that changes neither the database nor what is still counted.
LEMMA DatabaseQuiet ==
    ASSUME DatabaseInv, UNCHANGED database, steady' => steady, steady' => online' = online,
           \A E : StillCounted(E)' = StillCounted(E)
    PROVE  DatabaseInv'
<1>1. \A d, w : RowExact(d, w)' <=> RowExact(d, w)
  BY DEF RowExact, OnDay, Day
<1>2. \A w : TotalExact(w)' <=> TotalExact(w)
  BY DEF TotalExact
<1>. QED
  BY <1>1, <1>2 DEF DatabaseInv

\* What a delivery does to the database while it has been there all the time.
LEMMA StoredInDatabase ==
    ASSUME NEW job, Store(job), steady', database \in Database
    PROVE  /\ steady
           /\ IF online THEN database' = InDatabase(job) ELSE database' = database
  BY DEF Store

LEMMA DatabaseCount ==
    ASSUME IsFiniteSet(Rows), ControlTypes, StandingInv, DatabaseInv, NEW r \in Slots, Count(r)
    PROVE  DatabaseInv'
<1>. SUFFICES ASSUME NEW e \in Event, e = jobs[r].event
              PROVE  DatabaseInv'
  BY CountedEvent
<1>1. Store(jobs[r]) /\ jobs[r].stage = "count" /\ online' = online
  BY DEF Count
<1>2. database \in Database
  BY DEF DatabaseInv
<1>3. InDatabase(jobs[r]) = Added(database, e)
  BY <1>1 DEF InDatabase
<1>4. /\ Added(database, e) \in Database
      /\ \A w \in Rows : Added(database, e).total[w]
            = IF e.row = w THEN database.total[w] + 1 ELSE database.total[w]
      /\ \A d \in Days, w \in Rows : Added(database, e).daily[d][w].count
            = IF e \in OnDay(d, w) THEN database.daily[d][w].count + 1
                                   ELSE database.daily[d][w].count
  BY <1>2, AddedIs
<1>5. database' \in Database
  BY <1>1, <1>2, <1>3, <1>4 DEF Store
<1>6. ASSUME steady', online'
      PROVE  \A d \in Days, w \in Rows : RowExact(d, w)'
  <2>. TAKE d \in Days, w \in Rows
  <2>1. steady /\ online /\ database' = Added(database, e)
    BY <1>1, <1>2, <1>3, <1>6, StoredInDatabase
  <2>2. database.daily[d][w].count = StillCounted(OnDay(d, w))
    BY <2>1 DEF DatabaseInv, RowExact
  <2>3. OnDay(d, w) \in SUBSET Event
    BY DEF OnDay
  <2>4. StillCounted(OnDay(d, w))' = IF e \in OnDay(d, w) THEN StillCounted(OnDay(d, w)) + 1
                                                          ELSE StillCounted(OnDay(d, w))
    BY <2>3, StillCountedCount
  <2>5. database'.daily[d][w].count = StillCounted(OnDay(d, w))'
    BY <1>4, <2>1, <2>2, <2>4
  <2>. QED
    BY <2>5 DEF RowExact, OnDay, Day
<1>7. ASSUME steady'
      PROVE  \A w \in Rows : TotalExact(w)'
  <2>. TAKE w \in Rows
  <2>1. steady /\ IF online THEN database' = Added(database, e) ELSE database' = database
    BY <1>1, <1>2, <1>3, <1>7, StoredInDatabase
  <2>2. TotalExact(w)
    BY <2>1 DEF DatabaseInv
  <2>3. CASE ~online
    BY <2>1, <2>2, <2>3 DEF TotalExact
  <2>4. CASE online
    <3>. DEFINE f == [d \in Days |-> database.daily[d][w].count]
                g == [d \in Days |-> Added(database, e).daily[d][w].count]
    <3>1. \A d \in Days : database.daily[d][w].count \in Nat
      BY <1>2 DEF Database, DayCount
    <3>2. Summable(f, Days)
      BY <3>1, DaysFinite DEF Summable
    <3>3. database'.total[w] = Sum(g, Days)
      <4>0. database' = Added(database, e) /\ database.total[w] = Sum(f, Days)
        BY <2>1, <2>2, <2>4 DEF TotalExact
      <4>. HIDE DEF f, g
      <4>1. CASE e.row = w
        <5>1. Day(e) \in Days /\ \A d \in Days : e \in OnDay(d, w) <=> d = Day(e)
          BY <4>1, DayType DEF OnDay
        <5>2. g[Day(e)] = f[Day(e)] + 1 /\ \A d \in Days \ {Day(e)} : g[d] = f[d]
          BY <1>4, <5>1 DEF f, g
        <5>3. Sum(g, Days) = Sum(f, Days) + 1
          BY <3>2, <5>1, <5>2, SumIncrement
        <5>. QED
          BY <1>4, <4>0, <4>1, <5>3
      <4>2. CASE e.row # w
        <5>1. \A d \in Days : g[d] = f[d]
          BY <1>4, <4>2 DEF f, g, OnDay
        <5>2. Sum(g, Days) = Sum(f, Days)
          BY <5>1, SumSame
        <5>. QED
          BY <1>4, <4>0, <4>2, <5>2
      <4>. QED
        BY <4>1, <4>2
    <3>. QED
      BY <2>1, <2>4, <3>3 DEF TotalExact
  <2>. QED
    BY <2>3, <2>4
<1>. QED
  BY <1>5, <1>6, <1>7 DEF DatabaseInv

LEMMA DatabaseRevoke ==
    ASSUME IsFiniteSet(Rows), ControlTypes, StandingInv, DatabaseInv, NEW r \in Slots, Revoke(r)
    PROVE  DatabaseInv'
<1>0. /\ Store(jobs[r]) /\ jobs[r].stage = "block" /\ UNCHANGED online
      /\ jobs[r].rollback \in Seq(Event) /\ jobs[r].event \in Event
  BY DEF Revoke, ControlTypes, Jobs
<1>. SUFFICES ASSUME NEW q \in Seq(Event), NEW e \in Event,
                     q = jobs[r].rollback, e = jobs[r].event
              PROVE  DatabaseInv'
  BY <1>0
<1>2. database \in Database
  BY DEF DatabaseInv
<1>. DEFINE middle == Blocked(database, e)
<1>3. /\ middle \in Database /\ middle.total = database.total
      /\ \A d \in Days, w \in Rows : middle.daily[d][w].count = database.daily[d][w].count
  BY <1>2, BlockedIs
<1>4. InDatabase(jobs[r]) = TakenBack(middle, q)
  BY <1>0 DEF InDatabase
<1>. HIDE DEF middle
<1>5. /\ TakenBack(middle, q) \in Database
      /\ \A w \in Rows : TakenBack(middle, q).total[w]
                            = Minus(database.total[w], Within(q, OfRow(w)))
      /\ \A d \in Days, w \in Rows : TakenBack(middle, q).daily[d][w]
                                        = RolledBack(middle.daily[d][w], Within(q, OnDay(d, w)))
  BY <1>3, TakenBackIs
<1>6. database' \in Database
  BY <1>0, <1>2, <1>4, <1>5 DEF Store
<1>7. ASSUME steady', online'
      PROVE  \A d \in Days, w \in Rows :
                /\ RowExact(d, w)'
                /\ database.daily[d][w].count
                      = database'.daily[d][w].count + Within(q, OnDay(d, w))
                /\ database'.daily[d][w].count \in Nat
  <2>. TAKE d \in Days, w \in Rows
  <2>. DEFINE n == Within(q, OnDay(d, w))
  <2>1. steady /\ online /\ database' = TakenBack(middle, q)
    BY <1>0, <1>2, <1>4, <1>7, StoredInDatabase
  <2>2. database.daily[d][w].count = StillCounted(OnDay(d, w))
    BY <2>1 DEF DatabaseInv, RowExact
  <2>3. OnDay(d, w) \in SUBSET Event
    BY DEF OnDay
  <2>4. /\ StillCounted(OnDay(d, w)) = StillCounted(OnDay(d, w))' + n
        /\ StillCounted(OnDay(d, w))' \in Nat /\ n \in Nat
    BY <2>3, StillCountedRevoke
  <2>5. middle.daily[d][w] \in DayCount /\ middle.daily[d][w].count = StillCounted(OnDay(d, w))
    BY <1>3, <2>2 DEF Database
  <2>6. n <= middle.daily[d][w].count
    BY <2>4, <2>5
  <2>7. RolledBack(middle.daily[d][w], n).count = middle.daily[d][w].count - n
    BY <2>4, <2>5, <2>6, RolledBackCount
  <2>8. database'.daily[d][w].count = StillCounted(OnDay(d, w))'
    BY <1>5, <2>1, <2>4, <2>5, <2>7
  <2>9. RowExact(d, w)'
    BY <2>8 DEF RowExact, OnDay, Day
  <2>. QED
    BY <2>2, <2>4, <2>8, <2>9
<1>8. ASSUME steady'
      PROVE  \A w \in Rows : TotalExact(w)'
  <2>. TAKE w \in Rows
  <2>1. steady /\ IF online THEN database' = TakenBack(middle, q) ELSE database' = database
    BY <1>0, <1>2, <1>4, <1>8, StoredInDatabase
  <2>2. TotalExact(w)
    BY <2>1 DEF DatabaseInv
  <2>3. CASE ~online
    BY <2>1, <2>2, <2>3 DEF TotalExact
  <2>4. CASE online
    <3>. DEFINE f == [d \in Days |-> database'.daily[d][w].count]
                g == [d \in Days |-> Within(q, OnDay(d, w))]
                h == [d \in Days |-> database.daily[d][w].count]
    <3>1. \A d \in Days : /\ h[d] = f[d] + g[d] /\ f[d] \in Nat
                          /\ g[d] = Within(q, OnDay(d, w))
      BY <1>0, <1>7, <1>8, <2>4
    <3>2. Sum(h, Days) = database.total[w]
      BY <2>2 DEF TotalExact
    <3>3. TotalExact(w)' <=> database'.total[w] = Sum(f, Days)
      BY DEF TotalExact
    <3>. HIDE DEF f, g, h
    <3>4. Splits(h, f, g, Days)
      BY <3>1 DEF Splits
    <3>5. Summable(f, Days)
      BY <3>1, DaysFinite DEF Summable
    <3>6. \A d \in Days : g[d] = Within(q, OnDay(d, w))
      BY <3>1
    <3>8. Summable(g, Days)
      BY <3>6, DaysOfRow
    <3>9. Sum(g, Days) = Within(q, OfRow(w))
      BY <3>6, DaysOfRow
    <3>10. Sum(h, Days) = Sum(f, Days) + Sum(g, Days)
      BY <3>4, <3>5, <3>8, SumPlus
    <3>11. Sum(f, Days) \in Nat /\ Sum(g, Days) \in Nat
      BY <3>5, <3>8, SumType
    <3>12. database'.total[w] = Minus(database.total[w], Within(q, OfRow(w)))
      BY <1>5, <2>1, <2>4
    <3>13. database'.total[w] = Sum(f, Days)
      <4>1. Minus(Sum(f, Days) + Sum(g, Days), Sum(g, Days)) = Sum(f, Days)
        BY <3>11 DEF Minus
      <4>2. database.total[w] = Sum(f, Days) + Sum(g, Days)
        BY <3>2, <3>10
      <4>. QED
        BY <3>9, <3>12, <4>1, <4>2
    <3>. QED
      BY <3>3, <3>13
  <2>. QED
    BY <2>3, <2>4
<1>. QED
  BY <1>6, <1>7, <1>8 DEF DatabaseInv

LEMMA NextDatabase ==
    ASSUME IsFiniteSet(Rows), ControlTypes, StandingInv, DatabaseInv, [Next]_vars
    PROVE  DatabaseInv'
<1>1. ControlTypes' /\ StandingInv'
  BY NextTypes, NextStanding
<1>2. ASSUME UNCHANGED <<database, standing, jobs>>, UNCHANGED <<online, steady>> \/ ~steady'
      PROVE  DatabaseInv'
  <2>1. \A E : StillCounted(E)' = StillCounted(E)
    BY <1>2, StillCountedSame
  <2>. QED
    BY <1>2, <2>1, DatabaseQuiet
<1>3. CASE Tick \/ Switch \/ (\E k \in Keys : Deduplicate(k)) \/ UNCHANGED vars
  BY <1>2, <1>3 DEF Tick, Switch, Deduplicate, stores, vars
<1>4. ASSUME NEW r \in Slots, Count(r)
      PROVE  DatabaseInv'
  BY <1>4, DatabaseCount
<1>5. ASSUME NEW r \in Slots, Revoke(r)
      PROVE  DatabaseInv'
  BY <1>5, DatabaseRevoke
<1>6. ASSUME NEW r \in Slots, Lose(r)
      PROVE  DatabaseInv'
  BY <1>6 DEF Lose, DatabaseInv
<1>7. ASSUME NEW r \in Slots, NEW k \in Keys, NEW w \in Rows, Admit(r, k, w)
      PROVE  DatabaseInv'
  <2>1. /\ UNCHANGED <<database, steady, online, standing>>
        /\ jobs[r].stage # "block" /\ jobs'[r].stage # "block"
        /\ \A q \in Slots \ {r} : jobs'[q] = jobs[q]
    BY <1>7 DEF Admit, Arrives, stores, NoJob, ControlTypes
  <2>2. \A E : StillCounted(E)' = StillCounted(E)
    BY <2>1, StillCountedSame
  <2>. QED
    BY <2>1, <2>2, DatabaseQuiet
<1>8. ASSUME NEW r \in Slots, NEW k \in Keys, NEW w \in Rows, Block(r, k, w)
      PROVE  DatabaseInv'
  <2>1. UNCHANGED <<database, steady, online>>
    BY <1>8 DEF Block, Arrives, stores
  <2>2. \A d \in Days, v \in Rows : StillCounted(OnDay(d, v))' = StillCounted(OnDay(d, v))
    <3>. TAKE d \in Days, v \in Rows
    <3>1. OnDay(d, v) \in SUBSET Event
      BY DEF OnDay
    <3>. QED
      BY <1>1, <1>8, <3>1, StillCountedBlock
  <2>3. \A d \in Days, v \in Rows : RowExact(d, v)' <=> RowExact(d, v)
    BY <2>1, <2>2 DEF RowExact, OnDay, Day
  <2>4. \A v : TotalExact(v)' <=> TotalExact(v)
    BY <2>1 DEF TotalExact
  <2>. QED
    BY <2>1, <2>3, <2>4 DEF DatabaseInv
<1>. QED
  BY <1>3, <1>4, <1>5, <1>6, <1>7, <1>8 DEF Next

LEMMA DatabaseAlways ==
    ASSUME IsFiniteSet(Rows)
    PROVE  Spec => [](ControlTypes /\ StandingInv /\ DatabaseInv)
<1>1. Init => ControlTypes /\ StandingInv /\ DatabaseInv
  BY InitTypes, InitStanding, InitDatabase
<1>2. ControlTypes /\ StandingInv /\ DatabaseInv /\ [Next]_vars
         => (ControlTypes /\ StandingInv /\ DatabaseInv)'
  BY NextTypes, NextStanding, NextDatabase
<1>. QED
  BY <1>1, <1>2, PTL DEF Spec

\* As long as the database is there, each day's row shows exactly the
\* accepted events of that day that no rollback has taken back: a rollback
\* takes back what was counted, where it was counted, once, though it is
\* made long before and other deliveries are stored in between.
THEOREM RowsShowWhatCounts ==
    ASSUME IsFiniteSet(Rows)
    PROVE  Spec => []DatabaseExact
<1>1. DatabaseInv => DatabaseExact
  BY DEF DatabaseInv, RowExact, DatabaseExact, OnDay
<1>. QED
  BY <1>1, DatabaseAlways, PTL

\* As long as the database stays or stays away, the all-time total of a row
\* is the sum of its days, whatever is counted and taken back.
THEOREM TotalsAddUp ==
    ASSUME IsFiniteSet(Rows)
    PROVE  Spec => []TotalsMatchDaysWhileSteady
<1>1. DatabaseInv => TotalsMatchDaysWhileSteady
  BY DEF DatabaseInv, TotalExact, TotalsMatchDaysWhileSteady, TotalsMatchDays
<1>. QED
  BY <1>1, DatabaseAlways, PTL

(***************************************************************************)
(* The memory.  A rollback is taken back from it event by event.           *)
(***************************************************************************)
DaySeries == [Days -> [value : Nat, blocked : Nat]]

Memory == [series : DaySeries, total : Nat]

OfDay(d) == {e \in Event : Day(e) = d}

LEMMA MinusType ==
    ASSUME NEW a \in Nat, NEW b \in Nat
    PROVE  Minus(a, b) \in Nat /\ Minus(a, b) <= a
  BY DEF Minus

LEMMA MinusMonotone ==
    ASSUME NEW a \in Nat, NEW b \in Nat, NEW c \in Nat, a <= b
    PROVE  Minus(a, c) <= Minus(b, c)
  BY DEF Minus

LEMMA SyncedIs ==
    ASSUME NEW series \in DaySeries, NEW day
    PROVE  /\ Synced(series, day) \in DaySeries
           /\ \A d \in Days : Synced(series, day)[d].value <= series[d].value
  BY DEF Synced, DaySeries

LEMMA IncrementedIs ==
    ASSUME NEW mem \in Memory, NEW e \in Event
    PROVE  /\ Incremented(mem, e) \in Memory
           /\ Incremented(mem, e).total = mem.total + 1
           /\ \A d \in Days : Incremented(mem, e).series[d].value
                 <= IF e \in OfDay(d) THEN mem.series[d].value + 1 ELSE mem.series[d].value
<1>. SUFFICES ASSUME NEW day \in Days, day = Day(e)
              PROVE  /\ Incremented(mem, e) \in Memory
                     /\ Incremented(mem, e).total = mem.total + 1
                     /\ \A d \in Days : Incremented(mem, e).series[d].value
                           <= IF e \in OfDay(d) THEN mem.series[d].value + 1
                                                ELSE mem.series[d].value
  BY DayType
<1>. DEFINE synced == Synced(mem.series, day)
            series == [synced EXCEPT ![day].value = @ + 1]
<1>1. /\ synced \in DaySeries /\ \A d \in Days : synced[d].value <= mem.series[d].value
      /\ mem.series \in DaySeries /\ mem.total \in Nat
  BY SyncedIs DEF Memory
<1>2. Incremented(mem, e) = [series |-> series, total |-> mem.total + 1]
  BY DEF Incremented
<1>. HIDE DEF synced
<1>3. /\ series \in DaySeries
      /\ \A d \in Days : series[d].value = IF d = day THEN synced[d].value + 1
                                                      ELSE synced[d].value
  BY <1>1 DEF DaySeries
<1>4. \A d \in Days : /\ series[d].value <= IF d = day THEN mem.series[d].value + 1
                                                       ELSE mem.series[d].value
                      /\ e \in OfDay(d) <=> d = day
  BY <1>1, <1>3 DEF DaySeries, OfDay
<1>. HIDE DEF series
<1>. QED
  BY <1>1, <1>2, <1>3, <1>4 DEF Memory

LEMMA IncrementedBlockedIs ==
    ASSUME NEW mem \in Memory, NEW e \in Event
    PROVE  /\ IncrementedBlocked(mem, e) \in Memory
           /\ IncrementedBlocked(mem, e).total = mem.total
           /\ \A d \in Days : IncrementedBlocked(mem, e).series[d].value <= mem.series[d].value
<1>. SUFFICES ASSUME NEW day \in Days, day = Day(e)
              PROVE  /\ IncrementedBlocked(mem, e) \in Memory
                     /\ IncrementedBlocked(mem, e).total = mem.total
                     /\ \A d \in Days : IncrementedBlocked(mem, e).series[d].value
                                           <= mem.series[d].value
  BY DayType
<1>. DEFINE synced == Synced(mem.series, day)
            series == [synced EXCEPT ![day].blocked = @ + 1]
<1>1. /\ synced \in DaySeries /\ \A d \in Days : synced[d].value <= mem.series[d].value
      /\ mem.series \in DaySeries /\ mem.total \in Nat
  BY SyncedIs DEF Memory
<1>2. IncrementedBlocked(mem, e) = [series |-> series, total |-> mem.total]
  BY DEF IncrementedBlocked
<1>. HIDE DEF synced
<1>3. series \in DaySeries /\ \A d \in Days : series[d].value = synced[d].value
  BY <1>1 DEF DaySeries
<1>. HIDE DEF series
<1>. QED
  BY <1>1, <1>2, <1>3 DEF Memory

LEMMA DecrementedIs ==
    ASSUME NEW mem \in Memory, NEW e \in Event
    PROVE  /\ Decremented(mem, e) \in Memory
           /\ Decremented(mem, e).total = Minus(mem.total, 1)
           /\ \A d \in Days : Decremented(mem, e).series[d].value
                 <= IF e \in OfDay(d) THEN Minus(mem.series[d].value, 1)
                                      ELSE mem.series[d].value
<1>. SUFFICES ASSUME NEW day \in Days, day = Day(e)
              PROVE  /\ Decremented(mem, e) \in Memory
                     /\ Decremented(mem, e).total = Minus(mem.total, 1)
                     /\ \A d \in Days : Decremented(mem, e).series[d].value
                           <= IF e \in OfDay(d) THEN Minus(mem.series[d].value, 1)
                                                ELSE mem.series[d].value
  BY DayType
<1>. DEFINE synced == Synced(mem.series, day)
            series == [synced EXCEPT ![day].value = Minus(@, 1)]
<1>1. /\ synced \in DaySeries /\ \A d \in Days : synced[d].value <= mem.series[d].value
      /\ mem.series \in DaySeries /\ mem.total \in Nat
  BY SyncedIs DEF Memory
<1>2. Decremented(mem, e) = [series |-> series, total |-> Minus(mem.total, 1)]
  BY DEF Decremented
<1>3. Minus(mem.total, 1) \in Nat
  BY <1>1, MinusType
<1>. HIDE DEF synced
<1>4. \A d \in Days : synced[d].value \in Nat /\ mem.series[d].value \in Nat
  BY <1>1 DEF DaySeries
<1>5. /\ series \in DaySeries
      /\ \A d \in Days : series[d].value = IF d = day THEN Minus(synced[d].value, 1)
                                                      ELSE synced[d].value
  BY <1>1, <1>4 DEF DaySeries, Minus
<1>6. \A d \in Days : /\ series[d].value <= IF d = day THEN Minus(mem.series[d].value, 1)
                                                       ELSE mem.series[d].value
                      /\ e \in OfDay(d) <=> d = day
  BY <1>1, <1>4, <1>5 DEF OfDay, Minus
<1>. HIDE DEF series
<1>. QED
  BY <1>2, <1>3, <1>5, <1>6 DEF Memory

\* What FoldLeft computes on the way, by the places it has come to.
StageAt(iter, s, base, q) ==
    IF s = {} THEN base ELSE LET x == Max(s) IN Decremented(iter[s \ {x}], q[x])

Stages(base, q) ==
    CHOOSE iter : iter = [s \in SUBSET (DOMAIN q) |->
        IF s = {} THEN base ELSE LET x == Max(s) IN Decremented(iter[s \ {x}], q[x])]

LEMMA FoldIsLastStage ==
    \A base, q : FoldLeft(Decremented, base, q) = Stages(base, q)[DOMAIN q]
  BY DEF FoldLeft, MapThenFoldSet, Stages

LEMMA GreatestOf ==
    ASSUME NEW n \in Nat, NEW T \in SUBSET (1 .. n), T # {}
    PROVE  Max(T) \in T /\ \A y \in T : y <= Max(T)
<1>. DEFINE U == {n - x : x \in T}
<1>1. U \subseteq Nat /\ U # {}
  OBVIOUS
<1>2. PICK u \in U : \A v \in U : u <= v
  BY <1>1, LeastNumber
<1>3. PICK x \in T : u = n - x
  BY <1>2
<1>4. \A y \in T : n - y \in U /\ y \in Nat /\ y <= n
  OBVIOUS
<1>5. \A y \in T : x >= y
  <2>. TAKE y \in T
  <2>1. n - x <= n - y
    BY <1>2, <1>3, <1>4
  <2>. QED
    BY <1>4, <2>1
<1>6. Max(T) \in T /\ \A y \in T : Max(T) >= y
  BY <1>5 DEF Max
<1>. QED
  BY <1>4, <1>6

\* The stages exist: those of at most m places are made from those of fewer.
LEMMA StagesExist ==
    ASSUME NEW base, NEW q \in Seq(Event)
    PROVE  \A s \in SUBSET (1 .. Len(q)) : Stages(base, q)[s] = StageAt(Stages(base, q), s, base, q)
<1>. DEFINE n == Len(q)
            Small(m) == {s \in SUBSET (1 .. n) : Cardinality(s) <= m}
            Made(m) == \E g : g = [s \in Small(m) |-> StageAt(g, s, base, q)]
            Unmade == {m \in Nat : ~Made(m)}
<1>1. n \in Nat /\ IsFiniteSet(1 .. n) /\ Cardinality(1 .. n) = n
  <2>1. n \in Nat /\ 1 \in Int /\ n \in Int
    OBVIOUS
  <2>. QED
    BY <2>1, FS_Interval, SMTT(30)
<1>2. \A s \in SUBSET (1 .. n) : IsFiniteSet(s) /\ Cardinality(s) \in Nat /\ Cardinality(s) <= n
  BY <1>1, FS_Subset, FS_CardinalityType
<1>. HIDE DEF n
<1>3. Made(0)
  <2>1. \A s \in Small(0) : s = {}
    BY <1>2, FS_EmptySet
  <2>2. [s \in Small(0) |-> base]
           = [s \in Small(0) |-> StageAt([t \in Small(0) |-> base], s, base, q)]
    BY <2>1 DEF StageAt
  <2>. QED
    BY <2>2
<1>4. ASSUME NEW m \in Nat, Made(m)
      PROVE  Made(m + 1)
  <2>1. PICK g : g = [s \in Small(m) |-> StageAt(g, s, base, q)]
    BY <1>4
  <2>. DEFINE h == [s \in Small(m + 1) |-> StageAt(g, s, base, q)]
  <2>2. \A s \in Small(m) : h[s] = g[s]
    <3>. TAKE s \in Small(m)
    <3>1. s \in Small(m + 1)
      BY <1>2
    <3>2. h[s] = StageAt(g, s, base, q)
      BY <3>1
    <3>. HIDE DEF h, Small
    <3>3. g[s] = StageAt(g, s, base, q)
      BY <2>1
    <3>. QED
      BY <3>2, <3>3
  <2>3. \A s \in Small(m + 1) : StageAt(g, s, base, q) = StageAt(h, s, base, q)
    <3>. TAKE s \in Small(m + 1)
    <3>1. CASE s = {}
      BY <3>1 DEF StageAt
    <3>2. CASE s # {}
      <4>1. s \in SUBSET (1 .. n) /\ Cardinality(s) <= m + 1
        OBVIOUS
      <4>2. Max(s) \in s
        BY <1>1, <3>2, <4>1, GreatestOf
      <4>3. Cardinality(s \ {Max(s)}) = Cardinality(s) - 1
        BY <1>2, <4>1, <4>2, FS_RemoveElement
      <4>4. s \ {Max(s)} \in Small(m)
        <5>1. s \ {Max(s)} \in SUBSET (1 .. n)
          BY <4>1
        <5>2. Cardinality(s) \in Nat
          BY <1>2, <4>1
        <5>3. Cardinality(s \ {Max(s)}) <= m
          BY <4>1, <4>3, <5>2
        <5>. QED
          BY <5>1, <5>3
      <4>. HIDE DEF h, Small
      <4>5. h[s \ {Max(s)}] = g[s \ {Max(s)}]
        BY <2>2, <4>4
      <4>. QED
        BY <3>2, <4>5 DEF StageAt
    <3>. QED
      BY <3>1, <3>2
  <2>. HIDE DEF Small
  <2>4. h = [s \in Small(m + 1) |-> StageAt(h, s, base, q)]
    BY <2>3
  <2>. QED
    BY <2>4
<1>5. Made(n)
  <2>. HIDE DEF Made
  <2>. SUFFICES ASSUME ~Made(n)
                PROVE  FALSE
    OBVIOUS
  <2>1. Unmade \subseteq Nat /\ Unmade # {}
    BY <1>1
  <2>2. PICK m \in Unmade : \A l \in Unmade : m <= l
    BY <2>1, LeastNumber
  <2>3. m # 0 /\ m \in Nat /\ ~Made(m)
    BY <1>3, <2>2
  <2>4. m - 1 \in Nat /\ m - 1 \notin Unmade
    BY <2>1, <2>2, <2>3
  <2>5. Made(m - 1) /\ m = (m - 1) + 1
    BY <2>3, <2>4
  <2>. QED
    BY <1>4, <2>3, <2>4, <2>5
<1>6. Small(n) = SUBSET (1 .. n)
  BY <1>2
<1>7. \E g : g = [s \in SUBSET (1 .. n) |-> StageAt(g, s, base, q)]
  BY <1>5, <1>6
<1>8. DOMAIN q = 1 .. n
  BY DEF n
<1>9. Stages(base, q) = CHOOSE g : g = [s \in SUBSET (1 .. n) |-> StageAt(g, s, base, q)]
  BY <1>8, Zenon DEF Stages, StageAt
<1>10. Stages(base, q) = [s \in SUBSET (1 .. n) |-> StageAt(Stages(base, q), s, base, q)]
  BY <1>7, <1>9, Zenon
<1>. QED
  BY <1>10, Zenon DEF n

\* Taking a rollback back event by event lowers the total by all of them,
\* and no day of the chart stays higher than without its own.
LEMMA FoldDecremented ==
    ASSUME NEW base \in Memory, NEW q \in Seq(Event)
    PROVE  LET after == FoldLeft(Decremented, base, q)
           IN  /\ after \in Memory
               /\ after.total = Minus(base.total, Len(q))
               /\ \A d \in Days : after.series[d].value
                     <= Minus(base.series[d].value, Within(q, OfDay(d)))
<1>. DEFINE n == Len(q)
            stage(m) == Stages(base, q)[1 .. m]
            seen(m, d) == Cardinality(Places(q, OfDay(d)) \cap (1 .. m))
            Good(m) == /\ stage(m) \in Memory
                       /\ stage(m).total = Minus(base.total, m)
                       /\ \A d \in Days : stage(m).series[d].value
                             <= Minus(base.series[d].value, seen(m, d))
            Bad == {m \in Nat : m <= n /\ ~Good(m)}
<1>1. n \in Nat /\ DOMAIN q = 1 .. n /\ \A i \in 1 .. n : q[i] \in Event
  OBVIOUS
<1>2. base.total \in Nat /\ \A d \in Days : base.series[d].value \in Nat
  BY DEF Memory, DaySeries
<1>3. \A mem \in Memory : mem.total \in Nat /\ \A d \in Days : mem.series[d].value \in Nat
  BY DEF Memory, DaySeries
<1>4. Good(0)
  <2>1. 1 .. 0 = {} /\ {} \in SUBSET (1 .. n)
    BY <1>1
  <2>2. Stages(base, q)[{}] = base
    BY <2>1, StagesExist DEF StageAt
  <2>3. stage(0) = base
    BY <2>1, <2>2, Zenon
  <2>4. \A d : seen(0, d) = 0
    <3>. TAKE d
    <3>1. Places(q, OfDay(d)) \cap (1 .. 0) = {}
      BY <2>1
    <3>. QED
      BY <3>1, FS_EmptySet, Zenon
  <2>. HIDE DEF stage, seen
  <2>. QED
    BY <1>2, <2>3, <2>4 DEF Minus
<1>5. ASSUME NEW m \in Nat, m + 1 <= n, Good(m)
      PROVE  Good(m + 1)
  <2>. DEFINE e == q[m + 1]
  <2>1. m + 1 \in 1 .. n /\ e \in Event
    BY <1>1, <1>5
  <2>2. stage(m + 1) = Decremented(stage(m), e)
    <3>. DEFINE s == 1 .. m + 1
    <3>1. s \in SUBSET (1 .. n) /\ s # {} /\ m + 1 \in s
      <4>1. m + 1 \in s
        OBVIOUS
      <4>2. s \subseteq 1 .. n
        BY <1>1, <1>5
      <4>. QED
        BY <4>1, <4>2
    <3>2. Max(s) = m + 1
      <4>1. Max(s) \in s /\ \A y \in s : y <= Max(s)
        BY <1>1, <3>1, GreatestOf
      <4>. QED
        BY <3>1, <4>1
    <3>3. s \ {m + 1} = 1 .. m
      OBVIOUS
    <3>. HIDE DEF s
    <3>4. Stages(base, q)[s] = StageAt(Stages(base, q), s, base, q)
      BY <3>1, StagesExist
    <3>5. Stages(base, q)[s] = Decremented(Stages(base, q)[s \ {m + 1}], q[m + 1])
      BY <3>1, <3>2, <3>4 DEF StageAt
    <3>. QED
      BY <3>3, <3>5, Zenon DEF s
  <2>3. \A d \in Days : /\ seen(m, d) \in Nat
                        /\ seen(m + 1, d) = IF e \in OfDay(d) THEN seen(m, d) + 1 ELSE seen(m, d)
    <3>. TAKE d \in Days
    <3>. DEFINE P == Places(q, OfDay(d)) \cap (1 .. m)
    <3>1. IsFiniteSet(P) /\ m + 1 \notin P
      BY WithinType, FS_Subset
    <3>2. Cardinality(P) \in Nat
      BY <3>1, FS_CardinalityType
    <3>3. CASE e \in OfDay(d)
      <4>1. Places(q, OfDay(d)) \cap (1 .. m + 1) = P \cup {m + 1}
        BY <2>1, <3>3 DEF Places
      <4>2. Cardinality(P \cup {m + 1}) = Cardinality(P) + 1
        BY <3>1, FS_AddElement
      <4>3. seen(m + 1, d) = Cardinality(P \cup {m + 1})
        BY <4>1, Zenon
      <4>. QED
        BY <3>2, <3>3, <4>2, <4>3
    <3>4. CASE e \notin OfDay(d)
      <4>1. Places(q, OfDay(d)) \cap (1 .. m + 1) = P
        BY <2>1, <3>4 DEF Places
      <4>2. seen(m + 1, d) = Cardinality(P)
        BY <4>1, Zenon
      <4>. QED
        BY <3>2, <3>4, <4>2
    <3>. QED
      BY <3>3, <3>4
  <2>. HIDE DEF stage, seen, e
  <2>4. /\ stage(m) \in Memory /\ stage(m).total = Minus(base.total, m)
        /\ \A d \in Days : stage(m).series[d].value <= Minus(base.series[d].value, seen(m, d))
    BY <1>5
  <2>5. /\ stage(m + 1) \in Memory
        /\ stage(m + 1).total = Minus(stage(m).total, 1)
        /\ \A d \in Days : stage(m + 1).series[d].value
              <= IF e \in OfDay(d) THEN Minus(stage(m).series[d].value, 1)
                                   ELSE stage(m).series[d].value
    BY <2>1, <2>2, <2>4, DecrementedIs
  <2>6. stage(m + 1).total = Minus(base.total, m + 1)
    BY <1>2, <2>4, <2>5 DEF Minus
  <2>7. ASSUME NEW d \in Days
        PROVE  stage(m + 1).series[d].value <= Minus(base.series[d].value, seen(m + 1, d))
    <3>. SUFFICES ASSUME NEW a \in Nat, NEW b \in Nat, NEW c \in Nat, NEW i \in Nat,
                         a = base.series[d].value, b = stage(m).series[d].value,
                         c = stage(m + 1).series[d].value, i = seen(m, d)
                  PROVE  c <= Minus(a, seen(m + 1, d))
      BY <1>2, <1>3, <2>3, <2>4, <2>5
    <3>1. b <= Minus(a, i) /\ seen(m + 1, d) = (IF e \in OfDay(d) THEN i + 1 ELSE i)
          /\ c <= (IF e \in OfDay(d) THEN Minus(b, 1) ELSE b)
      BY <2>3, <2>4, <2>5
    <3>2. Minus(a, i + 1) = Minus(Minus(a, i), 1) /\ Minus(a, i) \in Nat
      BY SMTT(30) DEF Minus
    <3>3. Minus(b, 1) <= Minus(Minus(a, i), 1)
      BY <3>1, <3>2, MinusMonotone
    <3>4. Minus(b, 1) \in Nat /\ Minus(Minus(a, i), 1) \in Nat
      BY <3>2, MinusType
    <3>5. CASE e \in OfDay(d)
      BY <3>1, <3>2, <3>3, <3>4, <3>5
    <3>6. CASE e \notin OfDay(d)
      BY <3>1, <3>2, <3>6
    <3>. QED
      BY <3>5, <3>6
  <2>. QED
    BY <2>5, <2>6, <2>7
<1>6. Good(n)
  <2>. HIDE DEF Good
  <2>. SUFFICES ASSUME ~Good(n)
                PROVE  FALSE
    OBVIOUS
  <2>1. Bad \subseteq Nat /\ Bad # {}
    BY <1>1
  <2>2. PICK m \in Bad : \A l \in Bad : m <= l
    BY <2>1, LeastNumber
  <2>3. m # 0 /\ m \in Nat /\ m <= n /\ ~Good(m)
    BY <1>4, <2>2
  <2>4. m - 1 \in Nat /\ m - 1 \notin Bad /\ m - 1 <= n /\ (m - 1) + 1 = m
    BY <1>1, <2>1, <2>2, <2>3
  <2>5. Good(m - 1)
    BY <2>4
  <2>. QED
    BY <1>5, <2>3, <2>4, <2>5
<1>7. FoldLeft(Decremented, base, q) = stage(n)
  BY <1>1, FoldIsLastStage, Zenon
<1>8. \A d : seen(n, d) = Within(q, OfDay(d))
  <2>. TAKE d
  <2>1. Places(q, OfDay(d)) \cap (1 .. n) = Places(q, OfDay(d))
    BY DEF Places
  <2>. QED
    BY <2>1, WithinType, Zenon
<1>. HIDE DEF stage, seen
<1>. QED
  BY <1>6, <1>7, <1>8

LEMMA StillCountedType ==
    ASSUME IsFiniteSet(Rows), ControlTypes, StandingInv, NEW E \in SUBSET Event
    PROVE  StillCounted(E) \in Nat
<1>1. Sum(standing, E) \in Nat
  BY StandingSummable, SumType DEF StandingInv
<1>2. Sum(Revoked(E), Revoking) \in Nat
  BY RevokedSummable, SumType
<1>. QED
  BY <1>1, <1>2, StillCountedIs

LEMMA WithinAll ==
    ASSUME NEW q \in Seq(Event)
    PROVE  Within(q, Event) = Len(q)
<1>1. Places(q, Event) = 1 .. Len(q)
  BY DEF Places
<1>2. IsFiniteSet(1 .. Len(q)) /\ Cardinality(1 .. Len(q)) = Len(q)
  <2>1. 1 \in Int /\ Len(q) \in Int /\ Len(q) \in Nat
    OBVIOUS
  <2>. QED
    BY <2>1, FS_Interval, SMTT(30)
<1>. QED
  BY <1>1, <1>2, WithinType, Zenon

MemoryInv ==
    /\ memory \in Memory
    /\ steady /\ ~online =>
          /\ memory.total = StillCounted(Event)
          /\ \A d \in Days : memory.series[d].value <= StillCounted(OfDay(d))

LEMMA InitMemory == Init => MemoryInv
<1>. SUFFICES ASSUME Init
              PROVE  MemoryInv
  OBVIOUS
<1>1. memory = [series |-> [d \in Days |-> [value |-> 0, blocked |-> 0]], total |-> 0]
  BY DEF Init
<1>2. memory \in Memory /\ memory.total = 0 /\ \A d \in Days : memory.series[d].value = 0
  BY <1>1 DEF Memory, DaySeries
<1>3. \A E \in SUBSET Event : StillCounted(E) = 0
  <2>. TAKE E \in SUBSET Event
  <2>1. \A e \in E : standing[e] = 0
    BY DEF Init
  <2>2. Revoking = {}
    BY DEF Init, Revoking, NoJob
  <2>3. Sum(Revoked(E), Revoking) = 0
    BY <2>2, SumZero
  <2>4. Sum(standing, E) = 0
    BY <2>1, SumZero
  <2>. QED
    BY <2>3, <2>4, StillCountedIs
<1>4. Event \in SUBSET Event /\ \A d : OfDay(d) \in SUBSET Event
  BY DEF OfDay
<1>. QED
  BY <1>2, <1>3, <1>4 DEF MemoryInv

\* A step that changes neither the memory nor what is still counted.
LEMMA MemoryQuiet ==
    ASSUME MemoryInv, UNCHANGED memory, steady' => steady, steady' => online' = online,
           \A E \in SUBSET Event : StillCounted(E)' = StillCounted(E)
    PROVE  MemoryInv'
<1>1. Event \in SUBSET Event /\ \A d : OfDay(d) \in SUBSET Event /\ OfDay(d)' = OfDay(d)
  BY DEF OfDay, Day
<1>2. StillCounted(Event)' = StillCounted(Event)
  BY <1>1
<1>3. \A d : StillCounted(OfDay(d))' = StillCounted(OfDay(d))
  BY <1>1
<1>. QED
  BY <1>2, <1>3 DEF MemoryInv, OfDay, Day

LEMMA MemoryCount ==
    ASSUME IsFiniteSet(Rows), ControlTypes, StandingInv, MemoryInv, NEW r \in Slots, Count(r)
    PROVE  MemoryInv'
<1>. SUFFICES ASSUME NEW e \in Event, e = jobs[r].event
              PROVE  MemoryInv'
  BY CountedEvent
<1>1. Store(jobs[r]) /\ jobs[r].stage = "count" /\ online' = online
  BY DEF Count
<1>2. memory \in Memory
  BY DEF MemoryInv
<1>3. InMemory(jobs[r]) = Incremented(memory, e)
  BY <1>1 DEF InMemory
<1>4. /\ Incremented(memory, e) \in Memory
      /\ Incremented(memory, e).total = memory.total + 1
      /\ \A d \in Days : Incremented(memory, e).series[d].value
            <= IF e \in OfDay(d) THEN memory.series[d].value + 1 ELSE memory.series[d].value
  BY <1>2, IncrementedIs
<1>5. memory' \in Memory
  BY <1>1, <1>2, <1>3, <1>4 DEF Store
<1>6. ASSUME steady', ~online'
      PROVE  /\ memory'.total = StillCounted(Event)'
             /\ \A d \in Days : memory'.series[d].value <= StillCounted(OfDay(d))'
  <2>1. steady /\ ~online /\ memory' = Incremented(memory, e)
    BY <1>1, <1>3, <1>6 DEF Store
  <2>2. StillCounted(Event)' = StillCounted(Event) + 1
    BY StillCountedCount
  <2>3. memory'.total = StillCounted(Event)'
    BY <1>4, <2>1, <2>2 DEF MemoryInv
  <2>4. ASSUME NEW d \in Days
        PROVE  memory'.series[d].value <= StillCounted(OfDay(d))'
    <3>1. OfDay(d) \in SUBSET Event
      BY DEF OfDay
    <3>2. StillCounted(OfDay(d))' = IF e \in OfDay(d) THEN StillCounted(OfDay(d)) + 1
                                                      ELSE StillCounted(OfDay(d))
      BY <3>1, StillCountedCount
    <3>3. memory.series[d].value <= StillCounted(OfDay(d))
      BY <2>1 DEF MemoryInv
    <3>4. StillCounted(OfDay(d)) \in Nat
      BY <3>1, StillCountedType
    <3>5. memory.series[d].value \in Nat /\ memory'.series[d].value \in Nat
      BY <1>2, <1>5 DEF Memory, DaySeries
    <3>. QED
      BY <1>4, <2>1, <3>2, <3>3, <3>4, <3>5
  <2>. QED
    BY <2>3, <2>4
<1>. QED
  BY <1>5, <1>6 DEF MemoryInv, OfDay, Day

LEMMA MemoryRevoke ==
    ASSUME IsFiniteSet(Rows), ControlTypes, StandingInv, MemoryInv, NEW r \in Slots, Revoke(r)
    PROVE  MemoryInv'
<1>0. /\ Store(jobs[r]) /\ jobs[r].stage = "block" /\ UNCHANGED online
      /\ jobs[r].rollback \in Seq(Event) /\ jobs[r].event \in Event
  BY DEF Revoke, ControlTypes, Jobs
<1>. SUFFICES ASSUME NEW q \in Seq(Event), NEW e \in Event,
                     q = jobs[r].rollback, e = jobs[r].event
              PROVE  MemoryInv'
  BY <1>0
<1>2. memory \in Memory
  BY DEF MemoryInv
<1>. DEFINE middle == IncrementedBlocked(memory, e)
            after == FoldLeft(Decremented, middle, q)
<1>3. /\ middle \in Memory /\ middle.total = memory.total
      /\ \A d \in Days : middle.series[d].value <= memory.series[d].value
  BY <1>2, IncrementedBlockedIs
<1>4. InMemory(jobs[r]) = after
  BY <1>0 DEF InMemory
<1>. HIDE DEF middle
<1>5. /\ after \in Memory /\ after.total = Minus(middle.total, Len(q))
      /\ \A d \in Days : after.series[d].value
            <= Minus(middle.series[d].value, Within(q, OfDay(d)))
  BY <1>3, FoldDecremented
<1>. HIDE DEF after
<1>6. memory' \in Memory
  BY <1>0, <1>2, <1>4, <1>5 DEF Store
<1>7. ASSUME steady', ~online'
      PROVE  /\ memory'.total = StillCounted(Event)'
             /\ \A d \in Days : memory'.series[d].value <= StillCounted(OfDay(d))'
  <2>1. steady /\ ~online /\ memory' = after
    BY <1>0, <1>4, <1>7 DEF Store
  <2>2. Within(q, Event) = Len(q)
    BY WithinAll
  <2>3. /\ StillCounted(Event) = StillCounted(Event)' + Len(q)
        /\ StillCounted(Event)' \in Nat /\ Len(q) \in Nat
    BY <2>2, StillCountedRevoke
  <2>4. memory'.total = StillCounted(Event)'
    <3>1. memory'.total = Minus(StillCounted(Event), Len(q))
      BY <1>3, <1>5, <2>1 DEF MemoryInv
    <3>. QED
      BY <2>3, <3>1 DEF Minus
  <2>5. ASSUME NEW d \in Days
        PROVE  memory'.series[d].value <= StillCounted(OfDay(d))'
    <3>1. OfDay(d) \in SUBSET Event
      BY DEF OfDay
    <3>2. /\ StillCounted(OfDay(d)) = StillCounted(OfDay(d))' + Within(q, OfDay(d))
          /\ StillCounted(OfDay(d))' \in Nat /\ Within(q, OfDay(d)) \in Nat
      BY <3>1, StillCountedRevoke
    <3>3. memory.series[d].value <= StillCounted(OfDay(d))
      BY <2>1 DEF MemoryInv
    <3>4. /\ memory.series[d].value \in Nat /\ middle.series[d].value \in Nat
          /\ after.series[d].value \in Nat
      BY <1>2, <1>3, <1>5 DEF Memory, DaySeries
    <3>5. after.series[d].value <= Minus(middle.series[d].value, Within(q, OfDay(d)))
          /\ middle.series[d].value <= memory.series[d].value
      BY <1>3, <1>5
    <3>6. after.series[d].value <= StillCounted(OfDay(d))'
      BY <3>2, <3>3, <3>4, <3>5 DEF Minus
    <3>. QED
      BY <2>1, <3>6
  <2>. QED
    BY <2>4, <2>5
<1>. QED
  BY <1>6, <1>7 DEF MemoryInv, OfDay, Day

LEMMA NextMemory ==
    ASSUME IsFiniteSet(Rows), ControlTypes, StandingInv, MemoryInv, [Next]_vars
    PROVE  MemoryInv'
<1>1. ControlTypes' /\ StandingInv'
  BY NextTypes, NextStanding
<1>2. ASSUME UNCHANGED <<memory, standing, jobs>>, UNCHANGED <<online, steady>> \/ ~steady'
      PROVE  MemoryInv'
  <2>1. \A E \in SUBSET Event : StillCounted(E)' = StillCounted(E)
    BY <1>2, StillCountedSame
  <2>. QED
    BY <1>2, <2>1, MemoryQuiet
<1>3. CASE Tick \/ Switch \/ (\E k \in Keys : Deduplicate(k)) \/ UNCHANGED vars
  BY <1>2, <1>3 DEF Tick, Switch, Deduplicate, stores, vars
<1>4. ASSUME NEW r \in Slots, Count(r)
      PROVE  MemoryInv'
  BY <1>4, MemoryCount
<1>5. ASSUME NEW r \in Slots, Revoke(r)
      PROVE  MemoryInv'
  BY <1>5, MemoryRevoke
<1>6. ASSUME NEW r \in Slots, Lose(r)
      PROVE  MemoryInv'
  BY <1>6 DEF Lose, MemoryInv
<1>7. ASSUME NEW r \in Slots, NEW k \in Keys, NEW w \in Rows, Admit(r, k, w)
      PROVE  MemoryInv'
  <2>1. /\ UNCHANGED <<memory, steady, online, standing>>
        /\ jobs[r].stage # "block" /\ jobs'[r].stage # "block"
        /\ \A q \in Slots \ {r} : jobs'[q] = jobs[q]
    BY <1>7 DEF Admit, Arrives, stores, NoJob, ControlTypes
  <2>2. \A E \in SUBSET Event : StillCounted(E)' = StillCounted(E)
    BY <2>1, StillCountedSame
  <2>. QED
    BY <2>1, <2>2, MemoryQuiet
<1>8. ASSUME NEW r \in Slots, NEW k \in Keys, NEW w \in Rows, Block(r, k, w)
      PROVE  MemoryInv'
  <2>1. UNCHANGED <<memory, steady, online>>
    BY <1>8 DEF Block, Arrives, stores
  <2>2. \A E \in SUBSET Event : StillCounted(E)' = StillCounted(E)
    <3>. TAKE E \in SUBSET Event
    <3>. QED
      BY <1>1, <1>8, StillCountedBlock
  <2>. QED
    BY <2>1, <2>2, MemoryQuiet
<1>. QED
  BY <1>3, <1>4, <1>5, <1>6, <1>7, <1>8 DEF Next

\* As long as the database stays away, the total in memory is exactly what
\* still counts, and the chart never shows more of a day than that.
THEOREM FallbackShowsWhatCounts ==
    ASSUME IsFiniteSet(Rows)
    PROVE  Spec => []FallbackExact
<1>1. Init => ControlTypes /\ StandingInv /\ MemoryInv
  BY InitTypes, InitStanding, InitMemory
<1>2. ControlTypes /\ StandingInv /\ MemoryInv /\ [Next]_vars
         => (ControlTypes /\ StandingInv /\ MemoryInv)'
  BY NextTypes, NextStanding, NextMemory
<1>3. MemoryInv => FallbackExact
  BY DEF MemoryInv, FallbackExact, OfDay
<1>. QED
  BY <1>1, <1>2, <1>3, PTL DEF Spec
=============================================================================
