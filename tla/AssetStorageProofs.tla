------------------------- MODULE AssetStorageProofs -------------------------
(***************************************************************************)
(* Proofs about AssetStorage, for any set of assets and contents, any      *)
(* number of requests and of stops and, but for the last two theorems, any *)
(* number of imports in flight.                                            *)
(***************************************************************************)
EXTENDS AssetStorage, FiniteSetTheorems, TLAPS

LEMMA Sentinels == Absent # Torn /\ Startup \notin Requests /\ MaxCrashes \in Nat
  BY StorageAssumption

LEMMA SeedEntries ==
    /\ SeedOrder \in Seq(Entry) /\ SeedOrder # <<>>
    /\ \A i \in DOMAIN SeedOrder :
          SeedOrder[i] \in Entry /\ SeedOrder[i].asset \in Assets /\ SeedOrder[i].source # "upload"
    /\ Default \in Assets
<1>1. SeedOrder \in Seq(Entry) /\ SeedOrder # <<>> /\ Default \in Seeds
  BY SeedAssumption
<1>2. \A i \in DOMAIN SeedOrder : SeedOrder[i] \in Entry /\ SeedOrder[i].source # "upload"
  BY SeedAssumption
<1>3. \A e \in Entry : e.asset \in Assets
  BY DEF Entry
<1>. QED
  BY <1>1, <1>2, <1>3 DEF Seeds

LEMMA NoJobType == NoJob \in Job
  BY SeedEntries DEF NoJob, Job

(***************************************************************************)
(* Types.                                                                  *)
(***************************************************************************)
LEMMA FailedJob ==
    ASSUME NEW j \in Job, NEW c \in {"entry", "commit", "undo"}
    PROVE  [j EXCEPT !.cause = c] \in Job
  BY DEF Job

LEMMA TailType ==
    ASSUME NEW s \in Seq(Entry), s # <<>>
    PROVE  Tail(s) \in Seq(Entry) /\ Head(s) \in Entry
  OBVIOUS

LEMMA NextJob ==
    ASSUME NEW j \in Job, j.queue # <<>>,
           NEW restored \in SUBSET Assets, NEW created \in SUBSET Assets
    PROVE  [j EXCEPT !.queue = Tail(@), !.restored = restored, !.created = created] \in Job
<1>1. j.queue \in Seq(Entry)
  BY DEF Job
<1>2. Tail(j.queue) \in Seq(Entry)
  BY <1>1, TailType
<1>. QED
  BY <1>2 DEF Job

LEMMA EntryType ==
    ASSUME NEW e \in Entry
    PROVE  /\ e.asset \in Assets /\ e.content \in Contents /\ e.source \in Sources
           /\ Describing(e) \in Description
  BY DEF Entry, Describing, Description

\* The labels at which a process has an entry in hand.
EntryLabels == {"lookup", "check", "compare"} \cup WriteLabels

\* A process that works on an entry has one, and its asset is that entry's
\* once it has been looked up.
EntryInHand ==
    \A r \in Processes :
        /\ pc[r] \in EntryLabels => job[r].queue # <<>>
        /\ pc[r] \in EntryLabels \ {"lookup"} => Current(r).asset = job[r].asset

TypeInv == TypeOK /\ EntryInHand

LEMMA InitTypes == Init => TypeInv
<1>. SUFFICES ASSUME Init PROVE TypeInv
  OBVIOUS
<1>1. TypeOK
  BY NoJobType, Sentinels DEF Init, TypeOK, Labels
<1>2. EntryInHand
  BY DEF Init, EntryInHand, EntryLabels, WriteLabels
<1>. QED
  BY <1>1, <1>2 DEF TypeInv

\* One process moves on: what has to be shown of its new label and locals.
LEMMA OneMoves ==
    ASSUME TypeInv, NEW r \in Processes, NEW l \in Labels, NEW j \in Job,
           pc' = [pc EXCEPT ![r] = l],
           job' = [job EXCEPT ![r] = j],
           l \in EntryLabels => j.queue # <<>>,
           l \in EntryLabels \ {"lookup"} => Head(j.queue).asset = j.asset
    PROVE  pc' \in [Processes -> Labels] /\ job' \in [Processes -> Job] /\ EntryInHand'
<1>1. pc \in [Processes -> Labels] /\ job \in [Processes -> Job]
  BY DEF TypeInv, TypeOK
<1>2. pc'[r] = l /\ job'[r] = j
  BY <1>1
<1>3. \A q \in Processes : q # r => pc'[q] = pc[q] /\ job'[q] = job[q]
  BY <1>1
<1>4. EntryInHand'
  BY <1>2, <1>3 DEF TypeInv, EntryInHand, Current
<1>. QED
  BY <1>1, <1>4

\* ... and of the files and the history.
LEMMA RestTyped ==
    ASSUME TypeInv, pc' \in [Processes -> Labels], job' \in [Processes -> Job], EntryInHand',
           up' \in {"down", "starting", "up"}, crashes' \in 0 .. MaxCrashes,
           dirs' \in SUBSET Assets,
           payload' \in [Assets -> Contents \cup {Absent, Torn}],
           metadata' \in [Assets -> Description \cup {Absent, Torn}],
           kept' \in SUBSET Assets, unacked' \in SUBSET Assets,
           deleted' \in SUBSET Assets, raced' \in SUBSET Assets,
           removed' \in [Assets -> {"never", "begun", "completed"}]
    PROVE  TypeInv'
  BY DEF TypeInv, TypeOK

LEMMA FailTyped ==
    ASSUME TypeInv, NEW r \in Processes, NEW c \in {"entry", "commit", "undo"}, Fail(r, c)
    PROVE  pc' \in [Processes -> Labels] /\ job' \in [Processes -> Job] /\ EntryInHand'
<1>1. job[r] \in Job
  BY DEF TypeInv, TypeOK
<1>. DEFINE j == [job[r] EXCEPT !.cause = c]
<1>2. j \in Job
  BY <1>1, FailedJob
<1>3. job' = [job EXCEPT ![r] = j] /\ pc' = [pc EXCEPT ![r] = "failed"]
  BY DEF Fail, GoTo
<1>. HIDE DEF j
<1>. QED
  BY <1>2, <1>3, OneMoves DEF Labels, EntryLabels, WriteLabels

LEMMA MoveTyped ==
    ASSUME TypeInv, NEW r \in Processes, NEW l \in Labels, GoTo(r, l), UNCHANGED job,
           pc[r] \in EntryLabels \ {"lookup"} \/ l \notin EntryLabels
    PROVE  pc' \in [Processes -> Labels] /\ job' \in [Processes -> Job] /\ EntryInHand'
<1>1. job[r] \in Job /\ job \in [Processes -> Job]
  BY DEF TypeInv, TypeOK
<1>2. job' = [job EXCEPT ![r] = job[r]]
  BY <1>1
<1>3. pc' = [pc EXCEPT ![r] = l]
  BY DEF GoTo
<1>4. pc[r] \in EntryLabels \ {"lookup"} =>
        job[r].queue # <<>> /\ Head(job[r].queue).asset = job[r].asset
  BY DEF TypeInv, EntryInHand, Current
<1>. QED
  BY <1>1, <1>2, <1>3, <1>4, OneMoves

LEMMA BeginTyped ==
    ASSUME TypeInv, NEW r \in Processes, NEW l \in Labels, NEW j \in Job, Begin(r, l, j),
           l \in EntryLabels => j.queue # <<>>,
           l \in EntryLabels \ {"lookup"} => Head(j.queue).asset = j.asset
    PROVE  TypeInv'
<1>1. pc' = [pc EXCEPT ![r] = l] /\ job' = [job EXCEPT ![r] = j]
  BY DEF Begin, GoTo
<1>2. UNCHANGED <<up, crashes, files, history>>
  BY DEF Begin
<1>3. pc' \in [Processes -> Labels] /\ job' \in [Processes -> Job] /\ EntryInHand'
  BY <1>1, OneMoves
<1>. QED
  BY <1>2, <1>3, RestTyped DEF TypeInv, TypeOK, files, history

LEMMA NextEntryTyped ==
    ASSUME TypeInv, NEW r \in Processes, pc[r] \in EntryLabels,
           NEW restored \in SUBSET Assets, NEW created \in SUBSET Assets,
           NextEntry(r, restored, created)
    PROVE  pc' \in [Processes -> Labels] /\ job' \in [Processes -> Job] /\ EntryInHand'
<1>1. job[r] \in Job /\ job[r].queue # <<>>
  BY DEF TypeInv, TypeOK, EntryInHand
<1>. DEFINE j == [job[r] EXCEPT !.queue = Tail(@), !.restored = restored, !.created = created]
<1>2. j \in Job /\ j.queue = Tail(job[r].queue)
  BY <1>1, NextJob DEF Job
<1>3. AfterEntry(r) \in Labels
  BY DEF AfterEntry, Labels
<1>4. AfterEntry(r) \in EntryLabels => AfterEntry(r) = "lookup" /\ Tail(job[r].queue) # <<>>
  BY DEF AfterEntry, EntryLabels, WriteLabels
<1>5. job' = [job EXCEPT ![r] = j] /\ pc' = [pc EXCEPT ![r] = AfterEntry(r)]
  BY DEF NextEntry, GoTo
<1>. HIDE DEF j
<1>. QED
  BY <1>2, <1>3, <1>4, <1>5, OneMoves

LEMMA ArriveTypes ==
    ASSUME TypeInv, NEW r \in Requests, Arrive(r)
    PROVE  TypeInv'
<1>. r \in Processes
  BY DEF Processes
<1>1. CASE Upload(r)
  <2>1. PICK e \in Offers : Begin(r, "check", [NoJob EXCEPT !.op = "upload", !.asset = e.asset,
                                                            !.queue = <<e>>, !.fresh = TRUE])
    BY <1>1 DEF Upload
  <2>2. e \in Entry /\ e.asset \in Assets
    BY InputAssumption, EntryType
  <2>. DEFINE j == [NoJob EXCEPT !.op = "upload", !.asset = e.asset,
                                 !.queue = <<e>>, !.fresh = TRUE]
  <2>3. <<e>> \in Seq(Entry) /\ <<e>> # <<>> /\ Head(<<e>>) = e
    BY <2>2
  <2>4. j \in Job /\ j.queue = <<e>> /\ j.asset = e.asset
    BY <2>2, <2>3, NoJobType DEF Job, NoJob
  <2>. HIDE DEF j
  <2>. QED
    BY <2>1, <2>3, <2>4, BeginTyped DEF Labels, j
<1>2. CASE Import(r)
  <2>1. PICK bundle \in Bundles :
            Begin(r, "lookup", [NoJob EXCEPT !.op = "import", !.queue = bundle])
    BY <1>2 DEF Import
  <2>2. bundle \in Seq(Entry) /\ bundle # <<>>
    BY InputAssumption
  <2>. DEFINE j == [NoJob EXCEPT !.op = "import", !.queue = bundle]
  <2>3. j \in Job /\ j.queue = bundle
    BY <2>2, NoJobType DEF Job, NoJob
  <2>. HIDE DEF j
  <2>. QED
    BY <2>1, <2>2, <2>3, BeginTyped DEF Labels, j
<1>3. CASE Delete(r) \/ Fetch(r) \/ Preview(r)
  <2>1. PICK l \in {"inspect", "describe", "choose"}, o \in {"delete", "fetch", "preview"},
             a \in Assets :
            Begin(r, l, [NoJob EXCEPT !.op = o, !.asset = a])
    BY <1>3 DEF Delete, Fetch, Preview
  <2>. DEFINE j == [NoJob EXCEPT !.op = o, !.asset = a]
  <2>2. j \in Job
    BY NoJobType DEF Job
  <2>. HIDE DEF j
  <2>3. l \in Labels /\ l \notin EntryLabels
    BY DEF Labels, ReadLabels, EntryLabels, WriteLabels
  <2>. QED
    BY <2>1, <2>2, <2>3, BeginTyped DEF j
<1>4. CASE PreviewOfNoAsset(r)
  <2>. DEFINE j == [NoJob EXCEPT !.op = "preview"]
  <2>1. j \in Job
    BY NoJobType DEF Job
  <2>. HIDE DEF j
  <2>2. "fallback" \in Labels /\ "fallback" \notin EntryLabels
    BY DEF Labels, ReadLabels, EntryLabels, WriteLabels
  <2>. QED
    BY <1>4, <2>1, <2>2, BeginTyped DEF PreviewOfNoAsset, j
<1>. QED
  BY <1>1, <1>2, <1>3, <1>4 DEF Arrive

\* What a filled file may hold has the type of the old or of the new content.
LEMMA FilledType ==
    ASSUME NEW S, NEW old \in S \cup {Absent, Torn}, NEW new \in S, NEW file \in Filled(old, new)
    PROVE  file \in S \cup {Absent, Torn}
  BY DEF Filled

LEMMA WriteTypes ==
    ASSUME TypeInv, NEW r \in Processes, WriteStep(r)
    PROVE  TypeInv'
<1>1. /\ job[r] \in Job /\ job[r].asset \in Assets
      /\ job[r].restored \in SUBSET Assets /\ job[r].created \in SUBSET Assets
  BY DEF TypeInv, TypeOK, Job
<1>2. pc[r] \in EntryLabels => job[r].queue # <<>> /\ Current(r) \in Entry
  BY <1>1, TailType DEF TypeInv, EntryInHand, Job, Current
<1>3. Restored(r) \in SUBSET Assets /\ job[r].created \cup {job[r].asset} \in SUBSET Assets
  BY <1>1 DEF Restored
<1>4. CASE LookUp(r)
  <2>1. At(r, "lookup") /\ UNCHANGED <<up, crashes, files, history>>
    BY <1>4 DEF LookUp
  <2>2. pc[r] = "lookup" /\ pc[r] \in EntryLabels
    BY <2>1 DEF At, EntryLabels
  <2>3. pc' \in [Processes -> Labels] /\ job' \in [Processes -> Job] /\ EntryInHand'
    <3>1. CASE Fail(r, "entry")
      BY <3>1, FailTyped
    <3>2. CASE NextEntry(r, {}, job[r].created)
      BY <3>2, <2>2, <1>1, NextEntryTyped
    <3>3. CASE /\ GoTo(r, "check")
               /\ job' = [job EXCEPT ![r].asset = Current(r).asset,
                                     ![r].fresh = (metadata[Current(r).asset] = Absent)]
      <4>. DEFINE f == (metadata[Current(r).asset] = Absent)
                  j == [job[r] EXCEPT !.asset = Current(r).asset, !.fresh = f]
      <4>1. f \in BOOLEAN
        OBVIOUS
      <4>. HIDE DEF f
      <4>2. /\ j \in Job /\ j.queue = job[r].queue /\ j.asset = Current(r).asset
        BY <4>1, <1>1, <1>2, <2>2, EntryType DEF Job
      <4>3. Head(j.queue) = Current(r) /\ j.queue # <<>>
        BY <4>2, <1>2, <2>2 DEF Current
      <4>4. job' = [job EXCEPT ![r] = j] /\ pc' = [pc EXCEPT ![r] = "check"]
        BY <3>3 DEF GoTo, f
      <4>. HIDE DEF j
      <4>. QED
        BY <4>2, <4>3, <4>4, OneMoves DEF Labels
    <3>. QED
      BY <1>4, <3>1, <3>2, <3>3 DEF LookUp
  <2>. QED
    BY <2>1, <2>3, RestTyped DEF TypeInv, TypeOK, files, history
<1>5. CASE Check(r)
  <2>1. At(r, "check") /\ UNCHANGED <<up, crashes, files, kept, unacked, removed, deleted>>
    BY <1>5 DEF Check
  <2>2. pc[r] \in EntryLabels \ {"lookup"}
    BY <2>1 DEF At, EntryLabels
  <2>3. pc' \in [Processes -> Labels] /\ job' \in [Processes -> Job] /\ EntryInHand'
    <3>1. CASE Fail(r, "entry")
      BY <3>1, FailTyped
    <3>2. CASE GoTo(r, "compare") /\ UNCHANGED job
      BY <3>2, <2>2, MoveTyped DEF Labels
    <3>3. CASE GoTo(r, "makeDir") /\ UNCHANGED job
      BY <3>3, <2>2, MoveTyped DEF Labels, WriteLabels
    <3>. QED
      BY <1>5, <3>1, <3>2, <3>3 DEF Check
  <2>4. raced' \in SUBSET Assets
    BY <1>5, <1>1 DEF Check, BeginChange, TypeInv, TypeOK
  <2>. QED
    BY <2>1, <2>3, <2>4, RestTyped DEF TypeInv, TypeOK, files
<1>6. CASE Compare(r)
  <2>1. At(r, "compare") /\ UNCHANGED <<up, crashes, files, history>>
    BY <1>6 DEF Compare
  <2>2. pc[r] \in EntryLabels
    BY <2>1 DEF At, EntryLabels
  <2>3. Fail(r, "entry") \/ NextEntry(r, Restored(r), job[r].created)
    BY <1>6 DEF Compare
  <2>4. pc' \in [Processes -> Labels] /\ job' \in [Processes -> Job] /\ EntryInHand'
    BY <2>2, <2>3, <1>1, <1>3, FailTyped, NextEntryTyped
  <2>. QED
    BY <2>1, <2>4, RestTyped DEF TypeInv, TypeOK, files, history
<1>7. CASE MakeDir(r) \/ OpenPayload(r) \/ FillPayload(r) \/ OpenMetadata(r)
  <2>1. pc[r] \in EntryLabels \ {"lookup"} /\ UNCHANGED <<up, crashes, history>>
    BY <1>7 DEF MakeDir, OpenPayload, FillPayload, OpenMetadata, At, EntryLabels, WriteLabels
  <2>2. \/ Fail(r, "entry")
        \/ /\ UNCHANGED job
           /\ \E l \in WriteLabels : GoTo(r, l)
    BY <1>7 DEF MakeDir, OpenPayload, FillPayload, OpenMetadata, WriteLabels
  <2>3. pc' \in [Processes -> Labels] /\ job' \in [Processes -> Job] /\ EntryInHand'
    BY <2>1, <2>2, FailTyped, MoveTyped DEF Labels
  <2>4. /\ Current(r).content \in Contents
        /\ dirs \in SUBSET Assets
        /\ payload \in [Assets -> Contents \cup {Absent, Torn}]
        /\ metadata \in [Assets -> Description \cup {Absent, Torn}]
    BY <2>1, <1>2, EntryType DEF TypeInv, TypeOK
  <2>5. /\ dirs' \in SUBSET Assets
        /\ payload' \in [Assets -> Contents \cup {Absent, Torn}]
        /\ metadata' \in [Assets -> Description \cup {Absent, Torn}]
    <3>1. CASE Fail(r, "entry")
      BY <3>1, <2>4 DEF Fail, files
    <3>2. CASE MakeDir(r)
      BY <3>2, <2>4, <1>1 DEF MakeDir
    <3>3. CASE OpenPayload(r) /\ ~Fail(r, "entry")
      BY <3>3, <2>4, <1>1 DEF OpenPayload
    <3>4. CASE FillPayload(r)
      <4>1. PICK file \in Filled(payload[job[r].asset], Current(r).content) :
                payload' = [payload EXCEPT ![job[r].asset] = file]
        BY <3>4 DEF FillPayload
      <4>2. file \in Contents \cup {Absent, Torn}
        BY <2>4, <1>1, FilledType
      <4>. QED
        BY <3>4, <4>1, <4>2, <2>4 DEF FillPayload
    <3>5. CASE OpenMetadata(r) /\ ~Fail(r, "entry")
      BY <3>5, <2>4, <1>1 DEF OpenMetadata
    <3>. QED
      BY <1>7, <3>1, <3>2, <3>3, <3>4, <3>5
  <2>. QED
    BY <2>1, <2>3, <2>5, RestTyped DEF TypeInv, TypeOK, history
<1>8. CASE FillMetadata(r)
  <2>1. At(r, "fillMetadata") /\ UNCHANGED <<up, crashes, dirs, payload, history>>
    BY <1>8 DEF FillMetadata
  <2>2. pc[r] \in EntryLabels
    BY <2>1 DEF At, EntryLabels, WriteLabels
  <2>3. pc' \in [Processes -> Labels] /\ job' \in [Processes -> Job] /\ EntryInHand'
    BY <1>8, <2>2, <1>3, NextEntryTyped DEF FillMetadata
  <2>4. PICK file \in Filled(metadata[job[r].asset], Describing(Current(r))) :
            metadata' = [metadata EXCEPT ![job[r].asset] = file]
    BY <1>8 DEF FillMetadata
  <2>5. metadata \in [Assets -> Description \cup {Absent, Torn}]
        /\ Describing(Current(r)) \in Description
    BY <2>2, <1>2, EntryType DEF TypeInv, TypeOK
  <2>6. metadata' \in [Assets -> Description \cup {Absent, Torn}]
    <3>1. file \in Description \cup {Absent, Torn}
      BY <2>5, <1>1, FilledType
    <3>. QED
      BY <3>1, <2>4, <2>5
  <2>. QED
    BY <2>1, <2>3, <2>6, RestTyped DEF TypeInv, TypeOK, history
<1>. QED
  BY <1>4, <1>5, <1>6, <1>7, <1>8 DEF WriteStep

LEMMA RemoveTypes ==
    ASSUME TypeInv, NEW r \in Processes, RemoveStep(r)
    PROVE  TypeInv'
<1>1. /\ job[r] \in Job /\ job[r].asset \in Assets
      /\ job[r].restored \in SUBSET Assets /\ job[r].created \in SUBSET Assets
      /\ job[r].todo \in SUBSET {"payload", "metadata"}
  BY DEF TypeInv, TypeOK, Job
<1>. DEFINE Quiet == {"commit", "inspect", "remove", "scan", "unlink", "removeDir", "done", "failed"}
<1>2. \A l \in Quiet : l \in Labels /\ l \notin EntryLabels
  BY DEF Labels, RemoveLabels, EntryLabels, WriteLabels
<1>3. ASSUME NEW l \in Quiet, NEW j \in Job,
             GoTo(r, l), job' = [job EXCEPT ![r] = j]
      PROVE  pc' \in [Processes -> Labels] /\ job' \in [Processes -> Job] /\ EntryInHand'
  BY <1>2, <1>3, OneMoves DEF GoTo
<1>4. ASSUME NEW l \in Quiet, GoTo(r, l), UNCHANGED job
      PROVE  pc' \in [Processes -> Labels] /\ job' \in [Processes -> Job] /\ EntryInHand'
  BY <1>2, <1>4, MoveTyped
<1>5. CASE Commit(r)
  <2>1. /\ UNCHANGED <<up, crashes, files, removed, deleted, raced>>
        /\ kept' \in SUBSET Assets /\ unacked' \in SUBSET Assets
    BY <1>5, <1>1 DEF Commit, Store, TypeInv, TypeOK
  <2>2. CASE GoTo(r, "done") /\ UNCHANGED job
    BY <2>1, <2>2, <1>4, RestTyped DEF TypeInv, TypeOK, files
  <2>3. CASE job' = [job EXCEPT ![r].cause = "commit"]
             /\ GoTo(r, IF job[r].restored = {} THEN "failed" ELSE "remove")
    <3>. DEFINE j == [job[r] EXCEPT !.cause = "commit"]
    <3>1. j \in Job
      BY <1>1, FailedJob
    <3>2. job' = [job EXCEPT ![r] = j]
      BY <2>3
    <3>3. \E l \in Quiet : GoTo(r, l)
      BY <2>3
    <3>. HIDE DEF j
    <3>. QED
      BY <2>1, <3>1, <3>2, <3>3, <1>3, RestTyped DEF TypeInv, TypeOK, files
  <2>. QED
    BY <1>5, <2>2, <2>3 DEF Commit
<1>6. CASE Inspect(r) \/ Remove(r)
  <2>1. UNCHANGED <<up, crashes, files, history>>
    BY <1>6 DEF Inspect, Remove
  <2>2. CASE Fail(r, "entry")
    BY <2>1, <2>2, FailTyped, RestTyped DEF TypeInv, TypeOK, files, history
  <2>3. CASE GoTo(r, "remove") /\ job' = [job EXCEPT ![r].restored = {job[r].asset}]
    <3>. DEFINE j == [job[r] EXCEPT !.restored = {job[r].asset}]
    <3>1. j \in Job
      BY <1>1 DEF Job
    <3>2. job' = [job EXCEPT ![r] = j]
      BY <2>3
    <3>. HIDE DEF j
    <3>. QED
      BY <2>1, <2>3, <3>1, <3>2, <1>3, RestTyped DEF TypeInv, TypeOK, files, history
  <2>4. CASE \E a \in Assets : GoTo(r, "scan") /\ job' = [job EXCEPT ![r].asset = a]
    <3>1. PICK a \in Assets : GoTo(r, "scan") /\ job' = [job EXCEPT ![r].asset = a]
      BY <2>4
    <3>. DEFINE j == [job[r] EXCEPT !.asset = a]
    <3>2. j \in Job
      BY <1>1 DEF Job
    <3>3. job' = [job EXCEPT ![r] = j]
      BY <3>1
    <3>. HIDE DEF j
    <3>. QED
      BY <2>1, <3>1, <3>2, <3>3, <1>3, RestTyped DEF TypeInv, TypeOK, files, history
  <2>5. CASE \E a \in Assets :
               GoTo(r, "failed") /\ job' = [job EXCEPT ![r].asset = a, ![r].cause = "undo"]
    <3>1. PICK a \in Assets :
               GoTo(r, "failed") /\ job' = [job EXCEPT ![r].asset = a, ![r].cause = "undo"]
      BY <2>5
    <3>. DEFINE j == [job[r] EXCEPT !.asset = a, !.cause = "undo"]
    <3>2. j \in Job
      BY <1>1 DEF Job
    <3>3. job' = [job EXCEPT ![r] = j]
      BY <3>1
    <3>. HIDE DEF j
    <3>. QED
      BY <2>1, <3>1, <3>2, <3>3, <1>3, RestTyped DEF TypeInv, TypeOK, files, history
  <2>. QED
    BY <1>6, <1>1, <2>2, <2>3, <2>4, <2>5 DEF Inspect, Remove
<1>7. CASE Scan(r)
  <2>1. UNCHANGED <<up, crashes, files>>
    BY <1>7 DEF Scan
  <2>2. CASE Fail(r, "undo") /\ UNCHANGED history
    BY <2>1, <2>2, FailTyped, RestTyped DEF TypeInv, TypeOK, files, history
  <2>3. CASE ~(Fail(r, "undo") /\ UNCHANGED history)
    <3>. DEFINE j == [job[r] EXCEPT !.todo = Present(job[r].asset)]
    <3>1. Present(job[r].asset) \in SUBSET {"payload", "metadata"}
      BY DEF Present
    <3>2. j \in Job
      BY <1>1, <3>1 DEF Job
    <3>3. GoTo(r, "unlink") /\ job' = [job EXCEPT ![r] = j]
      BY <1>7, <2>3 DEF Scan
    <3>4. /\ raced' \in SUBSET Assets /\ deleted' \in SUBSET Assets
          /\ kept' \in SUBSET Assets /\ unacked' \in SUBSET Assets
          /\ removed' \in [Assets -> {"never", "begun", "completed"}]
      BY <1>7, <2>3, <1>1 DEF Scan, BeginChange, TypeInv, TypeOK
    <3>. HIDE DEF j
    <3>. QED
      BY <2>1, <3>2, <3>3, <3>4, <1>3, RestTyped DEF TypeInv, TypeOK, files
  <2>. QED
    BY <1>7, <2>2, <2>3 DEF Scan
<1>8. CASE Unlink(r)
  <2>1. pc[r] = "unlink" /\ UNCHANGED <<up, crashes, dirs, history>>
    BY <1>8 DEF Unlink, At
  <2>2. CASE GoTo(r, "removeDir") /\ UNCHANGED <<payload, metadata, job>>
    BY <2>1, <2>2, <1>4, RestTyped DEF TypeInv, TypeOK, history
  <2>3. CASE \E f \in job[r].todo :
            /\ payload' = IF f = "payload" THEN [payload EXCEPT ![job[r].asset] = Absent] ELSE payload
            /\ metadata' = IF f = "metadata" THEN [metadata EXCEPT ![job[r].asset] = Absent] ELSE metadata
            /\ job' = [job EXCEPT ![r].todo = @ \ {f}]
            /\ UNCHANGED pc
    <3>1. PICK f \in job[r].todo :
            /\ payload' = IF f = "payload" THEN [payload EXCEPT ![job[r].asset] = Absent] ELSE payload
            /\ metadata' = IF f = "metadata" THEN [metadata EXCEPT ![job[r].asset] = Absent] ELSE metadata
            /\ job' = [job EXCEPT ![r].todo = @ \ {f}]
            /\ UNCHANGED pc
      BY <2>3
    <3>. DEFINE j == [job[r] EXCEPT !.todo = @ \ {f}]
    <3>2. j \in Job
      BY <1>1 DEF Job
    <3>3. GoTo(r, "unlink") /\ job' = [job EXCEPT ![r] = j]
      BY <2>1, <3>1 DEF GoTo, TypeInv, TypeOK
    <3>4. /\ payload' \in [Assets -> Contents \cup {Absent, Torn}]
          /\ metadata' \in [Assets -> Description \cup {Absent, Torn}]
      BY <3>1 DEF TypeInv, TypeOK
    <3>. HIDE DEF j
    <3>. QED
      BY <2>1, <3>2, <3>3, <3>4, <1>3, RestTyped DEF TypeInv, TypeOK, history
  <2>. QED
    BY <1>8, <2>2, <2>3 DEF Unlink
<1>9. CASE RemoveDir(r)
  <2>1. UNCHANGED <<up, crashes, kept, unacked, deleted, raced>>
    BY <1>9 DEF RemoveDir
  <2>2. CASE Fail(r, "undo") /\ UNCHANGED removed
    BY <2>1, <2>2, FailTyped, RestTyped DEF Fail, TypeInv, TypeOK, files
  <2>3. CASE ~(Fail(r, "undo") /\ UNCHANGED removed)
    <3>. DEFINE left == job[r].restored \ {job[r].asset}
                j == [job[r] EXCEPT !.restored = left]
    <3>1. j \in Job
      BY <1>1 DEF Job
    <3>2. /\ job' = [job EXCEPT ![r] = j]
          /\ \E l \in Quiet : GoTo(r, l)
      BY <1>9, <2>3 DEF RemoveDir
    <3>3. /\ dirs' \in SUBSET Assets /\ UNCHANGED <<payload, metadata>>
          /\ removed' \in [Assets -> {"never", "begun", "completed"}]
      BY <1>9, <2>3, <1>1 DEF RemoveDir, TypeInv, TypeOK
    <3>. HIDE DEF j
    <3>. QED
      BY <2>1, <3>1, <3>2, <3>3, <1>3, RestTyped DEF TypeInv, TypeOK
  <2>. QED
    BY <1>9, <2>2, <2>3 DEF RemoveDir
<1>. QED
  BY <1>5, <1>6, <1>7, <1>8, <1>9 DEF RemoveStep

LEMMA ReadTypes ==
    ASSUME TypeInv, NEW r \in Processes, ReadStep(r)
    PROVE  TypeInv'
<1>1. /\ job[r] \in Job /\ job[r].asset \in Assets
      /\ payload[job[r].asset] \in Contents \cup {Absent, Torn}
      /\ metadata[job[r].asset] \in Description \cup {Absent, Torn}
  BY DEF TypeInv, TypeOK, Job
<1>. DEFINE Quiet == {"fallback", "chooseRead", "describe", "resolve", "send", "done"}
<1>2. \A l \in Quiet : l \in Labels /\ l \notin EntryLabels
  BY DEF Labels, ReadLabels, EntryLabels, WriteLabels
<1>3. UNCHANGED <<up, crashes, files, history>>
  BY DEF ReadStep, Choose, ChooseRead, Fallback, Describe, Resolve, Send
<1>4. \/ Fail(r, "entry")
      \/ \E l \in Quiet : GoTo(r, l) /\ UNCHANGED job
      \/ \E l \in Quiet, j \in Job : GoTo(r, l) /\ job' = [job EXCEPT ![r] = j]
  <2>1. [job[r] EXCEPT !.asset = Default] \in Job
    BY <1>1, SeedEntries DEF Job
  <2>2. Intact(metadata[job[r].asset]) =>
            [job[r] EXCEPT !.seen = metadata[job[r].asset]] \in Job
    BY <1>1 DEF Job, Intact
  <2>3. [job[r] EXCEPT !.got = payload[job[r].asset]] \in Job
    BY <1>1 DEF Job
  <2>4. CASE Choose(r) \/ ChooseRead(r) \/ Resolve(r)
    BY <2>4 DEF Choose, ChooseRead, Resolve
  <2>5. CASE Fallback(r)
    BY <2>5, <2>1 DEF Fallback
  <2>6. CASE Describe(r)
    BY <2>6, <2>2 DEF Describe
  <2>7. CASE Send(r)
    BY <2>7, <2>3 DEF Send
  <2>. QED
    BY <2>4, <2>5, <2>6, <2>7 DEF ReadStep
<1>5. pc' \in [Processes -> Labels] /\ job' \in [Processes -> Job] /\ EntryInHand'
  <2>1. CASE Fail(r, "entry")
    BY <2>1, FailTyped
  <2>2. CASE \E l \in Quiet : GoTo(r, l) /\ UNCHANGED job
    BY <2>2, <1>2, MoveTyped
  <2>3. CASE \E l \in Quiet, j \in Job : GoTo(r, l) /\ job' = [job EXCEPT ![r] = j]
    BY <2>3, <1>2, OneMoves DEF GoTo
  <2>. QED
    BY <1>4, <2>1, <2>2, <2>3
<1>. QED
  BY <1>3, <1>5, RestTyped DEF TypeInv, TypeOK, files, history

LEMMA LifeTypes ==
    ASSUME TypeInv,
           \/ \E r \in Processes : Answer(r)
           \/ Start \/ Started \/ Crash
    PROVE  TypeInv'
<1>1. "idle" \in Labels /\ "idle" \notin EntryLabels /\ "lookup" \in Labels
      /\ Startup \in Processes
  BY DEF Labels, EntryLabels, WriteLabels, Processes
<1>2. ASSUME NEW r \in Processes, Answer(r)
      PROVE  TypeInv'
  <2>1. GoTo(r, "idle") /\ job' = [job EXCEPT ![r] = NoJob] /\ UNCHANGED <<up, crashes, files, history>>
    BY <1>2 DEF Answer
  <2>2. pc' \in [Processes -> Labels] /\ job' \in [Processes -> Job] /\ EntryInHand'
    BY <2>1, <1>1, NoJobType, OneMoves DEF GoTo
  <2>. QED
    BY <2>1, <2>2, RestTyped DEF TypeInv, TypeOK, files, history
<1>3. CASE Start
  <2>. DEFINE j == [NoJob EXCEPT !.op = "seed", !.queue = SeedOrder]
  <2>1. j \in Job /\ j.queue = SeedOrder
    BY NoJobType, SeedEntries DEF Job, NoJob
  <2>2. /\ pc' = [pc EXCEPT ![Startup] = "lookup"] /\ job' = [job EXCEPT ![Startup] = j]
        /\ up' = "starting" /\ UNCHANGED <<crashes, files, history>>
    BY <1>3 DEF Start, GoTo
  <2>. HIDE DEF j
  <2>3. pc' \in [Processes -> Labels] /\ job' \in [Processes -> Job] /\ EntryInHand'
    BY <2>1, <2>2, <1>1, SeedEntries, OneMoves
  <2>. QED
    BY <2>2, <2>3, RestTyped DEF TypeInv, TypeOK, files, history
<1>4. CASE Started
  <2>1. /\ pc' = [pc EXCEPT ![Startup] = "idle"] /\ job' = [job EXCEPT ![Startup] = NoJob]
        /\ up' \in {"up", "down"} /\ UNCHANGED <<crashes, files, history>>
    BY <1>4 DEF Started, GoTo
  <2>2. pc' \in [Processes -> Labels] /\ job' \in [Processes -> Job] /\ EntryInHand'
    BY <2>1, <1>1, NoJobType, OneMoves
  <2>. QED
    BY <2>1, <2>2, RestTyped DEF TypeInv, TypeOK, files, history
<1>5. CASE Crash
  <2>1. /\ pc' \in [Processes -> Labels] /\ job' \in [Processes -> Job] /\ EntryInHand'
    BY <1>5, <1>1, NoJobType DEF Crash, EntryInHand
  <2>2. crashes' \in 0 .. MaxCrashes
    BY <1>5, Sentinels DEF Crash, TypeInv, TypeOK
  <2>. QED
    BY <1>5, <2>1, <2>2, RestTyped DEF Crash, TypeInv, TypeOK, files, history
<1>. QED
  BY <1>2, <1>3, <1>4, <1>5

LEMMA NextTypes == TypeInv /\ [Next]_vars => TypeInv'
<1>. SUFFICES ASSUME TypeInv, [Next]_vars PROVE TypeInv'
  OBVIOUS
<1>1. CASE UNCHANGED vars
  BY <1>1 DEF vars, files, history, TypeInv, TypeOK, EntryInHand, Current
<1>. QED
  BY <1>1, ArriveTypes, WriteTypes, RemoveTypes, ReadTypes, LifeTypes DEF Next, Step

LEMMA TypesHold == Spec => []TypeInv
  BY InitTypes, NextTypes, PTL DEF Spec

\* Every variable of the storage has its type: the files, the requests and
\* what they have in hand.
THEOREM StorageTypes == Spec => []TypeOK
<1>1. TypeInv => TypeOK
  BY DEF TypeInv
<1>. QED
  BY <1>1, TypesHold, PTL

(***************************************************************************)
(* Where the two files of an asset stand while a process changes them.     *)
(* Of an asset that is never changed by two processes at once, a writer    *)
(* finds what its own steps have left, and a removal has been announced in *)
(* "removed" before it touches a file.                                     *)
(***************************************************************************)
ChangeLabels == WriteLabels \cup RemoveLabels

WriterView(r, a) ==
    /\ pc[r] # "fillMetadata" => metadata[a] = Absent
    /\ pc[r] = "fillMetadata" => metadata[a] = Torn
    /\ pc[r] # "makeDir" => a \in dirs
    /\ pc[r] = "fillPayload" => payload[a] = Torn
    /\ pc[r] \in {"openMetadata", "fillMetadata"} => payload[a] = Current(r).content

OrderlyAt(a) ==
    /\ \A q \in Processes, r \in Processes : Changes(q, a) /\ Changes(r, a) => q = r
    /\ \A r \in Processes : pc[r] \in WriteLabels /\ job[r].asset = a => WriterView(r, a)
    /\ \A r \in Processes : pc[r] \in RemoveLabels /\ job[r].asset = a => removed[a] = "begun"
    /\ Intact(metadata[a]) /\ removed[a] # "begun" => Whole(a)

Orderly == \A a \in Assets \ raced : OrderlyAt(a)

\* The same files, history and change for asset a.
SameFiles(a) ==
    /\ payload'[a] = payload[a] /\ metadata'[a] = metadata[a] /\ removed'[a] = removed[a]
    /\ a \in dirs' <=> a \in dirs

\* A step changes nothing for an asset whose files it leaves alone and which
\* no process begins to change.
LEMMA Untouched ==
    ASSUME NEW a \in Assets, OrderlyAt(a), SameFiles(a),
           \A q \in Processes :
               pc'[q] \in ChangeLabels /\ job'[q].asset = a
                   => pc'[q] = pc[q] /\ job'[q] = job[q]
    PROVE  OrderlyAt(a)'
  BY DEF OrderlyAt, WriterView, Changes, ChangeLabels, Current, SameFiles, Whole, Intact

\* A step of r on the asset that only r changes.
LEMMA OnlyChanger ==
    ASSUME NEW a \in Assets, NEW r \in Processes,
           \A q \in Processes \ {r} : pc'[q] = pc[q] /\ job'[q] = job[q] /\ ~Changes(q, a),
           pc'[r] \in WriteLabels => WriterView(r, a)',
           pc'[r] \in RemoveLabels => removed'[a] = "begun",
           Intact(metadata'[a]) /\ removed'[a] # "begun" => Whole(a)'
    PROVE  OrderlyAt(a)'
<1>1. \A q \in Processes \ {r} : ~(pc'[q] \in ChangeLabels /\ job'[q].asset = a)
  BY DEF Changes, ChangeLabels
<1>2. /\ \A q \in Processes, s \in Processes : Changes(q, a)' /\ Changes(s, a)' => q = s
      /\ \A q \in Processes : pc'[q] \in WriteLabels /\ job'[q].asset = a => WriterView(q, a)'
      /\ \A q \in Processes : pc'[q] \in RemoveLabels /\ job'[q].asset = a => removed'[a] = "begun"
  BY <1>1 DEF Changes, ChangeLabels
<1>. QED
  BY <1>2 DEF OrderlyAt

\* Steps that touch no file and begin no change.
LEMMA QuietOrderly ==
    ASSUME Orderly, UNCHANGED files, UNCHANGED removed, raced \subseteq raced',
           \A q \in Processes :
               pc'[q] \in ChangeLabels => pc'[q] = pc[q] /\ job'[q] = job[q]
    PROVE  Orderly'
<1>. SUFFICES ASSUME NEW a \in Assets, a \notin raced'
              PROVE  OrderlyAt(a)'
  BY DEF Orderly
<1>1. OrderlyAt(a)
  BY DEF Orderly
<1>2. SameFiles(a)
  BY DEF SameFiles, files
<1>. QED
  BY <1>1, <1>2, Untouched

\* A step of r that works on the asset b = job[r].asset.
LEMMA ChangeOrderly ==
    ASSUME TypeInv, Orderly, NEW r \in Processes, NEW b \in Assets, job[r].asset = b,
           NEW l \in Labels, NEW j \in Job, j.asset = b,
           pc' = [pc EXCEPT ![r] = l], job' = [job EXCEPT ![r] = j],
           raced \subseteq raced',
           \A a \in Assets \ {b} : SameFiles(a),
           b \notin raced' => \A q \in Processes \ {r} : ~Changes(q, b),
           b \notin raced' =>
               /\ l \in WriteLabels => WriterView(r, b)'
               /\ l \in RemoveLabels => removed'[b] = "begun"
               /\ Intact(metadata'[b]) /\ removed'[b] # "begun" => Whole(b)'
    PROVE  Orderly'
<1>. SUFFICES ASSUME NEW a \in Assets, a \notin raced'
              PROVE  OrderlyAt(a)'
  BY DEF Orderly
<1>1. pc \in [Processes -> Labels] /\ job \in [Processes -> Job]
  BY DEF TypeInv, TypeOK
<1>2. pc'[r] = l /\ job'[r] = j
  BY <1>1
<1>3. \A q \in Processes \ {r} : pc'[q] = pc[q] /\ job'[q] = job[q]
  BY <1>1
<1>4. CASE a # b
  <2>1. OrderlyAt(a)
    BY DEF Orderly
  <2>2. SameFiles(a)
    BY <1>4
  <2>3. \A q \in Processes :
            pc'[q] \in ChangeLabels /\ job'[q].asset = a => pc'[q] = pc[q] /\ job'[q] = job[q]
    BY <1>2, <1>3, <1>4
  <2>. QED
    BY <2>1, <2>2, <2>3, Untouched
<1>5. CASE a = b
  BY <1>2, <1>3, <1>5, OnlyChanger
<1>. QED
  BY <1>4, <1>5

\* The new label and locals of a process that is alone in changing its asset.
LEMMA Facts ==
    ASSUME TypeInv, NEW r \in Processes
    PROVE  /\ pc[r] \in Labels /\ job[r] \in Job /\ job[r].asset \in Assets
           /\ pc \in [Processes -> Labels] /\ job \in [Processes -> Job]
           /\ payload \in [Assets -> Contents \cup {Absent, Torn}]
           /\ metadata \in [Assets -> Description \cup {Absent, Torn}]
           /\ removed \in [Assets -> {"never", "begun", "completed"}]
           /\ dirs \subseteq Assets
  BY DEF TypeInv, TypeOK, Job

LEMMA Alone ==
    ASSUME TypeInv, Orderly, NEW r \in Processes, pc[r] \in ChangeLabels, job[r].asset \notin raced
    PROVE  /\ OrderlyAt(job[r].asset)
           /\ \A q \in Processes \ {r} : ~Changes(q, job[r].asset)
<1>1. job[r].asset \in Assets
  BY Facts
<1>. QED
  BY <1>1 DEF Orderly, OrderlyAt, Changes, ChangeLabels

\* A failed file call ends a change.
LEMMA FailOrderly ==
    ASSUME TypeInv, Orderly, NEW r \in Processes, NEW c \in {"entry", "commit", "undo"},
           Fail(r, c), UNCHANGED removed, raced \subseteq raced'
    PROVE  Orderly'
<1>1. \A q \in Processes : pc'[q] \in ChangeLabels => pc'[q] = pc[q] /\ job'[q] = job[q]
  BY Facts DEF Fail, GoTo, ChangeLabels, WriteLabels, RemoveLabels
<1>. QED
  BY <1>1, QuietOrderly DEF Fail

LEMMA CheckOrderly ==
    ASSUME TypeInv, Orderly, NEW r \in Processes, Check(r)
    PROVE  Orderly'
<1>1. UNCHANGED <<files, removed>> /\ raced \subseteq raced'
  BY DEF Check, BeginChange
<1>2. CASE Fail(r, "entry")
  BY <1>1, <1>2, FailOrderly
<1>3. CASE GoTo(r, "compare") /\ UNCHANGED job
  <2>1. \A q \in Processes : pc'[q] \in ChangeLabels => pc'[q] = pc[q] /\ job'[q] = job[q]
    BY <1>3, Facts DEF GoTo, ChangeLabels, WriteLabels, RemoveLabels
  <2>. QED
    BY <1>1, <2>1, QuietOrderly
<1>4. CASE /\ metadata[job[r].asset] = Absent
           /\ GoTo(r, "makeDir")
           /\ BeginChange(r, job[r].asset)
           /\ UNCHANGED job
  <2>0. PICK b \in Assets : b = job[r].asset
    BY Facts
  <2>1. job[r] \in Job /\ job' = [job EXCEPT ![r] = job[r]]
    BY <1>4, Facts
  <2>2. pc' = [pc EXCEPT ![r] = "makeDir"] /\ "makeDir" \in Labels
    BY <1>4 DEF GoTo, Labels, WriteLabels
  <2>3. \A a \in Assets \ {b} : SameFiles(a)
    BY <1>1 DEF SameFiles, files
  <2>4. b \notin raced' => \A q \in Processes \ {r} : ~Changes(q, b)
    BY <1>4, <2>0 DEF BeginChange
  <2>5. WriterView(r, b)'
    <3>1. pc'[r] = "makeDir" /\ metadata'[b] = Absent
      BY <1>1, <1>4, <2>0, <2>2, Facts DEF files
    <3>. QED
      BY <3>1 DEF WriterView
  <2>6. ~Intact(metadata'[b])
    BY <1>1, <1>4, <2>0 DEF Intact, files
  <2>7. "makeDir" \notin RemoveLabels
    BY DEF RemoveLabels
  <2>. QED
    BY <1>1, <2>0, <2>1, <2>2, <2>3, <2>4, <2>5, <2>6, <2>7, ChangeOrderly
<1>. QED
  BY <1>2, <1>3, <1>4 DEF Check

\* The four calls of a write before the last.
LEMMA WriteOrderly ==
    ASSUME TypeInv, Orderly, NEW r \in Processes,
           MakeDir(r) \/ OpenPayload(r) \/ FillPayload(r) \/ OpenMetadata(r)
    PROVE  Orderly'
<1>1. pc[r] \in WriteLabels \ {"fillMetadata"} /\ UNCHANGED <<removed, raced>>
  BY DEF MakeDir, OpenPayload, FillPayload, OpenMetadata, At, WriteLabels, history
<1>2. CASE Fail(r, "entry")
  BY <1>1, <1>2, FailOrderly
<1>3. CASE ~Fail(r, "entry")
  <2>1. job[r].asset \in Assets /\ job[r] \in Job
    BY Facts
  <2>2. PICK b \in Assets : b = job[r].asset
    BY <2>1
  <2>3. UNCHANGED job /\ job' = [job EXCEPT ![r] = job[r]]
    BY <1>3, Facts DEF MakeDir, OpenPayload, FillPayload, OpenMetadata
  <2>4. PICK l \in WriteLabels : l # "makeDir" /\ pc' = [pc EXCEPT ![r] = l]
    BY <1>3 DEF MakeDir, OpenPayload, FillPayload, OpenMetadata, GoTo, WriteLabels
  <2>5. \A a \in Assets \ {b} : SameFiles(a)
    BY <1>1, <1>3, <2>2, Facts DEF MakeDir, OpenPayload, FillPayload, OpenMetadata, SameFiles
  <2>6. ASSUME b \notin raced'
        PROVE  /\ \A q \in Processes \ {r} : ~Changes(q, b)
               /\ WriterView(r, b)'
               /\ ~Intact(metadata'[b])
    <3>1. b \notin raced
      BY <1>1, <2>6
    <3>2. OrderlyAt(b) /\ \A q \in Processes \ {r} : ~Changes(q, b)
      BY <1>1, <2>2, <3>1, Alone DEF ChangeLabels
    <3>3. WriterView(r, b) /\ metadata[b] = Absent
      BY <1>1, <2>2, <3>2 DEF OrderlyAt, WriterView
    <3>4. CASE MakeDir(r)
      <4>1. pc'[r] = "openPayload" /\ metadata'[b] = Absent /\ b \in dirs'
        BY <3>3, <3>4, <2>2, Facts DEF MakeDir, GoTo
      <4>. QED
        BY <4>1, <3>2 DEF WriterView, Intact
    <3>5. CASE OpenPayload(r)
      <4>1. pc'[r] = "fillPayload" /\ metadata'[b] = Absent /\ b \in dirs' /\ payload'[b] = Torn
        BY <1>3, <3>3, <3>5, <2>2, Facts DEF OpenPayload, GoTo
      <4>. QED
        BY <4>1, <3>2 DEF WriterView, Intact
    <3>6. CASE FillPayload(r)
      <4>1. pc[r] = "fillPayload" /\ payload[b] = Torn /\ b \in dirs
        BY <3>3, <3>6 DEF FillPayload, At, WriterView
      <4>2. PICK file \in Filled(payload[b], Current(r).content) :
                payload' = [payload EXCEPT ![b] = file]
        BY <3>6, <2>2 DEF FillPayload
      <4>3. file = Current(r).content
        BY <4>1, <4>2, Sentinels DEF Filled
      <4>4. pc'[r] = "openMetadata" /\ metadata'[b] = Absent /\ b \in dirs'
        BY <3>3, <3>6, <4>1, Facts DEF FillPayload, GoTo
      <4>5. payload'[b] = Current(r)'.content
        BY <4>2, <4>3, <2>3, Facts DEF Current
      <4>. QED
        BY <4>4, <4>5, <3>2 DEF WriterView, Intact
    <3>7. CASE OpenMetadata(r)
      <4>1. payload[b] = Current(r).content /\ b \in dirs
        BY <3>3, <3>7 DEF WriterView, OpenMetadata, At
      <4>2. pc'[r] = "fillMetadata" /\ metadata'[b] = Torn /\ UNCHANGED <<dirs, payload>>
        BY <1>3, <3>7, <2>2, Facts DEF OpenMetadata, GoTo
      <4>3. payload'[b] = Current(r)'.content /\ b \in dirs'
        BY <4>1, <4>2, <2>3 DEF Current
      <4>. QED
        BY <4>2, <4>3, <3>2 DEF WriterView, Intact
    <3>. QED
      BY <3>4, <3>5, <3>6, <3>7
  <2>7. l \in Labels /\ l \notin RemoveLabels
    BY DEF Labels, WriteLabels, RemoveLabels
  <2>. QED
    BY <1>1, <2>1, <2>2, <2>3, <2>4, <2>5, <2>6, <2>7, ChangeOrderly
<1>. QED
  BY <1>2, <1>3

LEMMA FillMetadataOrderly ==
    ASSUME TypeInv, Orderly, NEW r \in Processes, FillMetadata(r)
    PROVE  Orderly'
<1>1. pc[r] = "fillMetadata" /\ UNCHANGED <<dirs, payload, removed, raced>>
  BY DEF FillMetadata, At, history
<1>2. job[r] \in Job /\ job[r].queue # <<>> /\ Restored(r) \in SUBSET Assets
      /\ job[r].created \cup {job[r].asset} \in SUBSET Assets
  BY <1>1 DEF TypeInv, TypeOK, EntryInHand, EntryLabels, WriteLabels, Job, Restored
<1>3. PICK b \in Assets : b = job[r].asset
  BY Facts
<1>4. PICK file \in Filled(metadata[b], Describing(Current(r))) :
          metadata' = [metadata EXCEPT ![b] = file]
  BY <1>3 DEF FillMetadata
<1>5. PICK j \in Job : j.asset = b /\ job' = [job EXCEPT ![r] = j]
  <2>. DEFINE j == [job[r] EXCEPT !.queue = Tail(@), !.restored = Restored(r),
                                  !.created = job[r].created \cup {job[r].asset}]
  <2>1. j \in Job
    BY <1>2, NextJob
  <2>2. j.asset = b
    BY <1>2, <1>3 DEF Job
  <2>3. job' = [job EXCEPT ![r] = j]
    BY DEF FillMetadata, NextEntry
  <2>. HIDE DEF j
  <2>. QED
    BY <2>1, <2>2, <2>3
<1>6. PICK l \in Labels : l \notin ChangeLabels /\ pc' = [pc EXCEPT ![r] = l]
  <2>1. AfterEntry(r) \in {"lookup", "ready", "commit"}
    BY DEF AfterEntry
  <2>2. AfterEntry(r) \in Labels /\ AfterEntry(r) \notin ChangeLabels
    BY <2>1 DEF Labels, ChangeLabels, WriteLabels, RemoveLabels
  <2>3. pc' = [pc EXCEPT ![r] = AfterEntry(r)]
    BY DEF FillMetadata, NextEntry, GoTo
  <2>. QED
    BY <2>2, <2>3
<1>7. \A a \in Assets \ {b} : SameFiles(a)
  BY <1>1, <1>4, Facts DEF SameFiles
<1>8. ASSUME b \notin raced'
      PROVE  /\ \A q \in Processes \ {r} : ~Changes(q, b)
             /\ Intact(metadata'[b]) => Whole(b)'
  <2>1. OrderlyAt(b) /\ \A q \in Processes \ {r} : ~Changes(q, b)
    BY <1>1, <1>3, <1>8, Alone DEF ChangeLabels, WriteLabels
  <2>2. metadata[b] = Torn /\ b \in dirs /\ payload[b] = Current(r).content
    BY <1>1, <1>3, <2>1 DEF OrderlyAt, WriterView, WriteLabels
  <2>3. metadata'[b] = Describing(Current(r))
    BY <1>4, <2>2, Facts, Sentinels DEF Filled
  <2>. QED
    BY <1>1, <2>1, <2>2, <2>3 DEF Whole, Describing
<1>. QED
  BY <1>1, <1>3, <1>5, <1>6, <1>7, <1>8, ChangeOrderly DEF ChangeLabels

LEMMA RemoveOrderly ==
    ASSUME TypeInv, Orderly, NEW r \in Processes, Scan(r) \/ Unlink(r) \/ RemoveDir(r)
    PROVE  Orderly'
<1>1. raced \subseteq raced'
  BY DEF Scan, Unlink, RemoveDir, BeginChange, history
<1>2. CASE Fail(r, "undo") /\ UNCHANGED removed
  BY <1>1, <1>2, FailOrderly
<1>3. CASE ~(Fail(r, "undo") /\ UNCHANGED removed)
  <2>1. job[r].asset \in Assets /\ job[r] \in Job
    BY Facts
  <2>2. PICK b \in Assets : b = job[r].asset
    BY <2>1
  <2>3. PICK j \in Job : j.asset = b /\ job' = [job EXCEPT ![r] = j]
    <3>1. CASE Scan(r)
      <4>. DEFINE j == [job[r] EXCEPT !.todo = Present(b)]
      <4>1. j \in Job /\ j.asset = b
        BY <2>1, <2>2 DEF Job, Present
      <4>2. job' = [job EXCEPT ![r] = j]
        BY <1>3, <2>2, <3>1 DEF Scan, history
      <4>. QED
        BY <4>1, <4>2
    <3>2. CASE RemoveDir(r)
      <4>. DEFINE j == [job[r] EXCEPT !.restored = job[r].restored \ {b}]
      <4>1. j \in Job /\ j.asset = b
        BY <2>1, <2>2 DEF Job
      <4>2. job' = [job EXCEPT ![r] = j]
        BY <1>3, <2>2, <3>2 DEF RemoveDir
      <4>. QED
        BY <4>1, <4>2
    <3>3. CASE Unlink(r)
      <4>1. CASE UNCHANGED job
        BY <4>1, <2>1, <2>2, Facts
      <4>2. CASE \E f \in job[r].todo : job' = [job EXCEPT ![r].todo = @ \ {f}]
        <5>1. PICK f \in job[r].todo : job' = [job EXCEPT ![r].todo = @ \ {f}]
          BY <4>2
        <5>. DEFINE j == [job[r] EXCEPT !.todo = @ \ {f}]
        <5>2. j \in Job /\ j.asset = b
          BY <2>1, <2>2 DEF Job
        <5>. QED
          BY <5>1, <5>2
      <4>. QED
        BY <3>3, <4>1, <4>2 DEF Unlink
    <3>. QED
      BY <3>1, <3>2, <3>3
  <2>4. PICK l \in Labels : l \notin WriteLabels /\ pc' = [pc EXCEPT ![r] = l]
    <3>1. {"unlink", "removeDir", "remove", "done", "failed"} \subseteq Labels \ WriteLabels
      BY DEF Labels, RemoveLabels, WriteLabels
    <3>2. CASE Scan(r)
      BY <1>3, <3>1, <3>2 DEF Scan, GoTo, history
    <3>3. CASE Unlink(r)
      <4>1. pc' = [pc EXCEPT ![r] = "removeDir"] \/ pc' = [pc EXCEPT ![r] = "unlink"]
        BY <3>3, Facts DEF Unlink, GoTo, At
      <4>. QED
        BY <3>1, <4>1
    <3>4. CASE RemoveDir(r)
      <4>1. PICK l \in {"remove", "done", "failed"} : pc' = [pc EXCEPT ![r] = l]
        BY <1>3, <3>4 DEF RemoveDir, GoTo
      <4>. QED
        BY <3>1, <4>1
    <3>. QED
      BY <3>2, <3>3, <3>4
  <2>5. \A a \in Assets \ {b} : SameFiles(a)
    BY <1>3, <2>2, Facts DEF Scan, Unlink, RemoveDir, SameFiles, files, history
  <2>6. ASSUME b \notin raced'
        PROVE  \A q \in Processes \ {r} : ~Changes(q, b)
    <3>1. CASE Scan(r)
      BY <1>3, <2>2, <2>6, <3>1 DEF Scan, BeginChange, history
    <3>2. CASE Unlink(r) \/ RemoveDir(r)
      BY <1>1, <2>2, <2>6, <3>2, Alone DEF Unlink, RemoveDir, At, ChangeLabels, RemoveLabels
    <3>. QED
      BY <3>1, <3>2
  <2>7. ASSUME b \notin raced'
        PROVE  /\ l \in RemoveLabels => removed'[b] = "begun"
               /\ Intact(metadata'[b]) /\ removed'[b] # "begun" => Whole(b)'
    <3>1. CASE Scan(r)
      BY <1>3, <2>2, <3>1, Facts DEF Scan, history
    <3>2. CASE Unlink(r)
      <4>1. b \notin raced /\ UNCHANGED removed /\ pc[r] \in RemoveLabels
        BY <2>7, <3>2 DEF Unlink, At, RemoveLabels, history
      <4>2. OrderlyAt(b)
        BY <2>2, <4>1, Alone DEF ChangeLabels
      <4>. QED
        BY <2>2, <4>1, <4>2 DEF OrderlyAt
    <3>3. CASE RemoveDir(r)
      <4>1. Present(b) = {} /\ UNCHANGED metadata /\ l \notin RemoveLabels
        BY <1>3, <2>2, <2>4, <3>3, Facts DEF RemoveDir, GoTo, RemoveLabels
      <4>2. metadata'[b] = Absent
        BY <4>1 DEF Present
      <4>. QED
        BY <4>1, <4>2 DEF Intact
    <3>. QED
      BY <3>1, <3>2, <3>3
  <2>. QED
    BY <1>1, <2>2, <2>3, <2>4, <2>5, <2>6, <2>7, ChangeOrderly
<1>. QED
  BY <1>2, <1>3

\* One process moves to a label at which no file is changed.
LEMMA QuietMove ==
    ASSUME TypeInv, Orderly, NEW r \in Processes, NEW l \in Labels \ ChangeLabels,
           pc' = [pc EXCEPT ![r] = l],
           \A q \in Processes \ {r} : job'[q] = job[q],
           UNCHANGED files, UNCHANGED removed, UNCHANGED raced
    PROVE  Orderly'
<1>1. pc'[r] = l /\ \A q \in Processes \ {r} : pc'[q] = pc[q]
  BY Facts
<1>2. \A q \in Processes : pc'[q] \in ChangeLabels => pc'[q] = pc[q] /\ job'[q] = job[q]
  BY <1>1
<1>. QED
  BY <1>2, QuietOrderly

LEMMA QuietLabels ==
    {"idle", "lookup", "check", "compare", "ready", "commit", "inspect", "remove", "scan",
     "done", "failed", "choose", "chooseRead", "fallback", "describe", "resolve", "send"}
        \subseteq Labels \ ChangeLabels
  BY DEF Labels, ChangeLabels, WriteLabels, RemoveLabels, ReadLabels

LEMMA InitOrderly == Init => Orderly
  BY DEF Init, Orderly, OrderlyAt, Changes, WriteLabels, RemoveLabels, Intact

LEMMA ArriveOrderly ==
    ASSUME TypeInv, Orderly, NEW r \in Requests, Arrive(r)
    PROVE  Orderly'
<1>1. r \in Processes
  BY DEF Processes
<1>2. PICK l \in {"check", "lookup", "inspect", "describe", "choose", "fallback"} :
        /\ pc' = [pc EXCEPT ![r] = l]
        /\ \A q \in Processes \ {r} : job'[q] = job[q]
        /\ UNCHANGED files /\ UNCHANGED removed /\ UNCHANGED raced
  BY <1>1, Facts DEF Arrive, Upload, Import, Delete, Fetch, Preview, PreviewOfNoAsset, Begin, GoTo,
                     history
<1>. QED
  BY <1>1, <1>2, QuietLabels, QuietMove

LEMMA SettleOrderly ==
    ASSUME TypeInv, Orderly, NEW r \in Processes,
           LookUp(r) \/ Compare(r) \/ Commit(r) \/ Inspect(r) \/ Remove(r)
    PROVE  Orderly'
<1>1. UNCHANGED files /\ UNCHANGED removed /\ UNCHANGED raced
  BY DEF LookUp, Compare, Commit, Inspect, Remove, history, Fail, NextEntry, GoTo
<1>2. \A q \in Processes \ {r} : job'[q] = job[q]
  BY Facts DEF LookUp, Compare, Commit, Inspect, Remove, Fail, NextEntry
<1>3. AfterEntry(r) \in {"lookup", "ready", "commit"}
  BY DEF AfterEntry
<1>4. PICK l \in {"lookup", "ready", "commit", "check", "done", "failed", "remove", "scan"} :
        pc' = [pc EXCEPT ![r] = l]
  BY <1>3 DEF LookUp, Compare, Commit, Inspect, Remove, Fail, NextEntry, GoTo
<1>. QED
  BY <1>1, <1>2, <1>4, QuietLabels, QuietMove

LEMMA ReadOrderly ==
    ASSUME TypeInv, Orderly, NEW r \in Processes, ReadStep(r) \/ Answer(r)
    PROVE  Orderly'
<1>1. UNCHANGED files /\ UNCHANGED removed /\ UNCHANGED raced
  BY DEF ReadStep, Choose, ChooseRead, Fallback, Describe, Resolve, Send, Answer, history, Fail
<1>2. \A q \in Processes \ {r} : job'[q] = job[q]
  BY Facts DEF ReadStep, Choose, ChooseRead, Fallback, Describe, Resolve, Send, Answer, Fail
<1>3. PICK l \in {"idle", "fallback", "chooseRead", "describe", "resolve", "send", "done", "failed"} :
        pc' = [pc EXCEPT ![r] = l]
  BY DEF ReadStep, Choose, ChooseRead, Fallback, Describe, Resolve, Send, Answer, Fail, GoTo
<1>. QED
  BY <1>1, <1>2, <1>3, QuietLabels, QuietMove

LEMMA LifeOrderly ==
    ASSUME TypeInv, Orderly, Start \/ Started \/ Crash
    PROVE  Orderly'
<1>1. UNCHANGED files /\ UNCHANGED removed /\ UNCHANGED raced
  BY DEF Start, Started, Crash, history
<1>2. CASE Start \/ Started
  <2>1. Startup \in Processes
    BY DEF Processes
  <2>2. \A q \in Processes \ {Startup} : job'[q] = job[q]
    BY <1>2, <2>1, Facts DEF Start, Started
  <2>3. PICK l \in {"lookup", "idle"} : pc' = [pc EXCEPT ![Startup] = l]
    BY <1>2 DEF Start, Started, GoTo
  <2>. QED
    BY <1>1, <2>1, <2>2, <2>3, QuietLabels, QuietMove
<1>3. CASE Crash
  <2>1. \A q \in Processes : pc'[q] \notin ChangeLabels
    BY <1>3 DEF Crash, ChangeLabels, WriteLabels, RemoveLabels
  <2>. QED
    BY <1>1, <2>1, QuietOrderly
<1>. QED
  BY <1>2, <1>3

LEMMA NextOrderly == TypeInv /\ Orderly /\ [Next]_vars => Orderly'
<1>. SUFFICES ASSUME TypeInv, Orderly, [Next]_vars PROVE Orderly'
  OBVIOUS
<1>1. CASE UNCHANGED vars
  BY <1>1, QuietOrderly DEF vars, history
<1>2. ASSUME NEW r \in Processes, WriteStep(r) PROVE Orderly'
  BY <1>2, SettleOrderly, CheckOrderly, WriteOrderly, FillMetadataOrderly DEF WriteStep
<1>3. ASSUME NEW r \in Processes, RemoveStep(r) PROVE Orderly'
  BY <1>3, SettleOrderly, RemoveOrderly DEF RemoveStep
<1>. QED
  BY <1>1, <1>2, <1>3, ArriveOrderly, ReadOrderly, LifeOrderly DEF Next, Step

LEMMA OrderlyHolds == Spec => [](TypeInv /\ Orderly)
<1>1. Init => TypeInv /\ Orderly
  BY InitTypes, InitOrderly
<1>2. TypeInv /\ Orderly /\ [Next]_vars => (TypeInv /\ Orderly)'
  BY NextTypes, NextOrderly
<1>. QED
  BY <1>1, <1>2, PTL DEF Spec

\* An asset that can be described has the payload it describes, wherever the
\* process has been stopped (write_asset, delete_asset): only a removal that
\* was begun and not completed, or two processes that changed the same asset
\* at once, can make it otherwise.
THEOREM DescribedFilesStayWhole == Spec => []DescribedFilesWhole
<1>1. Orderly => DescribedFilesWhole
  BY DEF Orderly, OrderlyAt, DescribedFilesWhole
<1>. QED
  BY <1>1, OrderlyHolds, PTL

(***************************************************************************)
(* What a step does to the process that takes it: its label and those of   *)
(* its locals that say which files it writes, has written or may remove.   *)
(***************************************************************************)
Others(r) == \A q \in Processes \ {r} : pc'[q] = pc[q] /\ job'[q] = job[q]

SameWork(r) ==
    /\ job'[r].op = job[r].op /\ job'[r].asset = job[r].asset
    /\ job'[r].queue = job[r].queue /\ job'[r].fresh = job[r].fresh
    /\ job'[r].restored = job[r].restored /\ job'[r].created = job[r].created

Fails(r, cause) == pc'[r] = "failed" /\ job'[r].cause = cause /\ SameWork(r)

Moves(r, l) == pc'[r] = l /\ UNCHANGED job

\* The entry at the head of the queue is done with.
EntryDone(r, restored, created) ==
    /\ pc'[r] = AfterEntry(r)
    /\ job'[r].op = job[r].op /\ job'[r].asset = job[r].asset
    /\ job'[r].queue = Tail(job[r].queue)
    /\ job'[r].restored = restored /\ job'[r].created = created

LEMMA MoveEffect ==
    ASSUME TypeInv, NEW r \in Processes, NEW l, GoTo(r, l)
    PROVE  pc'[r] = l /\ \A q \in Processes \ {r} : pc'[q] = pc[q]
  BY Facts DEF GoTo

LEMMA JobEffect ==
    ASSUME TypeInv, NEW r \in Processes, NEW j, job' = [job EXCEPT ![r] = j]
    PROVE  job'[r] = j /\ \A q \in Processes \ {r} : job'[q] = job[q]
  BY Facts

LEMMA FailEffect ==
    ASSUME TypeInv, NEW r \in Processes, NEW c \in {"entry", "commit", "undo"}, Fail(r, c)
    PROVE  Others(r) /\ Fails(r, c) /\ UNCHANGED files
<1>. DEFINE j == [job[r] EXCEPT !.cause = c]
<1>1. job[r] \in Job
  BY Facts
<1>2. /\ j.cause = c /\ j.op = job[r].op /\ j.asset = job[r].asset /\ j.queue = job[r].queue
      /\ j.fresh = job[r].fresh /\ j.restored = job[r].restored /\ j.created = job[r].created
  BY <1>1 DEF Job
<1>3. job' = [job EXCEPT ![r] = j]
  BY DEF Fail
<1>. HIDE DEF j
<1>4. job'[r] = j /\ \A q \in Processes \ {r} : job'[q] = job[q]
  BY <1>3, JobEffect
<1>5. pc'[r] = "failed" /\ \A q \in Processes \ {r} : pc'[q] = pc[q]
  BY MoveEffect DEF Fail
<1>. QED
  BY <1>2, <1>4, <1>5 DEF Others, Fails, SameWork, Fail

LEMMA NextEntryEffect ==
    ASSUME TypeInv, NEW r \in Processes, NEW restored, NEW created,
           NextEntry(r, restored, created)
    PROVE  Others(r) /\ EntryDone(r, restored, created)
<1>. DEFINE j == [job[r] EXCEPT !.queue = Tail(@), !.restored = restored, !.created = created]
<1>1. job[r] \in Job
  BY Facts
<1>2. /\ j.op = job[r].op /\ j.asset = job[r].asset /\ j.queue = Tail(job[r].queue)
      /\ j.restored = restored /\ j.created = created
  BY <1>1 DEF Job
<1>3. job' = [job EXCEPT ![r] = j]
  BY DEF NextEntry
<1>. HIDE DEF j
<1>4. job'[r] = j /\ \A q \in Processes \ {r} : job'[q] = job[q]
  BY <1>3, JobEffect
<1>5. pc'[r] = AfterEntry(r) /\ \A q \in Processes \ {r} : pc'[q] = pc[q]
  BY MoveEffect DEF NextEntry
<1>. QED
  BY <1>2, <1>4, <1>5 DEF Others, EntryDone

LEMMA StillEffect ==
    ASSUME TypeInv, NEW r \in Processes, NEW l, GoTo(r, l), UNCHANGED job
    PROVE  Others(r) /\ Moves(r, l)
  BY MoveEffect DEF Others, Moves

LEMMA LookUpEffect ==
    ASSUME TypeInv, NEW r \in Processes, LookUp(r)
    PROVE  /\ pc[r] = "lookup" /\ Others(r) /\ UNCHANGED <<up, files, history>>
           /\ \/ Fails(r, "entry")
              \/ /\ job[r].op = "seed" /\ Intact(metadata[Current(r).asset])
                 /\ EntryDone(r, {}, job[r].created)
              \/ /\ pc'[r] = "check"
                 /\ job'[r].asset = Current(r).asset
                 /\ job'[r].fresh <=> metadata[Current(r).asset] = Absent
                 /\ job'[r].op = job[r].op /\ job'[r].queue = job[r].queue
                 /\ job'[r].restored = job[r].restored /\ job'[r].created = job[r].created
<1>1. pc[r] = "lookup" /\ UNCHANGED <<up, files, history>>
  BY DEF LookUp, At
<1>2. CASE Fail(r, "entry")
  BY <1>1, <1>2, FailEffect
<1>3. CASE Intact(metadata[Current(r).asset]) /\ job[r].op = "seed" /\ NextEntry(r, {}, job[r].created)
  BY <1>1, <1>3, NextEntryEffect
<1>4. CASE /\ GoTo(r, "check")
           /\ job' = [job EXCEPT ![r].asset = Current(r).asset,
                                 ![r].fresh = (metadata[Current(r).asset] = Absent)]
  <2>. DEFINE f == (metadata[Current(r).asset] = Absent)
              j == [job[r] EXCEPT !.asset = Current(r).asset, !.fresh = f]
  <2>1. f \in BOOLEAN /\ (f <=> metadata[Current(r).asset] = Absent)
    OBVIOUS
  <2>. HIDE DEF f
  <2>2. /\ j.asset = Current(r).asset /\ j.fresh = f /\ j.op = job[r].op
        /\ j.queue = job[r].queue /\ j.restored = job[r].restored /\ j.created = job[r].created
    BY Facts DEF Job
  <2>3. job' = [job EXCEPT ![r] = j]
    BY <1>4 DEF f
  <2>. HIDE DEF j
  <2>4. job'[r] = j /\ \A q \in Processes \ {r} : job'[q] = job[q]
    BY <2>3, JobEffect
  <2>5. pc'[r] = "check" /\ \A q \in Processes \ {r} : pc'[q] = pc[q]
    BY <1>4, MoveEffect
  <2>. QED
    BY <1>1, <2>1, <2>2, <2>4, <2>5 DEF Others
<1>. QED
  BY <1>2, <1>3, <1>4 DEF LookUp

LEMMA CheckEffect ==
    ASSUME TypeInv, NEW r \in Processes, Check(r)
    PROVE  /\ pc[r] = "check" /\ Others(r) /\ UNCHANGED <<up, files, kept, unacked, removed, deleted>>
           /\ \/ Fails(r, "entry") /\ UNCHANGED raced
              \/ Moves(r, "compare") /\ metadata[job[r].asset] # Absent /\ UNCHANGED raced
              \/ Moves(r, "makeDir") /\ metadata[job[r].asset] = Absent /\ BeginChange(r, job[r].asset)
<1>1. pc[r] = "check" /\ UNCHANGED <<up, files, kept, unacked, removed, deleted>>
  BY DEF Check, At
<1>. QED
  BY <1>1, FailEffect, StillEffect DEF Check

LEMMA CompareEffect ==
    ASSUME TypeInv, NEW r \in Processes, Compare(r)
    PROVE  /\ pc[r] = "compare" /\ Others(r) /\ UNCHANGED <<up, files, history>>
           /\ \/ Fails(r, "entry")
              \/ Intact(metadata[job[r].asset]) /\ EntryDone(r, Restored(r), job[r].created)
<1>1. pc[r] = "compare" /\ UNCHANGED <<up, files, history>>
  BY DEF Compare, At
<1>. QED
  BY <1>1, FailEffect, NextEntryEffect DEF Compare

\* The calls of a write before the last.
Opening(r) == MakeDir(r) \/ OpenPayload(r) \/ FillPayload(r) \/ OpenMetadata(r)

LEMMA OpeningEffect ==
    ASSUME TypeInv, NEW r \in Processes, Opening(r)
    PROVE  /\ pc[r] \in WriteLabels \ {"fillMetadata"} /\ Others(r) /\ UNCHANGED <<up, history>>
           /\ \/ Fails(r, "entry")
              \/ \E l \in WriteLabels \ {"makeDir"} : Moves(r, l)
<1>1. pc[r] \in WriteLabels \ {"fillMetadata"} /\ UNCHANGED <<up, history>>
  BY DEF Opening, MakeDir, OpenPayload, FillPayload, OpenMetadata, At, WriteLabels
<1>2. \/ Fail(r, "entry")
      \/ /\ UNCHANGED job
         /\ \E l \in WriteLabels \ {"makeDir"} : GoTo(r, l)
  BY DEF Opening, MakeDir, OpenPayload, FillPayload, OpenMetadata, WriteLabels
<1>. QED
  BY <1>1, <1>2, FailEffect, StillEffect

LEMMA FillMetadataEffect ==
    ASSUME TypeInv, NEW r \in Processes, FillMetadata(r)
    PROVE  /\ pc[r] = "fillMetadata" /\ Others(r) /\ UNCHANGED <<up, dirs, payload, history>>
           /\ EntryDone(r, Restored(r), job[r].created \cup {job[r].asset})
  BY NextEntryEffect DEF FillMetadata, At

LEMMA CommitEffect ==
    ASSUME TypeInv, NEW r \in Processes, Commit(r)
    PROVE  /\ pc[r] = "commit" /\ Others(r) /\ UNCHANGED <<up, files, removed, deleted, raced>>
           /\ SameWork(r)
           /\ \/ pc'[r] = "done" /\ Store(r, TRUE)
              \/ /\ pc'[r] = (IF job[r].restored = {} THEN "failed" ELSE "remove")
                 /\ job'[r].cause = "commit"
                 /\ Store(r, FALSE) \/ UNCHANGED <<kept, unacked>>
<1>1. pc[r] = "commit" /\ UNCHANGED <<up, files, removed, deleted, raced>>
  BY DEF Commit, At
<1>2. CASE Store(r, TRUE) /\ GoTo(r, "done") /\ UNCHANGED job
  BY <1>1, <1>2, StillEffect DEF Moves, SameWork
<1>3. CASE /\ Store(r, FALSE) \/ UNCHANGED <<kept, unacked>>
           /\ job' = [job EXCEPT ![r].cause = "commit"]
           /\ GoTo(r, IF job[r].restored = {} THEN "failed" ELSE "remove")
  <2>. DEFINE j == [job[r] EXCEPT !.cause = "commit"]
  <2>1. /\ j.cause = "commit" /\ j.op = job[r].op /\ j.asset = job[r].asset /\ j.queue = job[r].queue
        /\ j.fresh = job[r].fresh /\ j.restored = job[r].restored /\ j.created = job[r].created
    BY Facts DEF Job
  <2>2. job' = [job EXCEPT ![r] = j]
    BY <1>3
  <2>. HIDE DEF j
  <2>3. job'[r] = j /\ \A q \in Processes \ {r} : job'[q] = job[q]
    BY <2>2, JobEffect
  <2>4. /\ pc'[r] = (IF job[r].restored = {} THEN "failed" ELSE "remove")
        /\ \A q \in Processes \ {r} : pc'[q] = pc[q]
    BY <1>3, MoveEffect
  <2>. QED
    BY <1>1, <1>3, <2>1, <2>3, <2>4 DEF Others, SameWork
<1>. QED
  BY <1>2, <1>3 DEF Commit

LEMMA InspectEffect ==
    ASSUME TypeInv, NEW r \in Processes, Inspect(r)
    PROVE  /\ pc[r] = "inspect" /\ Others(r) /\ UNCHANGED <<up, files, history>>
           /\ \/ Fails(r, "entry")
              \/ /\ pc'[r] = "remove"
                 /\ Intact(metadata[job[r].asset]) /\ metadata[job[r].asset].source = "upload"
                 /\ job'[r].op = job[r].op /\ job'[r].asset = job[r].asset
                 /\ job'[r].queue = job[r].queue /\ job'[r].created = job[r].created
                 /\ job'[r].restored = {job[r].asset}
<1>1. pc[r] = "inspect" /\ UNCHANGED <<up, files, history>>
  BY DEF Inspect, At
<1>2. CASE Fail(r, "entry")
  BY <1>1, <1>2, FailEffect
<1>3. CASE /\ Intact(metadata[job[r].asset]) /\ metadata[job[r].asset].source = "upload"
           /\ GoTo(r, "remove")
           /\ job' = [job EXCEPT ![r].restored = {job[r].asset}]
  <2>. DEFINE j == [job[r] EXCEPT !.restored = {job[r].asset}]
  <2>1. /\ j.op = job[r].op /\ j.asset = job[r].asset /\ j.queue = job[r].queue
        /\ j.restored = {job[r].asset} /\ j.created = job[r].created
    BY Facts DEF Job
  <2>2. job' = [job EXCEPT ![r] = j]
    BY <1>3
  <2>. HIDE DEF j
  <2>3. job'[r] = j /\ \A q \in Processes \ {r} : job'[q] = job[q]
    BY <2>2, JobEffect
  <2>4. pc'[r] = "remove" /\ \A q \in Processes \ {r} : pc'[q] = pc[q]
    BY <1>3, MoveEffect
  <2>. QED
    BY <1>1, <1>3, <2>1, <2>3, <2>4 DEF Others
<1>. QED
  BY <1>2, <1>3 DEF Inspect

\* delete_asset of one id of a list raises.
Halts(r) ==
    /\ pc'[r] = "failed" /\ job'[r].cause = "undo"
    /\ job'[r].asset \in job[r].restored
    /\ job'[r].op = job[r].op /\ job'[r].queue = job[r].queue
    /\ job'[r].restored = job[r].restored /\ job'[r].created = job[r].created

LEMMA RemoveEffect ==
    ASSUME TypeInv, NEW r \in Processes, Remove(r)
    PROVE  /\ pc[r] = "remove" /\ Others(r) /\ UNCHANGED <<up, files, history>>
           /\ \/ Halts(r) /\ ~Intact(metadata[job'[r].asset])
              \/ /\ pc'[r] = "scan"
                 /\ job'[r].asset \in job[r].restored
                 /\ job'[r].op = job[r].op /\ job'[r].queue = job[r].queue
                 /\ job'[r].restored = job[r].restored /\ job'[r].created = job[r].created
<1>1. pc[r] = "remove" /\ UNCHANGED <<up, files, history>>
  BY DEF Remove, At
<1>2. ASSUME NEW a \in job[r].restored, ~Intact(metadata[a]), GoTo(r, "failed"),
             job' = [job EXCEPT ![r].asset = a, ![r].cause = "undo"]
      PROVE  Others(r) /\ Halts(r) /\ ~Intact(metadata[job'[r].asset])
  <2>. DEFINE j == [job[r] EXCEPT !.asset = a, !.cause = "undo"]
  <2>1. /\ j.asset = a /\ j.cause = "undo" /\ j.op = job[r].op /\ j.queue = job[r].queue
        /\ j.restored = job[r].restored /\ j.created = job[r].created
    BY Facts DEF Job
  <2>2. job' = [job EXCEPT ![r] = j]
    BY <1>2
  <2>. HIDE DEF j
  <2>3. job'[r] = j /\ \A q \in Processes \ {r} : job'[q] = job[q]
    BY <2>2, JobEffect
  <2>4. pc'[r] = "failed" /\ \A q \in Processes \ {r} : pc'[q] = pc[q]
    BY <1>2, MoveEffect
  <2>. QED
    BY <1>2, <2>1, <2>3, <2>4 DEF Others, Halts
<1>3. ASSUME NEW a \in job[r].restored, GoTo(r, "scan"), job' = [job EXCEPT ![r].asset = a]
      PROVE  /\ Others(r) /\ pc'[r] = "scan" /\ job'[r].asset \in job[r].restored
             /\ job'[r].op = job[r].op /\ job'[r].queue = job[r].queue
             /\ job'[r].restored = job[r].restored /\ job'[r].created = job[r].created
  <2>. DEFINE j == [job[r] EXCEPT !.asset = a]
  <2>1. /\ j.asset = a /\ j.op = job[r].op /\ j.queue = job[r].queue
        /\ j.restored = job[r].restored /\ j.created = job[r].created
    BY Facts DEF Job
  <2>2. job' = [job EXCEPT ![r] = j]
    BY <1>3
  <2>. HIDE DEF j
  <2>3. job'[r] = j /\ \A q \in Processes \ {r} : job'[q] = job[q]
    BY <2>2, JobEffect
  <2>4. pc'[r] = "scan" /\ \A q \in Processes \ {r} : pc'[q] = pc[q]
    BY <1>3, MoveEffect
  <2>. QED
    BY <2>1, <2>3, <2>4 DEF Others
<1>. QED
  BY <1>1, <1>2, <1>3 DEF Remove

LEMMA ScanEffect ==
    ASSUME TypeInv, NEW r \in Processes, Scan(r)
    PROVE  /\ pc[r] = "scan" /\ Others(r) /\ UNCHANGED <<up, files>>
           /\ \/ Fails(r, "undo") /\ job[r].asset \notin dirs /\ UNCHANGED history
              \/ /\ pc'[r] = "unlink" /\ job[r].asset \in dirs /\ SameWork(r)
                 /\ job'[r].todo = Present(job[r].asset) /\ BeginChange(r, job[r].asset)
                 /\ removed' = [removed EXCEPT ![job[r].asset] = "begun"]
                 /\ deleted' = IF job[r].op = "delete" THEN deleted \cup {job[r].asset} ELSE deleted
                 /\ kept' = kept \ deleted' /\ UNCHANGED unacked
<1>1. pc[r] = "scan" /\ UNCHANGED <<up, files>>
  BY DEF Scan, At
<1>2. CASE job[r].asset \notin dirs /\ Fail(r, "undo") /\ UNCHANGED history
  BY <1>1, <1>2, FailEffect
<1>3. CASE ~(job[r].asset \notin dirs /\ Fail(r, "undo") /\ UNCHANGED history)
  <2>. DEFINE j == [job[r] EXCEPT !.todo = Present(job[r].asset)]
  <2>1. /\ j.todo = Present(job[r].asset) /\ j.op = job[r].op /\ j.asset = job[r].asset /\ j.queue = job[r].queue
        /\ j.fresh = job[r].fresh /\ j.restored = job[r].restored /\ j.created = job[r].created
    BY Facts DEF Job
  <2>2. job' = [job EXCEPT ![r] = j] /\ GoTo(r, "unlink")
    BY <1>3 DEF Scan
  <2>. HIDE DEF j
  <2>3. job'[r] = j /\ \A q \in Processes \ {r} : job'[q] = job[q]
    BY <2>2, JobEffect
  <2>4. pc'[r] = "unlink" /\ \A q \in Processes \ {r} : pc'[q] = pc[q]
    BY <2>2, MoveEffect
  <2>5. Others(r) /\ SameWork(r)
    BY <2>1, <2>3, <2>4 DEF Others, SameWork
  <2>. QED
    BY <1>1, <1>3, <2>1, <2>3, <2>4, <2>5 DEF Scan
<1>. QED
  BY <1>2, <1>3

LEMMA UnlinkEffect ==
    ASSUME TypeInv, NEW r \in Processes, Unlink(r)
    PROVE  /\ pc[r] = "unlink" /\ Others(r) /\ UNCHANGED <<up, dirs, history>>
           /\ pc'[r] \in RemoveLabels /\ SameWork(r)
           /\ \A a \in Assets \ {job[r].asset} :
                 payload'[a] = payload[a] /\ metadata'[a] = metadata[a]
           /\ payload'[job[r].asset] \in {payload[job[r].asset], Absent}
           /\ metadata'[job[r].asset] \in {metadata[job[r].asset], Absent}
           /\ Present(job[r].asset) \subseteq job[r].todo =>
                 Present(job[r].asset)' \subseteq (IF pc'[r] = "unlink" THEN job'[r].todo ELSE {})
<1>1. pc[r] = "unlink" /\ UNCHANGED <<up, dirs, history>>
  BY DEF Unlink, At
<1>2. CASE job[r].todo = {} /\ GoTo(r, "removeDir") /\ UNCHANGED <<payload, metadata, job>>
  BY <1>1, <1>2, StillEffect DEF Moves, SameWork, RemoveLabels, Present
<1>3. ASSUME NEW f \in job[r].todo,
             payload' = IF f = "payload" THEN [payload EXCEPT ![job[r].asset] = Absent] ELSE payload,
             metadata' = IF f = "metadata" THEN [metadata EXCEPT ![job[r].asset] = Absent] ELSE metadata,
             job' = [job EXCEPT ![r].todo = @ \ {f}],
             UNCHANGED pc
      PROVE  /\ Others(r) /\ pc'[r] \in RemoveLabels /\ SameWork(r)
             /\ \A a \in Assets \ {job[r].asset} :
                   payload'[a] = payload[a] /\ metadata'[a] = metadata[a]
             /\ payload'[job[r].asset] \in {payload[job[r].asset], Absent}
             /\ metadata'[job[r].asset] \in {metadata[job[r].asset], Absent}
             /\ Present(job[r].asset) \subseteq job[r].todo =>
                   Present(job[r].asset)' \subseteq (IF pc'[r] = "unlink" THEN job'[r].todo ELSE {})
  <2>. DEFINE j == [job[r] EXCEPT !.todo = @ \ {f}]
  <2>1. /\ j.todo = job[r].todo \ {f} /\ j.op = job[r].op /\ j.asset = job[r].asset /\ j.queue = job[r].queue
        /\ j.fresh = job[r].fresh /\ j.restored = job[r].restored /\ j.created = job[r].created
    BY Facts DEF Job
  <2>2. job' = [job EXCEPT ![r] = j]
    BY <1>3
  <2>. HIDE DEF j
  <2>3. job'[r] = j /\ \A q \in Processes \ {r} : job'[q] = job[q]
    BY <2>2, JobEffect
  <2>4. Others(r) /\ SameWork(r) /\ pc'[r] \in RemoveLabels
    BY <1>1, <1>3, <2>1, <2>3 DEF Others, SameWork, RemoveLabels
  <2>5. /\ payload' = (IF f = "payload" THEN [payload EXCEPT ![job[r].asset] = Absent] ELSE payload)
        /\ metadata' = (IF f = "metadata" THEN [metadata EXCEPT ![job[r].asset] = Absent] ELSE metadata)
    BY <1>3
  <2>6. job'[r].asset = job[r].asset /\ job'[r].todo = job[r].todo \ {f} /\ pc'[r] = "unlink"
    BY <1>1, <1>3, <2>1, <2>3
  <2>7. Present(job[r].asset)' \subseteq Present(job[r].asset) \ {f}
    BY <2>5, <2>6, Facts DEF Present
  <2>. QED
    BY <2>4, <2>5, <2>6, <2>7, Facts
<1>. QED
  BY <1>1, <1>2, <1>3 DEF Unlink

LEMMA RemoveDirEffect ==
    ASSUME TypeInv, NEW r \in Processes, RemoveDir(r)
    PROVE  /\ pc[r] = "removeDir" /\ Others(r) /\ UNCHANGED <<up, payload, metadata, kept, unacked, deleted, raced>>
           /\ \/ /\ Fails(r, "undo") /\ UNCHANGED <<dirs, removed>>
                 /\ job[r].asset \notin dirs \/ Present(job[r].asset) # {}
              \/ /\ Present(job[r].asset) = {}
                 /\ dirs' = dirs \ {job[r].asset}
                 /\ removed' = [removed EXCEPT ![job[r].asset] = "completed"]
                 /\ job'[r].op = job[r].op /\ job'[r].asset = job[r].asset
                 /\ job'[r].queue = job[r].queue /\ job'[r].created = job[r].created
                 /\ job'[r].restored = job[r].restored \ {job[r].asset}
                 /\ pc'[r] = (IF job[r].restored \ {job[r].asset} # {} THEN "remove"
                              ELSE IF job[r].op = "delete" THEN "done" ELSE "failed")
<1>1. pc[r] = "removeDir" /\ UNCHANGED <<up, kept, unacked, deleted, raced>>
  BY DEF RemoveDir, At
<1>. DEFINE blocked == job[r].asset \notin dirs \/ Present(job[r].asset) # {}
<1>2. CASE blocked /\ Fail(r, "undo") /\ UNCHANGED removed
  BY <1>1, <1>2, FailEffect DEF files
<1>3. CASE ~(blocked /\ Fail(r, "undo") /\ UNCHANGED removed)
  <2>. DEFINE left == job[r].restored \ {job[r].asset}
              j == [job[r] EXCEPT !.restored = left]
  <2>1. /\ j.op = job[r].op /\ j.asset = job[r].asset /\ j.queue = job[r].queue
        /\ j.restored = left /\ j.created = job[r].created
    BY Facts DEF Job
  <2>2. job' = [job EXCEPT ![r] = j]
    BY <1>3 DEF RemoveDir
  <2>. HIDE DEF j
  <2>3. job'[r] = j /\ \A q \in Processes \ {r} : job'[q] = job[q]
    BY <2>2, JobEffect
  <2>4. /\ pc'[r] = (IF left # {} THEN "remove" ELSE IF job[r].op = "delete" THEN "done" ELSE "failed")
        /\ \A q \in Processes \ {r} : pc'[q] = pc[q]
    BY <1>3, MoveEffect DEF RemoveDir
  <2>5. /\ Present(job[r].asset) = {} /\ dirs' = dirs \ {job[r].asset}
        /\ removed' = [removed EXCEPT ![job[r].asset] = "completed"]
        /\ UNCHANGED <<payload, metadata>>
    BY <1>3 DEF RemoveDir
  <2>6. Others(r)
    BY <2>3, <2>4 DEF Others
  <2>. QED
    BY <1>1, <2>1, <2>3, <2>4, <2>5, <2>6
<1>. QED
  BY <1>2, <1>3

\* A reader moves on; it changes only what it has chosen and seen.
SameRead(r) ==
    /\ job'[r].op = job[r].op /\ job'[r].queue = job[r].queue
    /\ job'[r].restored = job[r].restored /\ job'[r].created = job[r].created

LEMMA ChooseEffect ==
    ASSUME TypeInv, NEW r \in Processes, Choose(r) \/ ChooseRead(r) \/ Resolve(r)
    PROVE  /\ Others(r) /\ UNCHANGED <<up, files, history>>
           /\ \/ /\ pc[r] = "choose"
                 /\ Moves(r, IF metadata[job[r].asset] = Absent THEN "fallback" ELSE "chooseRead")
              \/ /\ pc[r] = "chooseRead"
                 /\ \/ metadata[job[r].asset] = Absent /\ Fails(r, "entry")
                    \/ /\ metadata[job[r].asset] # Absent
                       /\ Moves(r, IF metadata[job[r].asset] = Torn THEN "fallback" ELSE "describe")
              \/ /\ pc[r] = "resolve"
                 /\ \/ ~Intact(metadata[job[r].asset]) /\ Fails(r, "entry")
                    \/ Intact(metadata[job[r].asset]) /\ Moves(r, "send")
<1>1. CASE Choose(r)
  BY <1>1, StillEffect DEF Choose, At
<1>2. CASE ChooseRead(r)
  BY <1>2, StillEffect, FailEffect DEF ChooseRead, At
<1>3. CASE Resolve(r)
  BY <1>3, StillEffect, FailEffect DEF Resolve, At
<1>. QED
  BY <1>1, <1>2, <1>3

LEMMA FallbackEffect ==
    ASSUME TypeInv, NEW r \in Processes, Fallback(r)
    PROVE  /\ pc[r] = "fallback" /\ Others(r) /\ UNCHANGED <<up, files, history>>
           /\ \/ ~Intact(metadata[Default]) /\ Fails(r, "entry")
              \/ /\ Intact(metadata[Default]) /\ pc'[r] = "describe" /\ SameRead(r)
                 /\ job'[r].asset = Default
<1>1. pc[r] = "fallback" /\ UNCHANGED <<up, files, history>>
  BY DEF Fallback, At
<1>2. ASSUME GoTo(r, "describe"), job' = [job EXCEPT ![r].asset = Default]
      PROVE  Others(r) /\ pc'[r] = "describe" /\ SameRead(r) /\ job'[r].asset = Default
  <2>. DEFINE j == [job[r] EXCEPT !.asset = Default]
  <2>1. /\ j.op = job[r].op /\ j.asset = Default /\ j.queue = job[r].queue
        /\ j.restored = job[r].restored /\ j.created = job[r].created
    BY Facts DEF Job
  <2>2. job' = [job EXCEPT ![r] = j]
    BY <1>2
  <2>. HIDE DEF j
  <2>3. job'[r] = j /\ \A q \in Processes \ {r} : job'[q] = job[q]
    BY <2>2, JobEffect
  <2>4. pc'[r] = "describe" /\ \A q \in Processes \ {r} : pc'[q] = pc[q]
    BY <1>2, MoveEffect
  <2>. QED
    BY <2>1, <2>3, <2>4 DEF Others, SameRead
<1>. QED
  BY <1>1, <1>2, FailEffect DEF Fallback

LEMMA DescribeEffect ==
    ASSUME TypeInv, NEW r \in Processes, Describe(r)
    PROVE  /\ pc[r] = "describe" /\ Others(r) /\ UNCHANGED <<up, files, history>>
           /\ \/ ~Intact(metadata[job[r].asset]) /\ Fails(r, "entry")
              \/ /\ Intact(metadata[job[r].asset]) /\ pc'[r] = "resolve" /\ SameRead(r)
                 /\ job'[r].asset = job[r].asset
                 /\ job'[r].seen = metadata[job[r].asset]
<1>1. pc[r] = "describe" /\ UNCHANGED <<up, files, history>>
  BY DEF Describe, At
<1>2. ASSUME GoTo(r, "resolve"), job' = [job EXCEPT ![r].seen = metadata[job[r].asset]]
      PROVE  /\ Others(r) /\ pc'[r] = "resolve" /\ SameRead(r)
             /\ job'[r].asset = job[r].asset /\ job'[r].seen = metadata[job[r].asset]
  <2>. DEFINE file == metadata[job[r].asset]
              j == [job[r] EXCEPT !.seen = file]
  <2>. HIDE DEF file
  <2>1. /\ j.op = job[r].op /\ j.asset = job[r].asset /\ j.queue = job[r].queue
        /\ j.restored = job[r].restored /\ j.created = job[r].created /\ j.seen = file
    BY Facts DEF Job
  <2>2. job' = [job EXCEPT ![r] = j]
    BY <1>2 DEF file
  <2>. HIDE DEF j
  <2>3. job'[r] = j /\ \A q \in Processes \ {r} : job'[q] = job[q]
    BY <2>2, JobEffect
  <2>4. pc'[r] = "resolve" /\ \A q \in Processes \ {r} : pc'[q] = pc[q]
    BY <1>2, MoveEffect
  <2>. QED
    BY <2>1, <2>3, <2>4 DEF Others, SameRead, file
<1>. QED
  BY <1>1, <1>2, FailEffect DEF Describe

LEMMA SendEffect ==
    ASSUME TypeInv, NEW r \in Processes, Send(r)
    PROVE  /\ pc[r] = "send" /\ Others(r) /\ UNCHANGED <<up, files, history>>
           /\ \/ payload[job[r].asset] = Absent /\ Fails(r, "entry")
              \/ /\ payload[job[r].asset] # Absent /\ pc'[r] = "done" /\ SameRead(r)
                 /\ job'[r].asset = job[r].asset /\ job'[r].seen = job[r].seen
                 /\ job'[r].got = payload[job[r].asset]
<1>1. pc[r] = "send" /\ UNCHANGED <<up, files, history>>
  BY DEF Send, At
<1>2. ASSUME GoTo(r, "done"), job' = [job EXCEPT ![r].got = payload[job[r].asset]]
      PROVE  /\ Others(r) /\ pc'[r] = "done" /\ SameRead(r)
             /\ job'[r].asset = job[r].asset /\ job'[r].seen = job[r].seen
             /\ job'[r].got = payload[job[r].asset]
  <2>. DEFINE file == payload[job[r].asset]
              j == [job[r] EXCEPT !.got = file]
  <2>. HIDE DEF file
  <2>1. /\ j.op = job[r].op /\ j.asset = job[r].asset /\ j.queue = job[r].queue
        /\ j.restored = job[r].restored /\ j.created = job[r].created
        /\ j.seen = job[r].seen /\ j.got = file
    BY Facts DEF Job
  <2>2. job' = [job EXCEPT ![r] = j]
    BY <1>2 DEF file
  <2>. HIDE DEF j
  <2>3. job'[r] = j /\ \A q \in Processes \ {r} : job'[q] = job[q]
    BY <2>2, JobEffect
  <2>4. pc'[r] = "done" /\ \A q \in Processes \ {r} : pc'[q] = pc[q]
    BY <1>2, MoveEffect
  <2>. QED
    BY <2>1, <2>3, <2>4 DEF Others, SameRead, file
<1>. QED
  BY <1>1, <1>2, FailEffect DEF Send

\* A request arrives: it is an upload of an unused id, an import of a bundle
\* that nobody else is writing, or it has nothing to write yet.
LEMMA ArriveEffect ==
    ASSUME TypeInv, NEW r \in Requests, Arrive(r)
    PROVE  /\ r \in Processes /\ up = "up" /\ pc[r] = "idle"
           /\ Others(r) /\ UNCHANGED <<up, files, history>>
           /\ job'[r].restored = {} /\ job'[r].created = {}
           /\ \/ \E e \in Offers :
                    /\ Unused(e.asset)
                    /\ pc'[r] = "check" /\ job'[r].op = "upload" /\ job'[r].asset = e.asset
                    /\ job'[r].queue = <<e>> /\ job'[r].fresh
              \/ \E bundle \in Bundles :
                    /\ Exported(bundle) /\ Cardinality(Imports) < MaxImports
                    /\ pc'[r] = "lookup" /\ job'[r].op = "import" /\ job'[r].queue = bundle
              \/ /\ \/ pc'[r] = "inspect" /\ job'[r].op = "delete"
                    \/ pc'[r] = "describe" /\ job'[r].op = "fetch"
                    \/ pc'[r] \in {"choose", "fallback"} /\ job'[r].op = "preview"
                 /\ job'[r].queue = <<>>
<1>1. r \in Processes
  BY DEF Processes
<1>2. ASSUME NEW l, NEW j, Begin(r, l, j)
      PROVE  /\ up = "up" /\ pc[r] = "idle" /\ Others(r) /\ UNCHANGED <<up, files, history>>
             /\ pc'[r] = l /\ job'[r] = j
  BY <1>1, <1>2, MoveEffect, JobEffect DEF Begin, At, Others
<1>3. CASE Upload(r)
  <2>1. PICK e \in Offers :
           /\ Unused(e.asset)
           /\ Begin(r, "check", [NoJob EXCEPT !.op = "upload", !.asset = e.asset,
                                              !.queue = <<e>>, !.fresh = TRUE])
    BY <1>3 DEF Upload
  <2>. DEFINE j == [NoJob EXCEPT !.op = "upload", !.asset = e.asset, !.queue = <<e>>, !.fresh = TRUE]
  <2>2. /\ j.restored = {} /\ j.created = {} /\ j.op = "upload" /\ j.asset = e.asset
        /\ j.queue = <<e>> /\ j.fresh
    BY DEF NoJob
  <2>3. Begin(r, "check", j)
    BY <2>1
  <2>. HIDE DEF j
  <2>. QED
    BY <1>1, <1>2, <2>1, <2>2, <2>3
<1>4. CASE Import(r)
  <2>1. PICK bundle \in Bundles :
           /\ Exported(bundle) /\ Cardinality(Imports) < MaxImports
           /\ Begin(r, "lookup", [NoJob EXCEPT !.op = "import", !.queue = bundle])
    BY <1>4 DEF Import
  <2>. DEFINE j == [NoJob EXCEPT !.op = "import", !.queue = bundle]
  <2>2. j.restored = {} /\ j.created = {} /\ j.op = "import" /\ j.queue = bundle
    BY DEF NoJob
  <2>3. Begin(r, "lookup", j)
    BY <2>1
  <2>. HIDE DEF j
  <2>. QED
    BY <1>1, <1>2, <2>1, <2>2, <2>3
<1>5. ASSUME NEW l, NEW o, NEW a, Begin(r, l, [NoJob EXCEPT !.op = o, !.asset = a])
      PROVE  /\ up = "up" /\ pc[r] = "idle" /\ Others(r) /\ UNCHANGED <<up, files, history>>
             /\ job'[r].restored = {} /\ job'[r].created = {} /\ job'[r].queue = <<>>
             /\ pc'[r] = l /\ job'[r].op = o
  <2>. DEFINE j == [NoJob EXCEPT !.op = o, !.asset = a]
  <2>1. j.restored = {} /\ j.created = {} /\ j.op = o /\ j.queue = <<>>
    BY DEF NoJob
  <2>2. Begin(r, l, j)
    BY <1>5
  <2>. HIDE DEF j
  <2>. QED
    BY <1>2, <2>1, <2>2
<1>6. CASE PreviewOfNoAsset(r)
  <2>. DEFINE j == [NoJob EXCEPT !.op = "preview"]
  <2>1. j.restored = {} /\ j.created = {} /\ j.op = "preview" /\ j.queue = <<>>
    BY DEF NoJob
  <2>2. Begin(r, "fallback", j)
    BY <1>6 DEF PreviewOfNoAsset
  <2>. HIDE DEF j
  <2>. QED
    BY <1>1, <1>2, <2>1, <2>2
<1>7. CASE Delete(r)
  BY <1>1, <1>5, <1>7 DEF Delete
<1>8. CASE Fetch(r)
  BY <1>1, <1>5, <1>8 DEF Fetch
<1>9. CASE Preview(r)
  BY <1>1, <1>5, <1>9 DEF Preview
<1>. QED
  BY <1>3, <1>4, <1>6, <1>7, <1>8, <1>9 DEF Arrive

\* The queue loses the entry at its head and nothing else.
LEMMA TailAssets ==
    ASSUME NEW s \in Seq(Entry), s # <<>>
    PROVE  /\ \A i \in DOMAIN Tail(s) : \E k \in DOMAIN s : Tail(s)[i] = s[k]
           /\ \A k \in DOMAIN s : s[k] = Head(s) \/ \E i \in DOMAIN Tail(s) : Tail(s)[i] = s[k]
           /\ \E k \in DOMAIN s : s[k] = Head(s)
<1>1. \A i \in DOMAIN Tail(s) : Tail(s)[i] = s[i + 1] /\ i + 1 \in DOMAIN s
  OBVIOUS
<1>2. \A k \in DOMAIN s \ {1} : k - 1 \in DOMAIN Tail(s) /\ Tail(s)[k - 1] = s[k]
  OBVIOUS
<1>3. 1 \in DOMAIN s /\ s[1] = Head(s)
  OBVIOUS
<1>. QED
  BY <1>1, <1>2, <1>3

LEMMA QueueFacts ==
    ASSUME TypeInv, NEW r \in Processes, pc[r] \in EntryLabels
    PROVE  /\ job[r].queue \in Seq(Entry) /\ job[r].queue # <<>> /\ Current(r) \in Entry
           /\ Current(r).asset \in Mine(r)
           /\ pc[r] # "lookup" => Current(r).asset = job[r].asset
<1>1. job[r].queue \in Seq(Entry) /\ job[r].queue # <<>>
  BY Facts DEF Job, TypeInv, EntryInHand
<1>2. pc[r] # "lookup" => Current(r).asset = job[r].asset
  BY DEF TypeInv, EntryInHand
<1>. QED
  BY <1>1, <1>2, TailType, TailAssets DEF Mine, Current

LEMMA MineKept ==
    ASSUME NEW r, job'[r].queue = job[r].queue, job'[r].restored = job[r].restored,
           job'[r].created = job[r].created
    PROVE  Mine(r)' = Mine(r)
  BY DEF Mine

LEMMA MineDone ==
    ASSUME TypeInv, NEW r \in Processes, pc[r] \in EntryLabels, NEW restored, NEW created,
           EntryDone(r, restored, created), restored \cup created \subseteq Mine(r)
    PROVE  Mine(r)' \subseteq Mine(r)
<1>1. \A i \in DOMAIN Tail(job[r].queue) :
         \E k \in DOMAIN job[r].queue : Tail(job[r].queue)[i] = job[r].queue[k]
  BY QueueFacts, TailAssets
<1>. QED
  BY <1>1 DEF Mine, EntryDone

\* What a finished entry adds to the ids a request may take back is its own.
LEMMA RestoredMine ==
    ASSUME TypeInv, NEW r \in Processes, pc[r] \in EntryLabels \ {"lookup"}
    PROVE  Restored(r) \cup job[r].created \cup {job[r].asset} \subseteq Mine(r)
  BY QueueFacts DEF Restored, Mine

LEMMA AfterEntryLabels ==
    ASSUME NEW r
    PROVE  /\ AfterEntry(r) \in {"lookup", "ready", "commit"}
           /\ AfterEntry(r) = "ready" => job[r].op = "seed" /\ Tail(job[r].queue) = <<>>
           /\ AfterEntry(r) = "commit" => job[r].op # "seed"
  BY DEF AfterEntry

(***************************************************************************)
(* Who does what: the startup handler only seeds, and only while no        *)
(* request is served; a request is at the labels of its operation.         *)
(***************************************************************************)
EntryOps == {"upload", "import"}

StartupRole ==
    /\ pc[Startup] \in {"idle", "ready", "failed"} \cup EntryLabels
    /\ pc[Startup] = "idle" <=> up # "starting"
    /\ up = "starting" => job[Startup].op = "seed"
    /\ pc[Startup] = "ready" => job[Startup].queue = <<>>
    /\ \A i \in DOMAIN job[Startup].queue : job[Startup].queue[i].source # "upload"

RequestRole(r) ==
    /\ pc[r] # "ready"
    /\ up # "up" => pc[r] = "idle"
    /\ pc[r] = "idle" => job[r] = NoJob
    /\ pc[r] \in EntryLabels \cup {"commit"} => job[r].op \in EntryOps
    /\ pc[r] = "inspect" => job[r].op = "delete"
    /\ pc[r] \in {"remove", "scan"} \cup RemoveLabels => job[r].op \in EntryOps \cup {"delete"}
    /\ pc[r] \in {"scan"} \cup RemoveLabels => job[r].asset \in job[r].restored
    /\ pc[r] \in ReadLabels => job[r].op \in {"fetch", "preview"}
    /\ pc[r] \in {"choose", "chooseRead", "fallback"} => job[r].op = "preview"
    /\ job[r].op = "upload" => Mine(r) \subseteq {job[r].asset}

Roles == StartupRole /\ \A r \in Requests : RequestRole(r)

LEMMA StartupFacts == Startup \in Processes /\ \A r \in Requests : r # Startup /\ r \in Processes
  BY Sentinels DEF Processes

\* The operation of a request from its label.
LEMMA RoleFacts ==
    ASSUME TypeInv, Roles, NEW r \in Requests
    PROVE  /\ RequestRole(r) /\ r \in Processes /\ r # Startup
           /\ pc[r] # "idle" => up = "up"
           /\ pc[r] = "idle" => job[r] = NoJob
  BY StartupFacts DEF Roles, RequestRole

LEMMA RequestMoves ==
    ASSUME Roles, NEW r \in Requests, Others(r), up' = up, RequestRole(r)'
    PROVE  Roles'
<1>1. \A q \in Requests \ {r} : RequestRole(q)'
  BY StartupFacts DEF Roles, RequestRole, Others, Mine
<1>2. StartupRole'
  BY StartupFacts DEF Roles, StartupRole, Others
<1>. QED
  BY <1>1, <1>2 DEF Roles

LEMMA StartupMoves ==
    ASSUME Roles, Others(Startup), up' = up, StartupRole'
    PROVE  Roles'
<1>1. \A q \in Requests : RequestRole(q)'
  BY StartupFacts DEF Roles, RequestRole, Others, Mine
<1>. QED
  BY <1>1 DEF Roles

USE DEF EntryLabels, WriteLabels, RemoveLabels, ReadLabels

LEMMA FailRole ==
    ASSUME TypeInv, Roles, NEW r \in Processes, pc[r] # "idle", NEW c, Others(r), Fails(r, c), up' = up
    PROVE  Roles'
<1>1. CASE r \in Requests
  <2>1. RequestRole(r)'
    BY <1>1, RoleFacts, MineKept DEF RequestRole, Fails, SameWork
  <2>. QED
    BY <1>1, <2>1, RequestMoves
<1>2. CASE r = Startup
  <2>1. StartupRole'
    BY <1>2 DEF Roles, StartupRole, Fails, SameWork
  <2>. QED
    BY <1>2, <2>1, StartupMoves
<1>. QED
  BY <1>1, <1>2 DEF Processes

LEMMA EntryDoneRole ==
    ASSUME TypeInv, Roles, NEW r \in Processes, pc[r] \in EntryLabels, NEW restored, NEW created,
           Others(r), EntryDone(r, restored, created), restored \cup created \subseteq Mine(r),
           r \in Requests => pc[r] # "lookup", up' = up
    PROVE  Roles'
<1>1. CASE r \in Requests
  <2>1. Mine(r)' \subseteq Mine(r)
    BY MineDone
  <2>2. pc'[r] \in {"lookup", "commit"}
    BY <1>1, RoleFacts, AfterEntryLabels DEF RequestRole, EntryOps, EntryDone
  <2>3. RequestRole(r)'
    BY <1>1, <2>1, <2>2, RoleFacts DEF RequestRole, EntryDone
  <2>. QED
    BY <1>1, <2>3, RequestMoves
<1>2. CASE r = Startup
  <2>1. up = "starting" /\ job[r].op = "seed"
    BY <1>2 DEF Roles, StartupRole
  <2>2. pc'[r] \in {"lookup", "ready"} /\ (pc'[r] = "ready" => Tail(job[r].queue) = <<>>)
    BY <2>1, AfterEntryLabels DEF EntryDone
  <2>3. \A i \in DOMAIN Tail(job[r].queue) : Tail(job[r].queue)[i].source # "upload"
    BY <1>2, QueueFacts, TailAssets DEF Roles, StartupRole
  <2>4. StartupRole'
    BY <1>2, <2>1, <2>2, <2>3 DEF StartupRole, EntryDone
  <2>. QED
    BY <1>2, <2>4, StartupMoves
<1>. QED
  BY <1>1, <1>2 DEF Processes

\* A move within the labels of a write.
LEMMA WriteMoveRole ==
    ASSUME TypeInv, Roles, NEW r \in Processes, pc[r] \in EntryLabels,
           Others(r), pc'[r] \in EntryLabels, up' = up,
           job'[r].op = job[r].op, job'[r].queue = job[r].queue, Mine(r)' = Mine(r),
           job'[r].asset = Current(r).asset
    PROVE  Roles'
<1>1. CASE r \in Requests
  <2>1. Current(r).asset \in Mine(r)
    BY QueueFacts
  <2>2. job[r].op = "upload" => Mine(r)' \subseteq {job'[r].asset}
    BY <1>1, <2>1, RoleFacts DEF RequestRole
  <2>3. RequestRole(r)'
    BY <1>1, <2>2, RoleFacts DEF RequestRole
  <2>. QED
    BY <1>1, <2>3, RequestMoves
<1>2. CASE r = Startup
  <2>1. StartupRole'
    BY <1>2 DEF Roles, StartupRole
  <2>. QED
    BY <1>2, <2>1, StartupMoves
<1>. QED
  BY <1>1, <1>2 DEF Processes

\* A process at the labels of another operation than seeding is a request.
LEMMA IsRequest ==
    ASSUME TypeInv, Roles, NEW r \in Processes,
           pc[r] \notin {"idle", "ready", "failed"} \cup EntryLabels
    PROVE  r \in Requests
  BY DEF Roles, StartupRole, Processes

LEMMA WriteRoles ==
    ASSUME TypeInv, Roles, NEW r \in Processes, WriteStep(r)
    PROVE  Roles'
<1>1. CASE LookUp(r)
  <2>1. pc[r] = "lookup" /\ Others(r) /\ up' = up
    BY <1>1, LookUpEffect
  <2>2. CASE Fails(r, "entry")
    BY <2>1, <2>2, FailRole
  <2>3. CASE job[r].op = "seed" /\ EntryDone(r, {}, job[r].created)
    <3>1. r \notin Requests
      BY <2>1, <2>3, RoleFacts DEF RequestRole, EntryOps
    <3>. QED
      BY <2>1, <2>3, <3>1, EntryDoneRole DEF Mine
  <2>4. CASE /\ pc'[r] = "check"
             /\ job'[r].asset = Current(r).asset
             /\ job'[r].op = job[r].op /\ job'[r].queue = job[r].queue
             /\ job'[r].restored = job[r].restored /\ job'[r].created = job[r].created
    BY <2>1, <2>4, MineKept, WriteMoveRole
  <2>. QED
    BY <1>1, <2>2, <2>3, <2>4, LookUpEffect
<1>2. CASE Check(r)
  <2>1. pc[r] = "check" /\ Others(r) /\ up' = up
    BY <1>2, CheckEffect
  <2>2. CASE Fails(r, "entry")
    BY <2>1, <2>2, FailRole
  <2>3. CASE Moves(r, "compare") \/ Moves(r, "makeDir")
    BY <2>1, <2>3, MineKept, QueueFacts, WriteMoveRole DEF Moves
  <2>. QED
    BY <1>2, <2>2, <2>3, CheckEffect
<1>3. CASE Compare(r)
  <2>1. pc[r] = "compare" /\ Others(r) /\ up' = up
    BY <1>3, CompareEffect
  <2>2. CASE Fails(r, "entry")
    BY <2>1, <2>2, FailRole
  <2>3. CASE EntryDone(r, Restored(r), job[r].created)
    BY <2>1, <2>3, RestoredMine, EntryDoneRole
  <2>. QED
    BY <1>3, <2>2, <2>3, CompareEffect
<1>4. CASE Opening(r)
  <2>1. pc[r] \in WriteLabels /\ Others(r) /\ up' = up
    BY <1>4, OpeningEffect
  <2>2. CASE Fails(r, "entry")
    BY <2>1, <2>2, FailRole
  <2>3. CASE \E l \in WriteLabels \ {"makeDir"} : Moves(r, l)
    BY <2>1, <2>3, MineKept, QueueFacts, WriteMoveRole DEF Moves
  <2>. QED
    BY <1>4, <2>2, <2>3, OpeningEffect
<1>5. CASE FillMetadata(r)
  <2>1. /\ pc[r] = "fillMetadata" /\ Others(r) /\ up' = up
        /\ EntryDone(r, Restored(r), job[r].created \cup {job[r].asset})
    BY <1>5, FillMetadataEffect
  <2>. QED
    BY <2>1, RestoredMine, EntryDoneRole
<1>. QED
  BY <1>1, <1>2, <1>3, <1>4, <1>5 DEF WriteStep, Opening

LEMMA RemoveRoles ==
    ASSUME TypeInv, Roles, NEW r \in Processes, RemoveStep(r)
    PROVE  Roles'
<1>1. pc[r] \in {"commit", "inspect", "remove", "scan", "unlink", "removeDir"}
      /\ Others(r) /\ up' = up
  BY CommitEffect, InspectEffect, RemoveEffect, ScanEffect, UnlinkEffect, RemoveDirEffect
     DEF RemoveStep
<1>2. r \in Requests
  BY <1>1, IsRequest
<1>3. RequestRole(r) /\ up = "up"
  BY <1>1, <1>2, RoleFacts
<1>4. CASE Fails(r, "entry") \/ Fails(r, "undo")
  BY <1>1, <1>4, FailRole
<1>5. CASE Commit(r)
  <2>1. pc[r] = "commit" /\ SameWork(r) /\ pc'[r] \in {"done", "failed", "remove"}
    BY <1>5, CommitEffect
  <2>2. RequestRole(r)'
    BY <1>1, <1>3, <2>1, MineKept DEF RequestRole, SameWork
  <2>. QED
    BY <1>1, <1>2, <2>2, RequestMoves
<1>6. CASE Inspect(r) /\ ~Fails(r, "entry")
  <2>1. /\ pc[r] = "inspect" /\ pc'[r] = "remove" /\ job'[r].op = job[r].op
    BY <1>6, InspectEffect
  <2>2. RequestRole(r)'
    BY <1>1, <1>3, <2>1 DEF RequestRole
  <2>. QED
    BY <1>1, <1>2, <2>2, RequestMoves
<1>7. CASE Remove(r)
  <2>1. /\ pc[r] = "remove" /\ pc'[r] \in {"scan", "failed"} /\ job'[r].op = job[r].op
        /\ job'[r].asset \in job'[r].restored /\ Mine(r)' = Mine(r)
        /\ job'[r].asset \in Mine(r)
    BY <1>7, RemoveEffect, MineKept DEF Mine, Halts
  <2>2. RequestRole(r)'
    BY <1>1, <1>3, <2>1 DEF RequestRole
  <2>. QED
    BY <1>1, <1>2, <2>2, RequestMoves
<1>8. CASE (Scan(r) /\ ~Fails(r, "undo")) \/ Unlink(r)
  <2>1. /\ pc[r] \in {"scan"} \cup RemoveLabels /\ pc'[r] \in RemoveLabels /\ SameWork(r)
    BY <1>8, ScanEffect, UnlinkEffect
  <2>2. RequestRole(r)'
    BY <1>1, <1>3, <2>1, MineKept DEF RequestRole, SameWork
  <2>. QED
    BY <1>1, <1>2, <2>2, RequestMoves
<1>9. CASE RemoveDir(r) /\ ~Fails(r, "undo")
  <2>1. /\ pc[r] = "removeDir" /\ pc'[r] \in {"remove", "done", "failed"}
        /\ job'[r].op = job[r].op /\ job'[r].asset = job[r].asset /\ Mine(r)' \subseteq Mine(r)
    BY <1>9, RemoveDirEffect DEF Mine
  <2>2. RequestRole(r)'
    BY <1>1, <1>3, <2>1 DEF RequestRole
  <2>. QED
    BY <1>1, <1>2, <2>2, RequestMoves
<1>. QED
  BY <1>4, <1>5, <1>6, <1>7, <1>8, <1>9 DEF RemoveStep

LEMMA ReadEffect ==
    ASSUME TypeInv, NEW r \in Processes, ReadStep(r)
    PROVE  /\ pc[r] \in ReadLabels /\ Others(r) /\ UNCHANGED <<up, files, history>>
           /\ SameRead(r)
           /\ pc'[r] \in ReadLabels \cup {"done", "failed"}
           /\ pc'[r] \in {"choose", "chooseRead", "fallback"} => pc[r] \in {"choose", "chooseRead"}
           /\ pc'[r] = "failed" => job'[r].cause = "entry"
<1>1. CASE Choose(r) \/ ChooseRead(r) \/ Resolve(r)
  BY <1>1, ChooseEffect DEF Moves, Fails, SameWork, SameRead
<1>2. CASE Fallback(r)
  BY <1>2, FallbackEffect DEF Fails, SameWork, SameRead
<1>3. CASE Describe(r)
  BY <1>3, DescribeEffect DEF Fails, SameWork, SameRead
<1>4. CASE Send(r)
  BY <1>4, SendEffect DEF Fails, SameWork, SameRead
<1>. QED
  BY <1>1, <1>2, <1>3, <1>4 DEF ReadStep

LEMMA ReadRoles ==
    ASSUME TypeInv, Roles, NEW r \in Processes, ReadStep(r)
    PROVE  Roles'
<1>1. /\ pc[r] \in ReadLabels /\ Others(r) /\ up' = up /\ SameRead(r)
      /\ pc'[r] \in ReadLabels \cup {"done", "failed"}
      /\ pc'[r] \in {"choose", "chooseRead", "fallback"} => pc[r] \in {"choose", "chooseRead"}
  BY ReadEffect
<1>2. r \in Requests
  BY <1>1, IsRequest
<1>3. RequestRole(r) /\ up = "up" /\ job[r].op \in {"fetch", "preview"}
  BY <1>1, <1>2, RoleFacts DEF RequestRole
<1>4. RequestRole(r)'
  BY <1>1, <1>3 DEF RequestRole, SameRead
<1>. QED
  BY <1>1, <1>2, <1>4, RequestMoves

LEMMA AnswerEffect ==
    ASSUME TypeInv, NEW r \in Processes, Answer(r)
    PROVE  /\ r \in Requests /\ pc[r] \in {"done", "failed"} /\ Others(r)
           /\ UNCHANGED <<up, files, history>> /\ pc'[r] = "idle" /\ job'[r] = NoJob
  BY MoveEffect, JobEffect DEF Answer, Others

LEMMA ArriveRoles ==
    ASSUME TypeInv, Roles, NEW r \in Requests, Arrive(r)
    PROVE  Roles'
<1>1. /\ up = "up" /\ Others(r) /\ up' = up
      /\ job'[r].restored = {} /\ job'[r].created = {}
      /\ \/ \E e \in Offers :
               /\ pc'[r] = "check" /\ job'[r].op = "upload" /\ job'[r].asset = e.asset
               /\ job'[r].queue = <<e>>
         \/ pc'[r] = "lookup" /\ job'[r].op = "import"
         \/ pc'[r] = "inspect" /\ job'[r].op = "delete"
         \/ pc'[r] = "describe" /\ job'[r].op = "fetch"
         \/ pc'[r] \in {"choose", "fallback"} /\ job'[r].op = "preview"
  BY ArriveEffect
<1>2. job'[r].op = "upload" => Mine(r)' \subseteq {job'[r].asset}
  BY <1>1 DEF Mine
<1>3. RequestRole(r)'
  BY <1>1, <1>2 DEF RequestRole, EntryOps
<1>. QED
  BY <1>1, <1>3, RequestMoves

\* The process starts, is up, or stops.
LEMMA StartEffect ==
    ASSUME TypeInv, Start
    PROVE  /\ up = "down" /\ up' = "starting" /\ Others(Startup) /\ UNCHANGED <<files, history>>
           /\ pc'[Startup] = "lookup" /\ job'[Startup].op = "seed"
           /\ job'[Startup].queue = SeedOrder
           /\ job'[Startup].restored = {} /\ job'[Startup].created = {}
<1>. DEFINE j == [NoJob EXCEPT !.op = "seed", !.queue = SeedOrder]
<1>1. j.op = "seed" /\ j.queue = SeedOrder /\ j.restored = {} /\ j.created = {}
  BY DEF NoJob
<1>2. job' = [job EXCEPT ![Startup] = j]
  BY DEF Start
<1>. HIDE DEF j
<1>3. job'[Startup] = j /\ \A q \in Processes \ {Startup} : job'[q] = job[q]
  BY <1>2, JobEffect, StartupFacts
<1>4. pc'[Startup] = "lookup" /\ \A q \in Processes \ {Startup} : pc'[q] = pc[q]
  BY MoveEffect, StartupFacts DEF Start
<1>. QED
  BY <1>1, <1>3, <1>4 DEF Start, Others

LEMMA StartedEffect ==
    ASSUME TypeInv, Started
    PROVE  /\ pc[Startup] \in {"ready", "failed"} /\ Others(Startup) /\ UNCHANGED <<files, history>>
           /\ up' = (IF pc[Startup] = "ready" THEN "up" ELSE "down")
           /\ pc'[Startup] = "idle" /\ job'[Startup] = NoJob
  BY JobEffect, MoveEffect, StartupFacts DEF Started, Others, At

LEMMA LifeRoles ==
    ASSUME TypeInv, Roles, Start \/ Started \/ Crash
    PROVE  Roles'
<1>1. CASE Start
  <2>1. /\ up = "down" /\ up' = "starting" /\ Others(Startup)
        /\ pc'[Startup] = "lookup" /\ job'[Startup].op = "seed" /\ job'[Startup].queue = SeedOrder
    BY <1>1, StartEffect
  <2>2. StartupRole'
    BY <2>1, SeedEntries DEF StartupRole
  <2>3. \A q \in Requests : RequestRole(q)'
    BY <2>1, StartupFacts DEF Roles, RequestRole, Others, Mine
  <2>. QED
    BY <2>2, <2>3 DEF Roles
<1>2. CASE Started
  <2>1. /\ pc[Startup] \in {"ready", "failed"} /\ Others(Startup) /\ up' \in {"up", "down"}
        /\ pc'[Startup] = "idle" /\ job'[Startup].queue = <<>>
    BY <1>2, StartedEffect DEF NoJob
  <2>2. StartupRole'
    BY <2>1 DEF StartupRole
  <2>3. up = "starting"
    BY <2>1 DEF Roles, StartupRole
  <2>4. \A q \in Requests : RequestRole(q)'
    BY <2>1, <2>3, StartupFacts DEF Roles, RequestRole, Others, Mine
  <2>. QED
    BY <2>2, <2>4 DEF Roles
<1>3. CASE Crash
  <2>1. \A q \in Processes : pc'[q] = "idle" /\ job'[q] = NoJob
    BY <1>3 DEF Crash
  <2>2. up' = "down" /\ NoJob.queue = <<>> /\ NoJob.op = "none"
    BY <1>3 DEF Crash, NoJob
  <2>3. StartupRole'
    BY <2>1, <2>2, StartupFacts DEF StartupRole
  <2>4. \A q \in Requests : RequestRole(q)'
    BY <2>1, <2>2, StartupFacts DEF RequestRole
  <2>. QED
    BY <2>3, <2>4 DEF Roles
<1>. QED
  BY <1>1, <1>2, <1>3

LEMMA InitRoles == Init => Roles
<1>. SUFFICES ASSUME Init PROVE Roles
  OBVIOUS
<1>1. \A q \in Processes : pc[q] = "idle" /\ job[q] = NoJob
  BY DEF Init
<1>2. up = "down" /\ NoJob.queue = <<>> /\ NoJob.op = "none"
  BY DEF Init, NoJob
<1>. QED
  BY <1>1, <1>2, StartupFacts DEF Roles, StartupRole, RequestRole

LEMMA NextRoles == TypeInv /\ Roles /\ [Next]_vars => Roles'
<1>. SUFFICES ASSUME TypeInv, Roles, [Next]_vars PROVE Roles'
  OBVIOUS
<1>1. CASE UNCHANGED vars
  <2>1. UNCHANGED <<up, pc, job>>
    BY <1>1 DEF vars
  <2>2. StartupRole'
    BY <2>1 DEF Roles, StartupRole
  <2>3. \A q \in Requests : RequestRole(q)'
    BY <2>1 DEF Roles, RequestRole, Mine
  <2>. QED
    BY <2>2, <2>3 DEF Roles
<1>2. ASSUME NEW r \in Processes, Answer(r) PROVE Roles'
  <2>1. r \in Requests /\ Others(r) /\ up' = up /\ pc'[r] = "idle" /\ job'[r] = NoJob
    BY <1>2, AnswerEffect
  <2>2. RequestRole(r)'
    BY <2>1 DEF RequestRole, NoJob
  <2>. QED
    BY <2>1, <2>2, RequestMoves
<1>. QED
  BY <1>1, <1>2, WriteRoles, RemoveRoles, ReadRoles, ArriveRoles, LifeRoles DEF Next, Step

(***************************************************************************)
(* The bundled files.  A request never works on one: an upload has a new   *)
(* id, an import finds the file there and writes nothing, a deletion       *)
(* refuses its source kind.  So only the startup handler changes them, and *)
(* it is done with its queue before the server answers.                    *)
(***************************************************************************)
SeedsUntouched ==
    \A a \in Seeds :
        /\ a \notin raced /\ removed[a] = "never"
        /\ Intact(metadata[a]) => metadata[a].source # "upload"

SparesSeeds(r) ==
    /\ job[r].restored \cap Seeds = {}
    /\ pc[r] \in EntryLabels \ {"lookup"} /\ job[r].fresh => job[r].asset \notin Seeds
    /\ pc[r] \in ChangeLabels => job[r].asset \notin Seeds

Queued(a) == \E i \in DOMAIN job[Startup].queue : job[Startup].queue[i].asset = a

SeedsThere ==
    \A a \in Seeds : Intact(metadata[a]) \/ up = "down" \/ (up = "starting" /\ Queued(a))

SeedInv == SeedsUntouched /\ (\A r \in Requests : SparesSeeds(r)) /\ SeedsThere

USE DEF ChangeLabels

LEMMA SeedsAreAssets == Seeds \subseteq Assets
  BY SeedEntries DEF Seeds

\* A request moves and leaves the bundled files alone.
LEMMA RequestSeeds ==
    ASSUME SeedInv, NEW r \in Requests, Others(r), up' = up,
           \A a \in Seeds : SameFiles(a) /\ (a \in raced' => a \in raced),
           SparesSeeds(r)'
    PROVE  SeedInv'
<1>1. SeedsUntouched'
  BY DEF SeedInv, SeedsUntouched, SameFiles, Intact
<1>2. \A q \in Requests : SparesSeeds(q)'
  BY StartupFacts DEF SeedInv, SparesSeeds, Others
<1>3. SeedsThere'
  BY StartupFacts DEF SeedInv, SeedsThere, Queued, SameFiles, Intact, Others
<1>. QED
  BY <1>1, <1>2, <1>3 DEF SeedInv

LEMMA SameSeeds ==
    ASSUME UNCHANGED files, UNCHANGED removed, UNCHANGED raced
    PROVE  \A a \in Seeds : SameFiles(a) /\ (a \in raced' => a \in raced)
  BY DEF SameFiles, files

LEMMA BegunSeeds ==
    ASSUME NEW r, NEW b, b \notin Seeds, BeginChange(r, b)
    PROVE  \A a \in Seeds : a \in raced' => a \in raced
  BY DEF BeginChange

LEMMA SeedFacts ==
    ASSUME TypeInv, Roles, SeedInv, NEW r \in Requests, pc[r] # "idle"
    PROVE  /\ SparesSeeds(r) /\ RequestRole(r) /\ r \in Processes
           /\ \A a \in Seeds : Intact(metadata[a]) /\ metadata[a].source # "upload"
  BY RoleFacts DEF SeedInv, SeedsThere, SeedsUntouched

\* The startup handler moves.
LEMMA StartupSeeds ==
    ASSUME SeedInv, Others(Startup), UNCHANGED <<removed, raced>>,
           \A a \in Seeds : Intact(metadata'[a]) => metadata'[a].source # "upload",
           SeedsThere'
    PROVE  SeedInv'
<1>1. \A q \in Requests : SparesSeeds(q)'
  BY StartupFacts DEF SeedInv, SparesSeeds, Others
<1>2. SeedsUntouched'
  BY DEF SeedInv, SeedsUntouched, Intact
<1>. QED
  BY <1>1, <1>2 DEF SeedInv

\* The four calls change the files of the one asset; its metadata is not
\* whole afterwards unless it was before.
LEMMA OpeningFiles ==
    ASSUME TypeInv, NEW r \in Processes, Opening(r)
    PROVE  /\ \A a \in Assets \ {job[r].asset} : SameFiles(a)
           /\ metadata'[job[r].asset] \in {metadata[job[r].asset], Torn}
<1>1. CASE Fail(r, "entry")
  BY <1>1, OpeningEffect DEF Fail, files, SameFiles, history
<1>2. CASE ~Fail(r, "entry")
  BY <1>2, Facts DEF Opening, MakeDir, OpenPayload, FillPayload, OpenMetadata, SameFiles, history
<1>. QED
  BY <1>1, <1>2

\* The last call of a write that nobody disturbed completes the metadata.
LEMMA FillMetadataFiles ==
    ASSUME TypeInv, Orderly, NEW r \in Processes, NEW b \in Assets, job[r].asset = b, FillMetadata(r)
    PROVE  /\ \A a \in Assets \ {b} : SameFiles(a)
           /\ b \notin raced =>
                 /\ metadata'[b] = Describing(Current(r))
                 /\ Intact(metadata'[b])
                 /\ Whole(b)'
<1>1. pc[r] = "fillMetadata" /\ UNCHANGED <<dirs, payload, history>>
  BY DEF FillMetadata, At
<1>2. Describing(Current(r)) \in Description
  BY <1>1, QueueFacts, EntryType
<1>3. PICK file \in Filled(metadata[b], Describing(Current(r))) :
          metadata' = [metadata EXCEPT ![b] = file]
  BY DEF FillMetadata
<1>4. \A a \in Assets \ {b} : SameFiles(a)
  BY <1>1, <1>3, Facts DEF SameFiles, history
<1>5. ASSUME b \notin raced
      PROVE  /\ metadata'[b] = Describing(Current(r))
             /\ Intact(metadata'[b]) /\ Whole(b)'
  <2>1. OrderlyAt(b)
    BY <1>1, <1>5, Alone
  <2>2. /\ metadata[b] = Torn /\ b \in dirs
        /\ payload[b] = Current(r).content
    BY <1>1, <2>1 DEF OrderlyAt, WriterView
  <2>3. metadata'[b] = Describing(Current(r))
    BY <1>3, <2>2, Facts, Sentinels DEF Filled
  <2>4. Intact(metadata'[b])
    BY <1>2, <2>3, StorageAssumption DEF Intact
  <2>5. b \in dirs' /\ payload'[b] = metadata'[b].content
    BY <1>1, <2>2, <2>3 DEF Describing
  <2>. QED
    BY <2>3, <2>4, <2>5 DEF Whole, Intact
<1>. QED
  BY <1>4, <1>5

\* A request fails, or moves on with the same files to take back.
LEMMA FailSeeds ==
    ASSUME TypeInv, Roles, SeedInv, NEW r \in Requests, Others(r), NEW c, Fails(r, c),
           UNCHANGED files, UNCHANGED up, UNCHANGED removed, UNCHANGED raced
    PROVE  SeedInv'
<1>1. SparesSeeds(r)'
  BY DEF SeedInv, SparesSeeds, Fails, SameWork
<1>. QED
  BY <1>1, SameSeeds, RequestSeeds

LEMMA RequestWriteSeeds ==
    ASSUME TypeInv, Roles, Orderly, SeedInv, NEW r \in Requests, WriteStep(r)
    PROVE  SeedInv'
<1>1. r \in Processes
  BY StartupFacts
<1>2. CASE LookUp(r)
  <2>1. pc[r] = "lookup" /\ Others(r) /\ UNCHANGED up /\ UNCHANGED files
        /\ UNCHANGED removed /\ UNCHANGED raced
    BY <1>1, <1>2, LookUpEffect DEF history
  <2>2. SparesSeeds(r) /\ RequestRole(r) /\ \A a \in Seeds : Intact(metadata[a])
    BY <2>1, SeedFacts
  <2>3. CASE Fails(r, "entry")
    BY <2>1, <2>3, FailSeeds
  <2>4. CASE /\ pc'[r] = "check"
             /\ job'[r].asset = Current(r).asset
             /\ job'[r].fresh <=> metadata[Current(r).asset] = Absent
             /\ job'[r].restored = job[r].restored
    <3>1. job'[r].fresh => job'[r].asset \notin Seeds
      BY <2>2, <2>4 DEF Intact
    <3>2. SparesSeeds(r)'
      BY <2>2, <2>4, <3>1 DEF SparesSeeds
    <3>. QED
      BY <2>1, <3>2, SameSeeds, RequestSeeds
  <2>5. job[r].op # "seed"
    BY <2>1, <2>2 DEF RequestRole, EntryOps
  <2>. QED
    BY <1>1, <1>2, <2>3, <2>4, <2>5, LookUpEffect
<1>3. CASE Check(r)
  <2>1. pc[r] = "check" /\ Others(r) /\ UNCHANGED up /\ UNCHANGED files /\ UNCHANGED removed
    BY <1>1, <1>3, CheckEffect
  <2>2. SparesSeeds(r) /\ \A a \in Seeds : Intact(metadata[a])
    BY <2>1, SeedFacts
  <2>3. CASE Fails(r, "entry") /\ UNCHANGED raced
    BY <2>1, <2>3, FailSeeds
  <2>4. CASE Moves(r, "compare") /\ UNCHANGED raced
    <3>1. SparesSeeds(r)'
      BY <2>1, <2>2, <2>4 DEF SparesSeeds, Moves
    <3>. QED
      BY <2>1, <2>4, <3>1, SameSeeds, RequestSeeds
  <2>5. CASE Moves(r, "makeDir") /\ metadata[job[r].asset] = Absent /\ BeginChange(r, job[r].asset)
    <3>1. job[r].asset \notin Seeds
      BY <2>2, <2>5 DEF Intact
    <3>2. SparesSeeds(r)'
      BY <2>1, <2>2, <2>5, <3>1 DEF SparesSeeds, Moves
    <3>3. \A a \in Seeds : SameFiles(a) /\ (a \in raced' => a \in raced)
      BY <2>1, <2>5, <3>1, BegunSeeds DEF SameFiles, files
    <3>. QED
      BY <2>1, <3>2, <3>3, RequestSeeds
  <2>. QED
    BY <1>1, <1>3, <2>3, <2>4, <2>5, CheckEffect
<1>4. CASE Compare(r)
  <2>1. pc[r] = "compare" /\ Others(r) /\ UNCHANGED up /\ UNCHANGED files
        /\ UNCHANGED removed /\ UNCHANGED raced
    BY <1>1, <1>4, CompareEffect DEF history
  <2>2. SparesSeeds(r)
    BY <2>1, SeedFacts
  <2>3. CASE Fails(r, "entry")
    BY <2>1, <2>3, FailSeeds
  <2>4. CASE EntryDone(r, Restored(r), job[r].created)
    <3>1. SparesSeeds(r)'
      BY <2>1, <2>2, <2>4, AfterEntryLabels DEF SparesSeeds, EntryDone, Restored
    <3>. QED
      BY <2>1, <3>1, SameSeeds, RequestSeeds
  <2>. QED
    BY <1>1, <1>4, <2>3, <2>4, CompareEffect
<1>5. CASE Opening(r) \/ FillMetadata(r)
  <2>1. pc[r] \in WriteLabels /\ Others(r) /\ UNCHANGED up /\ UNCHANGED raced
    BY <1>1, <1>5, OpeningEffect, FillMetadataEffect DEF history
  <2>2. SparesSeeds(r) /\ job[r].asset \notin Seeds
    BY <2>1, SeedFacts DEF SparesSeeds
  <2>3. \A a \in Seeds : SameFiles(a) /\ (a \in raced' => a \in raced)
    BY <1>1, <1>5, <2>1, <2>2, Facts, OpeningFiles, FillMetadataFiles, SeedsAreAssets
  <2>4. \/ pc'[r] = "failed" /\ job'[r].restored = job[r].restored
        \/ pc'[r] \in WriteLabels /\ UNCHANGED job
        \/ EntryDone(r, Restored(r), job[r].created \cup {job[r].asset})
    BY <1>1, <1>5, OpeningEffect, FillMetadataEffect DEF Fails, SameWork, Moves
  <2>5. SparesSeeds(r)'
    BY <2>1, <2>2, <2>4, AfterEntryLabels DEF SparesSeeds, EntryDone, Restored
  <2>. QED
    BY <2>1, <2>3, <2>5, RequestSeeds
<1>. QED
  BY <1>2, <1>3, <1>4, <1>5 DEF WriteStep, Opening

LEMMA RequestRemoveSeeds ==
    ASSUME TypeInv, Roles, SeedInv, NEW r \in Requests, RemoveStep(r)
    PROVE  SeedInv'
<1>1. r \in Processes
  BY StartupFacts
<1>2. pc[r] \in {"commit", "inspect", "remove", "scan", "unlink", "removeDir"}
      /\ Others(r) /\ UNCHANGED up
  BY <1>1, CommitEffect, InspectEffect, RemoveEffect, ScanEffect, UnlinkEffect, RemoveDirEffect
     DEF RemoveStep
<1>3. /\ SparesSeeds(r) /\ RequestRole(r)
      /\ \A a \in Seeds : Intact(metadata[a]) /\ metadata[a].source # "upload"
  BY <1>2, SeedFacts
<1>4. pc[r] \in {"scan", "unlink", "removeDir"} => job[r].asset \in Assets \ Seeds
  BY <1>1, <1>3, Facts DEF RequestRole, SparesSeeds
<1>5. CASE Commit(r)
  <2>1. SameWork(r) /\ pc'[r] \in {"done", "failed", "remove"} /\ UNCHANGED files
        /\ UNCHANGED removed /\ UNCHANGED raced
    BY <1>1, <1>5, CommitEffect
  <2>2. SparesSeeds(r)'
    BY <1>3, <2>1 DEF SparesSeeds, SameWork
  <2>. QED
    BY <1>2, <2>1, <2>2, SameSeeds, RequestSeeds
<1>6. CASE Inspect(r) \/ Remove(r)
  <2>1. UNCHANGED files /\ UNCHANGED removed /\ UNCHANGED raced
    BY <1>1, <1>6, InspectEffect, RemoveEffect DEF history
  <2>2. CASE Fails(r, "entry")
    BY <1>2, <2>1, <2>2, FailSeeds
  <2>3. CASE /\ pc'[r] = "remove"
             /\ metadata[job[r].asset].source = "upload"
             /\ job'[r].restored = {job[r].asset}
    <3>1. job[r].asset \notin Seeds
      BY <1>3, <2>3
    <3>2. SparesSeeds(r)'
      BY <2>3, <3>1 DEF SparesSeeds
    <3>. QED
      BY <1>2, <2>1, <3>2, SameSeeds, RequestSeeds
  <2>4. CASE pc'[r] \in {"scan", "failed"} /\ job'[r].restored = job[r].restored
    <3>1. SparesSeeds(r)'
      BY <1>3, <2>4 DEF SparesSeeds
    <3>. QED
      BY <1>2, <2>1, <3>1, SameSeeds, RequestSeeds
  <2>. QED
    BY <1>1, <1>6, <2>2, <2>3, <2>4, InspectEffect, RemoveEffect DEF Halts
<1>7. CASE Scan(r)
  <2>1. pc[r] = "scan" /\ UNCHANGED files
    BY <1>1, <1>7, ScanEffect
  <2>2. CASE Fails(r, "undo") /\ UNCHANGED history
    BY <1>2, <2>1, <2>2, FailSeeds DEF history
  <2>3. CASE /\ pc'[r] = "unlink" /\ SameWork(r) /\ BeginChange(r, job[r].asset)
             /\ removed' = [removed EXCEPT ![job[r].asset] = "begun"]
    <3>1. \A a \in Seeds : removed'[a] = removed[a]
      BY <1>1, <1>4, <2>1, <2>3, Facts, SeedsAreAssets
    <3>2. \A a \in Seeds : SameFiles(a) /\ (a \in raced' => a \in raced)
      BY <1>4, <2>1, <2>3, <3>1, BegunSeeds DEF SameFiles, files
    <3>3. SparesSeeds(r)'
      BY <1>3, <1>4, <2>1, <2>3 DEF SparesSeeds, SameWork
    <3>. QED
      BY <1>2, <3>2, <3>3, RequestSeeds
  <2>. QED
    BY <1>1, <1>7, <2>2, <2>3, ScanEffect
<1>8. CASE Unlink(r)
  <2>1. /\ pc[r] = "unlink" /\ UNCHANGED <<dirs, history>> /\ pc'[r] \in RemoveLabels /\ SameWork(r)
        /\ \A a \in Assets \ {job[r].asset} : payload'[a] = payload[a] /\ metadata'[a] = metadata[a]
    BY <1>1, <1>8, UnlinkEffect
  <2>2. \A a \in Seeds : SameFiles(a) /\ (a \in raced' => a \in raced)
    BY <1>4, <2>1, SeedsAreAssets DEF SameFiles, history
  <2>3. SparesSeeds(r)'
    BY <1>3, <1>4, <2>1 DEF SparesSeeds, SameWork
  <2>. QED
    BY <1>2, <2>2, <2>3, RequestSeeds
<1>9. CASE RemoveDir(r)
  <2>1. pc[r] = "removeDir" /\ UNCHANGED <<payload, metadata, kept, deleted, raced>>
    BY <1>1, <1>9, RemoveDirEffect
  <2>2. CASE Fails(r, "undo") /\ UNCHANGED <<dirs, removed>>
    BY <1>2, <2>1, <2>2, FailSeeds DEF files
  <2>3. CASE /\ dirs' = dirs \ {job[r].asset}
             /\ removed' = [removed EXCEPT ![job[r].asset] = "completed"]
             /\ job'[r].restored = job[r].restored \ {job[r].asset}
             /\ pc'[r] \in {"remove", "done", "failed"}
    <3>1. \A a \in Seeds : SameFiles(a) /\ (a \in raced' => a \in raced)
      BY <1>1, <1>4, <2>1, <2>3, Facts, SeedsAreAssets DEF SameFiles
    <3>2. SparesSeeds(r)'
      BY <1>3, <2>1, <2>3 DEF SparesSeeds
    <3>. QED
      BY <1>2, <3>1, <3>2, RequestSeeds
  <2>. QED
    BY <1>1, <1>9, <2>2, <2>3, RemoveDirEffect
<1>. QED
  BY <1>5, <1>6, <1>7, <1>8, <1>9 DEF RemoveStep

LEMMA OtherRequestSeeds ==
    ASSUME TypeInv, Roles, SeedInv, NEW r \in Requests, Arrive(r) \/ ReadStep(r) \/ Answer(r)
    PROVE  SeedInv'
<1>1. r \in Processes
  BY StartupFacts
<1>2. Others(r) /\ UNCHANGED <<up, files, history>>
  BY <1>1, ArriveEffect, ReadEffect, AnswerEffect
<1>3. CASE Arrive(r)
  <2>1. /\ job'[r].restored = {}
        /\ \/ pc'[r] = "check" /\ job'[r].asset \notin Seeds
           \/ pc'[r] \in {"lookup", "inspect", "describe", "choose", "fallback"}
    BY <1>3, ArriveEffect DEF Unused
  <2>2. SparesSeeds(r)'
    BY <2>1 DEF SparesSeeds
  <2>. QED
    BY <1>2, <2>2, SameSeeds, RequestSeeds DEF history
<1>4. CASE ReadStep(r)
  <2>1. SameRead(r) /\ pc'[r] \in ReadLabels \cup {"done", "failed"}
    BY <1>1, <1>4, ReadEffect
  <2>2. SparesSeeds(r)'
    BY <2>1 DEF SeedInv, SparesSeeds, SameRead
  <2>. QED
    BY <1>2, <2>2, SameSeeds, RequestSeeds DEF history
<1>5. CASE Answer(r)
  <2>1. pc'[r] = "idle" /\ job'[r].restored = {}
    BY <1>1, <1>5, AnswerEffect DEF NoJob
  <2>2. SparesSeeds(r)'
    BY <2>1 DEF SparesSeeds
  <2>. QED
    BY <1>2, <2>2, SameSeeds, RequestSeeds DEF history
<1>. QED
  BY <1>3, <1>4, <1>5

\* The startup handler is at work only while every request is idle, on the
\* entry at the head of its queue.
LEMMA StartupFactsAtWork ==
    ASSUME TypeInv, Roles, pc[Startup] # "idle"
    PROVE  /\ up = "starting" /\ job[Startup].op = "seed" /\ Startup \in Processes
           /\ \A q \in Processes \ {Startup} : pc[q] = "idle"
<1>1. up = "starting" /\ job[Startup].op = "seed"
  BY DEF Roles, StartupRole
<1>2. \A q \in Requests : pc[q] = "idle"
  BY <1>1, RoleFacts
<1>. QED
  BY <1>1, <1>2, StartupFacts DEF Processes

LEMMA StartupEntry ==
    ASSUME TypeInv, Roles, pc[Startup] \in EntryLabels
    PROVE  /\ Current(Startup).source # "upload"
           /\ Queued(Current(Startup).asset)
           /\ \A a \in Seeds : Queued(a) => \/ a = Current(Startup).asset
                                            \/ \E i \in DOMAIN Tail(job[Startup].queue) :
                                                  Tail(job[Startup].queue)[i].asset = a
<1>1. /\ job[Startup].queue \in Seq(Entry) /\ job[Startup].queue # <<>>
      /\ Current(Startup) = Head(job[Startup].queue)
  BY QueueFacts, StartupFacts DEF Current
<1>2. \A i \in DOMAIN job[Startup].queue : job[Startup].queue[i].source # "upload"
  BY DEF Roles, StartupRole
<1>. DEFINE s == job[Startup].queue
<1>3. \E k \in DOMAIN s : s[k] = Current(Startup)
  BY <1>1, TailAssets
<1>4. \A k \in DOMAIN s : s[k] = Current(Startup) \/ \E i \in DOMAIN Tail(s) : Tail(s)[i] = s[k]
  BY <1>1, TailAssets
<1>. HIDE DEF s
<1>5. Current(Startup).source # "upload" /\ Queued(Current(Startup).asset)
  BY <1>2, <1>3 DEF Queued, s
<1>6. ASSUME NEW a \in Seeds, Queued(a), a # Current(Startup).asset
      PROVE  \E i \in DOMAIN Tail(s) : Tail(s)[i].asset = a
  <2>1. PICK k \in DOMAIN s : s[k].asset = a
    BY <1>6 DEF Queued, s
  <2>. QED
    BY <1>4, <1>6, <2>1
<1>. QED
  BY <1>5, <1>6 DEF s

LEMMA StartupStepSeeds ==
    ASSUME TypeInv, Roles, Orderly, SeedInv, WriteStep(Startup)
    PROVE  SeedInv'
<1>0. Startup \in Processes
  BY StartupFacts
<1>1. pc[Startup] \in EntryLabels /\ Others(Startup) /\ up' = up /\ UNCHANGED removed
  BY <1>0, LookUpEffect, CheckEffect, CompareEffect, OpeningEffect, FillMetadataEffect
     DEF WriteStep, Opening, history
<1>2. up = "starting" /\ job[Startup].op = "seed" /\ \A q \in Processes \ {Startup} : pc[q] = "idle"
  BY <1>1, StartupFactsAtWork
<1>3. UNCHANGED raced
  <2>1. \A a : BeginChange(Startup, a) => raced' = raced
    BY <1>2 DEF BeginChange, Changes
  <2>. QED
    BY <1>0, <2>1, LookUpEffect, CheckEffect, CompareEffect, OpeningEffect, FillMetadataEffect
       DEF WriteStep, Opening, history
<1>4. \A a \in Seeds : /\ a \notin raced
                       /\ Intact(metadata[a]) => metadata[a].source # "upload"
                       /\ Intact(metadata[a]) \/ Queued(a)
  BY <1>2 DEF SeedInv, SeedsUntouched, SeedsThere
<1>5. ASSUME UNCHANGED files,
             \/ job'[Startup].queue = job[Startup].queue
             \/ /\ job'[Startup].queue = Tail(job[Startup].queue)
                /\ Intact(metadata[Current(Startup).asset])
      PROVE  SeedInv'
  <2>1. \A a \in Seeds : Intact(metadata'[a]) \/ Queued(a)'
    <3>1. ASSUME NEW a \in Seeds, Queued(a), ~Intact(metadata[a]) PROVE Queued(a)'
      BY <1>1, <1>5, <3>1, StartupEntry DEF Queued
    <3>2. UNCHANGED metadata
      BY <1>5 DEF files
    <3>. QED
      BY <1>4, <3>1, <3>2
  <2>2. \A a \in Seeds : Intact(metadata'[a]) => metadata'[a].source # "upload"
    BY <1>4, <1>5 DEF files
  <2>3. SeedsThere'
    BY <1>1, <1>2, <2>1 DEF SeedsThere, Intact
  <2>. QED
    BY <1>1, <1>3, <2>2, <2>3, StartupSeeds
<1>6. CASE LookUp(Startup)
  BY <1>0, <1>5, <1>6, LookUpEffect DEF Fails, SameWork, EntryDone
<1>7. CASE Check(Startup)
  BY <1>0, <1>5, <1>7, CheckEffect DEF Fails, SameWork, Moves
<1>8. CASE Compare(Startup)
  <2>1. pc[Startup] = "compare" /\ UNCHANGED files
    BY <1>0, <1>8, CompareEffect
  <2>2. Current(Startup).asset = job[Startup].asset
    BY <1>0, <1>1, <2>1, QueueFacts
  <2>. QED
    BY <1>0, <1>5, <1>8, <2>1, <2>2, CompareEffect DEF Fails, SameWork, EntryDone
<1>9. CASE Opening(Startup)
  <2>1. pc[Startup] \in WriteLabels /\ job'[Startup].queue = job[Startup].queue
    BY <1>0, <1>9, OpeningEffect DEF Fails, SameWork, Moves
  <2>2. PICK b \in Assets : b = job[Startup].asset
    BY <1>0, Facts
  <2>3. Queued(b)
    BY <1>0, <2>1, <2>2, QueueFacts, StartupEntry
  <2>4. /\ \A a \in Assets \ {b} : metadata'[a] = metadata[a]
        /\ metadata'[b] \in {metadata[b], Torn}
    BY <1>0, <1>9, <2>2, OpeningFiles DEF SameFiles
  <2>5. \A a \in Seeds : Intact(metadata'[a]) => metadata'[a].source # "upload"
    BY <1>4, <2>4, SeedsAreAssets DEF Intact
  <2>6. \A a \in Seeds : Intact(metadata'[a]) \/ Queued(a)'
    BY <1>4, <2>1, <2>3, <2>4, SeedsAreAssets DEF Queued
  <2>7. SeedsThere'
    BY <1>1, <1>2, <2>6 DEF SeedsThere, Intact
  <2>. QED
    BY <1>1, <1>3, <2>5, <2>7, StartupSeeds
<1>10. CASE FillMetadata(Startup)
  <2>1. /\ pc[Startup] = "fillMetadata"
        /\ job'[Startup].queue = Tail(job[Startup].queue)
    BY <1>0, <1>10, FillMetadataEffect DEF EntryDone
  <2>2. PICK b \in Assets : b = job[Startup].asset
    BY <1>0, Facts
  <2>3. b = Current(Startup).asset /\ Current(Startup).source # "upload"
    BY <1>0, <2>1, <2>2, QueueFacts, StartupEntry
  <2>4. /\ \A a \in Assets \ {b} : metadata'[a] = metadata[a]
        /\ b \notin raced => /\ metadata'[b] = Describing(Current(Startup))
                             /\ Intact(metadata'[b])
    BY <1>0, <1>10, <2>2, FillMetadataFiles DEF SameFiles
  <2>5. \A a \in Seeds : Intact(metadata'[a]) => metadata'[a].source # "upload"
    BY <1>4, <2>3, <2>4, SeedsAreAssets DEF Describing
  <2>6. \A a \in Seeds : Intact(metadata'[a]) \/ Queued(a)'
    BY <1>1, <1>4, <2>1, <2>3, <2>4, SeedsAreAssets, StartupEntry DEF Queued
  <2>7. SeedsThere'
    BY <1>1, <1>2, <2>6 DEF SeedsThere, Intact
  <2>. QED
    BY <1>1, <1>3, <2>5, <2>7, StartupSeeds
<1>. QED
  BY <1>6, <1>7, <1>8, <1>9, <1>10 DEF WriteStep, Opening

LEMMA LifeSeeds ==
    ASSUME TypeInv, Roles, SeedInv, Start \/ Started \/ Crash
    PROVE  SeedInv'
<1>1. UNCHANGED <<files, history>>
  BY DEF Start, Started, Crash
<1>2. \A a \in Seeds : /\ metadata'[a] = metadata[a]
                       /\ Intact(metadata'[a]) => metadata'[a].source # "upload"
  BY <1>1 DEF SeedInv, SeedsUntouched, files
<1>3. CASE Start
  <2>1. up' = "starting" /\ Others(Startup) /\ job'[Startup].queue = SeedOrder
    BY <1>3, StartEffect
  <2>2. \A a \in Seeds : Queued(a)'
    BY <2>1 DEF Queued, Seeds
  <2>3. SeedsThere'
    BY <2>1, <2>2 DEF SeedsThere
  <2>. QED
    BY <1>1, <1>2, <2>1, <2>3, StartupSeeds DEF history
<1>4. CASE Started
  <2>1. /\ pc[Startup] \in {"ready", "failed"} /\ Others(Startup)
        /\ up' = (IF pc[Startup] = "ready" THEN "up" ELSE "down")
    BY <1>4, StartedEffect
  <2>2. up = "starting" /\ (pc[Startup] = "ready" => job[Startup].queue = <<>>)
    BY <2>1 DEF Roles, StartupRole
  <2>3. pc[Startup] = "ready" => \A a \in Seeds : Intact(metadata[a])
    BY <2>2 DEF SeedInv, SeedsThere, Queued
  <2>4. SeedsThere'
    BY <1>2, <2>1, <2>3 DEF SeedsThere, Intact
  <2>. QED
    BY <1>1, <1>2, <2>1, <2>4, StartupSeeds DEF history
<1>5. CASE Crash
  <2>1. \A q \in Requests : pc'[q] = "idle" /\ job'[q].restored = {}
    BY <1>5, StartupFacts DEF Crash, NoJob
  <2>2. \A q \in Requests : SparesSeeds(q)'
    BY <2>1 DEF SparesSeeds
  <2>3. up' = "down"
    BY <1>5 DEF Crash
  <2>4. SeedsThere'
    BY <2>3 DEF SeedsThere
  <2>5. SeedsUntouched'
    BY <1>1, <1>2 DEF SeedInv, SeedsUntouched, history, Intact
  <2>. QED
    BY <2>2, <2>4, <2>5 DEF SeedInv
<1>. QED
  BY <1>3, <1>4, <1>5

LEMMA InitSeeds == Init => SeedInv
<1>. SUFFICES ASSUME Init PROVE SeedInv
  OBVIOUS
<1>1. \A r \in Requests : pc[r] = "idle" /\ job[r].restored = {}
  BY StartupFacts DEF Init, NoJob
<1>2. \A r \in Requests : SparesSeeds(r)
  BY <1>1 DEF SparesSeeds
<1>3. SeedsUntouched /\ SeedsThere
  BY SeedsAreAssets DEF Init, SeedsUntouched, SeedsThere, Intact
<1>. QED
  BY <1>2, <1>3 DEF SeedInv

LEMMA NextSeeds ==
    ASSUME TypeInv, Roles, Orderly, SeedInv, [Next]_vars
    PROVE  SeedInv'
<1>1. CASE UNCHANGED vars
  <2>1. UNCHANGED <<up, dirs, payload, metadata, pc, job, removed, raced>>
    BY <1>1 DEF vars, files, history
  <2>2. SeedsUntouched' /\ SeedsThere'
    BY <2>1 DEF SeedInv, SeedsUntouched, SeedsThere, Queued, Intact
  <2>3. \A r \in Requests : SparesSeeds(r)'
    BY <2>1 DEF SeedInv, SparesSeeds
  <2>. QED
    BY <2>2, <2>3 DEF SeedInv
<1>2. ASSUME NEW r \in Processes, Step(r) PROVE SeedInv'
  <2>1. CASE r \in Requests
    BY <1>2, <2>1, RequestWriteSeeds, RequestRemoveSeeds, OtherRequestSeeds DEF Step
  <2>2. CASE r = Startup
    <3>1. ~RemoveStep(Startup)
      BY StartupFacts, IsRequest, CommitEffect, InspectEffect, RemoveEffect, ScanEffect,
         UnlinkEffect, RemoveDirEffect DEF RemoveStep
    <3>2. ~ReadStep(Startup) /\ ~Answer(Startup)
      BY StartupFacts, IsRequest, ReadEffect, AnswerEffect
    <3>. QED
      BY <1>2, <2>2, <3>1, <3>2, StartupStepSeeds DEF Step
  <2>. QED
    BY <2>1, <2>2 DEF Processes
<1>. QED
  BY <1>1, <1>2, OtherRequestSeeds, LifeSeeds DEF Next

StorageInv == TypeInv /\ Orderly /\ Roles /\ SeedInv

LEMMA StorageInvariant == Spec => []StorageInv
<1>1. Init => StorageInv
  BY InitTypes, InitOrderly, InitRoles, InitSeeds DEF StorageInv
<1>2. StorageInv /\ [Next]_vars => StorageInv'
  BY NextTypes, NextOrderly, NextRoles, NextSeeds DEF StorageInv
<1>. QED
  BY <1>1, <1>2, PTL DEF Spec

LEMMA ServableSeeds == ASSUME StorageInv PROVE SeedsServable
<1>. SUFFICES ASSUME up = "up", NEW a \in Seeds PROVE Whole(a)
  BY DEF SeedsServable
<1>1. Intact(metadata[a]) /\ a \notin raced /\ removed[a] # "begun" /\ a \in Assets
  BY SeedsAreAssets DEF StorageInv, SeedInv, SeedsThere, SeedsUntouched
<1>. QED
  BY <1>1 DEF StorageInv, Orderly, OrderlyAt

\* While the server answers requests every bundled file is in the storage,
\* whole (seed_bundled_portfolio_assets): no deletion, no failed import and no
\* restart takes one away, whatever the process was doing when it stopped.
THEOREM SeedsStayServable == Spec => []SeedsServable
  BY ServableSeeds, StorageInvariant, PTL

(***************************************************************************)
(* Readers.  An asset that no two processes have changed at once and that  *)
(* nobody has begun to remove keeps the description it has.                *)
(***************************************************************************)
Undisturbed(a) == a \notin raced /\ removed[a] = "never"

LEMMA UnremovedStep ==
    ASSUME TypeInv, Orderly, NEW r \in Processes, NEW a \in Assets, Step(r), Undisturbed(a)'
    PROVE  /\ Undisturbed(a)
           /\ Intact(metadata[a]) => metadata'[a] = metadata[a]
           /\ metadata[a] # Absent => metadata'[a] # Absent
<1>1. a \notin raced' /\ removed'[a] = "never"
  BY DEF Undisturbed
<1>2. CASE LookUp(r) \/ Compare(r) \/ Inspect(r) \/ Remove(r) \/ ReadStep(r) \/ Answer(r)
  <2>1. UNCHANGED <<files, history>>
    BY <1>2, LookUpEffect, CompareEffect, InspectEffect, RemoveEffect, ReadEffect, AnswerEffect
  <2>. QED
    BY <1>1, <2>1 DEF files, history, Undisturbed
<1>3. CASE Check(r) \/ Commit(r)
  <2>1. UNCHANGED <<files, removed>> /\ raced \subseteq raced'
    BY <1>3, CheckEffect, CommitEffect DEF BeginChange
  <2>. QED
    BY <1>1, <2>1 DEF files, Undisturbed
<1>4. CASE Opening(r) \/ FillMetadata(r)
  <2>1. pc[r] \in WriteLabels /\ UNCHANGED <<removed, raced>>
        /\ (pc[r] = "fillMetadata" => FillMetadata(r))
    BY <1>4, OpeningEffect, FillMetadataEffect DEF history
  <2>2. Undisturbed(a)
    BY <1>1, <2>1 DEF Undisturbed
  <2>3. CASE job[r].asset # a
    <3>1. job[r].asset \in Assets
      BY Facts
    <3>2. metadata'[a] = metadata[a]
      BY <1>4, <2>3, <3>1, OpeningFiles, FillMetadataFiles DEF SameFiles
    <3>. QED
      BY <2>2, <3>2
  <2>4. CASE job[r].asset = a
    <3>1. OrderlyAt(a)
      BY <2>1, <2>2, <2>4, Alone DEF Undisturbed
    <3>2. WriterView(r, a)
      BY <2>1, <2>4, <3>1 DEF OrderlyAt
    <3>3. ~Intact(metadata[a]) /\ (pc[r] # "fillMetadata" => metadata[a] = Absent)
      BY <3>2 DEF WriterView, Intact
    <3>4. pc[r] = "fillMetadata" => Intact(metadata'[a])
      BY <2>1, <2>2, <2>4, FillMetadataFiles DEF Undisturbed
    <3>. QED
      BY <2>2, <3>3, <3>4 DEF Intact
  <2>. QED
    BY <2>3, <2>4
<1>5. CASE Scan(r)
  <2>1. UNCHANGED files /\ raced \subseteq raced' /\ removed'[a] \in {removed[a], "begun"}
    BY <1>5, ScanEffect, Facts DEF BeginChange, history
  <2>. QED
    BY <1>1, <2>1 DEF files, Undisturbed
<1>6. CASE Unlink(r)
  <2>1. /\ pc[r] = "unlink" /\ UNCHANGED <<removed, raced>>
        /\ \A b \in Assets \ {job[r].asset} : metadata'[b] = metadata[b]
    BY <1>6, UnlinkEffect DEF history
  <2>2. Undisturbed(a)
    BY <1>1, <2>1 DEF Undisturbed
  <2>3. job[r].asset # a
    <3>1. ASSUME job[r].asset = a PROVE FALSE
      <4>1. OrderlyAt(a)
        BY <2>1, <2>2, <3>1, Alone DEF Undisturbed
      <4>. QED
        BY <2>1, <2>2, <3>1, <4>1 DEF OrderlyAt, Undisturbed
    <3>. QED
      BY <3>1
  <2>. QED
    BY <2>1, <2>2, <2>3
<1>7. CASE RemoveDir(r)
  <2>1. UNCHANGED <<metadata, raced>> /\ removed'[a] \in {removed[a], "completed"}
    BY <1>7, RemoveDirEffect, Facts
  <2>. QED
    BY <1>1, <2>1 DEF Undisturbed
<1>. QED
  BY <1>2, <1>3, <1>4, <1>5, <1>6, <1>7 DEF Step, WriteStep, RemoveStep, Opening

ReadingAt(r) ==
    Undisturbed(job[r].asset) =>
        /\ pc[r] = "chooseRead" => metadata[job[r].asset] # Absent
        /\ pc[r] = "describe" /\ job[r].op = "preview" => Intact(metadata[job[r].asset])
        /\ pc[r] \in {"resolve", "send"} =>
              Intact(job[r].seen) /\ metadata[job[r].asset] = job[r].seen
        /\ pc[r] = "done" /\ job[r].op \in {"fetch", "preview"} => job[r].got = job[r].seen.content
        /\ pc[r] = "failed" => job[r].op # "preview"

Reading == \A r \in Requests : ReadingAt(r)

\* A step of another process does not disturb a reader.
LEMMA OtherReads ==
    ASSUME TypeInv, Orderly, NEW r \in Processes, Step(r), Others(r),
           NEW q \in Requests \ {r}, ReadingAt(q)
    PROVE  ReadingAt(q)'
<1>1. q \in Processes /\ job'[q] = job[q] /\ pc'[q] = pc[q]
  BY StartupFacts DEF Others
<1>2. PICK a \in Assets : a = job[q].asset
  BY <1>1, Facts
<1>3. Undisturbed(a)' =>
         /\ Undisturbed(a)
         /\ Intact(metadata[a]) => metadata'[a] = metadata[a]
         /\ metadata[a] # Absent => metadata'[a] # Absent
  BY UnremovedStep
<1>. QED
  BY <1>1, <1>2, <1>3 DEF ReadingAt, Intact, Undisturbed

\* A process at no label of a reader.
LEMMA NoReads ==
    ASSUME NEW r, pc'[r] \notin {"chooseRead", "describe", "resolve", "send"},
           pc'[r] \in {"done", "failed"} => job'[r].op \notin {"fetch", "preview"}
    PROVE  ReadingAt(r)'
  BY DEF ReadingAt

LEMMA ReaderReads ==
    ASSUME StorageInv, NEW r \in Requests, ReadingAt(r), ReadStep(r)
    PROVE  ReadingAt(r)'
<1>1. TypeInv /\ Roles /\ Orderly /\ SeedInv /\ r \in Processes
  BY StartupFacts DEF StorageInv
<1>2. pc[r] \in ReadLabels /\ UNCHANGED files /\ UNCHANGED raced /\ UNCHANGED removed
  BY <1>1, ReadEffect DEF history
<1>3. /\ pc[r] \in {"choose", "chooseRead", "fallback"} => job[r].op = "preview"
      /\ \A a \in Seeds : Intact(metadata[a])
      /\ job[r].asset \in Assets
  BY <1>1, <1>2, RoleFacts, SeedFacts, Facts DEF RequestRole
<1>4. \A a : Undisturbed(a)' <=> Undisturbed(a)
  BY <1>2 DEF Undisturbed
<1>5. ASSUME Fails(r, "entry"), Undisturbed(job[r].asset) => job[r].op # "preview"
      PROVE  ReadingAt(r)'
  BY <1>4, <1>5 DEF ReadingAt, Fails, SameWork, Undisturbed
<1>6. CASE Choose(r)
  <2>1. Moves(r, IF metadata[job[r].asset] = Absent THEN "fallback" ELSE "chooseRead")
    BY <1>1, <1>6, ChooseEffect DEF Choose, At
  <2>. QED
    BY <1>2, <2>1 DEF ReadingAt, Moves, files
<1>7. CASE ChooseRead(r)
  <2>1. /\ pc[r] = "chooseRead"
        /\ \/ metadata[job[r].asset] = Absent /\ Fails(r, "entry")
           \/ /\ metadata[job[r].asset] # Absent
              /\ Moves(r, IF metadata[job[r].asset] = Torn THEN "fallback" ELSE "describe")
    BY <1>1, <1>7, ChooseEffect DEF ChooseRead, At
  <2>2. CASE metadata[job[r].asset] = Absent /\ Fails(r, "entry")
    BY <1>5, <2>1, <2>2 DEF ReadingAt
  <2>3. CASE /\ metadata[job[r].asset] # Absent
             /\ Moves(r, IF metadata[job[r].asset] = Torn THEN "fallback" ELSE "describe")
    BY <1>2, <2>3 DEF ReadingAt, Moves, files, Intact
  <2>. QED
    BY <2>1, <2>2, <2>3
<1>8. CASE Fallback(r)
  <2>1. Intact(metadata[Default])
    BY <1>3, SeedAssumption
  <2>2. pc'[r] = "describe" /\ job'[r].asset = Default
    BY <1>1, <1>8, <2>1, FallbackEffect
  <2>. QED
    BY <1>2, <2>1, <2>2 DEF ReadingAt, files, Intact
<1>9. CASE Describe(r)
  <2>1. /\ pc[r] = "describe"
        /\ \/ ~Intact(metadata[job[r].asset]) /\ Fails(r, "entry")
           \/ /\ Intact(metadata[job[r].asset]) /\ pc'[r] = "resolve"
              /\ job'[r].asset = job[r].asset /\ job'[r].seen = metadata[job[r].asset]
    BY <1>1, <1>9, DescribeEffect
  <2>2. CASE ~Intact(metadata[job[r].asset]) /\ Fails(r, "entry")
    BY <1>5, <2>1, <2>2 DEF ReadingAt
  <2>3. CASE /\ Intact(metadata[job[r].asset]) /\ pc'[r] = "resolve"
             /\ job'[r].asset = job[r].asset /\ job'[r].seen = metadata[job[r].asset]
    BY <1>2, <2>3 DEF ReadingAt, files, Intact
  <2>. QED
    BY <2>1, <2>2, <2>3
<1>10. CASE Resolve(r)
  <2>1. /\ pc[r] = "resolve"
        /\ \/ ~Intact(metadata[job[r].asset]) /\ Fails(r, "entry")
           \/ Moves(r, "send")
    BY <1>1, <1>10, ChooseEffect DEF Resolve, At
  <2>2. CASE ~Intact(metadata[job[r].asset]) /\ Fails(r, "entry")
    BY <1>5, <2>1, <2>2 DEF ReadingAt
  <2>3. CASE Moves(r, "send")
    BY <1>2, <1>4, <2>1, <2>3 DEF ReadingAt, Moves, files, Intact, Undisturbed
  <2>. QED
    BY <2>1, <2>2, <2>3
<1>11. CASE Send(r)
  <2>. DEFINE a == job[r].asset
  <2>1. /\ pc[r] = "send"
        /\ \/ payload[a] = Absent /\ Fails(r, "entry")
           \/ /\ pc'[r] = "done" /\ job'[r].asset = a
              /\ job'[r].seen = job[r].seen /\ job'[r].got = payload[a]
    BY <1>1, <1>11, SendEffect
  <2>2. ASSUME Undisturbed(a)
        PROVE  payload[a] = job[r].seen.content /\ payload[a] # Absent
    <3>1. Intact(metadata[a]) /\ metadata[a] = job[r].seen
      BY <2>1, <2>2 DEF ReadingAt
    <3>2. Whole(a)
      BY <1>1, <1>3, <2>2, <3>1 DEF Orderly, OrderlyAt, Undisturbed
    <3>3. metadata[a] \in Description
      BY <1>1, <1>3, <3>1, Facts DEF Intact
    <3>4. metadata[a].content \in Contents
      BY <3>3 DEF Description
    <3>. QED
      BY <3>1, <3>2, <3>4, StorageAssumption DEF Whole
  <2>3. CASE payload[a] = Absent /\ Fails(r, "entry")
    BY <1>5, <2>2, <2>3
  <2>4. CASE /\ pc'[r] = "done" /\ job'[r].asset = a
             /\ job'[r].seen = job[r].seen /\ job'[r].got = payload[a]
    <3>1. a \notin raced' /\ removed'[a] = "never" => job'[r].got = job'[r].seen.content
      BY <1>2, <2>2, <2>4 DEF Undisturbed
    <3>. HIDE DEF a
    <3>. QED
      BY <2>4, <3>1 DEF ReadingAt, Undisturbed
  <2>. QED
    BY <2>1, <2>3, <2>4
<1>. QED
  BY <1>6, <1>7, <1>8, <1>9, <1>10, <1>11 DEF ReadStep

LEMMA NextReading ==
    ASSUME StorageInv, Reading, [Next]_vars
    PROVE  Reading'
<1>0. TypeInv /\ Orderly /\ Roles /\ SeedInv
  BY DEF StorageInv
<1>1. CASE UNCHANGED vars
  BY <1>1 DEF vars, files, history, Reading, ReadingAt, Undisturbed, Intact
<1>2. ASSUME NEW r \in Requests, Arrive(r) PROVE Reading'
  <2>1. Others(r) /\ UNCHANGED <<files, history>>
    BY <1>0, <1>2, ArriveEffect
  <2>2. \/ pc'[r] \notin {"chooseRead", "describe", "resolve", "send", "done", "failed"}
        \/ pc'[r] = "describe" /\ job'[r].op = "fetch"
    BY <1>0, <1>2, ArriveEffect
  <2>3. ReadingAt(r)'
    BY <2>2 DEF ReadingAt
  <2>4. \A q \in Requests \ {r} : ReadingAt(q)'
    BY <2>1, StartupFacts
       DEF Reading, ReadingAt, Others, files, history, Undisturbed, Intact
  <2>. QED
    BY <2>3, <2>4 DEF Reading
<1>3. ASSUME NEW r \in Processes, Step(r) PROVE Reading'
  <2>1. Others(r)
    <3>1. CASE WriteStep(r)
      BY <1>0, <3>1, LookUpEffect, CheckEffect, CompareEffect, OpeningEffect, FillMetadataEffect
         DEF WriteStep, Opening
    <3>2. CASE RemoveStep(r)
      BY <1>0, <3>2, CommitEffect, InspectEffect, RemoveEffect, ScanEffect, UnlinkEffect,
         RemoveDirEffect DEF RemoveStep
    <3>3. CASE ReadStep(r) \/ Answer(r)
      BY <1>0, <3>3, ReadEffect, AnswerEffect
    <3>. QED
      BY <1>3, <3>1, <3>2, <3>3 DEF Step
  <2>2. \A q \in Requests \ {r} : ReadingAt(q)'
    BY <1>0, <1>3, <2>1, OtherReads DEF Reading
  <2>3. r \in Requests => ReadingAt(r)'
    <3>. SUFFICES ASSUME r \in Requests PROVE ReadingAt(r)'
      OBVIOUS
    <3>1. RequestRole(r) /\ ReadingAt(r)
      BY <1>0, RoleFacts DEF Reading
    <3>2. CASE ReadStep(r)
      BY <3>1, <3>2, ReaderReads
    <3>3. CASE Answer(r)
      BY <1>0, <3>3, AnswerEffect, NoReads
    <3>4. CASE WriteStep(r)
      <4>1. pc[r] \in EntryLabels /\ job'[r].op = job[r].op
            /\ pc'[r] \notin {"chooseRead", "describe", "resolve", "send"}
        BY <1>0, <3>4, LookUpEffect, CheckEffect, CompareEffect, OpeningEffect,
           FillMetadataEffect, AfterEntryLabels
           DEF WriteStep, Opening, Fails, SameWork, Moves, EntryDone
      <4>. QED
        BY <3>1, <4>1, NoReads DEF RequestRole, EntryOps
    <3>5. CASE RemoveStep(r)
      <4>1. pc[r] \in {"commit", "inspect", "remove", "scan"} \cup RemoveLabels
            /\ job'[r].op = job[r].op
            /\ pc'[r] \notin {"chooseRead", "describe", "resolve", "send"}
        <5>1. CASE Commit(r)
          BY <1>0, <5>1, CommitEffect DEF SameWork
        <5>2. CASE Remove(r)
          BY <1>0, <5>2, RemoveEffect DEF Halts, SameWork
        <5>3. CASE Inspect(r) \/ Scan(r) \/ Unlink(r) \/ RemoveDir(r)
          BY <1>0, <5>3, InspectEffect, ScanEffect, UnlinkEffect, RemoveDirEffect DEF Fails, SameWork
        <5>. QED
          BY <3>5, <5>1, <5>2, <5>3 DEF RemoveStep
      <4>. QED
        BY <3>1, <4>1, NoReads DEF RequestRole, EntryOps
    <3>. QED
      BY <1>3, <3>2, <3>3, <3>4, <3>5 DEF Step
  <2>. QED
    BY <2>2, <2>3 DEF Reading
<1>4. CASE Start \/ Started
  <2>1. Others(Startup) /\ UNCHANGED <<files, history>>
    BY <1>0, <1>4, StartEffect, StartedEffect
  <2>. QED
    BY <2>1, StartupFacts DEF Reading, ReadingAt, Others, files, history, Undisturbed, Intact
<1>5. CASE Crash
  <2>1. \A q \in Requests : pc'[q] = "idle"
    BY <1>5, StartupFacts DEF Crash
  <2>. QED
    BY <2>1 DEF Reading, ReadingAt
<1>. QED
  BY <1>1, <1>2, <1>3, <1>4, <1>5 DEF Next

LEMMA InitReading == Init => Reading
<1>. SUFFICES ASSUME Init PROVE Reading
  OBVIOUS
<1>1. \A q \in Requests : pc[q] = "idle"
  BY StartupFacts DEF Init
<1>. QED
  BY <1>1 DEF Reading, ReadingAt

LEMMA ReadingHolds == Spec => []Reading
<1>1. Init => Reading
  BY InitReading
<1>2. StorageInv /\ Reading /\ [Next]_vars => Reading'
  BY NextReading
<1>. QED
  BY <1>1, <1>2, StorageInvariant, PTL DEF Spec

\* A reader that was given a description (get_asset) gets the payload it
\* describes, or nothing (resolve_asset_path, read_asset_bytes), unless the
\* asset is removed or written twice at once while it reads.
THEOREM FetchedStaysWhole == Spec => []FetchedWhole
<1>1. Reading => FetchedWhole
  BY DEF Reading, ReadingAt, Undisturbed, FetchedWhole
<1>. QED
  BY <1>1, ReadingHolds, PTL

\* The public preview is answered (_available_asset_id): whatever has become
\* of the configured file it falls back to the bundled default, which is
\* always there, unless the chosen file is removed under its hands.
THEOREM PreviewIsAnswered == Spec => []PreviewAnswered
<1>1. TypeOK /\ Reading => PreviewAnswered
  BY StartupFacts DEF Reading, ReadingAt, Undisturbed, PreviewAnswered
<1>. QED
  BY <1>1, ReadingHolds, StorageTypes, PTL

(***************************************************************************)
(* Files of committed requests and of requests that are rolled back, while *)
(* imports do not overlap: then nobody else writes, or takes back, a file  *)
(* that a request writes.                                                  *)
(***************************************************************************)
Apart ==
    \A q, r \in Requests :
        q # r /\ job[q].op \in EntryOps /\ job[r].op \in EntryOps => Mine(q) \cap Mine(r) = {}

\* The asset is whole and nobody is removing it.
Safe(a) == Whole(a) /\ \A q \in Processes : pc[q] \in RemoveLabels => job[q].asset # a

Gone(a) == metadata[a] = Absent /\ payload[a] = Absent

\* What a commit has stored that was answered.
Held == kept \ unacked

\* Only an administrator's deletion comes to a file while another process
\* changes it.
KeptSafe ==
    /\ kept \cap deleted = {} /\ raced \subseteq deleted
    /\ \A a \in Held : Safe(a)

\* A file is in a directory.
Housed == \A a \in Assets \ dirs : Gone(a)

\* Before its commit a request has what it wrote, and may take back just that.
HasWritten(r) ==
    pc[r] \in EntryLabels \cup {"commit"} /\ job[r].op \in EntryOps =>
        /\ \A a \in job[r].created \ deleted : a \in job[r].restored
        /\ \A a \in job[r].restored \ deleted : Safe(a)

\* What it may take back is in no committed version that it has been told of.
TakesOwn(r) ==
    job[r].op \in EntryOps =>
        /\ pc[r] # "done" => job[r].restored \cap Held = {}
        /\ pc[r] \in EntryLabels \ {"lookup"} /\ job[r].fresh => job[r].asset \notin Held

\* A file that it has found and that is missing when it gets to it has been
\* deleted by an administrator; one that it has missed nobody else writes.
FoundStays(r) ==
    /\ pc[r] \in EntryLabels \ {"lookup"} /\ ~job[r].fresh =>
          \/ pc[r] \in {"check", "compare"} /\ metadata[job[r].asset] # Absent
          \/ job[r].asset \in deleted
    /\ pc[r] \in {"check", "compare"} /\ job[r].op \in EntryOps /\ job[r].fresh =>
          pc[r] = "check" /\ metadata[job[r].asset] = Absent

DeletionMarked(r) ==
    pc[r] \in RemoveLabels /\ job[r].op = "delete" => job[r].asset \in deleted

\* What is left of the asset that r is removing, nobody else touching it.
Clearing(r) ==
    /\ job[r].asset \in dirs
    /\ Present(job[r].asset) \subseteq (IF pc[r] = "unlink" THEN job[r].todo ELSE {})

\* While it takes its files back, each is still to be taken back or gone.
Undoing(r) ==
    pc[r] \in {"remove", "scan"} \cup RemoveLabels /\ job[r].op \in EntryOps =>
        /\ \A a \in job[r].created \ deleted : a \in job[r].restored \/ Gone(a)
        /\ \A a \in job[r].restored \ deleted :
              Safe(a) \/ (pc[r] \in RemoveLabels /\ a = job[r].asset)
        /\ pc[r] \in RemoveLabels /\ job[r].asset \notin deleted => Clearing(r)

Undone(r) ==
    pc[r] = "failed" /\ job[r].op \in EntryOps /\ job[r].cause \in {"commit", "undo"} =>
        \/ \A a \in job[r].created \ deleted : Gone(a)
        \/ job[r].cause = "undo" /\ job[r].asset \in deleted

Own(r) ==
    /\ HasWritten(r) /\ TakesOwn(r) /\ FoundStays(r) /\ DeletionMarked(r)
    /\ Undoing(r) /\ Undone(r)

KeptInv == Apart /\ KeptSafe /\ Housed /\ \A r \in Requests : Own(r)

\* Which steps there are, by what they do to a process.
LEMMA StepCases ==
    ASSUME TypeInv, Roles, NEW r \in Processes, Step(r)
    PROVE  /\ Others(r) /\ up' = up
           /\ deleted \subseteq deleted' /\ raced \subseteq raced'
           /\ \/ Held' \subseteq Held
              \/ pc[r] = "commit" /\ Held' = Held \cup (job[r].created \ deleted) /\ deleted' = deleted
<1>1. CASE LookUp(r) \/ Compare(r) \/ Opening(r) \/ FillMetadata(r) \/ Inspect(r) \/ Remove(r)
           \/ Unlink(r) \/ ReadStep(r) \/ Answer(r)
  <2>1. Others(r) /\ UNCHANGED <<up, history>>
    BY <1>1, LookUpEffect, CompareEffect, OpeningEffect, FillMetadataEffect, InspectEffect,
       RemoveEffect, UnlinkEffect, ReadEffect, AnswerEffect
  <2>. QED
    BY <2>1 DEF history, Held
<1>2. CASE Check(r)
  BY <1>2, CheckEffect DEF BeginChange, Held
<1>3. CASE Commit(r)
  BY <1>3, CommitEffect DEF Store, Held
<1>4. CASE Scan(r)
  BY <1>4, ScanEffect DEF BeginChange, history, Held
<1>5. CASE RemoveDir(r)
  BY <1>5, RemoveDirEffect DEF Held
<1>. QED
  BY <1>1, <1>2, <1>3, <1>4, <1>5 DEF Step, WriteStep, RemoveStep, Opening

\* No step but the beginning of its removal endangers a safe asset.
LEMMA SafeStep ==
    ASSUME TypeInv, Orderly, Roles, NEW r \in Processes, Step(r), NEW a \in Assets,
           a \notin raced', Safe(a),
           ~(pc[r] = "scan" /\ pc'[r] = "unlink" /\ job[r].asset = a)
    PROVE  Safe(a)'
<1>0. a \notin raced /\ Others(r) /\ Intact(metadata[a])
  BY StepCases DEF Safe, Whole
<1>1. ASSUME UNCHANGED files \/ SameFiles(a),
             pc'[r] \in RemoveLabels =>
                pc[r] \in {"scan"} \cup RemoveLabels /\ job'[r].asset = job[r].asset
                /\ (pc[r] = "scan" => pc'[r] = "unlink")
      PROVE  Safe(a)'
  <2>1. Whole(a)'
    BY <1>1 DEF Safe, Whole, SameFiles, files, Intact
  <2>2. \A q \in Processes : pc'[q] \in RemoveLabels => job'[q].asset # a
    BY <1>0, <1>1 DEF Safe, Others
  <2>. QED
    BY <2>1, <2>2 DEF Safe
<1>2. CASE LookUp(r) \/ Check(r) \/ Compare(r) \/ Inspect(r) \/ Remove(r) \/ Commit(r)
           \/ ReadStep(r) \/ Answer(r)
  <2>1. UNCHANGED files /\ pc'[r] \notin RemoveLabels
    <3>1. CASE Commit(r)
      BY <3>1, CommitEffect
    <3>2. CASE Remove(r)
      BY <3>2, RemoveEffect DEF Halts
    <3>3. CASE LookUp(r) \/ Check(r) \/ Compare(r) \/ Inspect(r) \/ ReadStep(r) \/ Answer(r)
      BY <3>3, LookUpEffect, CheckEffect, CompareEffect, InspectEffect, ReadEffect, AnswerEffect,
         AfterEntryLabels DEF Fails, EntryDone, Moves
    <3>. QED
      BY <1>2, <3>1, <3>2, <3>3
  <2>. QED
    BY <1>1, <2>1
<1>3. CASE Opening(r) \/ FillMetadata(r)
  <2>1. pc[r] \in WriteLabels /\ pc'[r] \notin RemoveLabels
    BY <1>3, OpeningEffect, FillMetadataEffect, AfterEntryLabels DEF Fails, EntryDone, Moves
  <2>2. job[r].asset # a
    <3>1. ASSUME job[r].asset = a PROVE FALSE
      <4>1. OrderlyAt(a)
        BY <1>0, <2>1, <3>1, Alone
      <4>2. WriterView(r, a)
        BY <2>1, <3>1, <4>1 DEF OrderlyAt
      <4>. QED
        BY <1>0, <4>2 DEF WriterView, Intact
    <3>. QED
      BY <3>1
  <2>3. SameFiles(a)
    BY <1>3, <2>2, Facts, OpeningFiles, FillMetadataFiles
  <2>. QED
    BY <1>1, <2>1, <2>3
<1>4. CASE Scan(r)
  <2>1. UNCHANGED files /\ pc[r] = "scan" /\ (pc'[r] \in RemoveLabels => job'[r].asset = job[r].asset)
        /\ pc'[r] \in {"unlink", "failed"}
    BY <1>4, ScanEffect DEF Fails, SameWork
  <2>. QED
    BY <1>1, <2>1
<1>5. CASE Unlink(r)
  <2>1. /\ pc[r] = "unlink" /\ SameWork(r) /\ UNCHANGED <<dirs, history>>
        /\ \A b \in Assets \ {job[r].asset} : payload'[b] = payload[b] /\ metadata'[b] = metadata[b]
    BY <1>5, UnlinkEffect
  <2>2. job[r].asset # a
    BY <2>1 DEF Safe
  <2>3. SameFiles(a)
    BY <2>1, <2>2 DEF SameFiles, history
  <2>. QED
    BY <1>1, <2>1, <2>3 DEF SameWork
<1>6. CASE RemoveDir(r)
  <2>1. /\ pc[r] = "removeDir" /\ pc'[r] \notin RemoveLabels
        /\ UNCHANGED <<payload, metadata>>
        /\ \/ UNCHANGED <<dirs, removed>>
           \/ /\ dirs' = dirs \ {job[r].asset}
              /\ removed' = [removed EXCEPT ![job[r].asset] = "completed"]
    BY <1>6, RemoveDirEffect DEF Fails
  <2>2. job[r].asset # a
    BY <2>1 DEF Safe
  <2>3. SameFiles(a)
    BY <2>1, <2>2, Facts DEF SameFiles
  <2>. QED
    BY <1>1, <2>1, <2>3
<1>. QED
  BY <1>2, <1>3, <1>4, <1>5, <1>6 DEF Step, WriteStep, RemoveStep, Opening

\* What is gone stays so unless somebody writes it.
LEMMA GoneStep ==
    ASSUME TypeInv, Orderly, Roles, NEW r \in Processes, Step(r), NEW a \in Assets, Gone(a),
           ~(pc[r] \in WriteLabels /\ job[r].asset = a)
    PROVE  Gone(a)'
<1>1. CASE LookUp(r) \/ Check(r) \/ Compare(r) \/ Inspect(r) \/ Remove(r) \/ Commit(r)
           \/ ReadStep(r) \/ Answer(r) \/ Scan(r)
  <2>1. UNCHANGED files
    BY <1>1, LookUpEffect, CheckEffect, CompareEffect, InspectEffect, RemoveEffect, CommitEffect,
       ReadEffect, AnswerEffect, ScanEffect
  <2>. QED
    BY <2>1 DEF Gone, files
<1>2. CASE Opening(r) \/ FillMetadata(r)
  <2>1. job[r].asset # a
    BY <1>2, OpeningEffect, FillMetadataEffect
  <2>2. SameFiles(a)
    BY <1>2, <2>1, Facts, OpeningFiles, FillMetadataFiles
  <2>. QED
    BY <2>2 DEF Gone, SameFiles
<1>3. CASE Unlink(r)
  <2>1. payload'[a] \in {payload[a], Absent} /\ metadata'[a] \in {metadata[a], Absent}
    BY <1>3, UnlinkEffect
  <2>. QED
    BY <2>1 DEF Gone
<1>4. CASE RemoveDir(r)
  BY <1>4, RemoveDirEffect DEF Gone
<1>. QED
  BY <1>1, <1>2, <1>3, <1>4 DEF Step, WriteStep, RemoveStep, Opening

\* Only an unlink makes a description disappear.
LEMMA VanishStep ==
    ASSUME TypeInv, NEW r \in Processes, Step(r), NEW a \in Assets,
           metadata[a] # Absent, metadata'[a] = Absent
    PROVE  pc[r] = "unlink" /\ job[r].asset = a
<1>1. CASE LookUp(r) \/ Check(r) \/ Compare(r) \/ Inspect(r) \/ Remove(r) \/ Commit(r)
           \/ ReadStep(r) \/ Answer(r) \/ Scan(r) \/ RemoveDir(r)
  <2>1. UNCHANGED metadata
    BY <1>1, LookUpEffect, CheckEffect, CompareEffect, InspectEffect, RemoveEffect, CommitEffect,
       ReadEffect, AnswerEffect, ScanEffect, RemoveDirEffect DEF files
  <2>. QED
    BY <2>1
<1>2. CASE Opening(r)
  <2>1. metadata'[a] \in {metadata[a], Torn}
    BY <1>2, OpeningFiles DEF SameFiles
  <2>. QED
    BY <2>1, Sentinels
<1>3. CASE FillMetadata(r)
  <2>1. PICK b \in Assets : b = job[r].asset
    BY Facts
  <2>2. PICK file \in Filled(metadata[b], Describing(Current(r))) :
            metadata' = [metadata EXCEPT ![b] = file]
    BY <1>3, <2>1 DEF FillMetadata
  <2>3. Describing(Current(r)) \in Description
    BY <1>3, FillMetadataEffect, QueueFacts, EntryType
  <2>4. metadata[b] # Absent => file # Absent
    BY <2>2, <2>3, StorageAssumption DEF Filled
  <2>5. a # b => metadata'[a] = metadata[a]
    BY <2>2, Facts
  <2>6. metadata'[b] = file
    BY <2>1, <2>2, Facts
  <2>. QED
    BY <2>4, <2>5, <2>6
<1>4. CASE Unlink(r)
  BY <1>4, UnlinkEffect
<1>. QED
  BY <1>1, <1>2, <1>3, <1>4 DEF Step, WriteStep, RemoveStep, Opening

\* Files change only under the hands of a process that changes them.
LEMMA ElsewhereStep ==
    ASSUME TypeInv, NEW r \in Processes, Step(r), NEW a \in Assets,
           ~(pc[r] \in ChangeLabels /\ job[r].asset = a)
    PROVE  payload'[a] = payload[a] /\ metadata'[a] = metadata[a] /\ (a \in dirs' <=> a \in dirs)
<1>1. CASE LookUp(r) \/ Check(r) \/ Compare(r) \/ Inspect(r) \/ Remove(r) \/ Commit(r)
           \/ ReadStep(r) \/ Answer(r) \/ Scan(r)
  <2>1. UNCHANGED files
    BY <1>1, LookUpEffect, CheckEffect, CompareEffect, InspectEffect, RemoveEffect, CommitEffect,
       ReadEffect, AnswerEffect, ScanEffect
  <2>. QED
    BY <2>1 DEF files
<1>2. CASE Opening(r)
  <2>1. job[r].asset # a
    BY <1>2, OpeningEffect
  <2>. QED
    BY <1>2, <2>1, OpeningFiles DEF SameFiles
<1>3. CASE FillMetadata(r)
  <2>1. job[r].asset # a /\ UNCHANGED <<payload, dirs>>
    BY <1>3, FillMetadataEffect
  <2>2. metadata'[a] = metadata[a]
    BY <1>3, <2>1, Facts DEF FillMetadata
  <2>. QED
    BY <2>1, <2>2
<1>4. CASE Unlink(r)
  BY <1>4, UnlinkEffect
<1>5. CASE RemoveDir(r)
  <2>1. job[r].asset # a /\ UNCHANGED <<payload, metadata>>
        /\ (dirs' = dirs \/ dirs' = dirs \ {job[r].asset})
    BY <1>5, RemoveDirEffect
  <2>. QED
    BY <2>1
<1>. QED
  BY <1>1, <1>2, <1>3, <1>4, <1>5 DEF Step, WriteStep, RemoveStep, Opening

\* A file stays in its directory: it is opened in one, and rmtree removes
\* the directory when it is empty.
LEMMA HousedStep ==
    ASSUME TypeInv, Housed, NEW r \in Processes, Step(r)
    PROVE  Housed'
<1>. SUFFICES ASSUME NEW a \in Assets, a \notin dirs' PROVE Gone(a)'
  BY DEF Housed
<1>1. CASE ~(pc[r] \in ChangeLabels /\ job[r].asset = a)
  BY <1>1, ElsewhereStep DEF Housed, Gone
<1>2. CASE pc[r] \in ChangeLabels /\ job[r].asset = a
  <2>1. CASE Opening(r) \/ FillMetadata(r)
    <3>1. a \notin dirs /\ Gone(a)
      BY <1>2, <2>1 DEF Housed, Opening, MakeDir, OpenPayload, FillPayload, OpenMetadata, FillMetadata,
         Fail, files
    <3>2. UNCHANGED <<payload, metadata>> \/ FillPayload(r) \/ FillMetadata(r)
      BY <1>2, <2>1, <3>1 DEF Opening, MakeDir, OpenPayload, OpenMetadata, Fail, files
    <3>3. CASE FillPayload(r)
      <4>1. PICK file \in Filled(payload[a], Current(r).content) :
               payload' = [payload EXCEPT ![a] = file] /\ metadata' = metadata
        BY <1>2, <3>3 DEF FillPayload
      <4>. QED
        BY <3>1, <4>1, Facts DEF Filled, Gone
    <3>4. CASE FillMetadata(r)
      <4>1. PICK file \in Filled(metadata[a], Describing(Current(r))) :
               metadata' = [metadata EXCEPT ![a] = file] /\ payload' = payload
        BY <1>2, <3>4 DEF FillMetadata
      <4>. QED
        BY <3>1, <4>1, Facts DEF Filled, Gone
    <3>. QED
      BY <3>1, <3>2, <3>3, <3>4 DEF Gone
  <2>2. CASE Unlink(r)
    <3>1. UNCHANGED dirs /\ payload'[a] \in {payload[a], Absent} /\ metadata'[a] \in {metadata[a], Absent}
      BY <1>2, <2>2, UnlinkEffect
    <3>. QED
      BY <3>1 DEF Housed, Gone
  <2>3. CASE RemoveDir(r)
    <3>1. UNCHANGED <<payload, metadata>> /\ (dirs' = dirs \/ Present(a) = {})
      BY <1>2, <2>3, RemoveDirEffect
    <3>. QED
      BY <3>1 DEF Housed, Gone, Present
  <2>. QED
    BY <1>2, <2>1, <2>2, <2>3 DEF Step, WriteStep, RemoveStep, ReadStep, Answer, LookUp, Check, Compare,
       Opening, Commit, Inspect, Remove, Scan, Choose, ChooseRead, Fallback, Describe, Resolve, Send, At
<1>. QED
  BY <1>1, <1>2

\* What is safe, and what a process has to itself, is not disturbed by a
\* step of another that touches no file.
LEMMA QuietKept ==
    ASSUME TypeInv, NEW p \in Processes, Others(p), UNCHANGED <<files, history>>,
           pc'[p] \notin RemoveLabels
    PROVE  /\ \A a \in Assets : Safe(a) => Safe(a)'
           /\ KeptSafe => KeptSafe'
           /\ Housed => Housed'
           /\ \A q \in Requests \ {p} : Own(q) => Own(q)'
<1>1. \A a \in Assets : Safe(a) => Safe(a)'
  BY DEF Safe, Whole, Intact, Others, files
<1>2. KeptSafe => KeptSafe'
  BY <1>1 DEF KeptSafe, Held, history, TypeInv, TypeOK
<1>3. Housed => Housed'
  BY DEF Housed, Gone, files
<1>4. ASSUME NEW q \in Requests \ {p}, Own(q) PROVE Own(q)'
  <2>1. /\ q \in Processes /\ pc'[q] = pc[q] /\ job'[q] = job[q]
        /\ job[q].created \subseteq Assets /\ job[q].restored \subseteq Assets
    BY StartupFacts, Facts DEF Others, Job
  <2>2. UNCHANGED <<dirs, metadata, payload, deleted>> /\ Held' = Held
    BY DEF files, history, Held
  <2>3. HasWritten(q)'
    BY <1>1, <1>4, <2>1, <2>2 DEF Own, HasWritten
  <2>4. TakesOwn(q)' /\ FoundStays(q)' /\ DeletionMarked(q)' /\ Undone(q)'
    BY <1>4, <2>1, <2>2 DEF Own, TakesOwn, FoundStays, DeletionMarked, Undone, Gone
  <2>5. Clearing(q) => Clearing(q)'
    BY <2>1, <2>2 DEF Clearing, Present
  <2>6. Undoing(q)'
    BY <1>1, <1>4, <2>1, <2>2, <2>5 DEF Own, Undoing, Gone
  <2>. QED
    BY <2>3, <2>4, <2>6 DEF Own
<1>. QED
  BY <1>1, <1>2, <1>3, <1>4

\* Only an administrator's deletion touches an asset of another's request.
LEMMA Foreign ==
    ASSUME TypeInv, Roles, Apart, NEW q \in Requests, NEW r \in Processes \ {q},
           job[q].op \in EntryOps, job[r].asset \in Mine(q),
           pc[r] \in (EntryLabels \ {"lookup"}) \cup {"scan"} \cup RemoveLabels
    PROVE  r \in Requests /\ pc[r] \in {"scan"} \cup RemoveLabels /\ job[r].op = "delete"
<1>1. r \in Requests
  <2>1. ASSUME r = Startup PROVE FALSE
    <3>1. pc[q] = "idle"
      BY <2>1, StartupFactsAtWork, StartupFacts
    <3>. QED
      BY <3>1, RoleFacts DEF NoJob, EntryOps
  <2>. QED
    BY <2>1 DEF Processes
<1>2. RequestRole(r)
  BY <1>1, RoleFacts
<1>3. job[r].asset \in Mine(r)
  BY <1>2, QueueFacts DEF RequestRole, Mine
<1>4. job[r].op \notin EntryOps
  BY <1>1, <1>3 DEF Apart
<1>. QED
  BY <1>1, <1>2, <1>4 DEF RequestRole

\* The step that begins a removal.
LEMMA ScanStep ==
    ASSUME TypeInv, NEW r \in Processes, Step(r), pc[r] = "scan", pc'[r] = "unlink"
    PROVE  /\ kept' = kept \ deleted'
           /\ job[r].op = "delete" => job[r].asset \in deleted'
<1>1. Scan(r)
  BY DEF Step, WriteStep, RemoveStep, ReadStep, Answer, LookUp, Check, Compare, MakeDir, OpenPayload,
     FillPayload, OpenMetadata, FillMetadata, Commit, Inspect, Remove, Unlink, RemoveDir, Choose,
     ChooseRead, Fallback, Describe, Resolve, Send, At
<1>. QED
  BY <1>1, ScanEffect DEF Fails

\* A description that is missing stays so unless somebody writes it.
LEMMA MissingStep ==
    ASSUME TypeInv, NEW r \in Processes, Step(r), NEW a \in Assets, metadata[a] = Absent,
           ~(pc[r] \in WriteLabels /\ job[r].asset = a)
    PROVE  metadata'[a] = Absent
<1>1. CASE ~(pc[r] \in ChangeLabels /\ job[r].asset = a)
  BY <1>1, ElsewhereStep
<1>2. CASE pc[r] \in RemoveLabels /\ job[r].asset = a
  <2>1. Unlink(r) \/ RemoveDir(r)
    BY <1>2 DEF Step, WriteStep, RemoveStep, ReadStep, Answer, LookUp, Check, Compare, MakeDir,
       OpenPayload, FillPayload, OpenMetadata, FillMetadata, Commit, Inspect, Remove, Scan, Choose,
       ChooseRead, Fallback, Describe, Resolve, Send, At
  <2>. QED
    BY <1>2, <2>1, UnlinkEffect, RemoveDirEffect
<1>. QED
  BY <1>1, <1>2

\* When a process comes to a file that another is changing, an administrator
\* has deleted the file: writers and rollbacks have files of their own.
LEMMA RacedStep ==
    ASSUME TypeInv, Roles, KeptInv, NEW r \in Processes, Step(r)
    PROVE  raced' \subseteq deleted'
<1>1. raced \subseteq deleted /\ deleted \subseteq deleted'
  BY StepCases DEF KeptInv, KeptSafe
<1>2. CASE raced' \subseteq raced
  BY <1>1, <1>2
<1>3. CASE ~(raced' \subseteq raced)
  <2>1. Check(r) \/ Scan(r)
    BY <1>3, LookUpEffect, CompareEffect, OpeningEffect, FillMetadataEffect, CommitEffect, InspectEffect,
       RemoveEffect, UnlinkEffect, RemoveDirEffect, ReadEffect, AnswerEffect
       DEF Step, WriteStep, RemoveStep, Opening, history
  <2>2. /\ pc[r] \in {"check", "scan"} /\ BeginChange(r, job[r].asset)
        /\ job[r].op = "delete" /\ pc[r] = "scan" => job[r].asset \in deleted'
    BY <1>3, <2>1, CheckEffect, ScanEffect DEF history
  <2>3. PICK q \in Processes \ {r} : Changes(q, job[r].asset)
    BY <1>3, <2>2 DEF BeginChange
  <2>4. raced' = raced \cup {job[r].asset}
    BY <2>2, <2>3 DEF BeginChange
  <2>5. pc[q] \in ChangeLabels /\ job[q].asset = job[r].asset
    BY <2>3 DEF Changes
  <2>6. r \in Requests
    <3>1. ASSUME r = Startup PROVE FALSE
      BY <2>2, <2>5, <3>1, StartupFactsAtWork
    <3>. QED
      BY <3>1 DEF Processes
  <2>7. RequestRole(r)
    BY <2>6, RoleFacts
  <2>8. CASE job[r].op = "delete"
    <3>1. pc[r] = "scan"
      BY <2>2, <2>7, <2>8 DEF RequestRole, EntryOps
    <3>. QED
      BY <1>1, <2>2, <2>4, <2>8, <3>1
  <2>9. CASE job[r].op \in EntryOps
    <3>1. job[r].asset \in Mine(r)
      BY <2>2, <2>7, QueueFacts DEF RequestRole, Mine
    <3>2. q \in Requests /\ job[q].op = "delete" /\ pc[q] \in RemoveLabels
      BY <2>5, <2>6, <2>9, <3>1, Foreign DEF KeptInv
    <3>3. DeletionMarked(q)
      BY <3>2 DEF KeptInv, Own
    <3>. QED
      BY <1>1, <2>4, <2>5, <3>2, <3>3 DEF DeletionMarked
  <2>. QED
    BY <2>2, <2>7, <2>8, <2>9 DEF RequestRole
<1>. QED
  BY <1>2, <1>3

\* The step of another process keeps what holds of a request.
LEMMA OtherOwn ==
    ASSUME TypeInv, Orderly, Roles, KeptInv, NEW r \in Processes, Step(r), NEW q \in Requests \ {r}
    PROVE  Own(q)'
<1>1. /\ q \in Processes /\ pc'[q] = pc[q] /\ job'[q] = job[q] /\ Own(q) /\ Apart
      /\ RequestRole(q) /\ job[q].created \subseteq Assets /\ job[q].asset \in Assets
      /\ job[q].restored \subseteq Assets
  BY StepCases, RoleFacts, Facts DEF Others, KeptInv, Job
<1>2. deleted \subseteq deleted' /\ raced' \subseteq deleted'
  BY StepCases, RacedStep
<1>3. job[q].created \cup job[q].restored \subseteq Mine(q)
  BY DEF Mine
<1>4. ASSUME job[q].op \in EntryOps, NEW a \in job[q].restored \ deleted', Safe(a)
      PROVE  Safe(a)'
  <2>1. ASSUME pc[r] = "scan", pc'[r] = "unlink", job[r].asset = a PROVE FALSE
    <3>1. job[r].op = "delete"
      BY <1>1, <1>3, <1>4, <2>1, Foreign
    <3>. QED
      BY <1>4, <2>1, <3>1, ScanStep
  <2>. QED
    BY <1>1, <1>2, <1>4, <2>1, SafeStep
<1>5. HasWritten(q)'
  BY <1>1, <1>2, <1>4 DEF Own, HasWritten
<1>6. TakesOwn(q)'
  <2>1. ASSUME job[q].op \in EntryOps, NEW a \in Mine(q), a \notin Held
        PROVE  a \notin Held'
    <3>1. CASE Held' \subseteq Held
      BY <2>1, <3>1
    <3>2. CASE pc[r] = "commit" /\ Held' = Held \cup (job[r].created \ deleted)
      <4>1. r \in Requests /\ job[r].op \in EntryOps
        BY <3>2, IsRequest, RoleFacts DEF RequestRole
      <4>2. a \notin job[r].created
        BY <1>1, <2>1, <4>1 DEF Apart, Mine
      <4>. QED
        BY <2>1, <3>2, <4>2
    <3>. QED
      BY <3>1, <3>2, StepCases
  <2>2. pc[q] \in EntryLabels \ {"lookup"} => job[q].asset \in Mine(q)
    BY <1>1, QueueFacts
  <2>. QED
    BY <1>1, <1>3, <2>1, <2>2 DEF Own, TakesOwn
<1>7. FoundStays(q)'
  <2>1. ASSUME pc[q] \in EntryLabels \ {"lookup"}, ~job[q].fresh,
               job[q].asset \notin deleted'
        PROVE  pc[q] \in {"check", "compare"} /\ metadata'[job[q].asset] # Absent
    <3>1. pc[q] \in {"check", "compare"} /\ metadata[job[q].asset] # Absent
      BY <1>1, <1>2, <2>1 DEF Own, FoundStays
    <3>2. ASSUME metadata'[job[q].asset] = Absent PROVE FALSE
      <4>1. pc[r] = "unlink" /\ job[r].asset = job[q].asset
        BY <1>1, <3>1, <3>2, VanishStep
      <4>2. job[q].asset \in Mine(q) /\ job[q].op \in EntryOps
        BY <1>1, <2>1, QueueFacts DEF RequestRole
      <4>3. r \in Requests /\ job[r].op = "delete"
        BY <4>1, <4>2, <1>1, Foreign
      <4>4. DeletionMarked(r)
        BY <4>3 DEF KeptInv, Own
      <4>. QED
        BY <1>2, <2>1, <4>1, <4>3, <4>4 DEF DeletionMarked
    <3>. QED
      BY <3>1, <3>2
  <2>2. ASSUME pc[q] \in {"check", "compare"}, job[q].op \in EntryOps, job[q].fresh
        PROVE  pc[q] = "check" /\ metadata'[job[q].asset] = Absent
    <3>1. pc[q] = "check" /\ metadata[job[q].asset] = Absent
      BY <1>1, <2>2 DEF Own, FoundStays
    <3>2. job[q].asset \in Mine(q)
      BY <1>1, <2>2, QueueFacts
    <3>3. ~(pc[r] \in WriteLabels /\ job[r].asset = job[q].asset)
      BY <1>1, <2>2, <3>2, Foreign
    <3>. QED
      BY <1>1, <3>1, <3>3, MissingStep
  <2>. QED
    BY <1>1, <2>1, <2>2 DEF FoundStays
<1>8. DeletionMarked(q)'
  BY <1>1, <1>2 DEF Own, DeletionMarked
<1>9. ASSUME job[q].op \in EntryOps, NEW a \in job[q].created, Gone(a) PROVE Gone(a)'
  <2>1. ~(pc[r] \in WriteLabels /\ job[r].asset = a)
    BY <1>1, <1>3, <1>9, Foreign
  <2>. QED
    BY <1>1, <1>9, <2>1, GoneStep
<1>10. ASSUME job[q].op \in EntryOps, pc[q] \in RemoveLabels, job[q].asset \notin deleted', Clearing(q)
       PROVE  Clearing(q)'
  <2>1. job[q].asset \in Mine(q)
    BY <1>1, <1>3, <1>10 DEF RequestRole
  <2>2. ASSUME pc[r] \in ChangeLabels, job[r].asset = job[q].asset PROVE FALSE
    <3>1. r \in Requests /\ job[r].op = "delete" /\ pc[r] \in RemoveLabels
      BY <1>1, <1>10, <2>1, <2>2, Foreign
    <3>2. DeletionMarked(r)
      BY <3>1 DEF KeptInv, Own
    <3>. QED
      BY <1>2, <1>10, <2>2, <3>1, <3>2 DEF DeletionMarked
  <2>3. /\ payload'[job[q].asset] = payload[job[q].asset] /\ metadata'[job[q].asset] = metadata[job[q].asset]
        /\ job[q].asset \in dirs' <=> job[q].asset \in dirs
    BY <1>1, <2>2, ElsewhereStep
  <2>. QED
    BY <1>1, <1>10, <2>3 DEF Clearing, Present
<1>11. Undoing(q)'
  BY <1>1, <1>2, <1>4, <1>9, <1>10 DEF Own, Undoing
<1>12. Undone(q)'
  BY <1>1, <1>2, <1>9 DEF Own, Undone
<1>. QED
  BY <1>5, <1>6, <1>7, <1>8, <1>11, <1>12 DEF Own

\* A request fails by an error before its commit.
LEMMA OwnFailed ==
    ASSUME TypeInv, NEW r \in Requests, Own(r), pc[r] # "done",
           Fails(r, "entry"), Held' \subseteq Held
    PROVE  Own(r)'
<1>1. pc'[r] = "failed" /\ job'[r].cause = "entry" /\ SameWork(r)
  BY DEF Fails
<1>2. HasWritten(r)' /\ FoundStays(r)' /\ DeletionMarked(r)' /\ Undoing(r)' /\ Undone(r)'
  BY <1>1 DEF HasWritten, FoundStays, DeletionMarked, Undoing, Undone
<1>3. TakesOwn(r)'
  BY <1>1 DEF Own, TakesOwn, SameWork
<1>. QED
  BY <1>2, <1>3 DEF Own

\* A request is done with an entry.
LEMMA OwnEntryDone ==
    ASSUME TypeInv, NEW r \in Requests, Own(r), NEW created, pc[r] \in EntryLabels \ {"lookup"},
           job[r].op \in EntryOps, EntryDone(r, Restored(r), created), UNCHANGED history,
           created \ deleted \subseteq Restored(r),
           \A a \in Restored(r) \ deleted : Safe(a)'
    PROVE  Own(r)'
<1>1. /\ pc'[r] \in {"lookup", "commit"} /\ job'[r].op = job[r].op
      /\ job'[r].restored = Restored(r) /\ job'[r].created = created
  BY AfterEntryLabels DEF EntryDone, EntryOps
<1>2. HasWritten(r)'
  BY <1>1 DEF HasWritten, history
<1>3. TakesOwn(r)'
  BY <1>1 DEF Own, TakesOwn, Restored, history, Held
<1>4. FoundStays(r)' /\ DeletionMarked(r)' /\ Undoing(r)' /\ Undone(r)'
  BY <1>1 DEF FoundStays, DeletionMarked, Undoing, Undone
<1>. QED
  BY <1>2, <1>3, <1>4 DEF Own

\* The steps of a request that writes.
LEMMA WriteOwn ==
    ASSUME TypeInv, Orderly, Roles, KeptInv, NEW r \in Requests, WriteStep(r)
    PROVE  Own(r)'
<1>1. /\ r \in Processes /\ Own(r) /\ KeptSafe /\ RequestRole(r)
      /\ job[r].created \subseteq Assets /\ job[r].asset \in Assets /\ job[r].restored \subseteq Assets
  BY RoleFacts, Facts DEF KeptInv, Job
<1>2. /\ deleted \subseteq deleted' /\ raced' \subseteq deleted' /\ Step(r)
  BY <1>1, StepCases, RacedStep DEF Step
<1>3. pc[r] \in EntryLabels => job[r].op \in EntryOps
  BY <1>1 DEF RequestRole
<1>4. ASSUME pc[r] \in EntryLabels
      PROVE  /\ job[r].created \ deleted' \subseteq job[r].restored
             /\ \A a \in job[r].restored \ deleted' : Safe(a)'
  BY <1>1, <1>2, <1>3, <1>4, SafeStep DEF Own, HasWritten
<1>5. CASE LookUp(r)
  <2>1. pc[r] = "lookup" /\ UNCHANGED files /\ UNCHANGED history /\ Held' = Held
    BY <1>1, <1>5, LookUpEffect DEF history, Held
  <2>2. CASE Fails(r, "entry")
    BY <1>1, <2>1, <2>2, OwnFailed
  <2>3. CASE /\ pc'[r] = "check"
             /\ job'[r].asset = Current(r).asset
             /\ job'[r].fresh <=> metadata[Current(r).asset] = Absent
             /\ job'[r].op = job[r].op
             /\ job'[r].restored = job[r].restored /\ job'[r].created = job[r].created
    <3>1. HasWritten(r)'
      BY <1>4, <2>1, <2>3 DEF HasWritten
    <3>2. metadata[Current(r).asset] = Absent => Current(r).asset \notin Held
      BY <1>1 DEF KeptSafe, Safe, Whole, Intact
    <3>3. TakesOwn(r)'
      BY <1>1, <2>1, <2>3, <3>2 DEF Own, TakesOwn
    <3>4. FoundStays(r)'
      BY <2>1, <2>3 DEF FoundStays, files
    <3>5. DeletionMarked(r)' /\ Undoing(r)' /\ Undone(r)'
      BY <2>3 DEF DeletionMarked, Undoing, Undone
    <3>. QED
      BY <3>1, <3>3, <3>4, <3>5 DEF Own
  <2>. QED
    BY <1>1, <1>3, <1>5, <2>1, <2>2, <2>3, LookUpEffect DEF EntryOps
<1>6. CASE Check(r)
  <2>1. pc[r] = "check" /\ UNCHANGED files /\ UNCHANGED <<removed, deleted>> /\ Held' = Held
    BY <1>1, <1>6, CheckEffect DEF Held
  <2>2. CASE Fails(r, "entry")
    BY <1>1, <2>1, <2>2, OwnFailed
  <2>3. CASE \/ Moves(r, "compare") /\ metadata[job[r].asset] # Absent
             \/ Moves(r, "makeDir") /\ metadata[job[r].asset] = Absent
    <3>1. pc'[r] \in {"compare", "makeDir"} /\ UNCHANGED job
      BY <2>3 DEF Moves
    <3>2. HasWritten(r)'
      BY <1>4, <2>1, <3>1 DEF HasWritten
    <3>3. TakesOwn(r)'
      BY <1>1, <2>1, <3>1 DEF Own, TakesOwn
    <3>4. FoundStays(r)'
      BY <1>1, <2>1, <2>3, <3>1 DEF Own, FoundStays, Moves, files
    <3>5. DeletionMarked(r)' /\ Undoing(r)' /\ Undone(r)'
      BY <3>1 DEF DeletionMarked, Undoing, Undone
    <3>. QED
      BY <3>2, <3>3, <3>4, <3>5 DEF Own
  <2>. QED
    BY <1>1, <1>6, <2>2, <2>3, CheckEffect
<1>7. CASE Compare(r)
  <2>1. pc[r] = "compare" /\ UNCHANGED history /\ Held' = Held
    BY <1>1, <1>7, CompareEffect DEF history, Held
  <2>2. CASE Fails(r, "entry")
    BY <1>1, <2>1, <2>2, OwnFailed
  <2>3. CASE EntryDone(r, Restored(r), job[r].created)
    <3>1. Restored(r) = job[r].restored
      BY <1>1, <1>3, <2>1 DEF Own, FoundStays, Restored
    <3>2. /\ job[r].created \ deleted \subseteq Restored(r)
          /\ \A a \in Restored(r) \ deleted : Safe(a)'
      BY <1>4, <2>1, <3>1 DEF history
    <3>. QED
      BY <1>1, <1>3, <2>1, <2>3, <3>2, OwnEntryDone
  <2>. QED
    BY <1>1, <1>7, <2>2, <2>3, CompareEffect
<1>8. CASE Opening(r)
  <2>1. pc[r] \in WriteLabels /\ UNCHANGED history /\ Held' = Held
    BY <1>1, <1>8, OpeningEffect DEF history, Held
  <2>2. CASE Fails(r, "entry")
    BY <1>1, <2>1, <2>2, OwnFailed
  <2>3. ASSUME NEW l \in WriteLabels, Moves(r, l) PROVE Own(r)'
    <3>1. pc'[r] \in WriteLabels /\ UNCHANGED job
      BY <2>3 DEF Moves
    <3>2. HasWritten(r)'
      BY <1>4, <2>1, <3>1 DEF HasWritten
    <3>3. TakesOwn(r)' /\ FoundStays(r)'
      BY <1>1, <2>1, <3>1 DEF Own, TakesOwn, FoundStays, history
    <3>4. DeletionMarked(r)' /\ Undoing(r)' /\ Undone(r)'
      BY <3>1 DEF DeletionMarked, Undoing, Undone
    <3>. QED
      BY <3>2, <3>3, <3>4 DEF Own
  <2>. QED
    BY <1>1, <1>8, <2>2, <2>3, OpeningEffect
<1>9. CASE FillMetadata(r)
  <2>1. /\ pc[r] = "fillMetadata" /\ UNCHANGED history /\ Others(r)
        /\ EntryDone(r, Restored(r), job[r].created \cup {job[r].asset})
        /\ pc'[r] \notin RemoveLabels
    BY <1>1, <1>9, FillMetadataEffect, AfterEntryLabels DEF EntryDone
  <2>2. ASSUME NEW b \in Assets, b = job[r].asset, b \notin deleted
        PROVE  Safe(b)' /\ b \in Restored(r)
    <3>0. b \notin raced
      BY <1>1, <2>2 DEF KeptSafe
    <3>1. Whole(b)'
      BY <1>1, <1>9, <2>2, <3>0, FillMetadataFiles
    <3>2. \A q \in Processes \ {r} : ~Changes(q, b)
      BY <1>1, <2>1, <2>2, <3>0, Alone DEF ChangeLabels
    <3>3. \A q \in Processes : pc'[q] \in RemoveLabels => job'[q].asset # b
      BY <2>1, <3>2 DEF Changes, Others
    <3>4. job[r].fresh
      BY <1>1, <2>1, <2>2 DEF Own, FoundStays
    <3>. QED
      BY <2>2, <3>1, <3>3, <3>4 DEF Safe, Restored
  <2>3. /\ (job[r].created \cup {job[r].asset}) \ deleted \subseteq Restored(r)
        /\ \A a \in Restored(r) \ deleted : Safe(a)'
    BY <1>1, <1>4, <2>1, <2>2 DEF Restored, history
  <2>. QED
    BY <1>1, <1>3, <2>1, <2>3, OwnEntryDone
<1>. QED
  BY <1>5, <1>6, <1>7, <1>8, <1>9 DEF WriteStep, Opening

\* The steps of a request that commits, or removes what it has written.
LEMMA RemoveOwn ==
    ASSUME TypeInv, Orderly, Roles, KeptInv, NEW r \in Requests, RemoveStep(r)
    PROVE  Own(r)'
<1>1. /\ r \in Processes /\ Own(r) /\ RequestRole(r) /\ job[r].created \subseteq Assets
      /\ job[r].asset \in Assets /\ job[r].restored \subseteq Assets
  BY RoleFacts, Facts DEF KeptInv, Job
<1>2. /\ deleted \subseteq deleted' /\ raced' \subseteq deleted' /\ Step(r)
  BY <1>1, StepCases, RacedStep DEF Step
<1>3. ASSUME NEW a \in job[r].restored \ deleted', Safe(a), pc[r] = "scan" => job[r].asset # a
      PROVE  Safe(a)'
  BY <1>1, <1>2, <1>3, SafeStep
<1>4. CASE Commit(r)
  <2>1. pc[r] = "commit" /\ SameWork(r) /\ UNCHANGED files /\ UNCHANGED <<removed, deleted, raced>>
    BY <1>1, <1>4, CommitEffect
  <2>2. /\ job[r].op \in EntryOps /\ job[r].created \ deleted \subseteq job[r].restored
        /\ \A a \in job[r].restored \ deleted : Safe(a)
    BY <1>1, <2>1 DEF RequestRole, Own, HasWritten
  <2>3. pc'[r] = "done" \/ (pc'[r] \in {"failed", "remove"} /\ Held' \subseteq Held)
    BY <1>1, <1>4, CommitEffect DEF Held, Store
  <2>4. pc'[r] = "failed" => job[r].restored = {}
    BY <1>1, <1>4, CommitEffect
  <2>5. HasWritten(r)' /\ FoundStays(r)' /\ DeletionMarked(r)'
    BY <2>3 DEF HasWritten, FoundStays, DeletionMarked
  <2>6. TakesOwn(r)'
    BY <1>1, <2>1, <2>2, <2>3 DEF Own, TakesOwn, SameWork
  <2>7. \A a \in job[r].restored \ deleted : Safe(a)'
    BY <1>3, <2>1, <2>2
  <2>8. Undoing(r)' /\ Undone(r)'
    BY <2>1, <2>2, <2>3, <2>4, <2>7 DEF Undoing, Undone, SameWork
  <2>. QED
    BY <2>5, <2>6, <2>8 DEF Own
<1>5. CASE Inspect(r)
  <2>1. pc[r] = "inspect" /\ job[r].op \notin EntryOps /\ Held' = Held
    BY <1>1, <1>5, InspectEffect DEF RequestRole, EntryOps, history, Held
  <2>2. CASE Fails(r, "entry")
    BY <1>1, <2>1, <2>2, OwnFailed
  <2>3. CASE pc'[r] = "remove" /\ job'[r].op = job[r].op
    BY <2>1, <2>3 DEF Own, HasWritten, TakesOwn, FoundStays, DeletionMarked, Undoing, Undone
  <2>. QED
    BY <1>1, <1>5, <2>2, <2>3, InspectEffect
<1>6. CASE Remove(r)
  <2>1. pc[r] = "remove" /\ UNCHANGED files /\ UNCHANGED history /\ Held' = Held
    BY <1>1, <1>6, RemoveEffect DEF history, Held
  <2>2. pc'[r] \in {"scan", "failed"} /\ job'[r].op = job[r].op
        /\ job'[r].restored = job[r].restored /\ job'[r].created = job[r].created
    BY <1>1, <1>6, RemoveEffect DEF Halts
  <2>3. HasWritten(r)' /\ FoundStays(r)' /\ DeletionMarked(r)'
    BY <2>2 DEF HasWritten, FoundStays, DeletionMarked
  <2>4. TakesOwn(r)'
    BY <1>1, <2>1, <2>2 DEF Own, TakesOwn
  <2>5. \A a \in job[r].restored \ deleted : job[r].op \in EntryOps => Safe(a) /\ Safe(a)'
    BY <1>1, <1>3, <2>1 DEF Own, Undoing, history
  <2>6. Undoing(r)'
    BY <1>1, <2>1, <2>2, <2>5 DEF Own, Undoing, Gone, history, files
  <2>7. Undone(r)'
    <3>1. CASE pc'[r] = "scan"
      BY <3>1 DEF Undone
    <3>2. CASE Halts(r) /\ ~Intact(metadata[job'[r].asset])
      <4>1. job[r].op \in EntryOps => job'[r].asset \in deleted
        BY <2>5, <3>2 DEF Halts, Safe, Whole
      <4>. QED
        BY <2>1, <3>2, <4>1 DEF Halts, Undone, history
    <3>. QED
      BY <1>1, <1>6, <3>1, <3>2, RemoveEffect
  <2>. QED
    BY <2>3, <2>4, <2>6, <2>7 DEF Own
<1>7. CASE Scan(r)
  <2>1. pc[r] = "scan" /\ UNCHANGED files /\ job[r].asset \in job[r].restored
    BY <1>1, <1>7, ScanEffect DEF RequestRole
  <2>2. job[r].op \in EntryOps => \A a \in job[r].restored \ deleted : Safe(a)
    BY <1>1, <2>1 DEF Own, Undoing
  <2>3. CASE Fails(r, "undo") /\ job[r].asset \notin dirs /\ UNCHANGED history
    <3>1. pc'[r] = "failed" /\ SameWork(r) /\ job'[r].cause = "undo" /\ Held' = Held
      BY <2>3 DEF Fails, history, Held
    <3>2. job[r].op \in EntryOps => job[r].asset \in deleted
      BY <2>1, <2>2, <2>3 DEF Safe, Whole
    <3>3. HasWritten(r)' /\ FoundStays(r)' /\ DeletionMarked(r)' /\ Undoing(r)'
      BY <3>1 DEF HasWritten, FoundStays, DeletionMarked, Undoing
    <3>4. TakesOwn(r)'
      BY <1>1, <2>1, <3>1 DEF Own, TakesOwn, SameWork
    <3>5. Undone(r)'
      BY <1>2, <3>1, <3>2 DEF Undone, SameWork
    <3>. QED
      BY <3>3, <3>4, <3>5 DEF Own
  <2>4. CASE pc'[r] = "unlink" /\ job[r].asset \in dirs /\ SameWork(r)
             /\ job'[r].todo = Present(job[r].asset)
    <3>1. Held' \subseteq Held /\ (job[r].op = "delete" => job[r].asset \in deleted')
      BY <1>1, <1>2, <2>1, <2>4, ScanStep, StepCases
    <3>2. HasWritten(r)' /\ FoundStays(r)' /\ DeletionMarked(r)' /\ Undone(r)'
      BY <2>4, <3>1 DEF HasWritten, FoundStays, DeletionMarked, Undone, SameWork
    <3>3. TakesOwn(r)'
      BY <1>1, <2>1, <2>4, <3>1 DEF Own, TakesOwn, SameWork
    <3>4. Clearing(r)'
      BY <2>1, <2>4 DEF Clearing, Present, SameWork, files
    <3>5. job[r].op \in EntryOps =>
             \A a \in job[r].restored \ deleted' : a = job[r].asset \/ Safe(a)'
      BY <1>2, <1>3, <2>2
    <3>6. Undoing(r)'
      BY <1>1, <1>2, <2>1, <2>4, <3>4, <3>5 DEF Own, Undoing, Gone, SameWork, files
    <3>. QED
      BY <3>2, <3>3, <3>6 DEF Own
  <2>. QED
    BY <1>1, <1>7, <2>3, <2>4, ScanEffect
<1>8. CASE Unlink(r)
  <2>1. /\ pc[r] = "unlink" /\ UNCHANGED <<dirs, history>>
        /\ pc'[r] \in RemoveLabels /\ SameWork(r) /\ Held' = Held /\ deleted' = deleted
    BY <1>1, <1>8, UnlinkEffect DEF history, Held
  <2>2. \A a \in job[r].created : Gone(a) => Gone(a)'
    BY <1>1, <1>2, <2>1, GoneStep
  <2>3. HasWritten(r)' /\ FoundStays(r)' /\ Undone(r)'
    BY <2>1 DEF HasWritten, FoundStays, Undone
  <2>4. TakesOwn(r)' /\ DeletionMarked(r)'
    BY <1>1, <2>1 DEF Own, TakesOwn, DeletionMarked, SameWork
  <2>5. Clearing(r) => Clearing(r)'
    BY <1>1, <1>8, <2>1, UnlinkEffect DEF Clearing, SameWork
  <2>6. \A a \in job[r].restored \ deleted : Safe(a) => Safe(a)'
    BY <1>3, <2>1
  <2>7. Undoing(r)'
    BY <1>1, <2>1, <2>2, <2>5, <2>6 DEF Own, Undoing, SameWork
  <2>. QED
    BY <2>3, <2>4, <2>7 DEF Own
<1>9. CASE RemoveDir(r)
  <2>1. /\ pc[r] = "removeDir" /\ UNCHANGED <<payload, metadata, deleted>> /\ Held' = Held
        /\ job[r].asset \in job[r].restored
    BY <1>1, <1>9, RemoveDirEffect DEF Held, RequestRole
  <2>2. CASE Fails(r, "undo") /\ (job[r].asset \notin dirs \/ Present(job[r].asset) # {})
    <3>1. pc'[r] = "failed" /\ SameWork(r) /\ job'[r].cause = "undo"
      BY <2>2 DEF Fails
    <3>2. job[r].op \in EntryOps => job[r].asset \in deleted
      BY <1>1, <2>1, <2>2 DEF Own, Undoing, Clearing
    <3>3. HasWritten(r)' /\ FoundStays(r)' /\ DeletionMarked(r)' /\ Undoing(r)'
      BY <3>1 DEF HasWritten, FoundStays, DeletionMarked, Undoing
    <3>4. TakesOwn(r)'
      BY <1>1, <2>1, <3>1 DEF Own, TakesOwn, SameWork
    <3>5. Undone(r)'
      BY <2>1, <3>1, <3>2 DEF Undone, SameWork
    <3>. QED
      BY <3>3, <3>4, <3>5 DEF Own
  <2>3. CASE /\ Present(job[r].asset) = {}
             /\ job'[r].op = job[r].op /\ job'[r].created = job[r].created
             /\ job'[r].restored = job[r].restored \ {job[r].asset}
             /\ pc'[r] = (IF job[r].restored \ {job[r].asset} # {} THEN "remove"
                          ELSE IF job[r].op = "delete" THEN "done" ELSE "failed")
    <3>1. pc'[r] \in {"remove", "done", "failed"}
      BY <2>3
    <3>2. HasWritten(r)' /\ FoundStays(r)' /\ DeletionMarked(r)'
      BY <3>1 DEF HasWritten, FoundStays, DeletionMarked
    <3>3. TakesOwn(r)'
      BY <1>1, <2>1, <2>3, <3>1 DEF Own, TakesOwn
    <3>4. Gone(job[r].asset)
      BY <2>3 DEF Present, Gone
    <3>5. ASSUME job[r].op \in EntryOps, NEW a \in job[r].created \ deleted
          PROVE  a \in job'[r].restored \/ Gone(a)'
      <4>1. a \in job[r].restored \/ Gone(a)
        BY <1>1, <2>1, <3>5 DEF Own, Undoing
      <4>. QED
        BY <2>1, <2>3, <3>4, <4>1 DEF Gone
    <3>6. ASSUME job[r].op \in EntryOps, NEW a \in job'[r].restored \ deleted PROVE Safe(a)'
      <4>1. Safe(a) /\ a \in job[r].restored
        BY <1>1, <2>1, <2>3, <3>6 DEF Own, Undoing
      <4>. QED
        BY <1>3, <2>1, <3>6, <4>1
    <3>7. pc'[r] = "failed" => job'[r].restored = {} /\ job[r].op \in EntryOps
      BY <1>1, <2>1, <2>3 DEF RequestRole
    <3>8. Undoing(r)' /\ Undone(r)'
      BY <2>1, <2>3, <3>1, <3>5, <3>6, <3>7 DEF Undoing, Undone
    <3>. QED
      BY <3>2, <3>3, <3>8 DEF Own
  <2>. QED
    BY <1>1, <1>9, <2>2, <2>3, RemoveDirEffect
<1>. QED
  BY <1>4, <1>5, <1>6, <1>7, <1>8, <1>9 DEF RemoveStep

LEMMA OwnStep ==
    ASSUME TypeInv, Orderly, Roles, KeptInv, NEW r \in Requests, Step(r)
    PROVE  Own(r)'
<1>1. r \in Processes /\ RequestRole(r)
  BY RoleFacts
<1>2. CASE ReadStep(r)
  <2>1. /\ job[r].op \in {"fetch", "preview"} /\ job'[r].op = job[r].op
        /\ pc'[r] \in ReadLabels \cup {"done", "failed"}
        /\ pc'[r] = "failed" => job'[r].cause = "entry"
    BY <1>1, <1>2, ReadEffect DEF RequestRole, SameRead
  <2>. QED
    BY <2>1 DEF Own, HasWritten, TakesOwn, FoundStays, DeletionMarked, Undoing, Undone, EntryOps
<1>3. CASE Answer(r)
  <2>1. pc'[r] = "idle" /\ job'[r].op = "none"
    BY <1>1, <1>3, AnswerEffect DEF NoJob
  <2>. QED
    BY <2>1 DEF Own, HasWritten, TakesOwn, FoundStays, DeletionMarked, Undoing, Undone, EntryOps
<1>. QED
  BY <1>2, <1>3, WriteOwn, RemoveOwn DEF Step

\* A committed file stays safe until its deletion begins.
LEMMA KeptSafeStep ==
    ASSUME TypeInv, Orderly, Roles, KeptInv, NEW r \in Processes, Step(r)
    PROVE  KeptSafe'
<1>1. KeptSafe /\ kept \subseteq Assets
  BY DEF KeptInv, TypeInv, TypeOK
<1>2. deleted \subseteq deleted' /\ raced \subseteq raced'
  BY StepCases
<1>3. kept' \cap deleted' = {} /\ raced' \subseteq deleted'
  <2>0. raced' \subseteq deleted'
    BY RacedStep
  <2>1. CASE Scan(r)
    BY <1>1, <2>0, <2>1, ScanEffect DEF KeptSafe, history
  <2>2. CASE Commit(r)
    BY <1>1, <2>0, <2>2, CommitEffect DEF KeptSafe, Store
  <2>3. CASE ~Scan(r) /\ ~Commit(r)
    <3>1. UNCHANGED <<kept, deleted>>
      BY <2>3, LookUpEffect, CheckEffect, CompareEffect, OpeningEffect, FillMetadataEffect, InspectEffect,
         RemoveEffect, UnlinkEffect, RemoveDirEffect, ReadEffect, AnswerEffect
         DEF Step, WriteStep, RemoveStep, Opening, history
    <3>. QED
      BY <1>1, <2>0, <3>1 DEF KeptSafe
  <2>. QED
    BY <2>1, <2>2, <2>3
<1>4. ASSUME NEW a \in Held, a \in Held' PROVE Safe(a)'
  <2>1. Safe(a) /\ a \in Assets /\ a \notin deleted' /\ a \notin raced'
    BY <1>1, <1>3, <1>4 DEF KeptSafe, Held
  <2>2. ASSUME pc[r] = "scan", pc'[r] = "unlink", job[r].asset = a PROVE FALSE
    <3>1. r \in Requests
      BY <2>2, IsRequest
    <3>2. RequestRole(r) /\ TakesOwn(r)
      BY <3>1, RoleFacts DEF KeptInv, Own
    <3>3. job[r].op # "delete"
      BY <2>1, <2>2, ScanStep
    <3>4. job[r].op \in EntryOps /\ a \in job[r].restored
      BY <2>2, <3>2, <3>3 DEF RequestRole
    <3>. QED
      BY <1>4, <2>2, <3>2, <3>4 DEF TakesOwn
  <2>. QED
    BY <2>1, <2>2, SafeStep
<1>5. ASSUME NEW a \in Held' \ Held PROVE Safe(a)'
  <2>1. pc[r] = "commit" /\ a \in job[r].created \ deleted /\ deleted' = deleted
    BY <1>5, StepCases
  <2>2. r \in Requests
    BY <2>1, IsRequest
  <2>3. RequestRole(r) /\ HasWritten(r)
    BY <2>2, RoleFacts DEF KeptInv, Own
  <2>4. Safe(a)
    BY <2>1, <2>3 DEF RequestRole, HasWritten
  <2>5. a \in Assets /\ a \notin raced'
    BY <1>3, <2>1, Facts DEF Job
  <2>. QED
    BY <2>1, <2>4, <2>5, SafeStep
<1>. QED
  BY <1>3, <1>4, <1>5 DEF KeptSafe

\* A request never takes on a file after it has begun.
LEMMA MineShrinks ==
    ASSUME TypeInv, Roles, NEW r \in Requests, Step(r), job'[r].op \in EntryOps
    PROVE  job'[r].op = job[r].op /\ Mine(r)' \subseteq Mine(r)
<1>1. r \in Processes /\ RequestRole(r)
  BY RoleFacts
<1>2. ASSUME SameWork(r) PROVE job'[r].op = job[r].op /\ Mine(r)' \subseteq Mine(r)
  BY <1>2, MineKept DEF SameWork
<1>3. ASSUME UNCHANGED job PROVE job'[r].op = job[r].op /\ Mine(r)' \subseteq Mine(r)
  BY <1>3 DEF Mine
<1>4. CASE LookUp(r)
  <2>1. pc[r] = "lookup" /\ job[r].op # "seed"
    BY <1>1, <1>4, LookUpEffect DEF RequestRole, EntryOps
  <2>. QED
    BY <1>1, <1>2, <1>4, <2>1, LookUpEffect, MineKept DEF Fails
<1>5. CASE Check(r) \/ Opening(r)
  BY <1>1, <1>2, <1>3, <1>5, CheckEffect, OpeningEffect DEF Fails, Moves
<1>6. CASE Compare(r)
  <2>1. CASE Fails(r, "entry")
    BY <1>2, <2>1 DEF Fails
  <2>2. CASE EntryDone(r, Restored(r), job[r].created)
    <3>1. pc[r] = "compare"
      BY <1>1, <1>6, CompareEffect
    <3>2. Mine(r)' \subseteq Mine(r)
      BY <1>1, <2>2, <3>1, RestoredMine, MineDone
    <3>. QED
      BY <2>2, <3>2 DEF EntryDone
  <2>. QED
    BY <1>1, <1>6, <2>1, <2>2, CompareEffect
<1>7. CASE FillMetadata(r)
  <2>1. pc[r] = "fillMetadata" /\ EntryDone(r, Restored(r), job[r].created \cup {job[r].asset})
    BY <1>1, <1>7, FillMetadataEffect
  <2>2. Mine(r)' \subseteq Mine(r)
    BY <1>1, <2>1, RestoredMine, MineDone
  <2>. QED
    BY <2>1, <2>2 DEF EntryDone
<1>8. CASE Commit(r) \/ Scan(r) \/ Unlink(r)
  BY <1>1, <1>2, <1>8, CommitEffect, ScanEffect, UnlinkEffect DEF Fails
<1>9. CASE Inspect(r)
  <2>1. Fails(r, "entry") \/ job'[r].op = job[r].op
    BY <1>1, <1>9, InspectEffect
  <2>2. pc[r] = "inspect"
    BY <1>1, <1>9, InspectEffect
  <2>3. job[r].op \notin EntryOps
    BY <1>1, <2>2 DEF RequestRole, EntryOps
  <2>. QED
    BY <2>1, <2>3 DEF Fails, SameWork
<1>10. CASE Remove(r)
  BY <1>1, <1>2, <1>10, RemoveEffect, MineKept DEF Halts
<1>11. CASE RemoveDir(r)
  <2>1. CASE Fails(r, "undo")
    BY <1>2, <2>1 DEF Fails
  <2>2. CASE /\ job'[r].op = job[r].op
             /\ job'[r].queue = job[r].queue /\ job'[r].created = job[r].created
             /\ job'[r].restored = job[r].restored \ {job[r].asset}
    BY <2>2 DEF Mine
  <2>. QED
    BY <1>1, <1>11, <2>1, <2>2, RemoveDirEffect
<1>12. CASE ReadStep(r)
  <2>1. pc[r] \in ReadLabels /\ job'[r].op = job[r].op
    BY <1>1, <1>12, ReadEffect DEF SameRead
  <2>. QED
    BY <1>1, <2>1 DEF RequestRole, EntryOps
<1>13. CASE Answer(r)
  BY <1>1, <1>13, AnswerEffect DEF NoJob, EntryOps
<1>. QED
  BY <1>4, <1>5, <1>6, <1>7, <1>8, <1>9, <1>10, <1>11, <1>12, <1>13
     DEF Step, WriteStep, RemoveStep, Opening

LEMMA ApartStep ==
    ASSUME TypeInv, Roles, Apart, NEW r \in Processes, Step(r)
    PROVE  Apart'
<1>1. ASSUME NEW q \in Requests, job'[q].op \in EntryOps
      PROVE  job[q].op \in EntryOps /\ Mine(q)' \subseteq Mine(q)
  <2>1. CASE q = r
    BY <1>1, <2>1, MineShrinks
  <2>2. CASE q # r
    BY <1>1, <2>2, StepCases, StartupFacts DEF Others, Mine
  <2>. QED
    BY <2>1, <2>2
<1>. QED
  BY <1>1 DEF Apart

\* With one import at a time, no other import is in flight when one begins.
LEMMA NoOtherImport ==
    ASSUME IsFiniteSet(Requests), MaxImports \in {0, 1}, Cardinality(Imports) < MaxImports,
           NEW q \in Requests
    PROVE  job[q].op # "import"
<1>1. IsFiniteSet(Imports)
  BY FS_Subset DEF Imports
<1>2. Cardinality(Imports) \in Nat
  BY <1>1, FS_CardinalityType
<1>3. Cardinality(Imports) = 0
  BY <1>2
<1>4. Imports = {}
  BY <1>1, <1>3, FS_EmptySet
<1>. QED
  BY <1>4 DEF Imports

\* A request begins with files that no other has: an upload under a new id,
\* an import while no other is running and no upload is unanswered.
LEMMA ArriveApart ==
    ASSUME IsFiniteSet(Requests), MaxImports \in {0, 1},
           TypeInv, Roles, Apart, NEW r \in Requests, Arrive(r)
    PROVE  Apart'
<1>1. r \in Processes /\ Others(r) /\ job'[r].restored = {} /\ job'[r].created = {}
  BY ArriveEffect
<1>2. \A q \in Requests \ {r} : job'[q] = job[q] /\ Mine(q)' = Mine(q)
  BY <1>1, StartupFacts DEF Others, Mine
<1>3. ASSUME NEW q \in Requests \ {r}, job[q].op \in EntryOps, job'[r].op \in EntryOps
      PROVE  Mine(q) \cap Mine(r)' = {}
  <2>1. CASE \E e \in Offers : Unused(e.asset) /\ job'[r].queue = <<e>>
    <3>1. PICK e \in Offers : Unused(e.asset) /\ job'[r].queue = <<e>>
      BY <2>1
    <3>2. Mine(r)' = {e.asset}
      BY <1>1, <3>1 DEF Mine
    <3>3. e.asset \notin Mine(q)
      BY <3>1, StartupFacts DEF Unused, Mentions
    <3>. QED
      BY <3>2, <3>3
  <2>2. CASE \E bundle \in Bundles :
                /\ Exported(bundle) /\ Cardinality(Imports) < MaxImports
                /\ job'[r].queue = bundle
    <3>1. PICK bundle \in Bundles :
                /\ Exported(bundle) /\ Cardinality(Imports) < MaxImports
                /\ job'[r].queue = bundle
      BY <2>2
    <3>2. Mine(r)' = {bundle[i].asset : i \in DOMAIN bundle}
      BY <1>1, <3>1 DEF Mine
    <3>3. job[q].op = "upload"
      BY <1>3, <3>1, NoOtherImport DEF EntryOps
    <3>4. Mine(q) \subseteq {job[q].asset}
      BY <3>3, RoleFacts DEF RequestRole
    <3>5. \A i \in DOMAIN bundle : job[q].asset # bundle[i].asset
      BY <3>1, <3>3 DEF Exported
    <3>. QED
      BY <3>2, <3>4, <3>5
  <2>. QED
    BY <1>3, <2>1, <2>2, ArriveEffect DEF EntryOps
<1>. QED
  BY <1>2, <1>3 DEF Apart

LEMMA ArriveOwn ==
    ASSUME TypeInv, Housed, NEW r \in Requests, Arrive(r)
    PROVE  Own(r)' /\ pc'[r] \notin RemoveLabels
<1>1. job'[r].restored = {} /\ job'[r].created = {} /\ UNCHANGED <<files, history>>
  BY ArriveEffect
<1>2. CASE \E e \in Offers :
              /\ Unused(e.asset) /\ pc'[r] = "check" /\ job'[r].op = "upload"
              /\ job'[r].asset = e.asset /\ job'[r].fresh
  <2>1. job'[r].asset \notin kept /\ job'[r].asset \notin dirs
    BY <1>2 DEF Unused
  <2>2. metadata'[job'[r].asset] = Absent
    BY <1>1, <1>2, <2>1, EntryType, InputAssumption DEF Housed, Gone, files
  <2>. QED
    BY <1>1, <1>2, <2>1, <2>2
       DEF Own, HasWritten, TakesOwn, FoundStays, DeletionMarked, Undoing, Undone, Held, history
<1>3. CASE pc'[r] \in {"lookup", "inspect", "describe", "choose", "fallback"}
  BY <1>1, <1>3 DEF Own, HasWritten, TakesOwn, FoundStays, DeletionMarked, Undoing, Undone, Held, history
<1>. QED
  BY <1>2, <1>3, ArriveEffect

LEMMA LifeKept ==
    ASSUME TypeInv, Roles, KeptInv, Start \/ Started \/ Crash
    PROVE  KeptInv'
<1>1. CASE Start \/ Started
  <2>1. /\ Others(Startup) /\ UNCHANGED <<files, history>>
        /\ pc'[Startup] \notin RemoveLabels /\ Startup \in Processes
    BY <1>1, StartEffect, StartedEffect, StartupFacts
  <2>2. KeptSafe' /\ Housed' /\ \A q \in Requests : Own(q)'
    BY <2>1, QuietKept, StartupFacts DEF KeptInv
  <2>3. \A q \in Requests : job'[q] = job[q]
    BY <2>1, StartupFacts DEF Others
  <2>4. Apart'
    BY <2>3 DEF KeptInv, Apart, Mine
  <2>. QED
    BY <2>2, <2>4 DEF KeptInv
<1>2. CASE Crash
  <2>1. \A q \in Processes : pc'[q] = "idle" /\ job'[q].op = "none"
    BY <1>2 DEF Crash, NoJob
  <2>2. UNCHANGED <<files, history>>
    BY <1>2 DEF Crash
  <2>3. Apart'
    BY <2>1, StartupFacts DEF Apart, EntryOps
  <2>4. KeptSafe' /\ Housed'
    BY <2>1, <2>2 DEF KeptInv, KeptSafe, Held, Housed, Gone, Safe, Whole, Intact, files, history
  <2>5. \A q \in Requests : Own(q)'
    BY <2>1, StartupFacts DEF Own, HasWritten, TakesOwn, FoundStays, DeletionMarked, Undoing, Undone, EntryOps
  <2>. QED
    BY <2>3, <2>4, <2>5 DEF KeptInv
<1>. QED
  BY <1>1, <1>2

LEMMA NextKept ==
    ASSUME IsFiniteSet(Requests), MaxImports \in {0, 1}, StorageInv, KeptInv, [Next]_vars
    PROVE  KeptInv'
<1>. USE DEF StorageInv
<1>1. CASE UNCHANGED vars
  <2>1. Others(Startup) /\ UNCHANGED <<files, history>> /\ Startup \in Processes /\ UNCHANGED <<pc, job>>
    BY <1>1, StartupFacts DEF vars, Others
  <2>2. pc[Startup] \notin RemoveLabels
    BY DEF Roles, StartupRole
  <2>3. KeptSafe' /\ Housed' /\ \A q \in Requests : Own(q)'
    BY <2>1, <2>2, QuietKept, StartupFacts DEF KeptInv
  <2>4. Apart'
    BY <2>1 DEF KeptInv, Apart, Mine
  <2>. QED
    BY <2>3, <2>4 DEF KeptInv
<1>2. ASSUME NEW r \in Requests, Arrive(r) PROVE KeptInv'
  <2>1. Own(r)' /\ Apart'
    BY <1>2, ArriveOwn, ArriveApart DEF KeptInv
  <2>2. r \in Processes /\ Others(r) /\ UNCHANGED <<files, history>> /\ pc'[r] \notin RemoveLabels
    BY <1>2, ArriveEffect, ArriveOwn
  <2>3. KeptSafe' /\ Housed' /\ \A q \in Requests \ {r} : Own(q)'
    BY <2>2, QuietKept DEF KeptInv
  <2>. QED
    BY <2>1, <2>3 DEF KeptInv
<1>3. ASSUME NEW r \in Processes, Step(r) PROVE KeptInv'
  <2>1. \A q \in Requests \ {r} : Own(q)'
    BY <1>3, OtherOwn
  <2>2. r \in Requests => Own(r)'
    BY <1>3, OwnStep
  <2>3. KeptSafe' /\ Housed' /\ Apart'
    BY <1>3, KeptSafeStep, HousedStep, ApartStep DEF KeptInv
  <2>. QED
    BY <2>1, <2>2, <2>3 DEF KeptInv
<1>. QED
  BY <1>1, <1>2, <1>3, LifeKept DEF Next

LEMMA InitKept == Init => KeptInv
<1>. SUFFICES ASSUME Init PROVE KeptInv
  OBVIOUS
<1>1. kept = {} /\ raced = {} /\ \A q \in Requests : pc[q] = "idle" /\ job[q].op = "none"
  BY StartupFacts DEF Init, NoJob
<1>2. Apart /\ KeptSafe /\ Housed
  BY <1>1 DEF Init, Apart, KeptSafe, Held, Housed, Gone, EntryOps
<1>3. \A q \in Requests : Own(q)
  BY <1>1 DEF Own, HasWritten, TakesOwn, FoundStays, DeletionMarked, Undoing, Undone, EntryOps
<1>. QED
  BY <1>2, <1>3 DEF KeptInv

LEMMA KeptHolds ==
    ASSUME IsFiniteSet(Requests), MaxImports \in {0, 1}
    PROVE  Spec => []KeptInv
<1>1. KeptInv /\ StorageInv /\ [Next]_vars => KeptInv'
  BY NextKept
<1>. QED
  BY <1>1, InitKept, StorageInvariant, PTL DEF Spec

\* What a commit has stored stays, whole, until an administrator deletes it
\* (delete_asset in the except clauses of upload_asset and
\* apply_import_candidate_to_draft), if the commit was answered: while imports
\* do not overlap, a request only takes back files that are its own.
THEOREM CommittedFilesKept ==
    ASSUME IsFiniteSet(Requests), MaxImports \in {0, 1}
    PROVE  Spec => []CommittedFilesStay
<1>1. KeptInv => CommittedFilesStay
  BY DEF KeptInv, KeptSafe, Held, Safe, CommittedFilesStay
<1>. QED
  BY <1>1, KeptHolds, PTL

\* An upload or import whose commit raises leaves none of the files it has
\* written that an administrator has not deleted, however the other requests
\* interleave with its removals, unless one of the removals raises; and that
\* one is of a file that an administrator has deleted.
THEOREM RolledBackFilesRemoved ==
    ASSUME IsFiniteSet(Requests), MaxImports \in {0, 1}
    PROVE  Spec => []RolledBackFilesGone
<1>1. KeptInv => RolledBackFilesGone
  BY DEF KeptInv, Own, Undone, Gone, EntryOps, RolledBackFilesGone
<1>. QED
  BY <1>1, KeptHolds, PTL
=============================================================================
