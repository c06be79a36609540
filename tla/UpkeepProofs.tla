----------------------------- MODULE UpkeepProofs -----------------------------
(***************************************************************************)
(* For any memories, files, processes and bounds: what keeps the store up  *)
(* with its sources and its tasks (Scheduler, GitIngest, McpTasks and      *)
(* Consolidation, as Unattended puts them side by side), and Unattended    *)
(* itself: whichever of its parts moves, what is proved of them here, in   *)
(* CurationProofs, BindingProofs and ConcurrentWritersProofs holds of it.  *)
(***************************************************************************)
EXTENDS CurationProofs, BindingProofs, SequenceTheorems

-----------------------------------------------------------------------------
(***************************************************************************)
(* Scheduler.                                                              *)
(***************************************************************************)
\* A fingerprint is never ahead of what the index got after it was taken, and
\* the loop sweeps only what it has just ingested.
FingerprintsLag ==
    /\ tree.stat <= tree.text
    /\ tree.shows => tree.stat = tree.text
    /\ indexed # NULL => indexed <= tree.text
    /\ loop.kept # NULL => indexed # NULL /\ loop.kept <= indexed
    /\ loop.at = "polled" => loop.seen <= tree.text
    /\ loop.at = "ingested" => indexed # NULL /\ loop.seen <= indexed
    /\ sweeps["loop"] # NULL => loop.at = "ingested"

\* No count runs ahead of the packs, and what a sweep may archive was in none
\* when the sweep began.
CountsLag ==
    /\ \A m \in Episode : memories[m].count <= packs[m]
    /\ \A s \in Sweeper, m \in Episode : sweeps[s] # NULL =>
        /\ sweeps[s].counts[m] # NULL =>
                0 < sweeps[s].counts[m] /\ sweeps[s].counts[m] <= packs[m]
        /\ m \notin sweeps[s].unused => packs[m] > 0
        /\ m \in sweeps[s].archives => m \in sweeps[s].unused
        /\ sweeps[s].at = "decay" /\ sweeps[s].counts[m] = NULL /\ memories[m].count = 0
                => m \in sweeps[s].unused

\* Partitions are made for months there are, and before a sweep ends.
CoversAreMade ==
    \A s \in Sweeper : sweeps[s] # NULL =>
        /\ sweeps[s].covers # NULL => sweeps[s].covers <= MaxMonth + Ahead
        /\ sweeps[s].at = "end" /\ ~sweeps[s].broken => sweeps[s].covers # NULL

SchedulerInv == Loop!TypeOK /\ FingerprintsLag /\ CountsLag /\ CoversAreMade

\* What is assumed of the scheduler's constants.
LEMMA SchedulerConstants ==
    /\ "loop" \in Sweeper
    /\ Ahead \in Nat /\ MaxEdits \in Nat /\ MaxMonth \in Nat
    /\ MaxPacks \in Nat /\ MaxTrouble \in Nat
    /\ NULL \notin Nat
BY UnattendedAssumption DEF UnattendedAssumption, Loop!SchedulerAssumption

\* The initial states of the scheduler satisfy the invariant.
LEMMA SchedulerStarts == Loop!Init => SchedulerInv
<1> SUFFICES ASSUME Loop!Init PROVE SchedulerInv
  OBVIOUS
<1> USE SchedulerConstants
<1>1. Loop!TypeOK
  <2>1. memories \in [Episode -> Loop!Row]
    BY DEF Loop!Init, Loop!Row
  <2>2. /\ tree \in [text : 0..MaxEdits, stat : 0..MaxEdits, shows : BOOLEAN]
        /\ loop \in [at : {"starting", "asleep", "polled", "ingested"},
                     kept : {NULL} \cup 0..MaxEdits, seen : 0..MaxEdits]
    BY DEF Loop!Init
  <2>3. month \in 0..MaxMonth /\ covered \in 0..(MaxMonth + Ahead) /\ trouble \in 0..MaxTrouble
    BY DEF Loop!Init
  <2>4. packs \in [Episode -> 0..MaxPacks] /\ sweeps \in [Sweeper -> {NULL} \cup Loop!Sweep]
    BY DEF Loop!Init
  <2> QED
    BY <2>1, <2>2, <2>3, <2>4 DEF Loop!Init, Loop!TypeOK
<1>2. FingerprintsLag
  BY DEF Loop!Init, FingerprintsLag
<1>3. CountsLag /\ CoversAreMade
  BY DEF Loop!Init, CountsLag, CoversAreMade
<1> QED
  BY <1>1, <1>2, <1>3 DEF SchedulerInv

\* A step of one sweep's transaction: nothing else changes.
LEMMA SweepStepInv ==
    ASSUME SchedulerInv, NEW s \in Sweeper, NEW changed \in Loop!Sweep,
           sweeps[s] # NULL,
           Loop!Done(s, changed),
           changed.unused = sweeps[s].unused,
           \A m \in Episode :
                /\ changed.counts[m] # NULL =>
                        0 < changed.counts[m] /\ changed.counts[m] <= packs[m]
                /\ m \in changed.archives => m \in changed.unused
                /\ changed.at = "decay" /\ changed.counts[m] = NULL
                        /\ memories[m].count = 0 => m \in changed.unused,
           changed.covers # NULL => changed.covers <= MaxMonth + Ahead,
           changed.at = "end" /\ ~changed.broken => changed.covers # NULL
    PROVE  SchedulerInv'
<1> USE SchedulerConstants
<1>1. /\ sweeps' = [sweeps EXCEPT ![s] = changed]
      /\ UNCHANGED <<registered, tree, loop, indexed, memories, packs, month,
                     covered, embedder, trouble>>
  BY DEF Loop!Done
<1>2. Loop!TypeOK'
  BY <1>1 DEF SchedulerInv, Loop!TypeOK
<1>3. FingerprintsLag'
  BY <1>1 DEF SchedulerInv, Loop!TypeOK, FingerprintsLag
<1>4. CountsLag'
  BY <1>1 DEF SchedulerInv, Loop!TypeOK, CountsLag
<1>5. CoversAreMade'
  BY <1>1 DEF SchedulerInv, Loop!TypeOK, CoversAreMade
<1> QED
  BY <1>2, <1>3, <1>4, <1>5 DEF SchedulerInv

\* A step that only moves the world, the loop's fingerprints apart.
LEMMA WorldInv ==
    ASSUME SchedulerInv,
           \/ \E shows \in BOOLEAN : Loop!Edit(shows)
           \/ \E m \in Episode : Loop!Write(m) \/ Loop!Reembed(m) \/ Loop!Age(m) \/ Loop!Serve(m)
           \/ Loop!Outage
           \/ Loop!Recovery
           \/ Loop!NextMonth
    PROVE  SchedulerInv'
<1> USE SchedulerConstants
<1>1. ASSUME NEW shows \in BOOLEAN, Loop!Edit(shows) PROVE SchedulerInv'
  <2>1. Loop!TypeOK'
    <3>1. tree' \in [text : 0..MaxEdits, stat : 0..MaxEdits, shows : BOOLEAN]
      BY <1>1 DEF SchedulerInv, Loop!TypeOK, Loop!Edit
    <3> QED
      BY <1>1, <3>1 DEF SchedulerInv, Loop!TypeOK, Loop!Edit
  <2>2. FingerprintsLag'
    BY <1>1 DEF SchedulerInv, Loop!TypeOK, Loop!Edit, FingerprintsLag
  <2>3. CountsLag' /\ CoversAreMade'
    BY <1>1 DEF SchedulerInv, Loop!Edit, CountsLag, CoversAreMade
  <2> QED
    BY <2>1, <2>2, <2>3 DEF SchedulerInv
<1>2. ASSUME NEW m \in Episode, Loop!Write(m) \/ Loop!Reembed(m) \/ Loop!Age(m)
      PROVE  SchedulerInv'
  <2>1. /\ memories' \in [Episode -> Loop!Row]
        /\ \A n \in Episode : memories'[n].count = memories[n].count
    <3> DEFINE embedded == m \in Loop!Embedded({m})
    <3>1. embedded \in BOOLEAN
      OBVIOUS
    <3> HIDE DEF embedded
    <3>2. PICK old \in Loop!Row : old = memories[m]
      BY DEF SchedulerInv, Loop!TypeOK
    <3>3. /\ memories' = [n \in Episode |-> memories'[n]]
          /\ \A n \in Episode : n # m => memories'[n] = memories[n]
      BY <1>2 DEF SchedulerInv, Loop!TypeOK, Loop!Write, Loop!Reembed, Loop!Age
    <3>4. \/ memories'[m] = [old EXCEPT !.state = "open", !.vector = embedded]
          \/ memories'[m] = [old EXCEPT !.vector = TRUE]
          \/ memories'[m] = [old EXCEPT !.old = TRUE]
      BY <1>2, <3>2 DEF SchedulerInv, Loop!TypeOK, Loop!Write, Loop!Reembed, Loop!Age,
                        embedded
    <3>5. memories'[m] \in Loop!Row /\ memories'[m].count = old.count
      BY <3>1, <3>4 DEF Loop!Row
    <3> QED
      BY <3>2, <3>3, <3>5 DEF SchedulerInv, Loop!TypeOK
  <2>5. UNCHANGED <<registered, tree, loop, indexed, packs, sweeps, month,
                    covered, embedder, trouble>>
    BY <1>2 DEF Loop!Write, Loop!Reembed, Loop!Age
  <2>2. Loop!TypeOK'
    BY <2>1, <2>5 DEF SchedulerInv, Loop!TypeOK
  <2>3. FingerprintsLag'
    BY <2>5 DEF SchedulerInv, FingerprintsLag
  <2>4. CountsLag' /\ CoversAreMade'
    BY <2>1, <2>5 DEF SchedulerInv, CountsLag, CoversAreMade
  <2> QED
    BY <2>2, <2>3, <2>4 DEF SchedulerInv
<1>3. ASSUME NEW m \in Episode, Loop!Serve(m) PROVE SchedulerInv'
  <2>1. /\ packs' = [packs EXCEPT ![m] = @ + 1]
        /\ packs[m] < MaxPacks
        /\ UNCHANGED <<registered, tree, loop, indexed, memories, sweeps, month,
                       covered, embedder, trouble>>
    BY <1>3 DEF Loop!Serve
  <2>2. \A n \in Episode :
            /\ packs[n] \in 0..MaxPacks /\ packs'[n] \in 0..MaxPacks
            /\ packs[n] <= packs'[n]
    BY <2>1 DEF SchedulerInv, Loop!TypeOK
  <2>3. Loop!TypeOK'
    BY <2>1, <2>2 DEF SchedulerInv, Loop!TypeOK
  <2>4. FingerprintsLag' /\ CoversAreMade'
    BY <2>1 DEF SchedulerInv, FingerprintsLag, CoversAreMade
  <2>5. CountsLag'
    BY <2>1, <2>2 DEF SchedulerInv, Loop!TypeOK, Loop!Row, Loop!Sweep, CountsLag
  <2> QED
    BY <2>3, <2>4, <2>5 DEF SchedulerInv
<1>4. CASE Loop!Outage \/ Loop!Recovery \/ Loop!NextMonth
  <2>1. Loop!TypeOK'
    BY <1>4 DEF SchedulerInv, Loop!TypeOK, Loop!Outage, Loop!Recovery, Loop!NextMonth,
                Loop!Trouble
  <2>2. UNCHANGED <<registered, tree, loop, indexed, memories, packs, sweeps, covered>>
    BY <1>4 DEF Loop!Outage, Loop!Recovery, Loop!NextMonth
  <2>3. FingerprintsLag' /\ CountsLag' /\ CoversAreMade'
    BY <2>2 DEF SchedulerInv, FingerprintsLag, CountsLag, CoversAreMade
  <2> QED
    BY <2>1, <2>3 DEF SchedulerInv
<1> QED
  BY <1>1, <1>2, <1>3, <1>4

\* A step of the loop outside the sweep.
LEMMA PollInv ==
    ASSUME SchedulerInv,
           \/ Loop!Bind \/ Loop!BindFails \/ Loop!Poll \/ Loop!Ingest
           \/ Loop!IngestRefused \/ Loop!PassFails \/ Loop!Restart
    PROVE  SchedulerInv'
<1> USE SchedulerConstants
<1>1. UNCHANGED <<tree, memories, packs, month, covered, embedder>>
  BY DEF Loop!Bind, Loop!BindFails, Loop!Poll, Loop!Ingest, Loop!IngestRefused,
        Loop!PassFails, Loop!Restart
<1>2. sweeps' = sweeps \/ sweeps' = [sweeps EXCEPT !["loop"] = NULL]
  BY DEF Loop!Bind, Loop!BindFails, Loop!Poll, Loop!Ingest, Loop!IngestRefused,
        Loop!PassFails, Loop!Restart
<1>3. Loop!TypeOK'
  <2> DEFINE Places == [at : {"starting", "asleep", "polled", "ingested"},
                        kept : {NULL} \cup 0..MaxEdits, seen : 0..MaxEdits]
  <2>1. loop \in Places /\ tree.stat \in 0..MaxEdits /\ tree.text \in 0..MaxEdits
    BY DEF SchedulerInv, Loop!TypeOK
  <2>2. loop' \in Places
    <3>1. CASE Loop!Bind \/ Loop!BindFails \/ Loop!IngestRefused \/ Loop!PassFails
      BY <2>1, <3>1 DEF Loop!Bind, Loop!BindFails, Loop!IngestRefused, Loop!PassFails
    <3>2. CASE Loop!Poll
      BY <2>1, <3>2 DEF Loop!Poll
    <3>3. CASE Loop!Ingest
      BY <2>1, <3>3 DEF Loop!Ingest
    <3>4. CASE Loop!Restart
      BY <3>4 DEF Loop!Restart
    <3> QED
      BY <3>1, <3>2, <3>3, <3>4
  <2>3. indexed' = indexed \/ indexed' = tree.text
    BY DEF Loop!Bind, Loop!BindFails, Loop!Poll, Loop!Ingest, Loop!IngestRefused,
        Loop!PassFails, Loop!Restart
  <2>4. indexed' \in {NULL} \cup 0..MaxEdits
    BY <2>1, <2>3 DEF SchedulerInv, Loop!TypeOK
  <2>5. trouble' = trouble \/ (trouble < MaxTrouble /\ trouble' = trouble + 1)
    <3>1. CASE Loop!Bind \/ Loop!Poll \/ Loop!Ingest \/ Loop!IngestRefused
      BY <3>1 DEF Loop!Bind, Loop!Poll, Loop!Ingest, Loop!IngestRefused
    <3>2. CASE Loop!BindFails \/ Loop!PassFails \/ Loop!Restart
      BY <3>2 DEF Loop!BindFails, Loop!PassFails, Loop!Restart, Loop!Trouble
    <3> QED
      BY <3>1, <3>2
  <2>6. trouble' \in 0..MaxTrouble
    BY <2>5 DEF SchedulerInv, Loop!TypeOK
  <2>7. registered' \in BOOLEAN
    <3>1. registered' = registered \/ registered' = TRUE
      BY DEF Loop!Bind, Loop!BindFails, Loop!Poll, Loop!Ingest, Loop!IngestRefused,
          Loop!PassFails, Loop!Restart
    <3> QED
      BY <3>1 DEF SchedulerInv, Loop!TypeOK
  <2>8. sweeps' \in [Sweeper -> {NULL} \cup Loop!Sweep]
    BY <1>2 DEF SchedulerInv, Loop!TypeOK
  <2> QED
    BY <1>1, <2>2, <2>4, <2>6, <2>7, <2>8 DEF SchedulerInv, Loop!TypeOK
<1>4. FingerprintsLag'
  <2>1. CASE Loop!Restart
    BY <2>1 DEF Loop!Restart, SchedulerInv, Loop!TypeOK, FingerprintsLag
  <2>2. CASE Loop!Bind \/ Loop!BindFails \/ Loop!IngestRefused \/ Loop!PassFails
    BY <2>2 DEF Loop!Bind, Loop!BindFails, Loop!IngestRefused, Loop!PassFails,
                SchedulerInv, Loop!TypeOK, FingerprintsLag
  <2>3. CASE Loop!Poll
    BY <2>3 DEF Loop!Poll, SchedulerInv, Loop!TypeOK, FingerprintsLag
  <2>4. CASE Loop!Ingest
    <3>1. /\ indexed' = tree.text /\ tree' = tree /\ sweeps' = sweeps
          /\ loop'.kept = loop.kept /\ loop'.seen = loop.seen /\ loop'.at = "ingested"
          /\ loop.at = "polled"
      BY <2>4 DEF Loop!Ingest, SchedulerInv, Loop!TypeOK
    <3>2. tree.text \in Nat /\ loop.kept \in {NULL} \cup Nat /\ indexed \in {NULL} \cup Nat
      BY DEF SchedulerInv, Loop!TypeOK
    <3> QED
      BY <3>1, <3>2 DEF SchedulerInv, FingerprintsLag
  <2> QED
    BY <2>1, <2>2, <2>3, <2>4
<1>5. CountsLag' /\ CoversAreMade'
  <2>1. \A s \in Sweeper : sweeps'[s] # NULL => sweeps'[s] = sweeps[s]
    BY <1>2 DEF SchedulerInv, Loop!TypeOK
  <2> QED
    BY <1>1, <2>1 DEF SchedulerInv, CountsLag, CoversAreMade
<1> QED
  BY <1>3, <1>4, <1>5 DEF SchedulerInv

\* The sweep's own steps, but for its end.
LEMMA SweepInv ==
    ASSUME SchedulerInv, NEW s \in Sweeper,
           \/ Loop!Utility(s) \/ Loop!Decay(s) \/ Loop!Backfill(s) \/ Loop!Partitions(s)
    PROVE  SchedulerInv'
<1> USE SchedulerConstants
<1>1. sweeps[s] # NULL
  BY DEF Loop!Utility, Loop!Decay, Loop!Backfill, Loop!Partitions, Loop!Running
<1>2. PICK old \in Loop!Sweep : old = sweeps[s]
  BY <1>1 DEF SchedulerInv, Loop!TypeOK
<1>3. /\ \A m \in Episode :
          /\ packs[m] \in 0..MaxPacks /\ memories[m].count \in 0..MaxPacks
          /\ memories[m].count <= packs[m]
          /\ old.counts[m] # NULL => 0 < old.counts[m] /\ old.counts[m] <= packs[m]
          /\ m \notin old.unused => packs[m] > 0
          /\ m \in old.archives => m \in old.unused
          /\ old.at = "decay" /\ old.counts[m] = NULL /\ memories[m].count = 0
                => m \in old.unused
      /\ old.covers # NULL => old.covers <= MaxMonth + Ahead
      /\ month \in 0..MaxMonth
  BY <1>1, <1>2 DEF SchedulerInv, Loop!TypeOK, Loop!Row, CountsLag, CoversAreMade
<1>4. CASE Loop!Utility(s)
  <2> DEFINE counts == [m \in Episode |->
                          IF memories[m].count # packs[m] THEN packs[m] ELSE NULL]
             changed == [old EXCEPT !.at = "decay", !.counts = counts]
  <2>1. Loop!Done(s, changed)
    BY <1>2, <1>4 DEF Loop!Utility, Loop!After
  <2>2. counts \in [Episode -> {NULL} \cup 0..MaxPacks]
    BY <1>3
  <2>3. changed \in Loop!Sweep
    BY <2>2 DEF Loop!Sweep, Loop!Steps
  <2>4. /\ changed.unused = old.unused /\ changed.archives = old.archives
        /\ changed.covers = old.covers /\ changed.at = "decay"
        /\ changed.counts = counts
    BY DEF Loop!Sweep
  <2>5. \A m \in Episode :
            /\ counts[m] # NULL => 0 < counts[m] /\ counts[m] <= packs[m]
            /\ counts[m] = NULL /\ memories[m].count = 0 => m \in old.unused
    BY <1>3
  <2> HIDE DEF changed, counts
  <2> QED
    BY <1>1, <1>2, <1>3, <2>1, <2>3, <2>4, <2>5, SweepStepInv
<1>5. CASE Loop!Decay(s)
  <2> DEFINE stale == {m \in Episode : /\ memories[m].state = "open"
                                       /\ memories[m].old
                                       /\ Loop!CountSeen(s, m) = 0}
             changed == [old EXCEPT !.at = "embeddings", !.archives = stale]
  <2>1. Loop!Done(s, changed) /\ old.at = "decay"
    BY <1>2, <1>5 DEF Loop!Decay, Loop!After, Loop!Running
  <2>2. changed \in Loop!Sweep
    BY DEF Loop!Sweep, Loop!Steps
  <2>3. /\ changed.unused = old.unused /\ changed.archives = stale
        /\ changed.covers = old.covers /\ changed.at = "embeddings"
        /\ changed.counts = old.counts
    BY DEF Loop!Sweep
  <2>4. \A m \in stale : m \in old.unused
    BY <1>2, <1>3, <2>1 DEF Loop!CountSeen
  <2> HIDE DEF changed, stale
  <2> QED
    BY <1>1, <1>2, <1>3, <2>1, <2>2, <2>3, <2>4, SweepStepInv
<1>6. CASE Loop!Backfill(s)
  <2> DEFINE missing == {m \in Episode : /\ memories[m].state = "open"
                                         /\ ~memories[m].vector
                                         /\ m \notin old.archives}
             changed == [old EXCEPT !.at = "partitions",
                                    !.embeds = Loop!Embedded(missing)]
  <2>1. Loop!Done(s, changed)
    BY <1>2, <1>6 DEF Loop!Backfill, Loop!After
  <2>2. Loop!Embedded(missing) \in SUBSET Episode
    BY DEF Loop!Embedded
  <2>3. changed \in Loop!Sweep
    BY <2>2 DEF Loop!Sweep, Loop!Steps
  <2>4. /\ changed.unused = old.unused /\ changed.archives = old.archives
        /\ changed.covers = old.covers /\ changed.at = "partitions"
        /\ changed.counts = old.counts
    BY DEF Loop!Sweep
  <2> HIDE DEF changed, missing
  <2> QED
    BY <1>1, <1>2, <1>3, <2>1, <2>3, <2>4, SweepStepInv
<1>7. CASE Loop!Partitions(s)
  <2> DEFINE changed == [old EXCEPT !.at = "end", !.covers = month + Ahead]
  <2>1. Loop!Done(s, changed)
    BY <1>2, <1>7 DEF Loop!Partitions, Loop!After
  <2>2. month + Ahead \in Nat /\ month + Ahead <= MaxMonth + Ahead /\ month + Ahead # NULL
    BY <1>3
  <2>3. changed \in Loop!Sweep
    BY <2>2 DEF Loop!Sweep, Loop!Steps
  <2>4. /\ changed.unused = old.unused /\ changed.archives = old.archives
        /\ changed.covers = month + Ahead /\ changed.at = "end"
        /\ changed.counts = old.counts
    BY DEF Loop!Sweep
  <2> HIDE DEF changed
  <2> QED
    BY <1>1, <1>2, <1>3, <2>1, <2>2, <2>3, <2>4, SweepStepInv
<1> QED
  BY <1>4, <1>5, <1>6, <1>7

\* A sweep begins.
LEMMA BeginSweepInv ==
    ASSUME SchedulerInv, NEW s \in Sweeper, Loop!BeginSweep(s)
    PROVE  SchedulerInv'
<1> USE SchedulerConstants
<1> DEFINE first == [at |-> "utility", broken |-> FALSE,
                     counts |-> [m \in Episode |-> NULL], archives |-> {},
                     embeds |-> {}, covers |-> NULL,
                     unused |-> {m \in Episode : packs[m] = 0}]
<1>1. /\ sweeps' = [sweeps EXCEPT ![s] = first]
      /\ s = "loop" => loop.at = "ingested"
      /\ UNCHANGED <<registered, tree, loop, indexed, memories, packs, month,
                     covered, embedder, trouble>>
  BY DEF Loop!BeginSweep, Loop!After
<1>2. first \in Loop!Sweep
  BY DEF Loop!Sweep, Loop!Steps
<1>3. /\ first.at = "utility" /\ first.covers = NULL /\ first.archives = {}
      /\ \A m \in Episode : first.counts[m] = NULL /\ (m \notin first.unused => packs[m] > 0)
  BY DEF SchedulerInv, Loop!TypeOK
<1> HIDE DEF first
<1>4. Loop!TypeOK'
  BY <1>1, <1>2 DEF SchedulerInv, Loop!TypeOK
<1>5. FingerprintsLag'
  BY <1>1 DEF SchedulerInv, Loop!TypeOK, FingerprintsLag
<1>6. CountsLag'
  BY <1>1, <1>3 DEF SchedulerInv, Loop!TypeOK, CountsLag
<1>7. CoversAreMade'
  BY <1>1, <1>3 DEF SchedulerInv, Loop!TypeOK, CoversAreMade
<1> QED
  BY <1>4, <1>5, <1>6, <1>7 DEF SchedulerInv

\* A sweep ends: its process keeps the fingerprint it took before it ingested.
SweepEnds(s) ==
    /\ sweeps' = [sweeps EXCEPT ![s] = NULL]
    /\ loop' = Loop!Slept(s)
    /\ sweeps[s] # NULL
    /\ UNCHANGED <<tree, indexed>>

LEMMA SweepEndsFingerprints ==
    ASSUME SchedulerInv, NEW s \in Sweeper, SweepEnds(s)
    PROVE  /\ FingerprintsLag'
           /\ sweeps' \in [Sweeper -> {NULL} \cup Loop!Sweep]
           /\ loop' \in [at : {"starting", "asleep", "polled", "ingested"},
                         kept : {NULL} \cup 0..MaxEdits, seen : 0..MaxEdits]
<1> USE SchedulerConstants
<1> DEFINE Places == [at : {"starting", "asleep", "polled", "ingested"},
                      kept : {NULL} \cup 0..MaxEdits, seen : 0..MaxEdits]
<1>1. loop \in Places
  BY DEF SchedulerInv, Loop!TypeOK
<1>2. loop' \in Places
  BY <1>1 DEF SweepEnds, Loop!Slept
<1>3. sweeps' \in [Sweeper -> {NULL} \cup Loop!Sweep]
  BY DEF SweepEnds, SchedulerInv, Loop!TypeOK
<1>4. CASE s = "loop"
  <2>1. /\ loop'.at = "asleep" /\ loop'.kept = loop.seen /\ loop'.seen = loop.seen
        /\ tree' = tree /\ indexed' = indexed
        /\ sweeps'["loop"] = NULL /\ sweeps["loop"] # NULL
    BY <1>1, <1>4 DEF SweepEnds, Loop!Slept, SchedulerInv, Loop!TypeOK
  <2>2. FingerprintsLag'
    BY <1>1, <2>1 DEF SchedulerInv, FingerprintsLag
  <2> QED
    BY <1>2, <1>3, <2>2
<1>5. CASE s # "loop"
  <2>1. loop' = loop /\ tree' = tree /\ indexed' = indexed /\ sweeps'["loop"] = sweeps["loop"]
    BY <1>5 DEF SweepEnds, Loop!Slept, SchedulerInv, Loop!TypeOK
  <2>2. FingerprintsLag'
    BY <2>1 DEF SchedulerInv, FingerprintsLag
  <2> QED
    BY <1>2, <1>3, <2>2
<1> QED
  BY <1>4, <1>5

\* A statement fails, or an aborted transaction is given up.
LEMMA BrokenSweepInv ==
    ASSUME SchedulerInv, NEW s \in Sweeper, Loop!Break(s) \/ Loop!LoseSweep(s)
    PROVE  SchedulerInv'
<1> USE SchedulerConstants
<1>1. CASE Loop!Break(s)
  <2>1. PICK old \in Loop!Sweep : old = sweeps[s] /\ sweeps[s] # NULL
    BY <1>1 DEF SchedulerInv, Loop!TypeOK, Loop!Break
  <2> DEFINE broken == [old EXCEPT !.broken = TRUE, !.at = "end"]
  <2>2. /\ sweeps'[s] = broken
        /\ \A o \in Sweeper : o # s => sweeps'[o] = sweeps[o]
        /\ sweeps' = [o \in Sweeper |-> sweeps'[o]]
        /\ UNCHANGED <<registered, tree, loop, indexed, memories, packs, month,
                       covered, embedder>>
    BY <1>1, <2>1 DEF Loop!Break, SchedulerInv, Loop!TypeOK
  <2>3. /\ broken \in Loop!Sweep /\ broken.at = "end" /\ broken.broken
        /\ broken.unused = old.unused /\ broken.archives = old.archives
        /\ broken.covers = old.covers /\ broken.counts = old.counts
    BY DEF Loop!Sweep, Loop!Steps
  <2> HIDE DEF broken
  <2>4. trouble' \in 0..MaxTrouble
    BY <1>1 DEF Loop!Break, Loop!Trouble, SchedulerInv, Loop!TypeOK
  <2>8. sweeps' \in [Sweeper -> {NULL} \cup Loop!Sweep]
    BY <2>2, <2>3 DEF SchedulerInv, Loop!TypeOK
  <2>9. Loop!TypeOK'
    BY <2>2, <2>4, <2>8 DEF SchedulerInv, Loop!TypeOK
  <2>5. FingerprintsLag'
    BY <2>1, <2>2 DEF SchedulerInv, FingerprintsLag
  <2>6. CountsLag'
    BY <2>1, <2>2, <2>3 DEF SchedulerInv, CountsLag
  <2>7. CoversAreMade'
    BY <2>1, <2>2, <2>3 DEF SchedulerInv, CoversAreMade
  <2> QED
    BY <2>5, <2>6, <2>7, <2>9 DEF SchedulerInv
<1>2. CASE Loop!LoseSweep(s)
  <2>1. /\ sweeps' = [sweeps EXCEPT ![s] = NULL]
        /\ loop' = Loop!Slept(s)
        /\ sweeps[s] # NULL
        /\ UNCHANGED <<registered, tree, indexed, memories, packs, month, covered,
                       embedder, trouble>>
    BY <1>2 DEF Loop!LoseSweep
  <2>2. SweepEnds(s)
    BY <2>1 DEF SweepEnds
  <2>3. Loop!TypeOK' /\ FingerprintsLag'
    BY <2>1, <2>2, SweepEndsFingerprints DEF SchedulerInv, Loop!TypeOK
  <2>4. CountsLag' /\ CoversAreMade'
    <3>1. \A o \in Sweeper : sweeps'[o] # NULL => sweeps'[o] = sweeps[o]
      BY <2>1 DEF SchedulerInv, Loop!TypeOK
    <3> QED
      BY <2>1, <3>1 DEF SchedulerInv, CountsLag, CoversAreMade
  <2> QED
    BY <2>3, <2>4 DEF SchedulerInv
<1> QED
  BY <1>1, <1>2

\* A sweep commits.
LEMMA CommitSweepInv ==
    ASSUME SchedulerInv, NEW s \in Sweeper, Loop!CommitSweep(s)
    PROVE  SchedulerInv'
<1> USE SchedulerConstants
<1>1. PICK old \in Loop!Sweep : old = sweeps[s] /\ sweeps[s] # NULL
  BY DEF SchedulerInv, Loop!TypeOK, Loop!CommitSweep, Loop!Running
<1>2. /\ sweeps' = [sweeps EXCEPT ![s] = NULL]
      /\ loop' = Loop!Slept(s)
      /\ UNCHANGED <<registered, tree, indexed, packs, month, embedder, trouble>>
      /\ old.at = "end" /\ ~old.broken
      /\ covered' = IF old.covers > covered THEN old.covers ELSE covered
  BY <1>1 DEF Loop!CommitSweep, Loop!Running
<1>5. memories' = [m \in Episode |->
                    [memories[m] EXCEPT
                        !.count  = Loop!CountSeen(s, m),
                        !.state  = IF m \in old.archives THEN "archived" ELSE @,
                        !.vector = @ \/ m \in old.embeds]]
  BY <1>1 DEF Loop!CommitSweep
<1>3. Loop!TypeOK' /\ FingerprintsLag'
  <2>1. SweepEnds(s)
    BY <1>1, <1>2 DEF SweepEnds
  <2>2. \A m \in Episode : memories'[m] \in Loop!Row
    <3> SUFFICES ASSUME NEW m \in Episode PROVE memories'[m] \in Loop!Row
      OBVIOUS
    <3> DEFINE vector == memories[m].vector \/ m \in old.embeds
               state == IF m \in old.archives THEN "archived" ELSE memories[m].state
               count == Loop!CountSeen(s, m)
    <3>1. vector \in BOOLEAN
      OBVIOUS
    <3>2. memories[m] \in Loop!Row
      BY DEF SchedulerInv, Loop!TypeOK
    <3>3. state \in {"unwritten", "open", "archived"}
      BY <3>2 DEF Loop!Row
    <3>4. count \in 0..MaxPacks
      BY <1>1, <3>2 DEF Loop!CountSeen, Loop!Row, Loop!Sweep
    <3>5. memories'[m] = [memories[m] EXCEPT !.count = count, !.state = state,
                                             !.vector = vector]
      BY <1>5
    <3> HIDE DEF vector, state, count
    <3> QED
      BY <3>1, <3>2, <3>3, <3>4, <3>5 DEF Loop!Row
  <2>3. memories' \in [Episode -> Loop!Row]
    BY <1>5, <2>2
  <2>4. covered' \in 0..(MaxMonth + Ahead)
    <3>1. old.covers \in Nat /\ old.covers <= MaxMonth + Ahead
      BY <1>1, <1>2 DEF SchedulerInv, CoversAreMade, Loop!Sweep
    <3>2. covered \in 0..(MaxMonth + Ahead)
      BY DEF SchedulerInv, Loop!TypeOK
    <3>3. covered' = old.covers \/ covered' = covered
      BY <1>2
    <3> QED
      BY <3>1, <3>2, <3>3
  <2> QED
    BY <1>2, <2>1, <2>3, <2>4, SweepEndsFingerprints DEF SchedulerInv, Loop!TypeOK
<1>4. CountsLag' /\ CoversAreMade'
  <2>1. \A o \in Sweeper : sweeps'[o] # NULL => sweeps'[o] = sweeps[o]
    BY <1>2 DEF SchedulerInv, Loop!TypeOK
  <2>2. \A m \in Episode :
            /\ memories'[m].count <= packs'[m]
            /\ memories'[m].count = 0 => memories[m].count = 0
    <3> SUFFICES ASSUME NEW m \in Episode
                 PROVE  /\ memories'[m].count <= packs'[m]
                        /\ memories'[m].count = 0 => memories[m].count = 0
      OBVIOUS
    <3>1. memories'[m].count = Loop!CountSeen(s, m)
      BY <1>5 DEF SchedulerInv, Loop!TypeOK, Loop!Row
    <3>2. /\ memories[m].count <= packs[m]
          /\ old.counts[m] # NULL => 0 < old.counts[m] /\ old.counts[m] <= packs[m]
          /\ old.counts[m] \in {NULL} \cup 0..MaxPacks
      BY <1>1 DEF SchedulerInv, CountsLag, Loop!Sweep
    <3>3. packs'[m] = packs[m]
      BY <1>2
    <3> QED
      BY <1>1, <3>1, <3>2, <3>3 DEF Loop!CountSeen
  <2>3. CountsLag'
    <3>1. packs' = packs
      BY <1>2
    <3>4. CountsLag
      BY DEF SchedulerInv
    <3>2. \A m \in Episode : memories'[m].count <= packs'[m]
      BY <2>2
    <3>3. ASSUME NEW o \in Sweeper, NEW m \in Episode, sweeps'[o] # NULL
          PROVE  /\ sweeps'[o].counts[m] # NULL =>
                       0 < sweeps'[o].counts[m] /\ sweeps'[o].counts[m] <= packs'[m]
                 /\ m \notin sweeps'[o].unused => packs'[m] > 0
                 /\ m \in sweeps'[o].archives => m \in sweeps'[o].unused
                 /\ sweeps'[o].at = "decay" /\ sweeps'[o].counts[m] = NULL
                       /\ memories'[m].count = 0
                    => m \in sweeps'[o].unused
      <4> DEFINE sweep == sweeps[o]
      <4>1. sweeps'[o] = sweep /\ sweep # NULL
        BY <2>1, <3>3
      <4>2. /\ sweep.counts[m] # NULL => 0 < sweep.counts[m] /\ sweep.counts[m] <= packs'[m]
            /\ m \notin sweep.unused => packs'[m] > 0
            /\ m \in sweep.archives => m \in sweep.unused
            /\ sweep.at = "decay" /\ sweep.counts[m] = NULL /\ memories[m].count = 0
                 => m \in sweep.unused
        <5>1. packs'[m] = packs[m]
          BY <3>1
        <5> QED
          BY <3>4, <4>1, <5>1 DEF CountsLag
      <4>3. memories'[m].count = 0 => memories[m].count = 0
        BY <2>2
      <4> HIDE DEF sweep
      <4> QED
        BY <4>1, <4>2, <4>3
    <3> QED
      BY <3>2, <3>3 DEF CountsLag
  <2>4. CoversAreMade'
    BY <2>1 DEF SchedulerInv, CoversAreMade
  <2> QED
    BY <2>3, <2>4
<1> QED
  BY <1>3, <1>4 DEF SchedulerInv

\* Every step of the scheduler preserves the invariant.
LEMMA SchedulerStepInv ==
    ASSUME SchedulerInv, [Loop!Next]_Loop!schedulerVars PROVE SchedulerInv'
<1>1. CASE UNCHANGED Loop!schedulerVars
  BY <1>1 DEF Loop!schedulerVars, SchedulerInv, Loop!TypeOK, FingerprintsLag, CountsLag,
              CoversAreMade
<1>2. ASSUME NEW s \in Sweeper, Loop!SweepSteps(s) \/ Loop!Break(s) PROVE SchedulerInv'
  BY <1>2, BeginSweepInv, SweepInv, CommitSweepInv, BrokenSweepInv DEF Loop!SweepSteps
<1> QED
  BY <1>1, <1>2, WorldInv, PollInv DEF Loop!Next

LEMMA SchedulerInvariant == Loop!Spec => []SchedulerInv
BY SchedulerStarts, SchedulerStepInv, PTL DEF Loop!Spec

\* Types of the scheduler.
THEOREM SchedulerTypeCorrect == Loop!Spec => []Loop!TypeOK
BY SchedulerInvariant, PTL DEF SchedulerInv

\* When the loop finds nothing to do, the index holds the tree, or the last edit
\* did not show (worker._poll_once): for any tree, restarts and failing passes.
THEOREM QuietMeansTheIndexIsTheTree == Loop!Spec => []QuietMeansCurrent
<1>1. SchedulerInv => QuietMeansCurrent
  <2> SUFFICES ASSUME SchedulerInv, Loop!Quiet, tree.shows
               PROVE  indexed = tree.text
    BY DEF QuietMeansCurrent, Loop!QuietMeansCurrent
  <2>1. /\ tree.stat = tree.text /\ loop.kept = tree.stat
        /\ tree.text \in Nat /\ indexed \in {NULL} \cup Nat
    BY SchedulerConstants DEF SchedulerInv, FingerprintsLag, Loop!Quiet, Loop!TypeOK
  <2> QED
    BY <2>1, SchedulerConstants DEF SchedulerInv, FingerprintsLag
<1> QED
  BY <1>1, SchedulerInvariant, PTL

\* What decay archives was in no pack when its sweep began
\* (maintenance.recompute_utility before maintenance.decay, in one transaction).
THEOREM DecayArchivesWhatNobodyUsed == Loop!Spec => DecayedWereUnused
<1> DEFINE Unused == \A m \in Episode, s \in Sweeper :
        memories[m].state = "open" /\ memories'[m].state = "archived"
            /\ sweeps[s] # NULL /\ sweeps'[s] = NULL
        => m \in sweeps[s].unused
<1>1. ASSUME SchedulerInv, SchedulerInv', [Loop!Next]_Loop!schedulerVars PROVE Unused
  <2> SUFFICES ASSUME NEW m \in Episode, NEW s \in Sweeper,
                      memories[m].state = "open", memories'[m].state = "archived",
                      sweeps[s] # NULL, sweeps'[s] = NULL
               PROVE  m \in sweeps[s].unused
    OBVIOUS
  <2>1. PICK o \in Sweeper : Loop!CommitSweep(o)
    <3>1. ASSUME NEW shows \in BOOLEAN, Loop!Edit(shows) PROVE FALSE
      BY <3>1 DEF Loop!Edit
    <3>2. ASSUME NEW n \in Episode,
                 Loop!Write(n) \/ Loop!Reembed(n) \/ Loop!Age(n) \/ Loop!Serve(n)
          PROVE  FALSE
      BY <3>2 DEF Loop!Write, Loop!Reembed, Loop!Age, Loop!Serve
    <3>3. CASE \/ Loop!Outage \/ Loop!Recovery \/ Loop!NextMonth \/ Loop!Bind
               \/ Loop!BindFails \/ Loop!Poll \/ Loop!Ingest \/ Loop!IngestRefused
               \/ Loop!PassFails \/ Loop!Restart \/ UNCHANGED Loop!schedulerVars
      BY <3>3 DEF Loop!Outage, Loop!Recovery, Loop!NextMonth, Loop!Bind, Loop!BindFails,
           Loop!Poll, Loop!Ingest, Loop!IngestRefused, Loop!PassFails, Loop!Restart,
           Loop!schedulerVars
    <3>4. ASSUME NEW o \in Sweeper,
                 \/ Loop!BeginSweep(o) \/ Loop!Utility(o) \/ Loop!Decay(o)
                 \/ Loop!Backfill(o) \/ Loop!Partitions(o) \/ Loop!LoseSweep(o)
                 \/ Loop!Break(o)
          PROVE  FALSE
      BY <3>4 DEF Loop!BeginSweep, Loop!Utility, Loop!Decay, Loop!Backfill,
           Loop!Partitions, Loop!LoseSweep, Loop!Break, Loop!Done
    <3>5. \A o \in Sweeper : Loop!SweepSteps(o) \/ Loop!Break(o) => Loop!CommitSweep(o)
      BY <3>4 DEF Loop!SweepSteps
    <3>6. Loop!Next \/ UNCHANGED Loop!schedulerVars
      BY <1>1
    <3>7. CASE Loop!Next
      BY <3>1, <3>2, <3>3, <3>5, <3>7 DEF Loop!Next
    <3> QED
      BY <3>3, <3>6, <3>7
  <2>2. /\ sweeps' = [sweeps EXCEPT ![o] = NULL]
        /\ memories'[m].state = IF m \in sweeps[o].archives THEN "archived"
                                ELSE memories[m].state
    <3>1. memories[m] \in Loop!Row
      BY <1>1 DEF SchedulerInv, Loop!TypeOK
    <3> QED
      BY <2>1, <3>1 DEF Loop!CommitSweep, Loop!Row
  <2>3. s = o
    BY <1>1, <2>2 DEF SchedulerInv, Loop!TypeOK
  <2>4. m \in sweeps[s].archives
    BY <2>2, <2>3
  <2>5. CountsLag
    BY <1>1 DEF SchedulerInv
  <2> QED
    BY <2>4, <2>5 DEF CountsLag
<1>2. SchedulerInv /\ SchedulerInv' /\ [Loop!Next]_Loop!schedulerVars
        => [Unused]_Loop!schedulerVars
  BY <1>1
<1>3. DecayedWereUnused <=> [][Unused]_Loop!schedulerVars
  BY DEF DecayedWereUnused, Loop!DecayedWereUnused
<1> QED
  BY <1>2, <1>3, SchedulerInvariant, PTL DEF Loop!Spec
-----------------------------------------------------------------------------
(***************************************************************************)
(* GitIngest.                                                              *)
(***************************************************************************)
\* The history: a commit's parent is older.
History ==
    /\ commits \in Seq([parent : 0..MaxCommits, tree : Git!Tree])
    /\ Len(commits) <= MaxCommits
    /\ \A n \in 1..Len(commits) : commits[n].parent < n

LEMMA GitConstants ==
    /\ NULL \notin Text
    /\ NULL \notin Nat
    /\ MaxCommits \in Nat \ {0}
    /\ MaxPasses \in Nat
    /\ Root \in Git!Tree
    /\ \A m, n \in 1..Len(Files) : Files[m] = Files[n] => m = n
BY UnattendedAssumption DEF UnattendedAssumption, Git!GitIngestAssumption, Loop!SchedulerAssumption

LEMMA OlderParents ==
    ASSUME History
    PROVE  /\ Len(commits) \in Nat
           /\ \A n \in 1..Len(commits) :
                /\ commits[n].parent \in Nat /\ commits[n].parent < n
                /\ commits[n].tree \in Git!Tree
<1>1. Len(commits) \in Nat
  BY DEF History
<1>2. ASSUME NEW n \in 1..Len(commits)
      PROVE  commits[n].parent \in Nat /\ commits[n].parent < n /\ commits[n].tree \in Git!Tree
  <2>1. commits[n] \in [parent : 0..MaxCommits, tree : Git!Tree]
    BY ElementOfSeq DEF History
  <2> QED
    BY <2>1, GitConstants DEF History
<1> QED
  BY <1>1, <1>2

\* What the last touch of p in commit n is, if f has it for the earlier commits.
Touch(f, n, p) ==
    LET up == commits[n].parent
    IN  IF up = 0 THEN (IF commits[n].tree[p] = NULL THEN NULL ELSE n)
        ELSE IF commits[n].tree[p] # commits[up].tree[p] THEN n
        ELSE f[up]

\* git log -1 finds a commit for every path and every commit to start from.
LEMMA TouchExists ==
    ASSUME History, NEW p
    PROVE  \E f : f = [n \in 1..Len(commits) |-> Touch(f, n, p)]
<1>1. /\ Len(commits) \in Nat
      /\ \A n \in 1..Len(commits) : commits[n].parent \in Nat /\ commits[n].parent < n
  BY OlderParents
<1> DEFINE Missing == {k \in 0..Len(commits) : ~\E f : f = [n \in 1..k |-> Touch(f, n, p)]}
<1>2. SUFFICES ASSUME Missing # {} PROVE FALSE
  BY <1>1
<1>3. PICK k \in Missing : \A l \in Missing : k <= l
  <2>1. Missing \subseteq Nat
    BY <1>1
  <2> HIDE DEF Missing
  <2> QED
    BY <1>2, <2>1, LeastOf
<1>4. k # 0
  <2>1. ASSUME k = 0 PROVE FALSE
    <3> DEFINE none == [n \in {} |-> 0]
    <3>1. none = [n \in 1..0 |-> Touch(none, n, p)]
      OBVIOUS
    <3> QED
      BY <1>3, <2>1, <3>1
  <2> QED
    BY <2>1
<1>5. k - 1 \in 0..Len(commits) /\ k - 1 \notin Missing /\ k \in 1..Len(commits)
  BY <1>1, <1>3, <1>4
<1>6. PICK f : f = [n \in 1..(k - 1) |-> Touch(f, n, p)]
  BY <1>5
<1> DEFINE g == [n \in 1..k |-> IF n = k THEN Touch(f, k, p) ELSE f[n]]
<1>7. \A n \in 1..k : g[n] = Touch(g, n, p)
  <2> TAKE n \in 1..k
  <2>1. n \in 1..Len(commits)
    BY <1>1, <1>5
  <2>2. commits[n].parent # 0 => commits[n].parent \in 1..(k - 1) /\ commits[n].parent \in 1..k /\ commits[n].parent # k
    BY <1>1, <1>5, <2>1
  <2>3. commits[n].parent # 0 => g[commits[n].parent] = f[commits[n].parent]
    BY <2>2
  <2>4. Touch(g, n, p) = Touch(f, n, p)
    BY <2>3 DEF Touch
  <2>5. n # k => n \in 1..(k - 1)
    BY <1>5
  <2>6. n # k => f[n] = Touch(f, n, p)
    BY <1>6, <2>5
  <2> QED
    BY <2>4, <2>6
<1>8. g = [n \in 1..k |-> Touch(g, n, p)]
  <2> HIDE DEF g
  <2>1. g = [n \in 1..k |-> g[n]]
    BY DEF g
  <2> QED
    BY <1>7, <2>1
<1> QED
  BY <1>3, <1>8

\* The commit git names for a path has the path as the commit it was asked about.
LEMMA LastTouchHas ==
    ASSUME History, NEW c \in 1..Len(commits), NEW p \in Git!Path
    PROVE  LET found == Git!LastTouch(c, p)
           IN  /\ found \in {NULL} \cup 1..Len(commits)
               /\ IF found = NULL THEN commits[c].tree[p] = NULL
                  ELSE commits[found].tree[p] = commits[c].tree[p]
<1>1. /\ Len(commits) \in Nat
      /\ \A n \in 1..Len(commits) : commits[n].parent \in Nat /\ commits[n].parent < n
  BY OlderParents
<1> DEFINE touch == CHOOSE f : f = [n \in 1..Len(commits) |-> Touch(f, n, p)]
<1>2. Git!LastTouch(c, p) = touch[c]
  BY DEF Git!LastTouch, Touch
<1>3. touch = [n \in 1..Len(commits) |-> Touch(touch, n, p)]
  BY TouchExists
<1> HIDE DEF touch
<1>4. \A n \in 1..Len(commits) : touch[n] = Touch(touch, n, p)
  BY <1>3
<1> DEFINE Good(n) == /\ touch[n] \in {NULL} \cup 1..Len(commits)
                      /\ IF touch[n] = NULL THEN commits[n].tree[p] = NULL
                         ELSE commits[touch[n]].tree[p] = commits[n].tree[p]
           Bad == {n \in 1..Len(commits) : ~Good(n)}
<1>5. Bad = {}
  <2>1. SUFFICES ASSUME Bad # {} PROVE FALSE
    OBVIOUS
  <2>2. PICK n \in Bad : \A m \in Bad : n <= m
    <3>1. Bad \subseteq Nat
      BY <1>1
    <3> HIDE DEF Bad
    <3> QED
      BY <2>1, <3>1, LeastOf
  <2>3. n \in 1..Len(commits) /\ ~Good(n)
    BY <2>2
  <2> DEFINE up == commits[n].parent
  <2>4. up \in Nat /\ up < n
    BY <1>1, <2>3
  <2>5. up # 0 => up \in 1..Len(commits) /\ Good(up)
    BY <1>1, <2>2, <2>3, <2>4
  <2>6. touch[n] = Touch(touch, n, p)
    BY <1>4, <2>3
  <2>7. Good(n)
    <3>1. CASE up = 0
      BY <1>1, <2>3, <2>6, <3>1, GitConstants DEF Touch
    <3>2. CASE up # 0 /\ commits[n].tree[p] # commits[up].tree[p]
      BY <1>1, <2>3, <2>6, <3>2, GitConstants DEF Touch
    <3>3. CASE up # 0 /\ commits[n].tree[p] = commits[up].tree[p]
      <4>1. touch[n] = touch[up]
        BY <2>6, <3>3 DEF Touch
      <4> QED
        BY <2>5, <3>3, <4>1
    <3> QED
      BY <3>1, <3>2, <3>3
  <2> QED
    BY <2>3, <2>7
<1>6. Good(c)
  BY <1>5
<1> QED
  BY <1>2, <1>6

\* Where a row says a job found its text, that commit has it.
Resolves(stored, id) ==
    stored # NULL /\ stored.by = "job" =>
        /\ stored.sha \in 1..Len(commits)
        /\ commits[stored.sha].tree[stored.uri] = id[2]

\* What a job has read is in its commit.
JobReadsItsCommit ==
    pass["job"] # NULL =>
        /\ pass["job"].ref \in 1..Len(commits)
        /\ pass["job"].text # NULL =>
                /\ Git!At("job") \in Git!Path
                /\ commits[pass["job"].ref].tree[Git!At("job")] = pass["job"].text

\* What is written and what is about to be.
RowsResolve ==
    /\ \A id \in Git!Id : Resolves(rows[id], id)
    /\ \A r \in Git!Reader : pass[r] # NULL =>
        \A id \in Git!Id : Resolves(pass[r].mine[id], id)

ReadersHaveAFile ==
    \A r \in Git!Reader : pass[r] # NULL /\ pass[r].text # NULL => pass[r].todo # {}

GitInv == Git!TypeOK /\ History /\ JobReadsItsCommit /\ RowsResolve /\ ReadersHaveAFile

LEMMA GitStarts == Git!Init => GitInv
<1> SUFFICES ASSUME Git!Init PROVE GitInv
  OBVIOUS
<1> USE GitConstants
<1>1. History /\ head \in 1..Len(commits)
  <2> DEFINE first == [parent |-> 0, tree |-> Root]
  <2>1. first \in [parent : 0..MaxCommits, tree : Git!Tree] /\ first.parent = 0
    OBVIOUS
  <2>2. commits = <<first>> /\ head = 1
    BY DEF Git!Init
  <2> HIDE DEF first
  <2> QED
    BY <2>1, <2>2 DEF History
<1>2. Git!TypeOK
  <2>1. commits \in Seq([parent : 0..MaxCommits, tree : Git!Tree])
    BY <1>1 DEF History
  <2>2. work \in Git!Tree /\ bound \in BOOLEAN /\ passes \in 0..MaxPasses
    BY DEF Git!Init
  <2>3. rows \in Git!Rows /\ pass \in [Git!Reader -> Git!Pass \cup {NULL}]
    BY DEF Git!Init, Git!Rows
  <2> QED
    BY <1>1, <2>1, <2>2, <2>3 DEF Git!TypeOK
<1>3. JobReadsItsCommit /\ RowsResolve /\ ReadersHaveAFile
  BY DEF Git!Init, JobReadsItsCommit, RowsResolve, ReadersHaveAFile, Resolves, Git!Reader
<1> QED
  BY <1>1, <1>2, <1>3 DEF GitInv

\* The next file is one of those to come.
LEMMA NextFile ==
    ASSUME NEW todo \in SUBSET Git!Path, todo # {}
    PROVE  (CHOOSE p \in todo : \A q \in todo : Git!Position(p) <= Git!Position(q)) \in todo
<1>1. \A p \in Git!Path : Git!Position(p) \in 1..Len(Files) /\ Files[Git!Position(p)] = p
  BY DEF Git!Path, Git!Position
<1> DEFINE Places == {Git!Position(p) : p \in todo}
<1>2. PICK x \in Places : \A y \in Places : x <= y
  <2>1. Places \subseteq Nat /\ Places # {}
    BY <1>1
  <2> HIDE DEF Places
  <2> QED
    BY <2>1, LeastOf
<1>3. \E p \in todo : \A q \in todo : Git!Position(p) <= Git!Position(q)
  BY <1>2
<1> QED
  BY <1>3

\* People edit, commit, switch branches and register the project elsewhere: the
\* commits there are stay.
LEMMA RepositoryInv ==
    ASSUME GitInv,
           \/ \E p \in Git!Path, text \in Text \cup {NULL} : Git!Edit(p, text)
           \/ Git!CommitWork
           \/ \E c \in Git!Commit : Git!Checkout(c)
           \/ Git!Repoint
    PROVE  GitInv'
<1> USE GitConstants
<1>1. UNCHANGED <<rows, pass, passes>>
  BY DEF Git!Edit, Git!CommitWork, Git!Checkout, Git!Repoint, Git!repository
<1>2. CASE commits' = commits
  <2>1. head' \in 1..Len(commits) /\ work' \in Git!Tree /\ bound' \in BOOLEAN
    <3>1. ASSUME NEW p \in Git!Path, NEW text \in Text \cup {NULL}, Git!Edit(p, text)
          PROVE  head' \in 1..Len(commits) /\ work' \in Git!Tree /\ bound' \in BOOLEAN
      BY <3>1 DEF Git!Edit, GitInv, Git!TypeOK, Git!Tree
    <3>2. ASSUME NEW c \in Git!Commit, Git!Checkout(c)
          PROVE  head' \in 1..Len(commits) /\ work' \in Git!Tree /\ bound' \in BOOLEAN
      <4>1. commits[c].tree \in Git!Tree
        BY <3>2, OlderParents DEF Git!Checkout, GitInv
      <4> QED
        BY <3>2, <4>1 DEF Git!Checkout, GitInv, Git!TypeOK
    <3>3. CASE Git!Repoint
      BY <3>3 DEF Git!Repoint, Git!repository, GitInv, Git!TypeOK
    <3>4. CASE Git!CommitWork
      <4>1. FALSE
        <5>1. Len(commits') = Len(commits) + 1
          BY <3>4 DEF Git!CommitWork, GitInv, Git!TypeOK
        <5> QED
          BY <1>2, <5>1 DEF GitInv, Git!TypeOK
      <4> QED
        BY <4>1
    <3> QED
      BY <3>1, <3>2, <3>3, <3>4
  <2>2. Git!TypeOK'
    BY <1>1, <1>2, <2>1 DEF GitInv, Git!TypeOK
  <2>3. History'
    BY <1>2 DEF GitInv, History
  <2>4. JobReadsItsCommit'
    BY <1>1, <1>2 DEF GitInv, JobReadsItsCommit, Git!At
  <2>5. RowsResolve' /\ ReadersHaveAFile'
    BY <1>1, <1>2 DEF GitInv, RowsResolve, ReadersHaveAFile, Resolves
  <2> QED
    BY <2>2, <2>3, <2>4, <2>5 DEF GitInv
<1>3. CASE Git!CommitWork
  <2> DEFINE Made == [parent : 0..MaxCommits, tree : Git!Tree]
             new == [parent |-> head, tree |-> work]
  <2>1. commits \in Seq(Made) /\ head \in 1..Len(commits) /\ Len(commits) < MaxCommits
        /\ Len(commits) \in Nat
    BY <1>3 DEF GitInv, Git!TypeOK, Git!CommitWork
  <2>2. new \in Made /\ new.parent = head
    BY <2>1 DEF GitInv, Git!TypeOK
  <2>3. commits' = Append(commits, new) /\ head' = Len(commits) + 1 /\ UNCHANGED <<work, bound>>
    BY <1>3 DEF Git!CommitWork
  <2> HIDE DEF Made, new
  <2>4. /\ commits' \in Seq(Made) /\ Len(commits') = Len(commits) + 1
        /\ commits'[Len(commits) + 1] = new
        /\ \A n \in 1..Len(commits) : commits'[n] = commits[n]
    BY <2>1, <2>2, <2>3
  <2>5. Git!TypeOK'
    <3>1. head' \in 1..Len(commits')
      BY <2>1, <2>3, <2>4
    <3> QED
      BY <1>1, <2>3, <2>4, <3>1 DEF GitInv, Git!TypeOK, Made
  <2>6. History'
    <3>1. \A n \in 1..Len(commits') : commits'[n].parent < n
      <4> TAKE n \in 1..Len(commits')
      <4>1. CASE n \in 1..Len(commits)
        BY <2>4, <4>1 DEF GitInv, History
      <4>2. CASE n = Len(commits) + 1
        BY <2>1, <2>2, <2>4, <4>2
      <4> QED
        BY <2>1, <2>4, <4>1, <4>2
    <3> QED
      BY <2>1, <2>4, <3>1 DEF History, Made
  <2>7. \A n : n \in 1..Len(commits) => n \in 1..Len(commits')
    BY <2>1, <2>4
  <2>8. JobReadsItsCommit'
    BY <1>1, <2>4, <2>7 DEF GitInv, JobReadsItsCommit, Git!At
  <2>9. RowsResolve' /\ ReadersHaveAFile'
    <3>2. \A id \in Git!Id : Resolves(rows[id], id)'
      BY <1>1, <2>4, <2>7 DEF GitInv, RowsResolve, Resolves
    <3>3. \A r \in Git!Reader : pass[r] # NULL =>
            \A id \in Git!Id : Resolves(pass[r].mine[id], id)'
      BY <1>1, <2>4, <2>7 DEF GitInv, RowsResolve, Resolves
    <3> QED
      BY <1>1, <3>2, <3>3 DEF GitInv, RowsResolve, ReadersHaveAFile
  <2> QED
    BY <2>5, <2>6, <2>8, <2>9 DEF GitInv
<1>4. commits' = commits \/ Git!CommitWork
  BY DEF Git!Edit, Git!Checkout, Git!Repoint, Git!repository
<1> QED
  BY <1>2, <1>3, <1>4

\* A step of a pass: the repository and the table stay.
LEMMA PassInv ==
    ASSUME GitInv, NEW r \in Git!Reader, NEW next \in Git!Pass \cup {NULL},
           commits' = commits, head' = head, work' = work, bound' = bound, rows' = rows,
           passes' \in 0..MaxPasses,
           pass' = [pass EXCEPT ![r] = next],
           next # NULL => \A id \in Git!Id : Resolves(next.mine[id], id),
           next # NULL /\ next.text # NULL => next.todo # {},
           next # NULL /\ r = "job" =>
                /\ next.ref \in 1..Len(commits)
                /\ next.text # NULL => /\ Git!At("job")' \in Git!Path
                                       /\ commits[next.ref].tree[Git!At("job")'] = next.text
    PROVE  GitInv'
<1>1. Git!TypeOK'
  BY DEF GitInv, Git!TypeOK
<1>2. pass'[r] = next /\ \A o \in Git!Reader : o # r => pass'[o] = pass[o]
  BY DEF GitInv, Git!TypeOK
<1>3. History'
  BY DEF GitInv, History
<1>4. JobReadsItsCommit'
  <2>1. CASE r = "job"
    BY <1>2, <2>1 DEF JobReadsItsCommit
  <2>2. CASE r # "job"
    <3>1. pass'["job"] = pass["job"]
      BY <1>2, <2>2 DEF Git!Reader
    <3> QED
      BY <3>1 DEF GitInv, JobReadsItsCommit, Git!At
  <2> QED
    BY <2>1, <2>2
<1>5. RowsResolve'
  <2>1. \A id \in Git!Id : Resolves(rows[id], id)'
    BY DEF GitInv, RowsResolve, Resolves
  <2>2. ASSUME NEW o \in Git!Reader, pass'[o] # NULL, NEW id \in Git!Id
        PROVE  Resolves(pass[o].mine[id], id)'
    <3>1. CASE o = r
      BY <1>2, <2>2, <3>1 DEF Resolves
    <3>2. CASE o # r
      BY <1>2, <2>2, <3>2 DEF GitInv, RowsResolve, Resolves
    <3> QED
      BY <3>1, <3>2
  <2> QED
    BY <2>1, <2>2 DEF RowsResolve
<1>6. ReadersHaveAFile'
  BY <1>2 DEF GitInv, ReadersHaveAFile
<1> QED
  BY <1>1, <1>3, <1>4, <1>5, <1>6 DEF GitInv

\* A pass begins.
LEMMA StartInv ==
    ASSUME GitInv,
           \/ Git!StartLive
           \/ \E c \in Git!Commit : Git!StartJob(c) \/ Git!RefuseJob(c)
    PROVE  GitInv'
<1> USE GitConstants
<1>1. ASSUME NEW r \in Git!Reader, NEW ref \in Git!Commit \cup {NULL}, NEW files,
             Git!Opened(r, ref, files), UNCHANGED <<Git!repository, bound, rows>>,
             r = "job" => ref \in 1..Len(commits)
      PROVE  GitInv'
  <2> DEFINE next == [ref |-> ref, todo |-> Git!Present(files), text |-> NULL,
                      seen |-> {}, mine |-> [id \in Git!Id |-> NULL]]
  <2>1. next \in Git!Pass
    BY DEF Git!Pass, Git!Present, Git!Rows
  <2>2. next.text = NULL /\ next.ref = ref /\ \A id \in Git!Id : next.mine[id] = NULL
    OBVIOUS
  <2>3. pass' = [pass EXCEPT ![r] = next] /\ passes' = passes + 1 /\ passes < MaxPasses
    BY <1>1 DEF Git!Opened
  <2>4. /\ commits' = commits /\ head' = head /\ work' = work /\ bound' = bound
        /\ rows' = rows
    BY <1>1 DEF Git!repository
  <2>5. passes' \in 0..MaxPasses
    BY <2>3 DEF GitInv, Git!TypeOK
  <2>6. \A id \in Git!Id : Resolves(next.mine[id], id)
    BY <2>2 DEF Resolves
  <2> HIDE DEF next
  <2> QED
    BY <1>1, <2>1, <2>2, <2>3, <2>4, <2>5, <2>6, PassInv
<1>2. CASE Git!StartLive
  BY <1>1, <1>2 DEF Git!StartLive, Git!Reader
<1>3. ASSUME NEW c \in Git!Commit, Git!StartJob(c) PROVE GitInv'
  BY <1>1, <1>3 DEF Git!StartJob, Git!Reader
<1>4. ASSUME NEW c \in Git!Commit, Git!RefuseJob(c) PROVE GitInv'
  BY <1>4 DEF Git!RefuseJob, Git!gitVars, GitInv, Git!TypeOK, History, JobReadsItsCommit,
              RowsResolve, Resolves, ReadersHaveAFile, Git!At
<1> QED
  BY <1>2, <1>3, <1>4

\* The next file is read, or has gone.
LEMMA ReadInv ==
    ASSUME GitInv, NEW r \in Git!Reader, Git!Read(r)
    PROVE  GitInv'
<1> USE GitConstants
<1>1. PICK old \in Git!Pass : old = pass[r] /\ pass[r] # NULL
  BY DEF GitInv, Git!TypeOK, Git!Read
<1>2. /\ commits' = commits /\ head' = head /\ work' = work /\ bound' = bound
      /\ rows' = rows /\ passes' = passes /\ passes' \in 0..MaxPasses
      /\ old.todo # {} /\ old.text = NULL
  BY <1>1 DEF Git!Read, Git!repository, GitInv, Git!TypeOK
<1>3. Git!At(r) \in old.todo /\ Git!At(r) \in Git!Path /\ old.todo \in SUBSET Git!Path
  BY <1>1, <1>2, NextFile DEF Git!Pass, Git!At
<1>4. \A id \in Git!Id : Resolves(old.mine[id], id)
  BY <1>1 DEF GitInv, RowsResolve
<1>5. r = "job" => old.ref \in 1..Len(commits)
  BY <1>1 DEF GitInv, JobReadsItsCommit
<1>6. CASE Git!Contents(r) = NULL
  <2> DEFINE next == [old EXCEPT !.todo = old.todo \ {Git!At(r)}]
  <2>1. pass' = [pass EXCEPT ![r] = next]
    BY <1>1, <1>6 DEF Git!Read
  <2>2. next \in Git!Pass
    BY <1>3 DEF Git!Pass
  <2>3. next.mine = old.mine /\ next.ref = old.ref /\ next.text = NULL
    BY <1>2 DEF Git!Pass
  <2> HIDE DEF next
  <2> QED
    BY <1>2, <1>4, <1>5, <2>1, <2>2, <2>3, PassInv
<1>7. CASE Git!Contents(r) # NULL
  <2> DEFINE next == [old EXCEPT !.text = Git!Contents(r)]
  <2>1. pass' = [pass EXCEPT ![r] = next]
    BY <1>1, <1>7 DEF Git!Read
  <2>2. Git!Contents(r) \in Text \cup {NULL}
    <3>1. CASE r = "job"
      <4>1. commits[old.ref].tree \in Git!Tree
        BY <1>5, <3>1, OlderParents DEF GitInv
      <4> QED
        BY <1>1, <1>3, <3>1, <4>1 DEF Git!Contents, Git!Snapshot, Git!Tree
    <3>2. CASE r # "job"
      BY <1>3, <3>2 DEF Git!Contents, Git!Tree, GitInv, Git!TypeOK
    <3> QED
      BY <3>1, <3>2
  <2>3. next \in Git!Pass
    BY <2>2 DEF Git!Pass
  <2>4. next.mine = old.mine /\ next.ref = old.ref /\ next.text = Git!Contents(r)
        /\ next.todo = old.todo
    BY DEF Git!Pass
  <2> HIDE DEF next
  <2>5. pass'[r] = next
    BY <2>1 DEF GitInv, Git!TypeOK
  <2>6. Git!At(r)' = Git!At(r)
    BY <1>1, <2>4, <2>5 DEF Git!At, Git!Position
  <2>7. r = "job" => commits[next.ref].tree[Git!At("job")'] = next.text
    BY <1>1, <2>4, <2>6 DEF Git!Contents, Git!Snapshot
  <2>8. r = "job" => Git!At("job")' \in Git!Path
    BY <1>3, <2>6
  <2> QED
    BY <1>2, <1>4, <1>5, <2>1, <2>3, <2>4, <2>7, <2>8, PassInv
<1> QED
  BY <1>6, <1>7

\* What a reader that has read a text knows of it.
LEMMA ReaderFacts ==
    ASSUME GitInv, NEW r \in Git!Reader, pass[r] # NULL, pass[r].text # NULL
    PROVE  /\ Git!At(r) \in Git!Path
           /\ Git!Sha(r) \in Git!Commit \cup {NULL}
           /\ r = "job" => /\ Git!Sha(r) \in 1..Len(commits)
                           /\ commits[Git!Sha(r)].tree[Git!At(r)] = pass[r].text
<1> USE GitConstants
<1>1. pass[r] \in Git!Pass /\ pass[r].todo # {}
  BY DEF GitInv, Git!TypeOK, ReadersHaveAFile
<1>2. Git!At(r) \in Git!Path
  BY <1>1, NextFile DEF Git!Pass, Git!At
<1> DEFINE from == IF r = "job" THEN pass[r].ref ELSE head
<1>3. from \in 1..Len(commits)
  BY DEF GitInv, Git!TypeOK, JobReadsItsCommit
<1>4. Git!Sha(r) = Git!LastTouch(from, Git!At(r))
  BY DEF Git!Sha
<1>5. /\ Git!Sha(r) \in {NULL} \cup 1..Len(commits)
      /\ IF Git!Sha(r) = NULL THEN commits[from].tree[Git!At(r)] = NULL
         ELSE commits[Git!Sha(r)].tree[Git!At(r)] = commits[from].tree[Git!At(r)]
  <2> HIDE DEF from
  <2> QED
    BY <1>2, <1>3, <1>4, LastTouchHas DEF GitInv
<1>6. Git!Sha(r) \in Git!Commit \cup {NULL}
  BY <1>5, OlderParents DEF GitInv, History, Git!Commit
<1>7. r = "job" => commits[from].tree[Git!At(r)] = pass[r].text
  BY DEF GitInv, JobReadsItsCommit
<1> QED
  BY <1>2, <1>5, <1>6, <1>7

\* What a reader sees resolves as what is stored does.
LEMMA ViewFacts ==
    ASSUME GitInv, NEW r \in Git!Reader, pass[r] # NULL, NEW id \in Git!Id
    PROVE  /\ Git!View(r)[id] \in Git!Row \cup {NULL}
           /\ Resolves(Git!View(r)[id], id)
<1>1. pass[r] \in Git!Pass
  BY DEF GitInv, Git!TypeOK
<1>2. /\ pass[r].mine[id] \in Git!Row \cup {NULL} /\ rows[id] \in Git!Row \cup {NULL}
      /\ Resolves(pass[r].mine[id], id) /\ Resolves(rows[id], id)
  BY <1>1 DEF GitInv, Git!TypeOK, Git!Pass, Git!Rows, RowsResolve
<1>3. Git!View(r)[id] = IF pass[r].mine[id] # NULL THEN pass[r].mine[id] ELSE rows[id]
  BY DEF Git!View
<1> QED
  BY <1>2, <1>3

\* A reader writes its text and goes on to the next file.
LEMMA WritesInv ==
    ASSUME GitInv, NEW r \in Git!Reader, pass[r] # NULL, pass[r].text # NULL,
           NEW mine \in Git!Rows, Git!Writes(r, mine),
           \A id \in Git!Id : Resolves(mine[id], id)
    PROVE  GitInv'
<1> USE GitConstants
<1>1. PICK old \in Git!Pass : old = pass[r]
  BY DEF GitInv, Git!TypeOK
<1> DEFINE next == [old EXCEPT !.mine = mine, !.seen = @ \cup {Git!At(r)},
                               !.todo = @ \ {Git!At(r)}, !.text = NULL]
<1>2. Git!At(r) \in Git!Path
  BY ReaderFacts
<1>3. next \in Git!Pass
  BY <1>2 DEF Git!Pass
<1>4. next.mine = mine /\ next.ref = old.ref /\ next.text = NULL
  BY DEF Git!Pass
<1>5. /\ commits' = commits /\ head' = head /\ work' = work /\ bound' = bound
      /\ rows' = rows /\ passes' = passes /\ passes' \in 0..MaxPasses
  BY DEF Git!Writes, Git!repository, GitInv, Git!TypeOK
<1>6. pass' = [pass EXCEPT ![r] = next]
  <2>1. /\ pass'[r] = next
        /\ \A o \in Git!Reader : o # r => pass'[o] = pass[o]
        /\ pass' = [o \in Git!Reader |-> pass'[o]]
    BY <1>1 DEF Git!Writes, GitInv, Git!TypeOK
  <2> HIDE DEF next
  <2>2. pass = [o \in Git!Reader |-> pass[o]]
    BY DEF GitInv, Git!TypeOK
  <2> QED
    BY <2>1, <2>2
<1>7. r = "job" => old.ref \in 1..Len(commits)
  BY <1>1 DEF GitInv, JobReadsItsCommit
<1> HIDE DEF next
<1> QED
  BY <1>3, <1>4, <1>5, <1>6, <1>7, PassInv

\* A stored text gets the commit it comes from noted again.
LEMMA RestampInv ==
    ASSUME GitInv, NEW r \in Git!Reader, Git!Restamp(r)
    PROVE  GitInv'
<1> USE GitConstants
<1>1. pass[r] # NULL /\ pass[r].text # NULL /\ pass[r] \in Git!Pass
  BY DEF Git!Restamp, GitInv, Git!TypeOK
<1>2. PICK id \in Git!Id :
        /\ id[2] = pass[r].text
        /\ Git!View(r)[id] # NULL
        /\ IF Git!Sha(r) \in {NULL, Git!View(r)[id].sha}
           THEN Git!Writes(r, pass[r].mine)
           ELSE Git!Writes(r, [pass[r].mine EXCEPT ![id] =
                    [Git!View(r)[id] EXCEPT !.sha = Git!Sha(r), !.uri = Git!At(r),
                                            !.by = r]])
  BY DEF Git!Restamp
<1>3. /\ pass[r].mine \in Git!Rows
      /\ \A any \in Git!Id : Resolves(pass[r].mine[any], any)
  BY <1>1 DEF Git!Pass, GitInv, RowsResolve
<1>4. CASE Git!Sha(r) \in {NULL, Git!View(r)[id].sha}
  BY <1>1, <1>2, <1>3, <1>4, WritesInv
<1>5. CASE Git!Sha(r) \notin {NULL, Git!View(r)[id].sha}
  <2> DEFINE stamped == [Git!View(r)[id] EXCEPT !.sha = Git!Sha(r), !.uri = Git!At(r),
                                                !.by = r]
             mine == [pass[r].mine EXCEPT ![id] = stamped]
  <2>1. Git!View(r)[id] \in Git!Row
    BY <1>1, <1>2, ViewFacts
  <2>2. /\ Git!At(r) \in Git!Path /\ Git!Sha(r) \in Git!Commit \cup {NULL}
        /\ r = "job" => /\ Git!Sha(r) \in 1..Len(commits)
                        /\ commits[Git!Sha(r)].tree[Git!At(r)] = pass[r].text
    BY <1>1, ReaderFacts
  <2>3. /\ stamped \in Git!Row /\ stamped.sha = Git!Sha(r) /\ stamped.uri = Git!At(r)
        /\ stamped.by = r
    BY <2>1, <2>2 DEF Git!Row
  <2>4. Resolves(stamped, id)
    BY <1>2, <2>2, <2>3 DEF Resolves
  <2> HIDE DEF stamped
  <2>5. mine \in Git!Rows
    BY <1>3, <2>3 DEF Git!Rows
  <2>6. \A any \in Git!Id : Resolves(mine[any], any)
    BY <1>3, <2>4 DEF Git!Rows
  <2>7. Git!Writes(r, mine)
    BY <1>2, <1>5 DEF stamped
  <2> HIDE DEF mine
  <2> QED
    BY <1>1, <2>5, <2>6, <2>7, WritesInv
<1> QED
  BY <1>4, <1>5

\* A new text takes its key's place.
LEMMA StoreInv ==
    ASSUME GitInv, NEW r \in Git!Reader, Git!Store(r)
    PROVE  GitInv'
<1> USE GitConstants
<1>1. pass[r] # NULL /\ pass[r].text # NULL /\ pass[r] \in Git!Pass
  BY DEF Git!Store, GitInv, Git!TypeOK
<1> DEFINE text == pass[r].text
           closed == [id \in Git!Id |->
                IF id \in Git!Open(r, Git!At(r)) THEN [Git!View(r)[id] EXCEPT !.open = FALSE]
                ELSE pass[r].mine[id]]
           written == [open |-> TRUE, sha |-> Git!Sha(r), uri |-> Git!At(r), by |-> r]
           place == <<Git!At(r), text>>
           mine == [closed EXCEPT ![place] = written]
<1>2. Git!Writes(r, mine)
  BY DEF Git!Store
<1>3. /\ Git!At(r) \in Git!Path /\ Git!Sha(r) \in Git!Commit \cup {NULL}
      /\ r = "job" => /\ Git!Sha(r) \in 1..Len(commits)
                      /\ commits[Git!Sha(r)].tree[Git!At(r)] = text
  BY <1>1, ReaderFacts
<1>4. place \in Git!Id /\ place[2] = text
  BY <1>1, <1>3 DEF Git!Id, Git!Pass
<1>5. written \in Git!Row /\ Resolves(written, place)
  BY <1>3, <1>4 DEF Git!Row, Resolves
<1>6. ASSUME NEW id \in Git!Id
      PROVE  closed[id] \in Git!Row \cup {NULL} /\ Resolves(closed[id], id)
  <2>1. CASE id \in Git!Open(r, Git!At(r))
    <3> DEFINE seen == Git!View(r)[id]
    <3>1. seen # NULL /\ seen \in Git!Row /\ Resolves(seen, id)
      BY <1>1, <2>1, ViewFacts DEF Git!Open
    <3>2. closed[id] = [seen EXCEPT !.open = FALSE]
      BY <2>1
    <3> HIDE DEF seen, closed
    <3> QED
      BY <3>1, <3>2 DEF Git!Row, Resolves
  <2>2. CASE id \notin Git!Open(r, Git!At(r))
    BY <1>1, <2>2 DEF Git!Pass, Git!Rows, GitInv, RowsResolve
  <2> QED
    BY <2>1, <2>2
<1>7. closed = [id \in Git!Id |-> closed[id]]
  OBVIOUS
<1> HIDE DEF closed, written, place
<1>8. mine \in Git!Rows
  BY <1>4, <1>5, <1>6, <1>7 DEF Git!Rows
<1>9. \A id \in Git!Id : Resolves(mine[id], id)
  BY <1>4, <1>5, <1>6, <1>7
<1> HIDE DEF mine
<1> QED
  BY <1>1, <1>2, <1>8, <1>9, WritesInv

\* A pass commits, or is undone.
LEMMA EndInv ==
    ASSUME GitInv, NEW r \in Git!Reader, Git!Finish(r) \/ Git!Fail(r)
    PROVE  GitInv'
<1> USE GitConstants
<1>1. CASE Git!Fail(r)
  <2>1. /\ pass' = [pass EXCEPT ![r] = NULL] /\ passes' = passes
        /\ commits' = commits /\ head' = head /\ work' = work /\ bound' = bound
        /\ rows' = rows
    BY <1>1 DEF Git!Fail, Git!repository
  <2>2. passes' \in 0..MaxPasses
    BY <2>1 DEF GitInv, Git!TypeOK
  <2> QED
    BY <2>1, <2>2, PassInv
<1>2. CASE Git!Finish(r)
  <2> DEFINE gone == UNION {Git!Open(r, p) : p \in Git!Path \ pass[r].seen}
  <2>1. /\ pass' = [pass EXCEPT ![r] = NULL] /\ passes' = passes /\ pass[r] # NULL
        /\ commits' = commits /\ head' = head /\ work' = work /\ bound' = bound
        /\ rows' = [id \in Git!Id |-> IF id \in gone
                                     THEN [Git!View(r)[id] EXCEPT !.open = FALSE]
                                     ELSE Git!View(r)[id]]
    BY <1>2 DEF Git!Finish, Git!repository
  <2>2. ASSUME NEW id \in Git!Id
        PROVE  rows'[id] \in Git!Row \cup {NULL} /\ Resolves(rows'[id], id)
    <3> DEFINE seen == Git!View(r)[id]
    <3>1. seen \in Git!Row \cup {NULL} /\ Resolves(seen, id)
      BY <2>1, ViewFacts
    <3>2. id \in gone => seen # NULL
      BY DEF Git!Open
    <3>3. \/ rows'[id] = seen
          \/ id \in gone /\ rows'[id] = [seen EXCEPT !.open = FALSE]
      BY <2>1
    <3> HIDE DEF seen, gone
    <3> QED
      BY <3>1, <3>2, <3>3 DEF Git!Row, Resolves
  <2>3. rows' \in Git!Rows
    <3>1. rows' = [id \in Git!Id |-> rows'[id]]
      BY <2>1
    <3> QED
      BY <2>2, <3>1 DEF Git!Rows
  <2>4. Git!TypeOK'
    BY <2>1, <2>3 DEF GitInv, Git!TypeOK
  <2>5. \A o \in Git!Reader : pass'[o] # NULL => pass'[o] = pass[o]
    BY <2>1 DEF GitInv, Git!TypeOK
  <2>6. History' /\ ReadersHaveAFile'
    BY <2>1, <2>5 DEF GitInv, History, ReadersHaveAFile
  <2>7. JobReadsItsCommit'
    BY <2>1, <2>5 DEF GitInv, JobReadsItsCommit, Git!At, Git!Reader
  <2>8. RowsResolve'
    <3>1. \A id \in Git!Id : Resolves(rows[id], id)'
      BY <2>1, <2>2 DEF Resolves
    <3>2. \A o \in Git!Reader : pass'[o] # NULL =>
            \A id \in Git!Id : Resolves(pass[o].mine[id], id)'
      BY <2>1, <2>5 DEF GitInv, RowsResolve, Resolves
    <3> QED
      BY <3>1, <3>2 DEF RowsResolve
  <2> QED
    BY <2>4, <2>6, <2>7, <2>8 DEF GitInv
<1> QED
  BY <1>1, <1>2

LEMMA GitStepInv == ASSUME GitInv, [Git!Next]_Git!gitVars PROVE GitInv'
<1>1. CASE UNCHANGED Git!gitVars
  BY <1>1 DEF Git!gitVars, GitInv, Git!TypeOK, History, JobReadsItsCommit,
              RowsResolve, Resolves, ReadersHaveAFile, Git!At
<1>2. ASSUME NEW r \in Git!Reader, Git!Steps(r) PROVE GitInv'
  BY <1>2, ReadInv, RestampInv, StoreInv, EndInv DEF Git!Steps
<1> QED
  BY <1>1, <1>2, RepositoryInv, StartInv DEF Git!Next

LEMMA GitInvariant == Git!Spec => []GitInv
BY GitStarts, GitStepInv, PTL DEF Git!Spec

\* Types of the passes beside git.
THEOREM GitTypeCorrect == Git!Spec => []Git!TypeOK
BY GitInvariant, PTL DEF GitInv

\* Where a job says a text comes from, that commit has it (commit_snapshot,
\* git_sha): for any history, files and texts.
THEOREM JobProvenanceIsTrue == Git!Spec => []JobProvenanceResolves
<1>1. GitInv => JobProvenanceResolves
  BY DEF GitInv, RowsResolve, Resolves, JobProvenanceResolves, Git!JobProvenanceResolves
<1> QED
  BY <1>1, GitInvariant, PTL
-----------------------------------------------------------------------------
(***************************************************************************)
(* McpTasks.                                                               *)
(***************************************************************************)
\* What is or will be reported as completed is committed.
CompletedIsDone ==
    /\ \A t \in Task : handle[t] = "completed" => t \in done
    /\ \A w \in Handler : doing[w] # NULL /\ doing[w].at = "completed"
            => doing[w].task \in done

TaskInv == Tasks!TypeOK /\ CompletedIsDone

LEMMA TaskConstants ==
    /\ Loadings \subseteq {"import", "main"}
    /\ MaxCrashes \in Nat
    /\ NULL \notin {"working", "completed", "failed", "cancelled"}
BY UnattendedAssumption DEF UnattendedAssumption, Tasks!McpTasksAssumption

\* What one step may do to the handles.
HandlesMove ==
    \A t \in Task :
        /\ handle[t] \in Tasks!Terminal => handle'[t] = handle[t]
        /\ handle'[t] = "completed" => t \in done'

\* The requests: the work is not touched.
LEMMA RequestStep ==
    ASSUME TaskInv, NEW t \in Task,
           \/ Tasks!Create(t) \/ Tasks!Enqueue(t) \/ Tasks!EnqueueRaises(t)
           \/ Tasks!GiveUp(t) \/ Tasks!ApiCrash(t) \/ Tasks!Cancel(t) \/ Tasks!Requeue(t)
    PROVE  TaskInv' /\ HandlesMove
<1> USE TaskConstants
<1>1. \/ handle' = handle
      \/ handle[t] = NULL /\ handle' = [handle EXCEPT ![t] = "working"]
      \/ handle[t] \notin Tasks!Terminal
            /\ (\/ handle' = [handle EXCEPT ![t] = "failed"]
                \/ handle' = [handle EXCEPT ![t] = "cancelled"])
  BY DEF Tasks!Create, Tasks!Enqueue, Tasks!EnqueueRaises, Tasks!GiveUp, Tasks!ApiCrash,
         Tasks!Cancel, Tasks!Requeue, Tasks!Ended
<1>2. doing' = doing /\ done' = done /\ loading' = loading
  BY DEF Tasks!Create, Tasks!Enqueue, Tasks!EnqueueRaises, Tasks!GiveUp, Tasks!ApiCrash,
         Tasks!Cancel, Tasks!Requeue
<1>3. Tasks!TypeOK'
  <2>1. handle' \in [Task -> {NULL, "working"} \cup Tasks!Terminal]
    BY <1>1 DEF TaskInv, Tasks!TypeOK, Tasks!Terminal
  <2>2. /\ request' \in [Task -> {NULL, "created", "raised"}]
        /\ queue' \in [Task -> {NULL, "todo", "doing", "finished"}]
        /\ given' \subseteq Task
        /\ crashes' \in 0..MaxCrashes
    BY DEF TaskInv, Tasks!TypeOK, Tasks!Create, Tasks!Enqueue, Tasks!EnqueueRaises,
           Tasks!GiveUp, Tasks!ApiCrash, Tasks!Cancel, Tasks!Requeue
  <2> QED
    BY <1>2, <2>1, <2>2 DEF TaskInv, Tasks!TypeOK
<1>4. CompletedIsDone'
  BY <1>1, <1>2 DEF TaskInv, Tasks!TypeOK, CompletedIsDone, Tasks!Terminal
<1>5. HandlesMove
  <2>1. ASSUME NEW u \in Task, handle[u] \in Tasks!Terminal PROVE handle'[u] = handle[u]
    BY <1>1, <2>1 DEF TaskInv, Tasks!TypeOK, Tasks!Terminal
  <2> QED
    BY <1>2, <1>4, <2>1 DEF HandlesMove, CompletedIsDone
<1> QED
  BY <1>3, <1>4, <1>5 DEF TaskInv

\* The worker: only a report touches a handle.
LEMMA WorkerStep ==
    ASSUME TaskInv, NEW w \in Handler,
           \/ Tasks!TakeAny(w) \/ Tasks!Run(w) \/ Tasks!RunRaises(w)
           \/ Tasks!Report(w) \/ Tasks!Crash(w)
    PROVE  TaskInv' /\ HandlesMove
<1> USE TaskConstants
<1> DEFINE Doing == {NULL} \cup [task : Task, at : {"run", "completed", "failed"}]
<1>1. ASSUME NEW t \in Task, Tasks!Take(w, t) \/ Tasks!TakeUnknown(w, t)
      PROVE  TaskInv' /\ HandlesMove
  <2>1. handle' = handle /\ done' = done
    BY <1>1 DEF Tasks!Take, Tasks!TakeUnknown
  <2>2. \A v \in Handler : doing'[v] = doing[v] \/ doing'[v] = [task |-> t, at |-> "run"]
    BY <1>1 DEF Tasks!Take, Tasks!TakeUnknown, TaskInv, Tasks!TypeOK
  <2>3. Tasks!TypeOK'
    BY <1>1 DEF Tasks!Take, Tasks!TakeUnknown, TaskInv, Tasks!TypeOK
  <2> QED
    BY <2>1, <2>2, <2>3 DEF TaskInv, CompletedIsDone, HandlesMove
<1>2. CASE Tasks!Run(w) \/ Tasks!RunRaises(w)
  <2>1. PICK old \in [task : Task, at : {"run", "completed", "failed"}] :
            old = doing[w] /\ doing[w] # NULL
    BY <1>2 DEF Tasks!Run, Tasks!RunRaises, TaskInv, Tasks!TypeOK
  <2>2. /\ handle' = handle /\ done \subseteq done' /\ done' \subseteq Task
        /\ UNCHANGED <<loading, request, given, queue, crashes>>
    BY <1>2, <2>1 DEF Tasks!Run, Tasks!RunRaises, TaskInv, Tasks!TypeOK
  <2>3. /\ doing' = [v \in Handler |-> doing'[v]]
        /\ \A v \in Handler : v # w => doing'[v] = doing[v]
    BY <1>2 DEF Tasks!Run, Tasks!RunRaises, TaskInv, Tasks!TypeOK
  <2>4. \/ doing'[w] = [old EXCEPT !.at = "completed"] /\ old.task \in done'
        \/ doing'[w] = [old EXCEPT !.at = "failed"]
    BY <1>2, <2>1 DEF Tasks!Run, Tasks!RunRaises, TaskInv, Tasks!TypeOK
  <2>5. /\ doing'[w] \in [task : Task, at : {"run", "completed", "failed"}]
        /\ doing'[w].at = "completed" => doing'[w].task \in done'
    BY <2>1, <2>4
  <2>6. Tasks!TypeOK'
    BY <2>2, <2>3, <2>5 DEF TaskInv, Tasks!TypeOK
  <2>7. CompletedIsDone'
    BY <2>2, <2>3, <2>5 DEF TaskInv, CompletedIsDone
  <2>8. HandlesMove
    BY <2>2, <2>7 DEF HandlesMove, CompletedIsDone
  <2> QED
    BY <2>6, <2>7, <2>8 DEF TaskInv
<1>3. CASE Tasks!Report(w)
  <2>1. PICK old \in [task : Task, at : {"run", "completed", "failed"}] :
            old = doing[w] /\ doing[w] # NULL
    BY <1>3 DEF Tasks!Report, TaskInv, Tasks!TypeOK
  <2>2. /\ doing' = [doing EXCEPT ![w] = NULL] /\ done' = done
        /\ queue' = [queue EXCEPT ![old.task] = "finished"]
        /\ UNCHANGED <<loading, request, given, crashes>>
        /\ old.at # "run"
    BY <1>3, <2>1 DEF Tasks!Report, Tasks!EndJob
  <2>3. \/ handle' = handle
        \/ /\ handle[old.task] \notin Tasks!Terminal
           /\ handle' = [handle EXCEPT ![old.task] = old.at]
    BY <1>3, <2>1 DEF Tasks!Report, Tasks!Ended
  <2>4. old.at \in {"completed", "failed"} /\ (old.at = "completed" => old.task \in done)
    BY <2>1, <2>2 DEF TaskInv, CompletedIsDone
  <2>5. handle' \in [Task -> {NULL, "working"} \cup Tasks!Terminal]
    BY <2>1, <2>3, <2>4 DEF TaskInv, Tasks!TypeOK, Tasks!Terminal
  <2>6. Tasks!TypeOK'
    BY <2>1, <2>2, <2>5 DEF TaskInv, Tasks!TypeOK
  <2>7. CompletedIsDone'
    <3>1. \A t \in Task : handle'[t] = "completed" => t \in done'
      BY <2>1, <2>2, <2>3, <2>4 DEF TaskInv, Tasks!TypeOK, CompletedIsDone
    <3>2. \A v \in Handler : doing'[v] # NULL => doing'[v] = doing[v]
      BY <2>2 DEF TaskInv, Tasks!TypeOK
    <3> QED
      BY <2>2, <3>1, <3>2 DEF TaskInv, CompletedIsDone
  <2>8. HandlesMove
    BY <2>1, <2>3, <2>7 DEF TaskInv, Tasks!TypeOK, HandlesMove, CompletedIsDone
  <2> QED
    BY <2>6, <2>7, <2>8 DEF TaskInv
<1>4. CASE Tasks!Crash(w)
  <2>1. /\ doing' = [doing EXCEPT ![w] = NULL] /\ crashes' = crashes + 1
        /\ crashes < MaxCrashes
        /\ UNCHANGED <<loading, handle, request, given, queue, done>>
    BY <1>4 DEF Tasks!Crash
  <2>2. \A v \in Handler : doing'[v] # NULL => doing'[v] = doing[v]
    BY <2>1 DEF TaskInv, Tasks!TypeOK
  <2>3. Tasks!TypeOK'
    BY <2>1 DEF TaskInv, Tasks!TypeOK
  <2> QED
    BY <2>1, <2>2, <2>3 DEF TaskInv, CompletedIsDone, HandlesMove
<1> QED
  BY <1>1, <1>2, <1>3, <1>4 DEF Tasks!TakeAny

LEMMA TaskStarts == Tasks!Init => TaskInv
BY TaskConstants DEF Tasks!Init, TaskInv, Tasks!TypeOK, CompletedIsDone

LEMMA TaskStep ==
    ASSUME TaskInv, [Tasks!Next]_Tasks!vars PROVE TaskInv' /\ HandlesMove
<1>1. CASE UNCHANGED Tasks!vars
  BY <1>1 DEF Tasks!vars, TaskInv, Tasks!TypeOK, CompletedIsDone, HandlesMove
<1>2. CASE Tasks!Next
  BY <1>2, RequestStep, WorkerStep DEF Tasks!Next
<1> QED
  BY <1>1, <1>2

\* What handles and jobs do, whether or not the workers are fair.
TaskRun == Tasks!Init /\ [][Tasks!Next]_Tasks!vars

LEMMA TaskInvariant == TaskRun => []TaskInv
BY TaskStarts, TaskStep, PTL DEF TaskRun

\* Types of the task handles.
THEOREM TasksTypeCorrect == TaskRun => []Tasks!TypeOK
BY TaskInvariant, PTL DEF TaskInv

\* A terminal status never changes and "completed" is committed work
\* (mcp_tasks.finish and cancel, _run_mcp_task): for any tasks, workers and crashes.
THEOREM TerminalStatusIsFinal == TaskRun => TerminalIsFinal
<1>1. TaskInv /\ [Tasks!Next]_Tasks!vars => [HandlesMove]_Tasks!vars
  BY TaskStep
<1>2. TerminalIsFinal <=> [][HandlesMove]_Tasks!vars
  BY DEF TerminalIsFinal, Tasks!TerminalIsFinal, HandlesMove
<1> QED
  BY <1>1, <1>2, TaskInvariant, PTL DEF TaskRun
-----------------------------------------------------------------------------
(***************************************************************************)
(* Consolidation.  What MemoryStoreProofs proves is about the module       *)
(* Consolidation; Folding carries it to the instance of it that Unattended *)
(* checks, with the same substitution.  The definitions of the two         *)
(* instances agree word for word: each pair is unfolded and compared.      *)
(***************************************************************************)
Folding == INSTANCE MemoryStoreProofs WITH
    Trees <- {}, Files <- <<>>, pass <- ingesting

\* A write leaves the same tables in both.
LEMMA SameWritten ==
    ASSUME NEW a0, NEW a1, NEW a2, NEW a3, NEW a4, NEW a5, NEW a6
    PROVE  Fold!Written(a0, a1, a2, a3, a4, a5, a6) = Folding!Written(a0, a1, a2, a3, a4, a5, a6)
  BY Zenon DEF Fold!TierOf, Folding!TierOf, Fold!QuarantineTiers,
         Folding!QuarantineTiers, Fold!Capped, Folding!Capped, Fold!BirthTier,
         Folding!BirthTier, Fold!Quarantined, Folding!Quarantined, Fold!Open,
         Folding!Open, Fold!KeyFor, Folding!KeyFor, Fold!Holding, Folding!Holding,
         Fold!OpenRows, Folding!OpenRows, Fold!Prior, Folding!Prior, Fold!Refound,
         Folding!Refound, Fold!ClosePrior, Folding!ClosePrior, Fold!NewRow,
         Folding!NewRow, Fold!Inserted, Folding!Inserted, Fold!Written,
         Folding!Written, Fold!Rows, Folding!Rows

\* The rows that hold a text are the same in both.
LEMMA SameHolding ==
    ASSUME NEW a0, NEW a1
    PROVE  Fold!Holding(a0, a1) = Folding!Holding(a0, a1)
  BY Zenon DEF Fold!Holding, Folding!Holding

\* There is room in one where there is in the other.
LEMMA SameRoomFor ==
    ASSUME NEW a0, NEW a1
    PROVE  Fold!RoomFor(a0, a1) <=> Folding!RoomFor(a0, a1)
  BY Zenon DEF Fold!Holding, Folding!Holding, Fold!RoomFor, Folding!RoomFor

\* A group is folded alike in both.
LEMMA SameFoldGroup ==
    ASSUME NEW a0, NEW a1, NEW a2, NEW a3
    PROVE  Fold!FoldGroup(a0, a1, a2, a3) <=> Folding!FoldGroup(a0, a1, a2, a3)
  BY Zenon DEF Fold!QuarantineTiers, Folding!QuarantineTiers, Fold!Open,
         Folding!Open, Fold!Overlap, Folding!Overlap, Fold!TemporalUniq,
         Folding!TemporalUniq, Fold!QuarantineTierConsistency,
         Folding!QuarantineTierConsistency, Fold!Admissible, Folding!Admissible,
         Fold!RefusedBy, Folding!RefusedBy, Fold!Fold1, Folding!Fold1,
         Fold!FoldGroup, Folding!FoldGroup

\* A group is compacted alike in both.
LEMMA SameCompact ==
    ASSUME NEW c
    PROVE  Fold!Compact(c) <=> Folding!Compact(c)
<1> DEFINE group == {Fold!Anchor} \cup c
           summary == SummaryOf[{fold.work[i].content : i \in group}]
<1>2. Fold!RoomFor(fold.work, summary) <=> Folding!RoomFor(fold.work, summary)
  BY Zenon, SameRoomFor
<1>3. Fold!Written(fold.work, "consolidation", summary, NULL, FALSE, TRUE, clock) =
      Folding!Written(fold.work, "consolidation", summary, NULL, FALSE, TRUE, clock)
  BY Zenon, SameWritten
<1>4. ASSUME NEW t PROVE Fold!Holding(t, summary) = Folding!Holding(t, summary)
  BY Zenon, SameHolding
<1>5. ASSUME NEW t, NEW new
      PROVE  Fold!FoldGroup(t, group, group, new) <=> Folding!FoldGroup(t, group, group, new)
  BY Zenon, SameFoldGroup
<1>6. Fold!Compact(c) <=>
        (/\ fold # NULL /\ fold.kind = "compaction" /\ fold.left # {}
                         /\ c \subseteq fold.left \ {Fold!Anchor}
                         /\ Fold!Cardinality(group) >= MinGroup
                         /\ Fold!RoomFor(fold.work, summary)
                         /\ \E t \in Fold!Written(fold.work, "consolidation", summary, NULL,
                                                  FALSE, TRUE, clock) :
                              \E new \in Fold!Holding(t, summary) :
                                  Fold!FoldGroup(t, group, group, new)
                         /\ UNCHANGED <<mem, clock, ingesting, folded>>)
  BY Zenon DEF Fold!Compact, Fold!SummarySource
<1>7. Folding!Compact(c) <=>
        (/\ fold # NULL /\ fold.kind = "compaction" /\ fold.left # {}
                         /\ c \subseteq fold.left \ {Fold!Anchor}
                         /\ Folding!Cardinality(group) >= MinGroup
                         /\ Folding!RoomFor(fold.work, summary)
                         /\ \E t \in Folding!Written(fold.work, "consolidation", summary, NULL,
                                                  FALSE, TRUE, clock) :
                              \E new \in Folding!Holding(t, summary) :
                                  Folding!FoldGroup(t, group, group, new)
                         /\ UNCHANGED <<mem, clock, ingesting, folded>>)
  BY Zenon DEF Folding!Compact, Folding!SummarySource, Fold!Anchor, Folding!Anchor
<1>8. ASSUME NEW S PROVE Fold!Cardinality(S) = Folding!Cardinality(S)
  BY Zenon DEF Fold!Cardinality, Folding!Cardinality
<1> HIDE DEF group, summary
<1> QED
  BY Zenon, <1>2, <1>3, <1>4, <1>5, <1>6, <1>7, <1>8

\* The operations on memories are the same in both.
LEMMA SameNext == Fold!Next <=> Folding!Next
<1>1. ASSUME NEW s, NEW c, NEW k PROVE Fold!WriteMemory(s, c, k) <=> Folding!WriteMemory(s, c, k)
  BY Zenon DEF Fold!TierOf, Folding!TierOf, Fold!QuarantineTiers,
         Folding!QuarantineTiers, Fold!Capped, Folding!Capped, Fold!BirthTier,
         Folding!BirthTier, Fold!Quarantined, Folding!Quarantined, Fold!Open,
         Folding!Open, Fold!KeyFor, Folding!KeyFor, Fold!Overlap, Folding!Overlap,
         Fold!TemporalUniq, Folding!TemporalUniq, Fold!QuarantineTierConsistency,
         Folding!QuarantineTierConsistency, Fold!Admissible, Folding!Admissible,
         Fold!Holding, Folding!Holding, Fold!OpenRows, Folding!OpenRows, Fold!Prior,
         Folding!Prior, Fold!Refound, Folding!Refound, Fold!ClosePrior,
         Folding!ClosePrior, Fold!NewRow, Folding!NewRow, Fold!Inserted,
         Folding!Inserted, Fold!Written, Folding!Written, Fold!Committed,
         Folding!Committed, Fold!RefusedBy, Folding!RefusedBy, Fold!Idle,
         Folding!Idle, Fold!Begin, Folding!Begin, Fold!Attempt, Folding!Attempt,
         Fold!RoomFor, Folding!RoomFor, Fold!WriteMemory, Folding!WriteMemory,
         Fold!Rows, Folding!Rows
<1>2. ASSUME NEW c PROVE Fold!BeginPass(c) <=> Folding!BeginPass(c)
  BY Zenon DEF Fold!Idle, Folding!Idle, Fold!Begin, Folding!Begin, Fold!BeginPass,
         Folding!BeginPass
<1>3. Fold!SkipFile <=> Folding!SkipFile
  BY Zenon DEF Fold!Idle, Folding!Idle, Fold!SkipFile, Folding!SkipFile
<1>4. Fold!IngestFile <=> Folding!IngestFile
  BY Zenon DEF Fold!TierOf, Folding!TierOf, Fold!QuarantineTiers,
         Folding!QuarantineTiers, Fold!Capped, Folding!Capped, Fold!BirthTier,
         Folding!BirthTier, Fold!Quarantined, Folding!Quarantined, Fold!Open,
         Folding!Open, Fold!KeyFor, Folding!KeyFor, Fold!Overlap, Folding!Overlap,
         Fold!TemporalUniq, Folding!TemporalUniq, Fold!QuarantineTierConsistency,
         Folding!QuarantineTierConsistency, Fold!Admissible, Folding!Admissible,
         Fold!Holding, Folding!Holding, Fold!OpenRows, Folding!OpenRows, Fold!Prior,
         Folding!Prior, Fold!Refound, Folding!Refound, Fold!ClosePrior,
         Folding!ClosePrior, Fold!NewRow, Folding!NewRow, Fold!Inserted,
         Folding!Inserted, Fold!Written, Folding!Written, Fold!RefusedBy,
         Folding!RefusedBy, Fold!Idle, Folding!Idle, Fold!RoomFor, Folding!RoomFor,
         Fold!IngestFile, Folding!IngestFile, Fold!Rows, Folding!Rows
<1>5. Fold!FinishPass <=> Folding!FinishPass
  BY Zenon DEF Fold!QuarantineTiers, Folding!QuarantineTiers, Fold!Open,
         Folding!Open, Fold!Overlap, Folding!Overlap, Fold!TemporalUniq,
         Folding!TemporalUniq, Fold!QuarantineTierConsistency,
         Folding!QuarantineTierConsistency, Fold!Admissible, Folding!Admissible,
         Fold!FileKeys, Folding!FileKeys, Fold!Committed, Folding!Committed,
         Fold!RefusedBy, Folding!RefusedBy, Fold!Idle, Folding!Idle, Fold!Attempt,
         Folding!Attempt, Fold!Gone, Folding!Gone, Fold!ArchiveMissing,
         Folding!ArchiveMissing, Fold!FinishPass, Folding!FinishPass
<1>6. Fold!AbortPass <=> Folding!AbortPass
  BY Zenon DEF Fold!RolledBack, Folding!RolledBack, Fold!Idle, Folding!Idle,
         Fold!AbortPass, Folding!AbortPass
<1>7. ASSUME NEW i, NEW c PROVE Fold!Promote(i, c) <=> Folding!Promote(i, c)
  BY Zenon DEF Fold!QuarantineTiers, Folding!QuarantineTiers, Fold!Open,
         Folding!Open, Fold!Overlap, Folding!Overlap, Fold!TemporalUniq,
         Folding!TemporalUniq, Fold!QuarantineTierConsistency,
         Folding!QuarantineTierConsistency, Fold!Admissible, Folding!Admissible,
         Fold!Committed, Folding!Committed, Fold!RefusedBy, Folding!RefusedBy,
         Fold!Idle, Folding!Idle, Fold!Begin, Folding!Begin, Fold!Attempt,
         Folding!Attempt, Fold!Promotable, Folding!Promotable, Fold!Promote,
         Folding!Promote
<1>8. ASSUME NEW i PROVE Fold!Reject(i) <=> Folding!Reject(i)
  BY Zenon DEF Fold!QuarantineTiers, Folding!QuarantineTiers, Fold!Open,
         Folding!Open, Fold!Overlap, Folding!Overlap, Fold!TemporalUniq,
         Folding!TemporalUniq, Fold!QuarantineTierConsistency,
         Folding!QuarantineTierConsistency, Fold!Admissible, Folding!Admissible,
         Fold!Committed, Folding!Committed, Fold!RefusedBy, Folding!RefusedBy,
         Fold!Idle, Folding!Idle, Fold!Begin, Folding!Begin, Fold!Attempt,
         Folding!Attempt, Fold!Archived, Folding!Archived, Fold!Reject,
         Folding!Reject
<1>9. ASSUME NEW i PROVE Fold!Undo(i) <=> Folding!Undo(i)
  BY Zenon DEF Fold!QuarantineTiers, Folding!QuarantineTiers, Fold!Open,
         Folding!Open, Fold!Overlap, Folding!Overlap, Fold!TemporalUniq,
         Folding!TemporalUniq, Fold!QuarantineTierConsistency,
         Folding!QuarantineTierConsistency, Fold!Admissible, Folding!Admissible,
         Fold!Committed, Folding!Committed, Fold!RefusedBy, Folding!RefusedBy,
         Fold!Idle, Folding!Idle, Fold!Begin, Folding!Begin, Fold!Attempt,
         Folding!Attempt, Fold!Undo, Folding!Undo
<1>10. ASSUME NEW c PROVE Fold!ConsoleArchive(c) <=> Folding!ConsoleArchive(c)
  BY Zenon DEF Fold!QuarantineTiers, Folding!QuarantineTiers, Fold!Open,
         Folding!Open, Fold!Overlap, Folding!Overlap, Fold!TemporalUniq,
         Folding!TemporalUniq, Fold!QuarantineTierConsistency,
         Folding!QuarantineTierConsistency, Fold!Admissible, Folding!Admissible,
         Fold!Committed, Folding!Committed, Fold!RefusedBy, Folding!RefusedBy,
         Fold!Idle, Folding!Idle, Fold!Begin, Folding!Begin, Fold!Attempt,
         Folding!Attempt, Fold!ConsoleArchive, Folding!ConsoleArchive
<1>11. ASSUME NEW c PROVE Fold!Decay(c) <=> Folding!Decay(c)
  BY Zenon DEF Fold!QuarantineTiers, Folding!QuarantineTiers, Fold!Open,
         Folding!Open, Fold!Overlap, Folding!Overlap, Fold!TemporalUniq,
         Folding!TemporalUniq, Fold!QuarantineTierConsistency,
         Folding!QuarantineTierConsistency, Fold!Admissible, Folding!Admissible,
         Fold!Committed, Folding!Committed, Fold!RefusedBy, Folding!RefusedBy,
         Fold!Idle, Folding!Idle, Fold!Begin, Folding!Begin, Fold!Attempt,
         Folding!Attempt, Fold!Decayable, Folding!Decayable, Fold!Decay,
         Folding!Decay
<1> QED
  BY Zenon, <1>1, <1>2, <1>3, <1>4, <1>5, <1>6, <1>7, <1>8, <1>9, <1>10, <1>11
     DEF Fold!Next, Folding!Next, Fold!Rows, Folding!Rows, Fold!Tier, Folding!Tier

\* And so are the steps of consolidation.
LEMMA SameFoldNext == Fold!FoldNext <=> Folding!FoldNext
<1>1. ASSUME NEW k, NEW c PROVE Fold!BeginFold(k, c) <=> Folding!BeginFold(k, c)
  BY Zenon DEF Fold!Open, Folding!Open, Fold!Idle, Folding!Idle, Fold!Begin,
         Folding!Begin, Fold!Eligible, Folding!Eligible, Fold!BeginFold,
         Folding!BeginFold
<1>2. ASSUME NEW c PROVE Fold!Dedup(c) <=> Folding!Dedup(c)
  BY Zenon DEF Fold!QuarantineTiers, Folding!QuarantineTiers, Fold!Open,
         Folding!Open, Fold!Overlap, Folding!Overlap, Fold!TemporalUniq,
         Folding!TemporalUniq, Fold!QuarantineTierConsistency,
         Folding!QuarantineTierConsistency, Fold!Admissible, Folding!Admissible,
         Fold!RefusedBy, Folding!RefusedBy, Fold!Rank, Folding!Rank, Fold!Fold1,
         Folding!Fold1, Fold!Anchor, Folding!Anchor, Fold!FoldGroup,
         Folding!FoldGroup, Fold!Survivors, Folding!Survivors, Fold!Dedup,
         Folding!Dedup
<1>3. Fold!SkipAnchor <=> Folding!SkipAnchor
  BY Zenon DEF Fold!Anchor, Folding!Anchor, Fold!SkipAnchor, Folding!SkipAnchor
<1>4. Fold!FinishFold <=> Folding!FinishFold
  BY Zenon DEF Fold!Committed, Folding!Committed, Fold!FinishFold,
         Folding!FinishFold
<1>5. Fold!AbortFold <=> Folding!AbortFold
  BY Zenon DEF Fold!RolledBack, Folding!RolledBack, Fold!AbortFold,
         Folding!AbortFold
<1>6. Fold!NoCallerWritesASummary <=> Folding!NoCallerWritesASummary
  BY Zenon DEF Fold!Summaries, Folding!Summaries, Fold!NoCallerWritesASummary,
         Folding!NoCallerWritesASummary
<1> QED
  BY Zenon, SameNext, SameCompact, <1>1, <1>2, <1>3, <1>4, <1>5, <1>6
     DEF Fold!FoldNext, Folding!FoldNext, Fold!Idle, Folding!Idle, Fold!Kind, Folding!Kind,
         Fold!Rows, Folding!Rows

\* The specifications are the same.
LEMMA SameFolds == Fold!FoldSpec <=> Folding!FoldSpec
<1>1. Fold!FoldInit <=> Folding!FoldInit
  BY DEF Fold!FoldInit, Fold!Init, Folding!FoldInit, Folding!Init, Fold!Committed,
         Folding!Committed
<1>2. Fold!foldVars = Folding!foldVars
  BY DEF Fold!foldVars, Folding!foldVars, Fold!vars, Folding!vars
<1>3. [Fold!FoldNext]_Fold!foldVars <=> [Folding!FoldNext]_Folding!foldVars
  BY SameFoldNext, <1>2 DEF Fold!foldVars, Folding!foldVars, Fold!vars, Folding!vars
<1> QED
  BY <1>1, <1>3, PTL DEF Fold!FoldSpec, Folding!FoldSpec

\* What is assumed of the constants of Consolidation.
LEMMA FoldingConstants ==
    /\ Folding!ConsolidationAssumption /\ Folding!StoreAssumption
    /\ Folding!ContentAssumption /\ Folding!KeyAssumption /\ Folding!NullAssumption
    /\ Folding!TreesAssumption /\ Folding!PassAssumption
<1>1. Folding!ConsolidationAssumption
  BY UnattendedAssumption
     DEF UnattendedAssumption, Fold!ConsolidationAssumption,
         Folding!ConsolidationAssumption, Fold!Fold, Folding!Fold, Fold!Kind,
         Folding!Kind, Fold!Row, Folding!Row, Fold!Status, Folding!Status, Fold!Tier,
         Folding!Tier, Fold!RowKey, Folding!RowKey
<1>2. Folding!StoreAssumption
  BY UnattendedAssumption
     DEF UnattendedAssumption, Fold!StoreAssumption, Folding!StoreAssumption
<1>3. Folding!ContentAssumption /\ Folding!KeyAssumption /\ Folding!NullAssumption
  BY UnattendedAssumption
     DEF UnattendedAssumption, Fold!ContentAssumption, Folding!ContentAssumption,
         Fold!KeyAssumption, Folding!KeyAssumption, Fold!NullAssumption,
         Folding!NullAssumption
<1>4. Folding!TreesAssumption
  BY DEF Folding!TreesAssumption
<1>5. Folding!PassAssumption
  BY UnattendedAssumption
     DEF UnattendedAssumption, Fold!PassAssumption, Folding!PassAssumption, Fold!Pass,
         Folding!Pass, Fold!Tree, Folding!Tree, Fold!FileKeys, Folding!FileKeys,
         Fold!FileState, Folding!FileState, Fold!Row, Folding!Row, Fold!Status,
         Folding!Status, Fold!Tier, Folding!Tier, Fold!RowKey, Folding!RowKey
<1> QED
  BY <1>1, <1>2, <1>3, <1>4, <1>5

\* No pass of consolidation moves trust the wrong way: what dedup archives leaves a
\* served row of at least its trust, and a summary nobody has promoted is trusted no
\* more than what it summarises.
THEOREM ConsolidationKeepsTrust == Fold!FoldSpec => FoldsKeepTrust
<1>1. Folding!FoldSpec => Folding!FoldsKeepTrust
  BY Folding!TrustSurvivesFolds, FoldingConstants
<1> DEFINE A == /\ Fold!Commits("dedup") =>
                    \A e \in fold.edges :
                        /\ mem'[e[1]].status = "active"
                        /\ Fold!Rank(mem'[e[1]].tier) >= Fold!Rank(mem[e[2]].tier)
                /\ Fold!Commits("compaction") =>
                    \A e \in fold.edges :
                        \/ mem'[e[1]].review # NULL
                        \/ Fold!Rank(mem'[e[1]].tier) <= Fold!Rank(mem[e[2]].tier)
           B == /\ Folding!Commits("dedup") =>
                    \A e \in fold.edges :
                        /\ mem'[e[1]].status = "active"
                        /\ Folding!Rank(mem'[e[1]].tier) >= Folding!Rank(mem[e[2]].tier)
                /\ Folding!Commits("compaction") =>
                    \A e \in fold.edges :
                        \/ mem'[e[1]].review # NULL
                        \/ Folding!Rank(mem'[e[1]].tier) <= Folding!Rank(mem[e[2]].tier)
<1>2. A <=> B
  BY Zenon DEF Fold!Commits, Folding!Commits, Fold!Committed, Folding!Committed,
               Fold!Rank, Folding!Rank
<1> HIDE DEF A, B
<1>3. [A]_Fold!foldVars <=> [B]_Folding!foldVars
  BY <1>2 DEF Fold!foldVars, Folding!foldVars, Fold!vars, Folding!vars
<1>4. FoldsKeepTrust <=> [][A]_Fold!foldVars
  BY Zenon DEF A, FoldsKeepTrust, Fold!FoldsKeepTrust
<1>5. Folding!FoldsKeepTrust <=> [][B]_Folding!foldVars
  BY Zenon DEF B, Folding!FoldsKeepTrust
<1> QED
  BY <1>1, <1>3, <1>4, <1>5, SameFolds, PTL
-----------------------------------------------------------------------------
(***************************************************************************)
(* Writers that overlap: what ConcurrentWritersProofs proves, of the       *)
(* instance that Unattended checks.                                        *)
(***************************************************************************)
Chain == INSTANCE ConcurrentWritersProofs WITH Process <- Writer

LEMMA ChainConstants == Chain!ConcurrentWritersAssumption
BY UnattendedAssumption
   DEF UnattendedAssumption, Writers!ConcurrentWritersAssumption,
       Chain!ConcurrentWritersAssumption, Writers!SweepCall, Writers!WriteCall,
       Chain!SweepCall, Chain!WriteCall, Writers!Row, Chain!Row, Writers!RowKey,
       Chain!RowKey, Writers!Tx, Chain!Tx

LEMMA SameWriters == Writers!Spec <=> Chain!Spec
<1>1. Writers!Init <=> Chain!Init
  BY DEF Writers!Init, Chain!Init
<1>2. Writers!Next <=> Chain!Next
  BY Zenon DEF Writers!WriteCall, Chain!WriteCall, Writers!SweepCall,
         Chain!SweepCall, Writers!vars, Chain!vars, Writers!RowKey, Chain!RowKey,
         Writers!Rows, Chain!Rows, Writers!At, Chain!At, Writers!Open, Chain!Open,
         Writers!Closable, Chain!Closable, Writers!Until, Chain!Until,
         Writers!Overlap, Chain!Overlap, Writers!Pending, Chain!Pending,
         Writers!MustWait, Chain!MustWait, Writers!CollidesWithOpen,
         Chain!CollidesWithOpen, Writers!Collides, Chain!Collides, Writers!Locked,
         Chain!Locked, Writers!Raises, Chain!Raises, Writers!Goes, Chain!Goes,
         Writers!Picks, Chain!Picks, Writers!Writes, Chain!Writes, Writers!Begin,
         Chain!Begin, Writers!Look, Chain!Look, Writers!Retire, Chain!Retire,
         Writers!Prior, Chain!Prior, Writers!Ends, Chain!Ends, Writers!Close,
         Chain!Close, Writers!Missing, Chain!Missing, Writers!Archive,
         Chain!Archive, Writers!Born, Chain!Born, Writers!Insert, Chain!Insert,
         Writers!Commit, Chain!Commit, Writers!Abort, Chain!Abort, Writers!Next,
         Chain!Next
<1>3. [Writers!Next]_Writers!vars <=> [Chain!Next]_Chain!vars
  BY <1>2 DEF Writers!vars, Chain!vars
<1> QED
  BY <1>1, <1>3, PTL DEF Writers!Spec, Chain!Spec

\* The versions of a key form one chain, whatever overlaps.
THEOREM WritersKeepOneChain == Writers!Spec => []VersionsFormAChain
<1>1. VersionsFormAChain <=> Chain!VersionsFormAChain
  BY DEF VersionsFormAChain, Chain!VersionsFormAChain, Writers!VersionsFormAChain,
         Writers!Rows, Chain!Rows, Writers!Open, Chain!Open, Writers!Overlap,
         Chain!Overlap
<1>2. Chain!Spec => []Chain!VersionsFormAChain
  BY ChainConstants, Chain!ChainsHold
<1> QED
  BY <1>1, <1>2, SameWriters, PTL

LEMMA WritersTypes == Writers!Spec => []Writers!TypeOK
<1>1. Writers!TypeOK <=> Chain!TypeOK
  BY DEF Writers!TypeOK, Chain!TypeOK, Writers!Row, Chain!Row, Writers!RowKey, Chain!RowKey,
         Writers!Tx, Chain!Tx, Writers!WriteCall, Chain!WriteCall, Writers!SweepCall,
         Chain!SweepCall
<1>2. Chain!Spec => []Chain!TypeOK
  BY ChainConstants, Chain!WritersTypeCorrect
<1> QED
  BY <1>1, <1>2, SameWriters, PTL

LEMMA FoldTypes == Fold!FoldSpec => []Fold!FoldTypeOK
<1>1. Folding!FoldSpec => []Folding!FoldTypeOK
  BY Folding!FoldTypeCorrect, FoldingConstants
<1>2. Fold!FoldTypeOK <=> Folding!FoldTypeOK
  BY DEF Fold!FoldTypeOK, Folding!FoldTypeOK, Fold!TypeOK, Folding!TypeOK,
         Fold!Row, Folding!Row, Fold!Status, Folding!Status, Fold!Tier, Folding!Tier,
         Fold!RowKey, Folding!RowKey, Fold!Pass, Folding!Pass, Fold!Tree, Folding!Tree,
         Fold!FileKeys, Folding!FileKeys, Fold!FileState, Folding!FileState,
         Fold!Fold, Folding!Fold, Fold!Kind, Folding!Kind, Fold!Rows, Folding!Rows,
         Fold!Committed, Folding!Committed, Fold!RolledBack, Folding!RolledBack,
         Fold!RefusedBy, Folding!RefusedBy, Fold!Op, Folding!Op
<1> QED
  BY <1>1, <1>2, SameFolds, PTL
-----------------------------------------------------------------------------
(***************************************************************************)
(* The parts side by side: a step is of one part and leaves the others as  *)
(* they are, so that a behaviour of the whole is a behaviour of each.      *)
(***************************************************************************)
LEMMA RestsAreOfTheParts ==
    /\ UNCHANGED graphVars => UNCHANGED Graph!vars
    /\ UNCHANGED orgVars => UNCHANGED Shared!vars
    /\ UNCHANGED machineVars => UNCHANGED Machine!vars
    /\ UNCHANGED foldVars => UNCHANGED Fold!foldVars
    /\ UNCHANGED taskVars => UNCHANGED Tasks!vars
    /\ UNCHANGED schedulerVars => UNCHANGED Loop!schedulerVars
    /\ UNCHANGED distillVars => UNCHANGED Distill!distillVars
    /\ UNCHANGED gitVars => UNCHANGED Git!gitVars
    /\ UNCHANGED writerVars => UNCHANGED Writers!vars
    /\ UNCHANGED bindingVars => UNCHANGED vars
<1>1. UNCHANGED graphVars => UNCHANGED Graph!vars
  BY DEF graphVars, Graph!vars
<1>2. UNCHANGED orgVars => UNCHANGED Shared!vars
  BY DEF orgVars, Shared!vars
<1>3. UNCHANGED machineVars => UNCHANGED Machine!vars
  BY DEF machineVars, Machine!vars
<1>4. UNCHANGED foldVars => UNCHANGED Fold!foldVars
  BY DEF foldVars, Fold!foldVars, Fold!vars
<1>5. UNCHANGED taskVars => UNCHANGED Tasks!vars
  BY DEF taskVars, Tasks!vars
<1>6. UNCHANGED schedulerVars => UNCHANGED Loop!schedulerVars
  BY DEF schedulerVars, Loop!schedulerVars
<1>7. UNCHANGED distillVars => UNCHANGED Distill!distillVars
  BY DEF distillVars, Distill!distillVars
<1>8. UNCHANGED gitVars => UNCHANGED Git!gitVars
  BY DEF gitVars, Git!gitVars
<1>9. UNCHANGED writerVars => UNCHANGED Writers!vars
  BY DEF writerVars, Writers!vars
<1>10. UNCHANGED bindingVars => UNCHANGED vars
  BY DEF bindingVars
<1> QED
  BY <1>1, <1>2, <1>3, <1>4, <1>5, <1>6, <1>7, <1>8, <1>9, <1>10

LEMMA UnattendedStepIsOfAPart ==
    ASSUME [UnattendedNext]_<<scene, graphVars, orgVars, machineVars, foldVars, taskVars,
                schedulerVars, distillVars, gitVars, writerVars, bindingVars>>
    PROVE  /\ [Graph!Next]_Graph!vars /\ [Shared!Next]_Shared!vars
           /\ [Machine!Next]_Machine!vars /\ [Fold!FoldNext]_Fold!foldVars
           /\ [Tasks!Next]_Tasks!vars /\ [Loop!Next]_Loop!schedulerVars
           /\ [Distill!Next]_Distill!distillVars /\ [Git!Next]_Git!gitVars
           /\ [Writers!Next]_Writers!vars /\ [Next]_vars /\ scene' = scene
<1>1. CASE UnattendedNext
  BY Zenon, <1>1, RestsAreOfTheParts DEF UnattendedNext
<1>2. CASE UNCHANGED <<scene, graphVars, orgVars, machineVars, foldVars, taskVars,
                schedulerVars, distillVars, gitVars, writerVars, bindingVars>>
  BY <1>2, RestsAreOfTheParts
<1> QED
  BY <1>1, <1>2

LEMMA UnattendedIsEach ==
    UnattendedSpec =>
        /\ Graph!Spec /\ Shared!Spec /\ Machine!Spec /\ Fold!FoldSpec /\ TaskRun
        /\ Loop!Spec /\ Distill!Spec /\ Git!Spec /\ Writers!Spec /\ Spec
        /\ [](scene \in Scenes)
<1>1. UnattendedInit =>
        /\ Graph!Init /\ Shared!Init /\ Machine!Init /\ Fold!FoldInit /\ Tasks!Init
        /\ Loop!Init /\ Distill!Init /\ Git!Init /\ Writers!Init /\ Init
        /\ scene \in Scenes
  BY DEF UnattendedInit
<1>2. scene \in Scenes /\ scene' = scene => (scene \in Scenes)'
  OBVIOUS
<1> QED
  BY <1>1, <1>2, UnattendedStepIsOfAPart, PTL
     DEF UnattendedSpec, Graph!Spec, Shared!Spec, Machine!Spec, Fold!FoldSpec, TaskRun,
         Loop!Spec, Distill!Spec, Git!Spec, Writers!Spec, Spec

LEMMA BindingIsSound == BindingAssumption
BY UnattendedAssumption DEF UnattendedAssumption

\* The part that moves keeps its types.
THEOREM UnattendedTypeCorrect == UnattendedSpec => []UnattendedTypeOK
<1>1. Spec => []TypeOK
  BY BindingIsSound, BindingTypeCorrect
<1>2. ASSUME scene \in Scenes,
             Graph!TypeOK, Shared!TypeOK, Machine!TypeOK, Fold!FoldTypeOK, Tasks!TypeOK,
             Loop!TypeOK, Distill!TypeOK, Git!TypeOK, Writers!TypeOK, TypeOK
      PROVE  UnattendedTypeOK
  <2>1. scene \in {"graph", "org", "machine", "fold", "tasks", "scheduler",
                   "distill", "git", "writers", "binding"}
    BY <1>2, UnattendedAssumption DEF UnattendedAssumption
  <2> QED
    BY <1>2, <2>1 DEF UnattendedTypeOK
<1> QED
  BY <1>1, <1>2, UnattendedIsEach, GraphTypeCorrect, OrgTypeCorrect, MachineTypeCorrect,
     FoldTypes, TasksTypeCorrect, SchedulerTypeCorrect, DistillTypeCorrect, GitTypeCorrect,
     WritersTypes, PTL

\* All that the parts promise holds of the parts side by side, with nobody watching.
THEOREM UnattendedKeepsItsPromises ==
    UnattendedSpec =>
        /\ [](/\ EdgesAreEarned /\ OneQuestionPerDisagreement /\ SharedCrossedReview
              /\ SwitchFollowsTheQueue /\ MachineWritingIsReviewed /\ DecisionsCountedOnce
              /\ QuietMeansCurrent /\ ProposalsAreEarnedOnce /\ JobProvenanceResolves
              /\ OrgBindsOnce /\ TokenCoversReads /\ VersionsFormAChain)
        /\ DecisionsStand /\ FoldsKeepTrust /\ TerminalIsFinal /\ DecayedWereUnused
<1>1. Spec => [](OrgBindsOnce /\ TokenCoversReads)
  BY BindingIsSound, OrgBindsOnceAlways, TokenCoversReadsAlways, PTL
<1> QED
  BY <1>1, UnattendedIsEach, MachinesOnlyPropose, DisagreementsAreAskedOnce,
     SharingIsReviewed, TheSwitchFollowsTheQueue, MachinesAreReviewed, NothingIsCountedTwice,
     QuietMeansTheIndexIsTheTree, PeopleAreAskedOnceForAReason, JobProvenanceIsTrue,
     WritersKeepOneChain, DecisionsAreFinal, ConsolidationKeepsTrust, TerminalStatusIsFinal,
     DecayArchivesWhatNobodyUsed, PTL
=============================================================================
