------------------------------ MODULE Scheduler ------------------------------
(***************************************************************************)
(* The scheduler: one process that polls the .memory tree of the bound     *)
(* project and, when its fingerprint has changed, reconciles the index in  *)
(* one transaction and runs the maintenance sweep in a second one.  The    *)
(* sweep counts the packs each memory was in, archives episodes nobody     *)
(* used, embeds what was written while the embedder was away and keeps the *)
(* partitions of retrieval_events ahead of the month.  POST                *)
(* /v1/maintenance runs the same sweep beside it.                          *)
(*                                                                         *)
(* What a pass of ingestion does to the table is MemoryStore's subject:    *)
(* here the index holds one version of the tree.  The sweep's other steps  *)
(* (conflicts, dedup, compaction, distillation) have modules of their own; *)
(* here they can only break the transaction.  A database error in a step   *)
(* is caught by run_all and leaves the transaction aborted: every later    *)
(* statement fails, and the commit undoes what the earlier steps did.      *)
(* Left out: the index advice, the hourly curation sample (Extraction),    *)
(* utility's value and pins.                                               *)
(***************************************************************************)
EXTENDS Integers, FiniteSets

CONSTANTS
    Memory,      \* episodes
    Sweeper,     \* "loop" and the API's
    Ahead,       \* months of partitions made in advance
    MaxEdits,    \* bound: edits of the tree
    MaxMonth,    \* bound: months that pass
    MaxPacks,    \* bound: packs per memory
    MaxTrouble,  \* bound: failing transactions, restarts and outages
    NULL

SchedulerAssumption ==
    /\ "loop" \in Sweeper
    /\ {Ahead, MaxEdits, MaxMonth, MaxPacks, MaxTrouble} \subseteq Nat
    /\ NULL \notin Nat

VARIABLES
    registered, \* the bound project has its rows
    tree,      \* the .memory tree: its text, what stat() shows, and whether
               \* the last edit shows
    loop,      \* where the loop is and the fingerprints it holds
    indexed,   \* the text the index holds
    memories,  \* [Memory -> row]
    packs,     \* committed retrieval events that returned the memory
    sweeps,    \* the sweep each process is in, or NULL
    month,
    covered,   \* last month retrieval_events has a partition for
    embedder,  \* "up" or "down"
    trouble

schedulerVars == <<registered, tree, loop, indexed, memories, packs, sweeps, month,
                   covered, embedder, trouble>>

Steps == {"utility", "decay", "embeddings", "partitions", "end"}

Row == [state : {"unwritten", "open", "archived"}, old : BOOLEAN,
        count : 0..MaxPacks, vector : BOOLEAN]

Sweep == [at       : Steps,
          broken   : BOOLEAN,                       \* the transaction is aborted
          counts   : [Memory -> {NULL} \cup 0..MaxPacks],  \* retrieval_count set
          archives : SUBSET Memory,                 \* rows decay closed
          embeds   : SUBSET Memory,                 \* vectors inserted
          covers   : {NULL} \cup Nat,               \* partitions created
          unused   : SUBSET Memory]                 \* in no pack when it began

TypeOK ==
    /\ registered \in BOOLEAN
    /\ tree \in [text : 0..MaxEdits, stat : 0..MaxEdits, shows : BOOLEAN]
    /\ loop \in [at : {"starting", "asleep", "polled", "ingested"},
                 kept : {NULL} \cup 0..MaxEdits, seen : 0..MaxEdits]
    /\ indexed \in {NULL} \cup 0..MaxEdits
    /\ memories \in [Memory -> Row]
    /\ packs \in [Memory -> 0..MaxPacks]
    /\ sweeps \in [Sweeper -> {NULL} \cup Sweep]
    /\ month \in 0..MaxMonth
    /\ covered \in 0..(MaxMonth + Ahead)
    /\ embedder \in {"up", "down"}
    /\ trouble \in 0..MaxTrouble

Init ==
    /\ registered = FALSE
    /\ tree = [text |-> 0, stat |-> 0, shows |-> TRUE]
    /\ loop = [at |-> "starting", kept |-> NULL, seen |-> 0]
    /\ indexed = NULL
    /\ memories = [m \in Memory |-> [state |-> "unwritten", old |-> FALSE,
                                     count |-> 0, vector |-> FALSE]]
    /\ packs = [m \in Memory |-> 0]
    /\ sweeps = [s \in Sweeper |-> NULL]
    /\ month = 0
    /\ covered = Ahead
    /\ embedder = "up"
    /\ trouble = 0

Trouble ==
    /\ trouble < MaxTrouble
    /\ trouble' = trouble + 1
-----------------------------------------------------------------------------
(***************************************************************************)
(* The world around it.                                                    *)
(***************************************************************************)
\* A file is edited; an edit that keeps its size within one second of the last
\* look does not show.
Edit(shows) ==
    /\ tree.text < MaxEdits
    /\ tree' = [text  |-> tree.text + 1,
                stat  |-> IF shows THEN tree.text + 1 ELSE tree.stat,
                shows |-> shows]
    /\ UNCHANGED <<registered, loop, indexed, memories, packs, sweeps, month,
                   covered, embedder, trouble>>

\* The memories of ms that get a vector: none while the embedder is away, and
\* nobody fails for it.
Embedded(ms) == IF embedder = "up" THEN ms ELSE {}

\* A memory is written.
Write(m) ==
    /\ registered
    /\ memories[m].state = "unwritten"
    /\ memories' = [memories EXCEPT ![m].state = "open",
                                    ![m].vector = m \in Embedded({m})]
    /\ UNCHANGED <<registered, tree, loop, indexed, packs, sweeps, month,
                   covered, embedder, trouble>>

\* An operator asks for a new vector, and is told when there is none to be had.
Reembed(m) ==
    /\ memories[m].state # "unwritten"
    /\ m \in Embedded({m})
    /\ memories' = [memories EXCEPT ![m].vector = TRUE]
    /\ UNCHANGED <<registered, tree, loop, indexed, packs, sweeps, month,
                   covered, embedder, trouble>>

\* Thirty days pass for m.
Age(m) ==
    /\ memories[m].state = "open"
    /\ ~memories[m].old
    /\ memories' = [memories EXCEPT ![m].old = TRUE]
    /\ UNCHANGED <<registered, tree, loop, indexed, packs, sweeps, month,
                   covered, embedder, trouble>>

\* A pack with m is served: the event needs a partition of this month.
Serve(m) ==
    /\ memories[m].state = "open"
    /\ month <= covered
    /\ packs[m] < MaxPacks
    /\ packs' = [packs EXCEPT ![m] = @ + 1]
    /\ UNCHANGED <<registered, tree, loop, indexed, memories, sweeps, month,
                   covered, embedder, trouble>>

Outage ==
    /\ Trouble
    /\ embedder = "up"
    /\ embedder' = "down"
    /\ UNCHANGED <<registered, tree, loop, indexed, memories, packs, sweeps,
                   month, covered>>

Recovery ==
    /\ embedder = "down"
    /\ embedder' = "up"
    /\ UNCHANGED <<registered, tree, loop, indexed, memories, packs, sweeps,
                   month, covered, trouble>>
-----------------------------------------------------------------------------
(***************************************************************************)
(* The loop: worker._poll_once, every ingest_interval_s.                   *)
(***************************************************************************)
\* _ensure_bound_scope, once per start: the rows are made unless they are there.
Bind ==
    /\ loop.at = "starting"
    /\ registered' = TRUE
    /\ loop' = [loop EXCEPT !.at = "asleep"]
    /\ UNCHANGED <<tree, indexed, memories, packs, sweeps, month, covered,
                   embedder, trouble>>

\* It fails, and the loop begins without it.
BindFails ==
    /\ Trouble
    /\ loop.at = "starting"
    /\ loop' = [loop EXCEPT !.at = "asleep"]
    /\ UNCHANGED <<registered, tree, indexed, memories, packs, sweeps, month,
                   covered, embedder>>

\* The fingerprint is taken before the tree is read.
Poll ==
    /\ loop.at = "asleep"
    /\ tree.stat # loop.kept
    /\ loop' = [loop EXCEPT !.at = "polled", !.seen = tree.stat]
    /\ UNCHANGED <<registered, tree, indexed, memories, packs, sweeps, month,
                   covered, embedder, trouble>>

\* ingest_tree commits.
Ingest ==
    /\ registered
    /\ loop.at = "polled"
    /\ indexed' = tree.text
    /\ loop' = [loop EXCEPT !.at = "ingested"]
    /\ UNCHANGED <<registered, tree, memories, packs, sweeps, month, covered,
                   embedder, trouble>>

\* Rows of a project that is not there are refused, on every pass until the
\* process is started again.
IngestRefused ==
    /\ ~registered
    /\ loop.at = "polled"
    /\ loop' = [loop EXCEPT !.at = "asleep"]
    /\ UNCHANGED <<registered, tree, indexed, memories, packs, sweeps, month,
                   covered, embedder, trouble>>

\* Mutant of PassFails: the fingerprint was noted when it was taken.
PassFailsKeeping ==
    /\ Trouble
    /\ loop.at = "polled"
    /\ loop' = [loop EXCEPT !.at = "asleep", !.kept = loop.seen]
    /\ UNCHANGED <<registered, tree, indexed, memories, packs, sweeps, month,
                   covered, embedder>>

\* A transient error: the pass raises, the old fingerprint stays.
PassFails ==
    /\ Trouble
    /\ loop.at = "polled"
    /\ loop' = [loop EXCEPT !.at = "asleep"]
    /\ UNCHANGED <<registered, tree, indexed, memories, packs, sweeps, month,
                   covered, embedder>>

\* The process dies and is started again; its transaction is undone.
Restart ==
    /\ Trouble
    /\ loop' = [at |-> "starting", kept |-> NULL, seen |-> 0]
    /\ sweeps' = [sweeps EXCEPT !["loop"] = NULL]
    /\ UNCHANGED <<registered, tree, indexed, memories, packs, month, covered,
                   embedder>>
-----------------------------------------------------------------------------
(***************************************************************************)
(* The sweep: maintenance.run_all, one transaction.                        *)
(***************************************************************************)
\* Mutant of After: decay comes first.
AfterDecayFirst ==
    [begin |-> "decay", decay |-> "utility", utility |-> "embeddings",
     embeddings |-> "partitions", partitions |-> "end"]

\* The order of the steps.
After ==
    [begin |-> "utility", utility |-> "decay", decay |-> "embeddings",
     embeddings |-> "partitions", partitions |-> "end"]

BeginSweep(s) ==
    /\ sweeps[s] = NULL
    /\ s = "loop" => loop.at = "ingested"
    /\ sweeps' = [sweeps EXCEPT ![s] =
                    [at       |-> After.begin,
                     broken   |-> FALSE,
                     counts   |-> [m \in Memory |-> NULL],
                     archives |-> {},
                     embeds   |-> {},
                     covers   |-> NULL,
                     unused   |-> {m \in Memory : packs[m] = 0}]]
    /\ UNCHANGED <<registered, tree, loop, indexed, memories, packs, month,
                   covered, embedder, trouble>>

Running(s, step) ==
    /\ sweeps[s] # NULL
    /\ sweeps[s].at = step
    /\ ~sweeps[s].broken

\* Rows another sweep has changed and not committed: this one waits for it.
Locked(s) ==
    UNION {{m \in Memory : sweeps[o].counts[m] # NULL \/ m \in sweeps[o].archives} :
                o \in {o \in Sweeper \ {s} : sweeps[o] # NULL}}

Done(s, changed) ==
    /\ sweeps' = [sweeps EXCEPT ![s] = changed]
    /\ UNCHANGED <<registered, tree, loop, indexed, memories, packs, month,
                   covered, embedder, trouble>>

\* recompute_utility: retrieval_count becomes the number of packs, for the
\* rows where it differs.
Utility(s) ==
    LET stale == {m \in Memory : memories[m].count # packs[m]}
    IN  /\ Running(s, "utility")
        /\ stale \cap Locked(s) = {}
        /\ Done(s, [sweeps[s] EXCEPT !.at = After.utility,
                                     !.counts = [m \in Memory |->
                                        IF m \in stale THEN packs[m] ELSE NULL]])

\* retrieval_count as this transaction sees it.
CountSeen(s, m) ==
    IF sweeps[s].counts[m] # NULL THEN sweeps[s].counts[m] ELSE memories[m].count

\* decay: episodes of thirty days in no pack.
Decay(s) ==
    LET stale == {m \in Memory : /\ memories[m].state = "open"
                                 /\ memories[m].old
                                 /\ CountSeen(s, m) = 0}
    IN  /\ Running(s, "decay")
        /\ stale \cap Locked(s) = {}
        /\ Done(s, [sweeps[s] EXCEPT !.at = After.decay, !.archives = stale])

\* backfill_embeddings: open rows without a vector, oldest first, until the
\* embedder fails.
Backfill(s) ==
    LET missing == {m \in Memory : /\ memories[m].state = "open"
                                   /\ ~memories[m].vector
                                   /\ m \notin sweeps[s].archives}
    IN  /\ Running(s, "embeddings")
        /\ Done(s, [sweeps[s] EXCEPT !.at = After.embeddings,
                                     !.embeds = Embedded(missing)])

\* ensure_partitions.
Partitions(s) ==
    /\ Running(s, "partitions")
    /\ Done(s, [sweeps[s] EXCEPT !.at = After.partitions, !.covers = month + Ahead])

\* A statement of one of the steps fails, or a lock is not granted.
Break(s) ==
    /\ Trouble
    /\ sweeps[s] # NULL
    /\ ~sweeps[s].broken
    /\ sweeps' = [sweeps EXCEPT ![s].broken = TRUE, ![s].at = "end"]
    /\ UNCHANGED <<registered, tree, loop, indexed, memories, packs, month,
                   covered, embedder>>

\* _poll_once returns the fingerprint, whatever became of the sweep.
Slept(s) ==
    IF s = "loop" THEN [loop EXCEPT !.at = "asleep", !.kept = loop.seen] ELSE loop

CommitSweep(s) ==
    /\ Running(s, "end")
    /\ memories' =
        [m \in Memory |->
            [memories[m] EXCEPT
                !.count  = CountSeen(s, m),
                !.state  = IF m \in sweeps[s].archives THEN "archived" ELSE @,
                !.vector = @ \/ m \in sweeps[s].embeds]]
    /\ covered' = IF sweeps[s].covers > covered THEN sweeps[s].covers ELSE covered
    /\ sweeps' = [sweeps EXCEPT ![s] = NULL]
    /\ loop' = Slept(s)
    /\ UNCHANGED <<registered, tree, indexed, packs, month, embedder, trouble>>

\* The commit of an aborted transaction undoes it and reports nothing.
LoseSweep(s) ==
    /\ sweeps[s] # NULL
    /\ sweeps[s].broken
    /\ sweeps' = [sweeps EXCEPT ![s] = NULL]
    /\ loop' = Slept(s)
    /\ UNCHANGED <<registered, tree, indexed, memories, packs, month, covered,
                   embedder, trouble>>
-----------------------------------------------------------------------------
\* The loop finds nothing to do.
Quiet == loop.at = "asleep" /\ tree.stat = loop.kept

\* A month passes; the scheduler has not been down for it.
NextMonth ==
    /\ Quiet
    /\ month < MaxMonth
    /\ month' = month + 1
    /\ UNCHANGED <<registered, tree, loop, indexed, memories, packs, sweeps,
                   covered, embedder, trouble>>

SweepSteps(s) ==
    \/ BeginSweep(s)
    \/ Utility(s)
    \/ Decay(s)
    \/ Backfill(s)
    \/ Partitions(s)
    \/ CommitSweep(s)
    \/ LoseSweep(s)

Next ==
    \/ \E shows \in BOOLEAN : Edit(shows)
    \/ \E m \in Memory : Write(m) \/ Reembed(m) \/ Age(m) \/ Serve(m)
    \/ Outage
    \/ Recovery
    \/ Bind
    \/ BindFails
    \/ Poll
    \/ Ingest
    \/ IngestRefused
    \/ PassFails
    \/ Restart
    \/ \E s \in Sweeper : SweepSteps(s) \/ Break(s)
    \/ NextMonth

Spec == Init /\ [][Next]_schedulerVars
-----------------------------------------------------------------------------
(***************************************************************************)
(* Properties.                                                             *)
(***************************************************************************)
\* What decay archives was in no pack when its sweep began: the count it asks
\* for is refreshed first, whatever earlier sweeps were lost or run side by
\* side.
DecayedWereUnused ==
    [][\A m \in Memory, s \in Sweeper :
        memories[m].state = "open" /\ memories'[m].state = "archived"
            /\ sweeps[s] # NULL /\ sweeps'[s] = NULL
        => m \in sweeps[s].unused]_schedulerVars

\* Whenever the loop finds nothing to do, the index holds the tree, or the last
\* edit did not show: through failing passes, restarts and edits made while a
\* pass was running.
QuietMeansCurrent == Quiet /\ tree.shows => indexed = tree.text

\* "The failure mode requires the scheduler to be down for a quarter before it
\* can bite" (ensure_partitions): while it is up, a pack can be recorded.  The
\* code does not keep it: the sweep runs only when the tree has changed.
PartitionsAreAhead == month <= covered
=============================================================================
