------------------------------ MODULE Unattended ------------------------------
(***************************************************************************)
(* What runs or waits with no caller watching: the curation modules        *)
(* (EntityGraph, OrgEntities, Extraction), consolidation, the task         *)
(* handles, the scheduler with its sweep, distillation, ingestion beside   *)
(* git and beside other writers, and the binding of repositories and       *)
(* tokens that deliveries are routed and read by (Binding, which this      *)
(* module extends).  The modules share no state, so a behaviour is one of  *)
(* theirs and the state space is the sum of theirs: `scene` names the      *)
(* module that moves.                                                      *)
(*                                                                         *)
(* A constant has the name it has in the module it is of; where two        *)
(* modules use one name for different sets, the instance says which.       *)
(***************************************************************************)
EXTENDS Binding, Sequences

CONSTANTS
    Process, Memory, Reviewer, Dictionary, Glossary, Subjects, Infers, Declares,
    Trusted, Supersedes, Labels, MaxAborts,                     \* EntityGraph
    Entity, Name, Specific, Curator,                            \* OrgEntities
    Candidate, WellFormed, Grounded, Flagged, MaxCandidates,
    DisableDepth, SustainedDays, MaxDay, MaxReviews,            \* Extraction
    Content, Injected, Episodic, Refused, Key, Source, ApiSource,
    SummaryOf, MinGroup, MaxRows, MaxClock,                     \* Consolidation
    Task, Handler, Loadings, MaxCrashes,                        \* McpTasks
    Episode, Sweeper, Ahead, MaxEdits, MaxMonth, MaxPacks,
    MaxTrouble,                                                 \* Scheduler
    Action, Session, Minimum, MaxCaptures, MaxRuns,             \* Distillation
    Files, Text, Root, MaxCommits, MaxPasses,                   \* GitIngest
    Writer, Calls, MaxStarts,                                   \* ConcurrentWriters
    Scenes         \* bound: the modules that may move

VARIABLES
    scene,
    authored, observed, mention, edge, proposal, status, conflict, cache,
    reviewing, aborts,
    restricted, promotion, shared, deciding,
    day, row, decided, sample, session, low, lastDepth,
    mem, clock, ingesting, call, fold, folded,
    loading, handle, request, given, queue, doing, done, crashes,
    registered, tree, loop, indexed, memories, packs, sweeps, month, covered,
    embedder, trouble,
    captures, distilling, runs, audit, attempts, checkout,
    commits, head, work, bound, rows, pass, passes,
    table, tx, now

graphVars == <<authored, observed, mention, edge, proposal, status, conflict,
               cache, reviewing, aborts>>
orgVars == <<restricted, promotion, shared, deciding>>
machineVars == <<day, row, decided, sample, session, low, lastDepth>>
foldVars == <<mem, clock, ingesting, call, fold, folded>>
taskVars == <<loading, handle, request, given, queue, doing, done, crashes>>
schedulerVars == <<registered, tree, loop, indexed, memories, packs, sweeps, month,
                   covered, embedder, trouble>>
distillVars == <<captures, distilling, runs, audit, attempts, checkout>>
gitVars == <<commits, head, work, bound, rows, pass, passes>>
writerVars == <<table, tx, now>>
bindingVars == vars
-----------------------------------------------------------------------------
Graph == INSTANCE EntityGraph

Shared == INSTANCE OrgEntities WITH
    Reviewer <- Curator, proposal <- promotion, reviewing <- deciding

Machine == INSTANCE Extraction WITH Text <- Candidate

\* Plane A has GitIngest here: no file is read while consolidation runs.
Fold == INSTANCE Consolidation WITH Trees <- {}, Files <- <<>>, pass <- ingesting

Tasks == INSTANCE McpTasks WITH Worker <- Handler, status <- handle, job <- doing

Loop == INSTANCE Scheduler WITH Memory <- Episode

Distill == INSTANCE Distillation WITH pass <- distilling

Git == INSTANCE GitIngest

Writers == INSTANCE ConcurrentWriters WITH Process <- Writer

ASSUME UnattendedAssumption ==
    /\ Scenes \subseteq {"graph", "org", "machine", "fold", "tasks", "scheduler",
                          "distill", "git", "writers", "binding"}
    /\ BindingAssumption
    /\ Graph!GraphAssumption /\ Shared!OrgAssumption /\ Machine!ExtractionAssumption
    /\ Fold!ContentAssumption /\ Fold!KeyAssumption /\ Fold!NullAssumption
    /\ Fold!StoreAssumption /\ Fold!TreesAssumption /\ Fold!PassAssumption
    /\ Fold!ConsolidationAssumption /\ Tasks!McpTasksAssumption
    /\ Loop!SchedulerAssumption /\ Distill!DistillationAssumption
    /\ Git!GitIngestAssumption /\ Writers!ConcurrentWritersAssumption
-----------------------------------------------------------------------------
UnattendedInit ==
    /\ scene \in Scenes
    /\ Graph!Init /\ Shared!Init /\ Machine!Init
    /\ Fold!FoldInit /\ Tasks!Init /\ Loop!Init /\ Distill!Init /\ Git!Init
    /\ Writers!Init
    /\ Init
    /\ scene = "tasks" \/ loading = "import"

UnattendedNext ==
    \/ /\ scene = "graph" /\ Graph!Next
       /\ UNCHANGED <<scene, orgVars, machineVars, foldVars, taskVars,
                      schedulerVars, distillVars, gitVars, writerVars, bindingVars>>
    \/ /\ scene = "org" /\ Shared!Next
       /\ UNCHANGED <<scene, graphVars, machineVars, foldVars, taskVars,
                      schedulerVars, distillVars, gitVars, writerVars, bindingVars>>
    \/ /\ scene = "machine" /\ Machine!Next
       /\ UNCHANGED <<scene, graphVars, orgVars, foldVars, taskVars,
                      schedulerVars, distillVars, gitVars, writerVars, bindingVars>>
    \/ /\ scene = "fold" /\ Fold!FoldNext
       /\ UNCHANGED <<scene, graphVars, orgVars, machineVars, taskVars,
                      schedulerVars, distillVars, gitVars, writerVars, bindingVars>>
    \/ /\ scene = "tasks" /\ Tasks!Next
       /\ UNCHANGED <<scene, graphVars, orgVars, machineVars, foldVars,
                      schedulerVars, distillVars, gitVars, writerVars, bindingVars>>
    \/ /\ scene = "scheduler" /\ Loop!Next
       /\ UNCHANGED <<scene, graphVars, orgVars, machineVars, foldVars,
                      taskVars, distillVars, gitVars, writerVars, bindingVars>>
    \/ /\ scene = "distill" /\ Distill!Next
       /\ UNCHANGED <<scene, graphVars, orgVars, machineVars, foldVars,
                      taskVars, schedulerVars, gitVars, writerVars, bindingVars>>
    \/ /\ scene = "git" /\ Git!Next
       /\ UNCHANGED <<scene, graphVars, orgVars, machineVars, foldVars,
                      taskVars, schedulerVars, distillVars, writerVars, bindingVars>>
    \/ /\ scene = "writers" /\ Writers!Next
       /\ UNCHANGED <<scene, graphVars, orgVars, machineVars, foldVars,
                      taskVars, schedulerVars, distillVars, gitVars, bindingVars>>
    \/ /\ scene = "binding" /\ Next
       /\ UNCHANGED <<scene, graphVars, orgVars, machineVars, foldVars,
                      taskVars, schedulerVars, distillVars, gitVars, writerVars>>

UnattendedSpec ==
    UnattendedInit /\ [][UnattendedNext]_<<scene, graphVars, orgVars, machineVars,
        foldVars, taskVars, schedulerVars, distillVars, gitVars, writerVars,
        bindingVars>>

\* The type invariant of the module that moves.
UnattendedTypeOK ==
    CASE scene = "graph"     -> Graph!TypeOK
      [] scene = "org"       -> Shared!TypeOK
      [] scene = "machine"   -> Machine!TypeOK
      [] scene = "fold"      -> Fold!FoldTypeOK
      [] scene = "tasks"     -> Tasks!TypeOK
      [] scene = "scheduler" -> Loop!TypeOK
      [] scene = "distill"   -> Distill!TypeOK
      [] scene = "git"       -> Git!TypeOK
      [] scene = "writers"   -> Writers!TypeOK
      [] scene = "binding"   -> TypeOK

\* Edges come from trusted sources or from accepted proposals.
EdgesAreEarned == Graph!EdgesAreEarned
\* What a reviewer has decided is not asked again.
DecisionsStand == Graph!DecisionsStand
\* Two memories are asked about once per kind.
OneQuestionPerDisagreement == Graph!OneQuestionPerDisagreement
\* What is shared with other projects has crossed a review.
SharedCrossedReview == Shared!SharedCrossedReview
\* The extractor's switch follows the depth of the inbox.
SwitchFollowsTheQueue == Machine!SwitchFollowsTheQueue
\* What a machine wrote is served after a person promoted it.
MachineWritingIsReviewed == Machine!MachineWritingIsReviewed
\* The daily samples count no decision twice.
DecisionsCountedOnce == Machine!DecisionsCountedOnce
\* What dedup archives is collapsed onto a served row of at least its trust;
\* a summary nobody reviewed is trusted no more than what it summarises.
FoldsKeepTrust == Fold!FoldsKeepTrust
\* A summary is never trusted more than what it summarises.
SummaryIsNeverMoreTrusted == Fold!SummaryIsNeverMoreTrusted
\* A terminal task status never changes, and completed work is committed.
TerminalIsFinal == Tasks!TerminalIsFinal
\* Decay archives only what no pack held.
DecayedWereUnused == Loop!DecayedWereUnused
\* When the scheduler has nothing to do, the index holds the tree.
QuietMeansCurrent == Loop!QuietMeansCurrent
\* While the scheduler is up, a pack can be recorded.
PartitionsAreAhead == Loop!PartitionsAreAhead
\* The commit a job names for a text has that text.
JobProvenanceResolves == Git!JobProvenanceResolves
\* The versions of a key form one chain, however their writers overlap.
VersionsFormAChain == Writers!VersionsFormAChain
\* A text is stored once, however its writers overlap.
TextIsStoredOnce == Writers!TextIsStoredOnce
\* Proposals stand on independent runs, and nothing is proposed every night.
ProposalsAreEarnedOnce == Distill!ProposalsAreEarnedOnce
\* The operator's checkout gains no branch.
CheckoutGainsNoBranch == Distill!CheckoutGainsNoBranch
=============================================================================
