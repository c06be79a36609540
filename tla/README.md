# A formal model of postgres-vm

`memory_platform` keeps what a software project knows (decisions, procedures,
episodes of agents at work, evidence from Git) in one PostgreSQL database and
serves it to agents. This directory holds TLA+ modules that model the parts of
it whose correctness depends on histories, on interleavings and on failures,
TLC configurations that check them on small instances, and proofs that TLAPS
checks for instances of any size.

    tlc -workers 2 -config MCMemoryStore.cfg MCMemoryStore.tla     # check a run
    tlapm MemoryStoreProofs.tla                                    # check the proofs

`PROJECT.json` lists the runs, the source lines each definition stands for, the
hazards the properties are aimed at, and a broken variant of the code ("mutant")
for every checked property. A mutant is an operator beside the one it breaks,
whose comment begins with "Mutant of".

## 1. The system

Source paths are relative to `src/src/memory_platform/`.

| Component | State it keeps | Operations | What makes it correct |
|---|---|---|---|
| Memory store (`memories.py`, `injection.py`, `01-SCHEMA.sql`) | `mem.memories`, a bi-temporal table; `mem.memory_supersessions` | `write_memory`: dedup by content, trust tier by source, quarantine, supersession of the key's previous version | one row per text, one version of a key at an instant, trust is earned, history is not rewritten |
| Plane A ingestion (`ingest.py`, `git_ingest.py`) | nothing of its own; reconciles `.memory/` into the store | `ingest_tree`, `_archive_missing`, jobs for one commit | what the tree withdraws is not served, what is recorded under a commit is in it |
| Review inbox (`inbox.py`) | reviews in a row's metadata; edge proposals; conflicts | promote, reject, undo; accept and reject edge; resolve | a review raises trust only within its bounds and can be undone exactly; what is decided stays decided |
| Console (`api.py`) | - | bulk archive, pin, unpin, reembed | all or nothing, Plane A is not touched |
| Maintenance (`maintenance.py`, `consolidation.py`, `distillation.py`) | runs ledger, audit rows | counts, decay, dedup, compaction, distillation, partitions | nothing leaves retrieval without a better or equal survivor; proposals are earned and not repeated |
| GitHub ingress (`routes_github.py`) | `mem.github_deliveries` | receive, record, enqueue | an accepted delivery has work scheduled |
| GitHub worker (`worker.py`, `evidence_assertions.py`) | `mem.evidence_artifacts`, `mem.evidence_assertions` | process a delivery, project a sidecar revision | the projection is one reviewed revision, whatever fails or runs beside it |
| Bound repositories (`api.py`, `routes_github_console.py`, `github_credentials.py`) | `mem.projects`, `mem.github_pat_credentials` | register a project, connect a token, use it | a repository leads to one project; a token covers what is read with it |
| MCP tasks (`mcp_tasks.py`, `routes_tasks.py`, `worker.py`) | `mem.mcp_tasks` | create, cancel, run, report | a terminal status is final and means what it says; a handle ends |
| Job queue (Procrastinate, a library) | its own tables | defer, fetch, finish | external |
| Scheduler (`worker.py`) | a fingerprint of the tree, in memory | poll, reconcile, maintain, sample | what changed is reconciled; a bad pass does not stop the loop |
| Scopes (`db.py`, policies in the migrations) | per-transaction settings; grants | `fn_set_scope`, select and insert policies, `ensure_partitions` | a transaction sees its scope only, in every copy of a row |
| Limits (`limits.py`) | windows in memory | rate limit, quota, backpressure | limits hold, refusals are earned |
| Authentication (`auth.py`) | the cached key set; `mem.audit_log` | verify, resolve scope, audit | withdrawn keys are refused, published ones accepted, denials leave a trace |
| MCP gateway (`mcp_server.py`, `mrtr.py`) | none: signed tokens | ask, confirm, dispatch | what acts on trust was asked about, and does what was confirmed |
| Retrieval (`planner.py`, `arms.py`, `ranking.py`, `reranker.py`, `context.py`, `memories.py`) | retrieval events | plan, fuse, diversify, pack to a token budget | what is dropped is explained, order can be reproduced, history is marked |
| Capture and extraction (`captures.py`, `extract.py`, `curation.py`) | candidates, daily samples | capture, propose, sample | a machine's candidate is served when a person said so; the switch follows the queue |
| Entities, graph, conflicts (`entities.py`, `org_entities.py`, `conflicts.py`) | entities, mentions, edges, proposals, conflicts | link, backfill, detect, review, promote | edges are earned, a question is asked once |
| Embeddings, metrics, telemetry, admin, CLI, console UI, read models | derived data | - | no state of the above changes |

How they interact. Everything goes through `db.scoped`: one transaction with a
scope. The API, the scheduler and any number of workers share only the database.
The API hands work to workers through the queue, in a transaction of its own, so
between "recorded" and "queued", and between "worked" and "reported", anything
may happen. Ingestion, captures, extraction and consolidation all end in
`write_memory`. The console and the inbox change rows that ingestion, decay
and consolidation change too.

What is hard. A row's status, its validity and its tier are changed by eight
operations that each guard on something else; undo runs against whatever the row
has become; dedup may return a row in any state. Transactions overlap under READ
COMMITTED while `now()` is their start. A pass over the tree and a maintenance
sweep are long transactions that may fail anywhere, and git does not roll back
with them. Deliveries are retried, reordered and replayed, workers run side by
side, and processes die between two transactions that belong together. Caches
(signing keys, vocabularies, windows, the fingerprint) are per process. The full
list, with lines, is `hazards` in `PROJECT.json`.

## 2. The modules

| Module | What it models | Proofs |
|---|---|---|
| `MemoryTable` | the table, its constraints, `write_memory` as operators from a table to the tables it may leave | `MemoryStoreProofs` |
| `MemoryStore` | extends it: the operations on one project's memories, each in the transaction the code runs it in | `MemoryStoreProofs` |
| `Consolidation` | extends `MemoryStore`: dedup and compaction beside all its operations | `MemoryStoreProofs` |
| `ConcurrentWriters` | the same `write_memory` and sweep, statement by statement, in transactions that overlap | `ConcurrentWritersProofs` |
| `GithubEvidence` | webhook, ledger, queue, workers, assertion projection | `GithubEvidenceProofs` |
| `SidecarProjection` | the abstract specification that `GithubEvidence` implements | `GithubEvidenceProofs` |
| `Binding` | registrations, deliveries' routing, tokens and the reads made with them | `BindingProofs` |
| `GitIngest` | ingestion and git: the live poll, the jobs for one commit, a checkout that moves | `UpkeepProofs` |
| `Scheduler` | the poll loop, the maintenance sweep as one transaction beside the API's, partitions | `UpkeepProofs` |
| `McpTasks` | task handles, queue, workers | `UpkeepProofs` |
| `EntityGraph` | glossary, matcher caches, linking, backfill, edge review, conflicts | `CurationProofs` |
| `OrgEntities` | promotion of entities to organisation scope | `CurationProofs` |
| `Extraction` | captures, the extractor with its switch and cap, daily samples, reviews | `CurationProofs` |
| `Distillation` | grouping of successes, proposals as branches, the audit that commits later | `CurationProofs` |
| `Access` | sessions, row-level security, grants, copies of a memory, partitions | `AccessProofs` |
| `Auth` | the key cache of one process and its threads, scope resolution, the audit of denials | `ServingProofs` |
| `Admission` | the fixed-window limiter, backpressure, the quota | `ServingProofs` |
| `Confirmation` | `memory_write` through several gateway processes | `ServingProofs` |
| `Retrieval` | `build_pack` and search, stage by stage, beside writers | `ServingProofs` |
| `Serving` | `Access`, `Auth`, `Admission`, `Confirmation` and `Retrieval` side by side | `ServingProofs` |
| `Unattended` | what runs with nobody watching, side by side | `UpkeepProofs` |
| `MC*` | instances for TLC | |

`Serving` and `Unattended` each put several modules that share no state next to one
another: `scene`, chosen at the start, names the one that moves, so the state space is
the sum of theirs and the properties are theirs, each under an alias. `Serving` is what
a request goes through (`Access`, which it extends, and the four others), `Unattended`
what runs with nobody watching (`Binding`, which it extends, and instances of
`EntityGraph`, `OrgEntities`, `Extraction`, `Consolidation`, `McpTasks`, `Scheduler`,
`Distillation`, `GitIngest`, `ConcurrentWriters`). Where parts do share state they
are one module: reviews, decay, ingestion and consolidation change one table;
webhook, queue, worker and projection one ledger; loop, sweep and API one sweep.
`MCMemoryStore`, `MCGithubEvidence`, `MCMcpTasks`, `MCServing` and `MCUnattended`
extend the module of that name, give its constants values and add no behaviour, so what
is proved and what is checked are one specification.

### MemoryTable and MemoryStore

`mem` is the committed table, a sequence of rows: the application role cannot
delete, so a row's position serves as its id and its `recorded_at` order.
`clock` is the last transaction's `now()`. `pass` is the ingestion pass under
way, with the table as that transaction sees it (`pass.work`) and the keys it has
seen. `call` is how the last transaction ended.

| Action | Code |
|---|---|
| `WriteMemory` | `POST /v1/memories`, captures, extraction: `memories.write_memory` |
| `BeginPass`, `SkipFile`, `IngestFile`, `FinishPass`, `AbortPass` | `ingest.ingest_tree`, one step per file; the sweep and the commit are one step |
| `Promote`, `Reject`, `Undo` | `inbox.promote`, `reject`, `unreview` |
| `ConsoleArchive` | `api.console_memory_actions` with action `archive` |
| `Decay` | `maintenance.decay` |

The database's constraints are part of the model: a statement whose result they
forbid raises, and its transaction is undone (`Attempt`, `IngestFile`). So
"the exclusion constraint holds" is not a property here, it is enforced; the
property is that the code never runs into it (`NeverRefused`).

What is abstracted. A text stands for its hash, its injection verdict and its
type (whether it is an episode); digests, identifiers, vectors, pins, provenance
columns and entity links are left out. `.memory:` keys are the members of
`FileKeys`. A caller's metadata is taken not to carry a `review` of its own. The
schedule is serial: while a pass is under way nothing else commits. `now()`
differs from one transaction to the next.

### ConcurrentWriters

The schedule that `MemoryStore` leaves out. `table` holds the committed rows, `tx[p]`
the open transaction of a connection: its call, its start (which is its `now()`),
the row it works on (`old`), that row as it has rewritten it (`written`) and the row it
has inserted (`new`). `Look`, `Prior`, `Close`, `Insert` are the statements of `write_memory`,
`Retire` its branch for a withdrawn document, `Missing` and `Archive` those of the
sweep. A statement sees what is committed when it starts; an update waits for a row
another transaction has written (`Locked`); a row that meets an uncommitted one
waits for its end (`MustWait`), which is what the exclusion constraint does; a range
that would end before it begins, or meets a committed one, raises (`Raises`). `Abort`
is any other failure, the victim of a deadlock included. Trust, quarantine and reviews
are `MemoryStore`'s.

### Consolidation

`fold` is the pass under way, with the candidates not seen yet, the table it has
built and the edges it recorded; `folded` holds the committed edges. The
transaction may be rolled back at any point (`AbortFold`): the passes share their
transaction with the rest of the maintenance sweep. Cosine similarity, age, pins
and the batch size only choose among rows, and any choice is allowed. The
summary of a group is a text given by `SummaryOf`, and a group that holds an injection
signal has a summary that holds it too; callers are taken not to have
written that very text before (`NoCallerWritesASummary`), since it cites the dates
and titles of its episodes.

### GitIngest

`work` is the checkout as files hold it, `head` and `commits` what git knows, `bound`
whether the project's registered remote is the checkout's, `rows` the table by file and
text, `pass` the live and the job's pass, each a walk over the files in its own transaction,
with the files still to come (`todo`). Per file a pass
reads, asks git for the last commit of the path, and writes; the two passes wait for
one another's rows. People `Edit`, `CommitWork`, `Checkout` and `Repoint` between any two
of those. The job reads the tree of its commit, the live poll the files.

### Scheduler

`tree` is the text under `.memory/` and what its fingerprint shows of it; `loop` is
the loop's place with the fingerprint kept and the one taken; `indexed` is the text
the index holds. `sweeps` has, per sweeper, the step it is at and what its transaction
has written. The order of the steps is `After`. A step that fails in the database
leaves the transaction aborted (`Break`, `LoseSweep`), because `run_all` catches the
error and no savepoint is there to return to. `registered` is whether the project's row exists; when
`_ensure_bound_scope` fails at start (`BindFails`), every pass is refused
until the next start.

### Distillation

`captures` are successes in order, `pass` what each sweeper has still to propose, `audit`
what committed passes say they proposed, `attempts` what was in fact asked of git. The
sequence of a session is found by counting (`Nth` is its n-th success). `checkout` is
the branches the operator's repository gained. `Abort` undoes the audit row and
nothing else.

### GithubEvidence and SidecarProjection

`ledger` is the delivery's row, `hand` the place of the request handler that
created it, `task` the queue's job, `rows` the committed assertions by (key,
revision), `job` what each worker does and has written but not committed. Statements
of one transaction are separate steps; an UPDATE picks its rows by its snapshot
and then waits for those that another transaction has written (`PickOthers` and
`Supersede`, `Sweep` and `Retract`), which is what READ COMMITTED does. Any
statement may raise; a worker or an API process may die; an operator may put the
job of a dead worker back, as the acceptance test does by calling the worker a
second time (`src/tests/test_github_evidence.py:134-138`). `synced` and
`overlapped` are history variables.

`SidecarProjection` knows deliveries, revisions and the state of each assertion, and
has two steps: a delivery becomes processed and its whole revision appears, other
revisions' assertions staying or leaving service for good (`Process`); or the handler calls a
processed delivery failed (`Reopen`). `Projection` is the refinement mapping
(`processed` from `ledger`, `state` from `rows`); workers, statements, locks, queue and
crashes map to stuttering. `RevisionsAppearWhole` is checked and proved.

Left out: signature, size and JSON checks, pings and unbound repositories
(nothing is recorded for them), blob artifacts and evidence links, the
`superseded_by` column, the token ledger. The queue is first in, first out per
queue; here any waiting job may be next, since deliveries arrive in any order.

### Binding

`project` is `mem.projects`, `open` the registration each API thread is in. A registration's
first statement upserts the organization's row and so holds it to the end; its check
of the other bindings and its commit are later steps (`Register`, `Check`, `Commit`,
`Rollback`). `Deliver` is the webhook's lookup. A token is validated against both
repositories outside any transaction (`Ask`) and stored later (`Store`), and a worker
loads project and token, then reads (`Scope`, `Load`, `Use`). A remote has a repository
and a spelling (SSH, HTTPS).

### McpTasks

`status` is the handle, `request` the place of the `tasks/create` handler, `queue`
the job, `job` what each worker does, `done` the work that was committed. `loading`
says how the worker's module was loaded: by an import, which runs it to its end
and registers the handlers of `mcp_task_*`, or as the main program, which enters
`main()` before those lines. `tasks/update` answers 404 or 409 always, as nothing sets
`input_required`, and is left out.

### Access

`holder` is the scope a connection was handed out for, `setting` what the connection
has, `since` its `now()`. `memory`, `versions` (the trigger's snapshots), `derived`
(vectors, mentions, feedback), `shared` (tables with a project of their own) and
`partition` (of `retrieval_events`, with the policies each was given) are the copies of what a
memory says. `Scoped`, `Read`, `Close` are a transaction; `WriteMemory`, `Derive`, `Share`
write last in theirs; operators `Classify`, `Issue` and `Revoke`. `seen` is what an open transaction
has read.

### Auth, Admission, Confirmation

`Auth`: `cache[th]` is the key set a thread made, `current` whose the module holds.
`Discover` and `Discovered` are the unlocked first use, `KeyFor` a turn under the lock
with its refreshes, `Lookup` what follows without it, `Resolve` and `Deny` the scope.
The provider rotates keys (`Publish`) and goes away (`Outage`).

`Admission`: `window` is `_windows`, `held` the committed memories, `writing` the stage
of each thread; `OpenWindow`, `Admit`, `Refuse` are the limiter under its lock, `CheckDepth`, `CheckQuota`
and `Insert` statements of the write's transaction.

`Confirmation`: `secret` is each process's signing secret, lost at `Restart`; `AskFirst` and
`Dispatch` are `memory_write` without and with a token that verifies, `Confirm` the person.

### Retrieval

A request is walked through its stages: `Ask`, then `Search` or `Rank`, `Select` (diversity),
`NothingFound` or `Gate` (evidence), `Always` (the baseline), `Place` (budget), `Seal` (the event), `Answered`. Each stage that asks the database
is a step, and `Replace` is another transaction that supersedes a memory between two
of them. Rows arrive in any order (`arrived`). Words, scores, similarities and costs are numbers of the
instance.

### EntityGraph, OrgEntities, Extraction

`EntityGraph`: `authored` and `observed` are entities by origin, `mention`, `edge`,
`proposal`, `conflict` what is committed, `cache` each process's vocabulary. `WriteMemory`,
`WriteLost`, `Backfill`, `IngestGlossary` and `Restart` are the processes; `AcceptRead`, `AcceptCommit`,
`RejectEdge`, `Detect`, `ResolveConflict` the reviews.

`OrgEntities`: `Propose`, then `ReadProposal`, `Decide` or `Fail` by several reviewers, beside
memories that come to be restricted.

`Extraction`: `Snapshot` is the hourly sample, `Consult` reads the switch, `Answer` writes what
the model said minutes later, `Capture`, `Review` and `Unreview` go on beside it.

## 3. The runs

| Run | Result | States | What it shows |
|---|---|---|---|
| `memory_store` | holds | 6.2 million | the store's constraints are never hit by writes, passes, reviews or decay; trust is earned; a text is stored once; history has no gaps; withdrawn documents are not served |
| `github_evidence` | holds | 550 thousand | the pipeline implements `SidecarProjection`; processed means complete; live rows are reviewed; without overlap the projection is the last sync; replays are harmless; every job ends |
| `serving` | holds | 2.0 million | from the bearer token to the answer: see below |
| `unattended` | holds | 2.0 million | the background parts: see below |
| `plane_a` | violated | | a document deleted and restored with the same text is not served again |
| `github_lost` | violated | | the retry asked for by a 503 is accepted and never scheduled |
| `github_two_live` | violated | | two workers leave two revisions of a key live |
| `unreviewed_branch` | violated | | a pull request's branch is projected before it is merged |
| `task_stuck` | violated | | a handle stays `working` for ever under the image's start command |
| `denial_unaudited` | violated | | a denied scope's audit row is rolled back with the denial |
| `confirmed_retraction` | violated | | a confirmed retraction retires nothing |
| `quiet_repo` | violated | | on a repository nobody edits, partitions run out while the scheduler is up |

The violated runs each check one statement that a doc or comment of the
repository makes; `findings` in `PROJECT.json` quotes it and says what the code
does.

### Properties of the passing runs

`memory_store`: `NeverRefused`, `TrustIsEarned`, `OneRowPerContent`,
`SupersessionIsContiguous`, `WithdrawnIsNotServed`.

`github_evidence`: `ProcessedIsComplete`, `LiveRowsAreReviewed`,
`ProjectionIsLastSync`, `ReplayIsHarmless`, `RevisionsAppearWhole` (the refinement),
`JobsEnd` (liveness).

`serving`:

| Property | Of | Says |
|---|---|---|
| `ReadsStayInScope` | `Access` | nothing read, from any copy, is outside the caller's scope or above internal without a grant |
| `KeyCacheIsSound` | `Auth` | withdrawn keys die with the cache's lifetime; a published key is refused only inside the refresh interval; unknown ids cost the provider one request per interval and cache |
| `WindowIsFair` | `Admission` | at most twice the limit in any second for a tenant whose window was not dropped to make room; refusals are earned and what they tell to wait is enough |
| `QuotaOvershootIsBounded` | `Admission` | the overshoot is less than the number of writers |
| `TrustIsAskedFor` | `Confirmation` | what acts on trust was asked about, in these words, by this process, in time |
| `DropsAreExplained` | `Retrieval` | every candidate is returned or left out for a reason true of the finished pack |
| `RankingIsReproducible` | `Retrieval` | a ranking does not depend on arrival order (outside the cross-encoder's head) |
| `HistoryIsMarked` | `Retrieval` | what is no longer current is marked, the embedder being up |
| `BaselineIsServed` | `Retrieval` | a reviewed constraint is in every pack in some version, unless it was replaced after the request began or its key has held something else |

`unattended`:

| Property | Of | Says |
|---|---|---|
| `VersionsFormAChain` | `ConcurrentWriters` | however writers overlap, each version begins where the one it replaced ends, none is replaced twice, no two meet |
| `FoldsKeepTrust` | `Consolidation` | what dedup archives has a survivor that is served and trusted at least as much; a summary nobody reviewed is trusted at most as much as what it summarises |
| `JobProvenanceResolves` | `GitIngest` | the commit a job names for a text has that text |
| `QuietMeansCurrent` | `Scheduler` | when the loop has nothing to do, the index holds the tree |
| `DecayedWereUnused` | `Scheduler` | decay archives what was in no pack when its sweep began |
| `ProposalsAreEarnedOnce` | `Distillation` | proposals stand on independent runs and are not repeated by later passes |
| `OrgBindsOnce`, `TokenCoversReads` | `Binding` | a repository has one project in its organization; a read's token was validated for both repositories |
| `TerminalIsFinal` | `McpTasks` | a terminal status never changes, and completed means committed |
| `EdgesAreEarned`, `DecisionsStand`, `OneQuestionPerDisagreement` | `EntityGraph` | edges come from trusted sources or acceptances; what was decided is not asked again; a pair is asked about once |
| `SharedCrossedReview` | `OrgEntities` | what is shared was decided, and what is accepted is shared |
| `SwitchFollowsTheQueue`, `MachineWritingIsReviewed`, `DecisionsCountedOnce` | `Extraction` | the switch follows the inbox; a person promoted what a machine wrote; a day's sample counts no decision and no candidate twice |

### Bounds, and why they are enough

- `memory_store`: two file keys, three texts (one plain and never episodic, one
  that carries an injection signal, one that the ingest gate refuses), sources `git`,
  `ci` (served at once) and `agent` (quarantined), three rows, five
  transactions. Five transactions are what write, review, edit, undo and a pass
  need, and every mutant listed dies within them. Beyond the bounds, the
  theorems hold for any number of rows, texts, keys and transactions.
- `github_evidence`: two deliveries, two revisions, two workers, two files, two
  ids, one crash. The worlds listed in `MCGithubEvidence` are the pairs of
  trees that differ in kind: a file removed, two ids exchanged and one withdrawn (the opposite lock
  orders that make a deadlock), two files with one id, one revision pushed twice,
  an event that pushes nothing. A third revision adds no new relation between a
  sync and what it finds. The theorems have none of these bounds.
- `serving`. Access: one connection used by two callers in turn, two tenants,
  two memories, one grant, one month's new partition and one tick (250 thousand
  states). Auth: two threads, two keys, two refreshes, one denial, lifetime and refresh
  interval of one tick each in three instants (1.5 million). Admission: two threads, two tenants, one
  tracked window, windows of two ticks over four instants, four requests. Confirmation: two processes,
  one restart, two questions, four kinds of call. Retrieval: five memories chosen for
  what can go wrong between them (two versions of a rule, a decision and its near copy, an
  agent's note), two tables, room for one memory in each section.
- `unattended`. ConcurrentWriters: three connections, one key, two texts, four transactions
  (88 thousand): three of them to make the stale close, one more to follow it. EntityGraph: one
  process, two memories that name one another's terms, one of them trusted, a failure (85 thousand).
  OrgEntities: two entities, two names, two reviewers (900). Extraction: three texts, three days, one
  review (302 thousand). Consolidation: three rows, five transactions (191 thousand):
  writes, a review, a fold, an operation after it. McpTasks: two handles, two workers, two crashes
  (31 thousand). Scheduler: two sweepers, two edits, one month, one failure (361 thousand). Distillation:
  two actions, two sessions, four successes, two passes that may overlap (557 thousand). GitIngest: two
  files, two texts, two commits, two passes (327 thousand). Binding: two organizations, three projects,
  three repositories, two tokens, two threads, one worker (27 thousand).

`CHECK_DEADLOCK FALSE` is set everywhere: a bounded run ends when the bound is used
up, and these systems are allowed to be idle.

### Fairness

`GithubEvidence!Spec` assumes that a live worker goes on with its job
and that PostgreSQL's deadlock detection acts (`WF` of `Work` and of
`DeadlockVictim`). It assumes neither that a delivery arrives, nor that a queued
job is taken, nor that an operator requeues. `McpTasks!Spec` assumes that a live
worker takes jobs and goes on with them, which is what `run_worker_async` does; under
it `HandleEnds` fails only because of how the module is loaded, which `task_stuck` shows
with no crash at all. With crashes it fails too, as nothing takes up the job of a dead worker.
The other modules state safety only and have no fairness.

### What the documentation says and the code does not do

Beside the eight findings, modelling met these. The ones in code font are
properties in the modules; no run checks them, since they do not hold.

- Consolidation: "the summary can never be more trusted than what it summarises"
  (`consolidation.py:315`) is kept of summaries nobody has reviewed. A group that is folded again, after
  its reviews were undone and given again, gets the stored summary, at the tier a reviewer has
  promoted it to (`Consolidation!SummaryIsNeverMoreTrusted`).
- Store: "Idempotent on (tenant_id, content_hash)" (`memories.py:541`) is not kept by writers that
  overlap (`ConcurrentWriters!TextIsStoredOnce`). Compaction may archive a group onto a
  quarantined summary (`Consolidation!CompactionKeepsGroupServed`, against
  `consolidation.py:322-324`).
- Grants: the policies of migration 0025 never ask `revoked_at`
  (`Access!RevokedGrantsOpenNothing`; the column is in `01-SCHEMA.sql:107,109` and the console
  reads it, `api.py:1193`), nor a grant's `from`; expiry is
  compared with the start of the transaction. A writer may be
  refused because of a row above its level, which it cannot find
  (`Access!CollisionsAreVisible`, migration 0013:24-25).
- Retrieval: with the embedder down the lexical arm neither selects nor marks by status
  (`Retrieval!HistoryIsMarkedAnyhow`); "Answerability describes the pack the caller receives"
  (`context.py:268-269`) is kept only when the budget drops all evidence or none: the clauses
  said to be supported may be those of a candidate that was dropped
  (`Retrieval!AnswerabilityIsOfThePack`); the diversity filter may
  keep the lower-scoring of two; `effective_budget` raises a request below the
  minimum; the expansion of a reference (`api.py:310-332`) has no status filter or mark.
- GitHub: an assertion that leaves a file which stays is not retracted
  (`GithubEvidence!RemovedIsRetracted`; `MCGithubEvidence!RenamedWorlds` has the case); two organizations
  may bind one repository in a race, and a delivery of it then has two places to go
  (`Binding!DeliveriesAreRouted`, `api.py:771`); a re-registration compares remotes as spelled.
- Tasks: a handle created when the API dies before the enqueueing stays `working`, and so does
  one whose worker died.
- Ingestion: the live poll reads a file and then asks git, so it may record a text under a commit that
  does not have it; a late job of an older commit replaces newer texts until the tree changes
  again. Nothing in the repository enqueues `ingest_git_commit`.
- Scheduler and sweep: a database error in one step undoes the whole sweep while the fingerprint is kept;
  backfill stops at the first row that fails; a project's row that could not be made at start is
  never retried, although the log says ingestion will.
- Distillation: the push of the clone goes to the operator's checkout
  (`Distillation!CheckoutGainsNoBranch`, `distillation.py:217-218,270`); a clone that failed is recorded as proposed; two
  sequences with one first step share a branch name; a session that goes on is a new sequence.
- Graph: "Authored glossary terms must be matchable on every write, not only after a restart"
  (`memories.py:722-724`) holds in the process that ingested the glossary; any other keeps the
  vocabulary it read first (`EntityGraph!AuthoredIsMatched`, `entities.py:131`). A reviewer's
  acceptance overrides a rejection made since the proposal was read.
- Gateway: a confirmation is not used up, and carries no scope.

## 4. What is proved

TLAPS checks, from nothing, eight modules. Every invariant and action property of the
passing runs is a theorem, for every value of the constants; `JobsEnd` alone, a liveness
property, is only model-checked.

| Module | Theorem | States |
|---|---|---|
| `MemoryStoreProofs` | `TypeCorrect`, `WritesAreNeverRefused`, `NoUnearnedTrust`, `ContentIsStoredOnce`, `HistoryHasNoGaps` | the invariants of `memory_store` |
| | `WithdrawnTextsAreNotServed` | its action property |
| | `StatusAndValidityAgree`, `Invariance` | served and waiting rows are open, archived rows closed; the inductive invariant |
| | `StoreHoldsBesideFolds`, `FoldTypeCorrect`, `TrustSurvivesFolds` | the store's invariants with dedup and compaction beside it; `FoldsKeepTrust` |
| `ConcurrentWritersProofs` | `ChainsHold`, `WritersTypeCorrect` | the versions of a key form a chain; types |
| `GithubEvidenceProofs` | `GithubTypeCorrect`, `ProcessedIsCompleteAlways`, `LiveRowsAreReviewedAlways`, `ProjectionIsLastSyncAlways`, `ReplaysAreHarmless` | the safety of `github_evidence` |
| | `PipelineImplementsProjection` | `Spec => RevisionsAppearWhole`: the refinement |
| `AccessProofs` | `AccessTypeCorrect`, `ReadsAreScoped` | reads stay in scope, any pool and grants |
| `ServingProofs` | `KeysAreSound` | `KeyCacheIsSound`, any threads and provider |
| | `TheLimiterIsFair`, `OvershootIsBounded` | the limiter and the quota, any tenants and threads |
| | `PeopleAreAskedFirst` | `TrustIsAskedFor`, any processes and restarts |
| | `DropsAreAccountedFor`, `RankingsAreReproducible`, `ReadersAreTold`, `ConstraintsAreServed` | the properties of `Retrieval` |
| | `ServingTypeCorrect`, `RequestsAreServedRight` | all of it for `ServingSpec`, the specification the run checks |
| `BindingProofs` | `BindingTypeCorrect`, `OrgBindsOnceAlways`, `TokenCoversReadsAlways` | bindings and tokens, any threads and workers |
| `CurationProofs` | `MachinesOnlyPropose`, `DisagreementsAreAskedOnce`, `DecisionsAreFinal` | the properties of `EntityGraph` |
| | `SharingIsReviewed` | that of `OrgEntities` |
| | `TheSwitchFollowsTheQueue`, `MachinesAreReviewed`, `NothingIsCountedTwice` | those of `Extraction` |
| | `PeopleAreAskedOnceForAReason` | that of `Distillation` |
| `UpkeepProofs` | `QuietMeansTheIndexIsTheTree`, `DecayArchivesWhatNobodyUsed` | those of `Scheduler` |
| | `JobProvenanceIsTrue`, `TerminalStatusIsFinal`, `ConsolidationKeepsTrust`, `WritersKeepOneChain` | those of `GitIngest`, `McpTasks`, `Consolidation`, `ConcurrentWriters` |
| | `UnattendedTypeCorrect`, `UnattendedKeepsItsPromises` | all of it for `UnattendedSpec`, the specification the run checks |

The type theorem of each part has a name of its own (`GraphTypeCorrect`, `AuthTypeCorrect`
and so on).

### Assumptions

TLC evaluates every assumption on every instance. Most say what a constant is (a set of
calls, a number that is not zero, a finite set of texts) and that `NULL` is not one of the
values it stands beside. The others come from the code:

- `KeyAssumption`: the key of a withdrawn document, derived from its source and digest, is nobody's own key.
- `Retrieval!TablesAreOfTheStore`: an active row is open and has begun to hold, and quarantine is
  for the least trusted tier. The first is `StatusMatchesValidity`, proved of the store; the second
  is `write_memory`'s rule and `TrustIsEarned`'s clause on it.
- `RetrievalAssumption`: similarity is symmetric, as a cosine is, and ids are distinct.
- `GraphAssumption`: an author's glossary and the dictionary are disjoint, and the extractor
  infers relations only between terms it found in the text.
- `AuthAssumption`: the provider has keys, and no grant names the project nobody registered.

`ProjectionIsLastSync` states its own hypotheses: no two syncs have run side by side, and
no key leaves a file that stays (`IdsStay`). `RemovedIsRetracted` in section 3 is the case
without the second.

### The arguments

Hardly any of the properties is inductive by itself.

**The store.** That a write is not refused needs
that each key has at most one open row and that every closed interval ends by
`clock`, and this needs `StatusMatchesValidity` (or an archived row would block its key) and
`TemporalUniq`. That undo restores the earned tier needs `TrustIsEarned`,
including its clause on what a recorded review holds. And all of it has to hold of `pass.work`
as well as of `mem`, or the commit of a pass would break it. So `IInv` is
`TypeOK /\ TableInv(mem, clock) /\ PassInv /\ NeverRefused`, where `TableInv`
puts `RowInv` (the per-row part), uniqueness of texts, the table's constraints
and contiguity together, and `PassInv` says the same of the pass's table. The proof
goes along `MemoryTable`'s operators: `RefoundInv`, `ClosePriorInv`, `NewRowInv` and
`InsertedInv` show that each preserves `TableInv`; `WrittenInv` puts them
together and is used by `WriteMemoryInv` and `IngestFileInv`. `PointwiseInv` serves the
operations that change rows in place (sweep, review, archive, decay), and
`GuardedInv` those that may be refused.

**What a pass withdraws.** `StoreInv` adds what a running pass knows (`PassWithdraws`):
files it has seen are in the tree, and a text that one of them withdraws is stored and not
served by the pass's table. A later file of the same tree may hold the same text and not
withdraw it. `Rewritten` says why that brings nothing back: a text has one row, so the later write
finds the archived one, and no write makes a row served that was not.

**Consolidation.** `RunningFold` says of the table a pass has built that it is as sound as the
committed one, of the edges recorded so far that their head has the trust its kind of pass calls
for and will not be touched again (`EdgeInv`), and of the candidates still to come that they are
what they were when the pass began (`CandidateInv`). A row that holds the text of a summary
is consolidation's own (`OursAlone`), which is where `NoCallerWritesASummary` is needed: a
summary found again has no more than consolidation's tier unless it was reviewed.
`StoreHoldsBesideFolds` then carries the store's theorems over: no fold is ever
refused by a constraint.

**Overlapping writers.** `Close` goes by id and does not ask whether the row is still
open, so a transaction may close a row that has a successor. `NoSuccessor` is why it
never commits: the successor begins where the row ended; a new version that does not meet
the successor begins after its end; and then the row, closed again at that later
instant, meets the successor. So the invariant carries, for what each open transaction
holds, that it meets no committed row but the one it works on (`Clear`, which the
constraint established) and nothing another transaction holds (`Apart`, which
waiting established). `CommitChain` is the transaction's own commit,
`CommitOthers` the other transactions' view of it.

**The pipeline.** `Projecting` says what an open sync has written: the documents it has
passed, each as the last of its key says, and of other revisions only rows that leave
service, because rows keep a path of their revision (`PathsKept`) and are not picked
by their own sweep. `Disjoint` (row locks) and `Exclusive` (one worker per delivery) make
a commit overwrite what its statements saw. `CommitRefines` maps the commit to `Process`
and `OthersRefine` every other step to `Reopen` or a stutter.

**The last sync.** `LastSyncInv`: an open sync that is alone has cleared what it has passed so
far (`Cleared`), by key when it upserts and by path when it sweeps. A row of another
revision that is left at the commit has a key the tree lacks and a path the tree has, since
every row is of a document of its own revision (`Cites`), and this is what `IdsStay` rules out.

**Access.** The settings of a connection are its caller's or none
(`SettingIsTheCallers`); every partition has been secured and rows without a sensitivity are
internal (`SharedIsInternal`).

**Confirmation.** A question's token was signed for the canonical form of its call when it
was asked (`QuestionsAreSigned`), two calls with one canonical form agree on all that is
acted upon, and a token of another process, or from before a restart, has another secret.

**Admission.** For the quota, the tenants' inserts under way are counted with what is held
(`Pending`), so each thread is at most one row beyond what its check saw. For the limiter,
`Span` is what was admitted in a half-open span of time. A window's count bounds what was
admitted since it began, and the second before it is within the limit too (`Few`), so
no second holds more than twice the limit (`Bursts`); with no window nothing was admitted for a
second (`Fresh`). A tenant whose window was dropped to make room (`forgiven`) is only known
to be refused for what it used (`Enough`, `RefusalKept`).

**Authentication.** What a cache holds was seen published at or after its fetch, and its last
attempt is the last fetch for an unknown key (`CacheIsTrue`). A thread that has left the
lock goes on with the cache it held, which was fresh when it had the lock (`LooksInFresh`) and
which another may refresh meanwhile; only a thread without a cache discovers one
(`DiscoverersHaveNone`).

**Retrieval.** Ranks are compared by score, fused rank and id, a strict total order, so the place
of a candidate is the number of those before it; that every place is taken is a
pigeonhole argument, and the ranking is then determined by the set, whatever order
it arrived in. `StagesInv` says that each stage works on what
the one before it left, `CandidatesAreSomewhere` that a candidate is at every stage
kept, served or dropped, and `DropIsTrue` that the reason given is true of the pack so far, which
only fills up. `RowsHold` tells a stale read from a wrong one: a row that began to hold after
the request replaced another under a key that is `late`. `BaselineInv` says that a constraint
the pack owes (`Owed`) is served in some version once the baseline has been read.

**The graph.** A conflict is stored with the memory of the lower rank first
(`StoredInOrder`), so the two orders of detection meet in one row. The insertions leave
an existing proposal or conflict as it is, so that decided stays decided (`DecisionsKept`).

**Shared entities.** An open review holds the name it read, the proposal may have changed its name
since: what is shared is the name that was read and screened (`ReviewsAreScreened`), and a
proposal was clear of restricted memories when it was made (`ProposalsAreClear`).

**Machines and samples.** Rows keep who wrote them and on which day (`RowsKept`) and the log
loses nothing (`LogKept`), so the sample of a day stays below what the day itself
holds (`SamplesAreOfTheirDay`) without any statement about sums.

**Distillation.** A group's members are the first successes of their sessions that performed
the sequence, so witnesses from different sessions differ (`Earned`), and captures only grow at
the end. A pass that is open ran beside every later one (`OpenIsBeside`), what it attempted it
reports when it commits (`AttemptsAreReported`), and it works on nothing that one before it
reported (`ReportsAreRead`): hence a repetition is always of passes that overlapped.

**Scheduler.** A fingerprint is never ahead of what the index got after it was taken
(`FingerprintsLag`): it is taken first. No use count runs ahead of the packs, and what a
sweep may archive was in none when it began (`CountsLag`).

**Git.** What a job has read is in its commit (`JobReadsItsCommit`). The commit that last touched
a path is found along parents, each older than its child (`History`), and has the same text
there as the commit asked about; `RowsResolve` says this of what is written and of what is about
to be.

**Tasks.** What is, or will be, reported as completed is committed (`CompletedIsDone`). The
theorems need no fairness (`TaskRun`).

**Binding.** One registration is open per organization (`SoleHolder`), so what a check
saw is free still holds at the commit (`CheckedIsFree`); a GitHub-native row
keeps its repositories, so a validated token goes on covering them (`TokensCover`,
`JobsFollow`).

**Side by side.** A step of `Serving` or `Unattended` is a step of one part and leaves the
others as they are, so a behaviour of the whole is a behaviour of each (`ServingIsEach`,
`UnattendedIsEach`), and what is proved of a part by itself holds beside the others.
Where a part's theorems are about the module and the composition uses an instance of it,
a second instance of the proofs carries them over (`Folding`, `Chain`): the definitions
of the two instances are compared pair by pair.

**Induction.** The prover has no induction over data. Where a fact about every number
or every finite set is needed, the least counterexample is taken instead: `LeastOf`
gives the least number of a non-empty set, and the numbers below it contradict it. This
serves counts (`PlacesAreTaken`, the n-th success of a session), places of a ranking and
the history of commits.

Only model-checked: `JobsEnd`, since liveness under fairness and `ENABLED` are out of the
prover's reach; and the disagreements in section 3, which are refuted and not proved.

## 5. What is left

In this order:

1. Theorems about the statements that are in the modules and fail, under the hypothesis that
   repairs each: `RemovedIsRetracted` when ids stay, `AuthoredIsMatched` with one process,
   `DeliveriesAreRouted` when registrations do not overlap.
2. Trust and reviews in `ConcurrentWriters`: a review beside an edit of the reviewed row.
3. The GitHub-native branch of a pack, and reference expansion, in `Retrieval`.
4. An abstract specification of a request's scope that `Auth`, `Confirmation` and `Access`
   implement together.

Not modelled. Embeddings are vectors behind an HTTP service; whether one is
there is in `Scheduler` and `Retrieval`, what it says decides nothing these properties
read. Resources, console read models and the CLI read, or provision by hand.
Metrics, telemetry and configuration keep no state anyone decides by. The console UI is a
client of the API. The wording of plans, prompts, digests and documents, the scanners' patterns and
scores are data: instances give them values. The evaluation harness (`src/eval`) measures
retrieval quality, which is not a property of behaviours.
