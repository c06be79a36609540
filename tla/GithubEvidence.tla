--------------------------- MODULE GithubEvidence ---------------------------
(***************************************************************************)
(* The Git-native evidence pipeline of one project bound to GitHub: the    *)
(* webhook that records a signed delivery and hands it to the job queue,   *)
(* the workers that turn a delivery into provenance, and the projection of *)
(* the sidecar repository's reviewed assertions into a table.              *)
(*                                                                         *)
(* Several workers run (the compose file documents scaling them), each     *)
(* transaction under READ COMMITTED: a statement sees what is committed    *)
(* when it starts plus its own transaction's writes, and waits for rows    *)
(* another open transaction has written.  Signature, size and JSON checks  *)
(* and pings decide whether a delivery is accepted and have no state; which *)
(* project a repository is bound to, and the token, are Binding's.         *)
(* Blob artifacts are left out: the documents of two revisions cite blobs  *)
(* that differ or are recorded already, so recording them blocks nobody.   *)
(***************************************************************************)
EXTENDS Naturals, Sequences

CONSTANTS
    Delivery,    \* X-GitHub-Delivery ids of accepted events
    Revision,    \* commits of the sidecar repository
    Path,        \* files under assertions/
    Key,         \* assertion ids
    Worker,
    MaxCrashes,  \* bound: processes that die
    NULL

Reviewed == {"accepted", "contested", "retracted"}    \* what a file may say
Live == {"accepted", "contested"}

Document == [path : Path, key : Key, state : Reviewed]

\* What a delivery's envelope keeps: the revision it pushes to the sidecar (NULL
\* for every other event) and the branch.  A pull request's branch is in the
\* sidecar before it is merged.
Envelope == [rev : Revision \cup {NULL}, ref : {"default", "proposal"}]

\* The assertion files of a revision, as listed.
Listing == Seq(Document)

\* What exists on GitHub.
World == [sent : [Delivery -> Envelope], tree : [Revision -> Listing]]

CONSTANT Worlds   \* bound: the worlds checked

ASSUME WorldsAssumption ==
    /\ Worlds \subseteq World
    /\ MaxCrashes \in Nat

VARIABLES
    world,
    ledger,      \* mem.github_deliveries.status
    accepted,    \* deliveries GitHub was last answered 202 for
    hand,        \* where the handler that created the ledger row is
    task,        \* the queue's job for the delivery
    rows,        \* committed mem.evidence_assertions, by (key, revision)
    artifacts,   \* deliveries with an event artifact
    job,         \* what each worker is doing
    crashes,
    synced,      \* history: the revision of the last committed sync
    overlapped   \* history: two syncs have been open at once

vars == <<world, ledger, accepted, hand, task, rows, artifacts, job, crashes,
          synced, overlapped>>
ingress == <<accepted, hand>>
history == <<synced, overlapped>>

Row == [state : Reviewed \cup {"superseded"}, path : Path]
Id == Key \X Revision

Nothing == [id \in Id |-> NULL]

Job == [delivery : Delivery,
        at : {"check", "upsert", "pick", "supersede", "sweep", "retract",
              "commit", "done", "mark"},
        next : Nat,                              \* index of the next document
        mine : [Id -> Row \cup {NULL}],          \* uncommitted writes
        picked : SUBSET Id]                      \* rows a statement selected

\* NULL is none of the values it stands beside.
ASSUME NullAssumption ==
    NULL \notin Revision \cup Row \cup Job
             \cup {"queued", "processed", "failed", "recorded", "raised",
                   "todo", "doing", "finished"}
             \cup Reviewed \cup {"superseded"}

TypeOK ==
    /\ world \in Worlds
    /\ ledger \in [Delivery -> {NULL, "queued", "processed", "failed"}]
    /\ accepted \subseteq Delivery
    /\ hand \in [Delivery -> {NULL, "recorded", "raised"}]
    /\ task \in [Delivery -> {NULL, "todo", "doing", "finished"}]
    /\ rows \in [Id -> Row \cup {NULL}]
    /\ artifacts \subseteq Delivery
    /\ job \in [Worker -> Job \cup {NULL}]
    /\ crashes \in 0..MaxCrashes
    /\ synced \in Revision \cup {NULL}
    /\ overlapped \in BOOLEAN

Init ==
    /\ world \in Worlds
    /\ ledger = [d \in Delivery |-> NULL]
    /\ accepted = {}
    /\ hand = [d \in Delivery |-> NULL]
    /\ task = [d \in Delivery |-> NULL]
    /\ rows = Nothing
    /\ artifacts = {}
    /\ job = [w \in Worker |-> NULL]
    /\ crashes = 0
    /\ synced = NULL
    /\ overlapped = FALSE
-----------------------------------------------------------------------------
(***************************************************************************)
(* receive_webhook.                                                        *)
(***************************************************************************)
\* record_delivery: the first time a delivery is seen makes its row.
New(d) == ledger[d] = NULL

\* update_delivery.
Marks(d, status) == ledger' = [ledger EXCEPT ![d] = status]

\* update_delivery in a transaction of its own, which may fail.
MarksFailed(d) == Marks(d, "failed") \/ UNCHANGED ledger

\* Mutant of Receive: the status is left to a later transaction.
ReceiveUnqueued(d) ==
    /\ IF ledger[d] = NULL
       THEN /\ ledger' = [ledger EXCEPT ![d] = "received"]
            /\ hand' = [hand EXCEPT ![d] = "recorded"]
            /\ UNCHANGED accepted
       ELSE /\ accepted' = accepted \cup {d}
            /\ UNCHANGED <<ledger, hand>>
    /\ UNCHANGED <<world, task, rows, artifacts, job, crashes, history>>

\* GitHub sends a delivery, again if it likes.  The row and its status
\* "queued" are one transaction; a delivery already in the ledger is a
\* duplicate and is accepted at once.
Receive(d) ==
    /\ IF New(d)
       THEN /\ Marks(d, "queued")
            /\ hand' = [hand EXCEPT ![d] = "recorded"]
            /\ UNCHANGED accepted
       ELSE /\ accepted' = accepted \cup {d}
            /\ UNCHANGED <<ledger, hand>>
    /\ UNCHANGED <<world, task, rows, artifacts, job, crashes, history>>

\* _enqueue, then 202.
Enqueue(d) ==
    /\ hand[d] = "recorded"
    /\ task' = [task EXCEPT ![d] = "todo"]
    /\ hand' = [hand EXCEPT ![d] = NULL]
    /\ accepted' = accepted \cup {d}
    /\ UNCHANGED <<world, ledger, rows, artifacts, job, crashes, history>>

\* _enqueue raises; the job may have reached the queue before the error.
EnqueueRaises(d) ==
    /\ hand[d] = "recorded"
    /\ task' \in {task, [task EXCEPT ![d] = "todo"]}
    /\ hand' = [hand EXCEPT ![d] = "raised"]
    /\ UNCHANGED <<world, ledger, accepted, rows, artifacts, job, crashes, history>>

\* The handler marks the row failed, if the database lets it, and answers 503.
MarkUnqueued(d) ==
    /\ hand[d] = "raised"
    /\ MarksFailed(d)
    /\ hand' = [hand EXCEPT ![d] = NULL]
    /\ accepted' = accepted \ {d}
    /\ UNCHANGED <<world, task, rows, artifacts, job, crashes, history>>

\* The API process dies under the handler.
ApiCrash(d) ==
    /\ hand[d] # NULL
    /\ crashes < MaxCrashes
    /\ crashes' = crashes + 1
    /\ hand' = [hand EXCEPT ![d] = NULL]
    /\ UNCHANGED <<world, ledger, accepted, task, rows, artifacts, job, history>>
-----------------------------------------------------------------------------
(***************************************************************************)
(* The job queue.                                                          *)
(***************************************************************************)
\* A worker takes a waiting job.  Deliveries may arrive in any order, so which
\* of the waiting jobs is first is left open.
Take(w, d) ==
    /\ job[w] = NULL
    /\ task[d] = "todo"
    /\ task' = [task EXCEPT ![d] = "doing"]
    /\ job' = [job EXCEPT ![w] = [delivery |-> d, at |-> "check", next |-> 1,
                                  mine |-> Nothing, picked |-> {}]]
    /\ UNCHANGED <<world, ledger, ingress, rows, artifacts, crashes, history>>

\* The job of a dead worker is put back by hand.
Requeue(d) ==
    /\ task[d] = "doing"
    /\ \A w \in Worker : job[w] # NULL => job[w].delivery # d
    /\ task' = [task EXCEPT ![d] = "todo"]
    /\ UNCHANGED <<world, ledger, ingress, rows, artifacts, job, crashes, history>>

EndJob(w) ==
    /\ job' = [job EXCEPT ![w] = NULL]
    /\ task' = [task EXCEPT ![job[w].delivery] = "finished"]
-----------------------------------------------------------------------------
(***************************************************************************)
(* process_github_delivery.                                                *)
(***************************************************************************)
At(w, stage) == job[w] # NULL /\ job[w].at = stage

RevOf(w) == world.sent[job[w].delivery].rev
Docs(w) == world.tree[RevOf(w)]
Doc(w) == Docs(w)[job[w].next]
DocId(w) == <<Doc(w).key, RevOf(w)>>
PathsOf(docs) == {docs[n].path : n \in 1..Len(docs)}

InSync(w) ==
    /\ job[w] # NULL
    /\ job[w].at \notin {"check", "done", "mark"}
    /\ RevOf(w) # NULL

\* A row as worker w's transaction sees it.
Seen(w, id) == IF job[w].mine[id] # NULL THEN job[w].mine[id] ELSE rows[id]
LiveTo(w, id) == Seen(w, id) # NULL /\ Seen(w, id).state \in Live

\* Worker v's open transaction has written the row and holds it.
Holds(v, id) == job[v] # NULL /\ job[v].mine[id] # NULL

\* The rows worker w's next statement has to lock.
Wants(w) ==
    CASE At(w, "upsert")                            -> {DocId(w)}
      [] At(w, "supersede") \/ At(w, "retract")     -> job[w].picked
      [] OTHER                                      -> {}

MayLock(w) == \A id \in Wants(w), v \in Worker \ {w} : ~Holds(v, id)

\* Worker w's job after a statement that writes row(id) for each id in ids.
Wrote(w, ids, row(_)) ==
    [job[w] EXCEPT !.mine = [id \in Id |-> IF id \in ids THEN row(id) ELSE @[id]],
                   !.picked = {}]

\* Where the sync is before document n.
AtDocument(docs, n) == IF n <= Len(docs) THEN "upsert" ELSE "sweep"

\* Mutants of Check: the status is written before the work, or not asked for.
CheckMarksProcessed(w) ==
    /\ At(w, "check")
    /\ ledger' = [ledger EXCEPT ![job[w].delivery] = "processed"]
    /\ job' = [job EXCEPT ![w].at = IF RevOf(w) = NULL THEN "commit"
                                    ELSE AtDocument(Docs(w), 1)]
    /\ UNCHANGED <<world, ingress, task, rows, artifacts, crashes, history>>

CheckAlways(w) ==
    /\ At(w, "check")
    /\ job' = [job EXCEPT ![w].at = IF RevOf(w) = NULL THEN "commit"
                                    ELSE AtDocument(Docs(w), 1)]
    /\ UNCHANGED <<world, ledger, ingress, task, rows, artifacts, crashes, history>>

\* Read the ledger: a processed delivery is not processed again.  Otherwise an
\* evidence push is fetched whole, and nothing is written if that fails.
Check(w) ==
    /\ At(w, "check")
    /\ IF ledger[job[w].delivery] = "processed"
       THEN EndJob(w)
       ELSE /\ job' = [job EXCEPT ![w].at =
                            IF RevOf(w) = NULL THEN "commit"
                            ELSE AtDocument(Docs(w), 1)]
            /\ UNCHANGED task
    /\ overlapped' = \/ overlapped
                     \/ /\ RevOf(w) # NULL
                        /\ ledger[job[w].delivery] # "processed"
                        /\ \E v \in Worker \ {w} : InSync(v)
    /\ UNCHANGED <<world, ledger, ingress, rows, artifacts, crashes, synced>>

\* Mutants of Upsert: the statement commits by itself; ON CONFLICT DO NOTHING.
UpsertCommitted(w) ==
    /\ At(w, "upsert")
    /\ MayLock(w)
    /\ rows' = [rows EXCEPT ![DocId(w)] =
                    [state |-> Doc(w).state, path |-> Doc(w).path]]
    /\ job' = [job EXCEPT ![w].at = "pick"]
    /\ UNCHANGED <<world, ledger, ingress, task, artifacts, crashes, history>>

UpsertDoNothing(w) ==
    /\ At(w, "upsert")
    /\ MayLock(w)
    /\ LET old == Seen(w, DocId(w))
           new == IF old # NULL THEN old
                  ELSE [state |-> Doc(w).state, path |-> Doc(w).path]
       IN  job' = [job EXCEPT ![w] =
                    [Wrote(w, {DocId(w)}, LAMBDA id : new) EXCEPT !.at = "pick"]]
    /\ UNCHANGED <<world, ledger, ingress, task, rows, artifacts, crashes, history>>

\* INSERT ... ON CONFLICT (key, revision) DO UPDATE: the path is not updated.
Upsert(w) ==
    /\ At(w, "upsert")
    /\ MayLock(w)
    /\ LET old == Seen(w, DocId(w))
           new == [state |-> Doc(w).state,
                   path  |-> IF old = NULL THEN Doc(w).path ELSE old.path]
       IN  job' = [job EXCEPT ![w] =
                    [Wrote(w, {DocId(w)}, LAMBDA id : new) EXCEPT !.at = "pick"]]
    /\ UNCHANGED <<world, ledger, ingress, task, rows, artifacts, crashes, history>>

\* UPDATE ... SET state = 'superseded': the statement's snapshot picks the
\* other live rows of the key ...
PickOthers(w) ==
    /\ At(w, "pick")
    /\ job' = [job EXCEPT ![w].at = "supersede",
                          ![w].picked = {id \in Id : /\ id[1] = Doc(w).key
                                                     /\ id # DocId(w)
                                                     /\ LiveTo(w, id)}]
    /\ UNCHANGED <<world, ledger, ingress, task, rows, artifacts, crashes, history>>

\* ... and, once nobody else holds them, updates those that are still live.
Supersede(w) ==
    /\ At(w, "supersede")
    /\ MayLock(w)
    /\ LET hit == {id \in job[w].picked : LiveTo(w, id)}
           Old(id) == [Seen(w, id) EXCEPT !.state = "superseded"]
       IN  job' = [job EXCEPT ![w] =
                    [Wrote(w, hit, Old) EXCEPT !.next = @ + 1,
                                          !.at = AtDocument(Docs(w), job[w].next + 1)]]
    /\ UNCHANGED <<world, ledger, ingress, task, rows, artifacts, crashes, history>>

\* Mutant of Sweep: the files already known are taken as present.
SweepNothing(w) ==
    /\ At(w, "sweep")
    /\ job' = [job EXCEPT ![w].at = "retract"]
    /\ UNCHANGED <<world, ledger, ingress, task, rows, artifacts, crashes, history>>

\* persist_sidecar_sync selects the live rows whose file is not in the tree ...
Sweep(w) ==
    /\ At(w, "sweep")
    /\ job' = [job EXCEPT ![w].at = "retract",
                          ![w].picked = {id \in Id : /\ LiveTo(w, id)
                                                     /\ Seen(w, id).path \notin PathsOf(Docs(w))}]
    /\ UNCHANGED <<world, ledger, ingress, task, rows, artifacts, crashes, history>>

\* ... and retracts them by id, whatever their state is by then.
Retract(w) ==
    /\ At(w, "retract")
    /\ MayLock(w)
    /\ LET Old(id) == [Seen(w, id) EXCEPT !.state = "retracted"]
       IN  job' = [job EXCEPT ![w] =
                    [Wrote(w, job[w].picked, Old) EXCEPT !.at = "commit"]]
    /\ UNCHANGED <<world, ledger, ingress, task, rows, artifacts, crashes, history>>

\* record_event_artifact: a delivery has one, however often it is processed.
Provenance(d) == artifacts' = artifacts \cup {d}

\* The artifact, the rows and the status "processed" become visible at once.
Commit(w) ==
    /\ At(w, "commit")
    /\ rows' = [id \in Id |-> Seen(w, id)]
    /\ Provenance(job[w].delivery)
    /\ Marks(job[w].delivery, "processed")
    /\ synced' = IF RevOf(w) = NULL THEN synced ELSE RevOf(w)
    /\ job' = [job EXCEPT ![w].at = "done", ![w].mine = Nothing]
    /\ UNCHANGED <<world, ingress, task, crashes, overlapped>>

Finish(w) ==
    /\ At(w, "done")
    /\ EndJob(w)
    /\ UNCHANGED <<world, ledger, ingress, rows, artifacts, crashes, history>>

\* Mutant of Fails: the handler starts the job over.
FailsAndRetries(w) ==
    /\ job' = [job EXCEPT ![w].at = "check", ![w].mine = Nothing, ![w].picked = {},
                          ![w].next = 1]
    /\ UNCHANGED <<world, ledger, ingress, task, rows, artifacts, crashes, history>>

\* Any exception: the transaction is rolled back and the handler takes over.
Fails(w) ==
    /\ job' = [job EXCEPT ![w].at = "mark", ![w].mine = Nothing, ![w].picked = {}]
    /\ UNCHANGED <<world, ledger, ingress, task, rows, artifacts, crashes, history>>

\* A read from GitHub is refused: not found, not granted, truncated, too large,
\* not text.  The files are read before anything is written.
ReadFails(w) ==
    /\ At(w, "check")
    /\ RevOf(w) # NULL /\ ledger[job[w].delivery] # "processed"
    /\ Fails(w)

Raise(w) ==
    /\ job[w] # NULL
    /\ job[w].at \notin {"done", "mark"}
    /\ Fails(w)

\* PostgreSQL ends a cycle of waits by failing one of the statements.
WaitsFor(w, v) == \E id \in Wants(w) : Holds(v, id)

DeadlockVictim(w) ==
    /\ \E v \in Worker \ {w} : WaitsFor(w, v) /\ WaitsFor(v, w)
    /\ Fails(w)

\* _mark_github_delivery_failed, in a transaction of its own that may fail.
MarkFailed(w) ==
    /\ At(w, "mark")
    /\ MarksFailed(job[w].delivery)
    /\ EndJob(w)
    /\ UNCHANGED <<world, ingress, rows, artifacts, crashes, history>>

\* The worker process dies: its transaction is rolled back, its job stays
\* "doing" with nobody doing it.
Crash(w) ==
    /\ job[w] # NULL
    /\ crashes < MaxCrashes
    /\ crashes' = crashes + 1
    /\ job' = [job EXCEPT ![w] = NULL]
    /\ UNCHANGED <<world, ledger, ingress, task, rows, artifacts, history>>
-----------------------------------------------------------------------------
\* What a worker does next if nothing goes wrong.
Work(w) ==
    \/ Check(w)
    \/ Upsert(w)
    \/ PickOthers(w)
    \/ Supersede(w)
    \/ Sweep(w)
    \/ Retract(w)
    \/ Commit(w)
    \/ Finish(w)
    \/ MarkFailed(w)

Next ==
    \/ \E d \in Delivery :
        \/ Receive(d)
        \/ Enqueue(d)
        \/ EnqueueRaises(d)
        \/ MarkUnqueued(d)
        \/ ApiCrash(d)
        \/ Requeue(d)
    \/ \E w \in Worker :
        \/ \E d \in Delivery : Take(w, d)
        \/ Work(w)
        \/ ReadFails(w)
        \/ Raise(w)
        \/ DeadlockVictim(w)
        \/ Crash(w)

\* A worker that is alive goes on with its job, and the database looks for
\* deadlocks (deadlock_timeout).  Nothing else is promised.
Spec ==
    /\ Init
    /\ [][Next]_vars
    /\ \A w \in Worker : WF_vars(Work(w)) /\ WF_vars(DeadlockVictim(w))
-----------------------------------------------------------------------------
(***************************************************************************)
(* Properties.                                                             *)
(***************************************************************************)
IsLive(id) == rows[id] # NULL /\ rows[id].state \in Live

\* The last document of a key in a tree is the one that counts.
LastDoc(docs, key) ==
    {n \in 1..Len(docs) :
        /\ docs[n].key = key
        /\ \A m \in 1..Len(docs) : docs[m].key = key => m <= n}

\* A delivery the ledger calls processed has left everything it stands for:
\* its artifact and a row for every assertion of the revision it pushed.
ProcessedIsComplete ==
    \A d \in Delivery :
        ledger[d] = "processed" =>
            /\ d \in artifacts
            /\ LET rev == world.sent[d].rev
               IN  rev # NULL =>
                     \A n \in 1..Len(world.tree[rev]) :
                        rows[<<world.tree[rev][n].key, rev>>] # NULL

\* Whatever two syncs did to each other, a live row says what the reviewed
\* file of its own revision says.
LiveRowsAreReviewed ==
    \A id \in Id :
        IsLive(id) => \E n \in LastDoc(world.tree[id[2]], id[1]) :
                        world.tree[id[2]][n].state = rows[id].state

\* An id is never dropped from a file that stays.
IdsStay ==
    \A r, s \in Revision :
        \A m \in 1..Len(world.tree[r]) :
            LET doc == world.tree[r][m]
            IN  \/ doc.path \notin PathsOf(world.tree[s])
                \/ LastDoc(world.tree[s], doc.key) # {}

\* What github_projection gives a search, a pack or an expanded reference.
Served == {id \in Id : rows[id] # NULL /\ rows[id].state = "accepted"}

\* The live rows are the live assertions of the revision, and those it accepts
\* are served.
ProjectionOf(rev) ==
    LET Says(id, states) ==
            /\ id[2] = rev
            /\ \E n \in LastDoc(world.tree[rev], id[1]) :
                    world.tree[rev][n].state \in states
    IN  /\ {id \in Id : IsLive(id)} = {id \in Id : Says(id, Live)}
        /\ Served = {id \in Id : Says(id, {"accepted"})}

\* As long as syncs have not run side by side, what is live, and what is served,
\* is the last synced revision and nothing else, whichever order the revisions came in and
\* whatever failed, crashed or was replayed between them.
ProjectionIsLastSync ==
    synced # NULL /\ ~overlapped /\ IdsStay => ProjectionOf(synced)

\* A job that runs again for a processed delivery changes no assertion: a late
\* replay may not bring an old revision back.
ReplayIsHarmless ==
    [][\A w \in Worker :
          /\ job[w] # NULL
          /\ job'[w] # job[w]
          /\ ledger[job[w].delivery] = "processed"
          => rows' = rows]_vars

\* Every job a worker takes comes to an end: two syncs that wait for each
\* other's rows do not wait forever.
JobsEnd == \A w \in Worker : job[w] # NULL ~> job[w] = NULL

\* The pipeline implements SidecarProjection: whatever two workers, the queue
\* and the webhook do to each other, readers see a revision appear whole, in
\* the step that records its delivery as processed.
Projection == INSTANCE SidecarProjection WITH
    processed <- {d \in Delivery : ledger[d] = "processed"},
    state <- [id \in Id |-> IF rows[id] = NULL THEN NULL ELSE rows[id].state]

RevisionsAppearWhole == Projection!Spec

\* Assertions are created "through pull requests in the evidence repository"
\* (docs/architecture/github-native-evidence.md:83-87): what is live was pushed
\* to the branch that pull requests are merged into.
LiveRowsWereMerged ==
    \A id \in Id :
        IsLive(id) => \E d \in Delivery : world.sent[d] = [rev |-> id[2], ref |-> "default"]

\* Removing an assertion from the sidecar retracts it: after a sync, with no
\* other sync beside it, nothing is live that its revision does not contain.
RemovedIsRetracted ==
    synced # NULL /\ ~overlapped =>
        \A id \in Id : IsLive(id) => LastDoc(world.tree[synced], id[1]) # {}

\* A revision supersedes the earlier one atomically: no key is ever live in
\* two revisions.
OneLiveRevision ==
    \A k \in Key : \A r, s \in Revision :
        IsLive(<<k, r>>) /\ IsLive(<<k, s>>) => r = s

\* GitHub was told to send it again, did, and was told all is well: then there
\* is a job for it.
AcceptedIsScheduled ==
    \A d \in Delivery :
        d \in accepted /\ hand[d] = NULL => task[d] # NULL
=============================================================================
