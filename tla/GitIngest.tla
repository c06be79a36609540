------------------------------ MODULE GitIngest ------------------------------
(***************************************************************************)
(* Plane A ingestion and git: the scheduler's pass over the live checkout, *)
(* which people edit, commit to and switch under it, and beside it the job *)
(* ingest_git_commit, which reads the .memory tree of one commit.  A queue *)
(* can lag behind a push, so the job must not look at the checkout.        *)
(*                                                                         *)
(* A pass is one transaction under READ COMMITTED and walks the files in   *)
(* order: each is read, git is asked for the commit that last touched it,  *)
(* and the text is written.  Two passes wait for each other's rows.        *)
(*                                                                         *)
(* What a write does beyond text, validity and provenance is MemoryStore's *)
(* subject, and so are refused and withdrawn files; ingestion_events has   *)
(* no reader here.  History has no merges and commits are never pruned.    *)
(***************************************************************************)
EXTENDS Naturals, Sequences, FiniteSets

CONSTANTS
    Files,       \* the sequence of .memory paths, in order
    Text,
    Root,        \* the tree of the first commit
    MaxCommits,  \* bound: commits
    MaxPasses,   \* bound: passes of either kind
    NULL

Path == {Files[n] : n \in 1..Len(Files)}
Tree == [Path -> Text \cup {NULL}]
Commit == 1..MaxCommits
Reader == {"live", "job"}

GitIngestAssumption ==
    /\ \A m, n \in 1..Len(Files) : Files[m] = Files[n] => m = n
    /\ Root \in Tree
    /\ NULL \notin Text \cup Commit
    /\ MaxCommits \in Nat \ {0} /\ MaxPasses \in Nat

VARIABLES
    commits,  \* sequence of [parent, tree]
    head,     \* the commit that is checked out
    work,     \* the checkout's files
    bound,    \* the project's registered remote is the checkout's
    rows,     \* mem.memories, by key and text
    pass,     \* the open transaction of each reader, or NULL
    passes

gitVars == <<commits, head, work, bound, rows, pass, passes>>
repository == <<commits, head, work>>

Id == Path \X Text

\* Validity, source_version and source_uri; by is history: who wrote those two.
Row == [open : BOOLEAN, sha : Commit \cup {NULL}, uri : Path, by : Reader]
Rows == [Id -> Row \cup {NULL}]

Pass == [ref  : Commit \cup {NULL},    \* the commit of a job
         todo : SUBSET Path,           \* files to come
         text : Text \cup {NULL},      \* what was read of the next of them
         seen : SUBSET Path,
         mine : Rows]                  \* uncommitted writes

TypeOK ==
    /\ commits \in Seq([parent : 0..MaxCommits, tree : Tree])
    /\ head \in 1..Len(commits)
    /\ work \in Tree
    /\ bound \in BOOLEAN
    /\ rows \in Rows
    /\ pass \in [Reader -> Pass \cup {NULL}]
    /\ passes \in 0..MaxPasses

Init ==
    /\ commits = <<[parent |-> 0, tree |-> Root]>>
    /\ head = 1
    /\ work = Root
    /\ bound = TRUE
    /\ rows = [id \in Id |-> NULL]
    /\ pass = [r \in Reader |-> NULL]
    /\ passes = 0
-----------------------------------------------------------------------------
(***************************************************************************)
(* People and their repository.                                            *)
(***************************************************************************)
Edit(p, text) ==
    /\ work' = [work EXCEPT ![p] = text]
    /\ UNCHANGED <<commits, head, bound, rows, pass, passes>>

CommitWork ==
    /\ Len(commits) < MaxCommits
    /\ work # commits[head].tree
    /\ commits' = Append(commits, [parent |-> head, tree |-> work])
    /\ head' = Len(commits) + 1
    /\ UNCHANGED <<work, bound, rows, pass, passes>>

Checkout(c) ==
    /\ c \in 1..Len(commits)
    /\ head' = c
    /\ work' = commits[c].tree
    /\ UNCHANGED <<commits, bound, rows, pass, passes>>

\* The project is registered with another remote, or with this one again.
Repoint ==
    /\ bound' = ~bound
    /\ UNCHANGED <<repository, rows, pass, passes>>
-----------------------------------------------------------------------------
(***************************************************************************)
(* A pass: ingest.ingest_tree.                                             *)
(***************************************************************************)
\* root.rglob("*"): the list is complete before the first file is read.
Present(tree) == {p \in Path : tree[p] # NULL}

Opened(r, ref, tree) ==
    /\ pass[r] = NULL
    /\ Present(tree) # {}
    /\ passes < MaxPasses
    /\ passes' = passes + 1
    /\ pass' = [pass EXCEPT ![r] = [ref  |-> ref,
                                    todo |-> Present(tree),
                                    text |-> NULL,
                                    seen |-> {},
                                    mine |-> [id \in Id |-> NULL]]]

StartLive ==
    /\ Opened("live", NULL, work)
    /\ UNCHANGED <<repository, bound, rows>>

\* Mutant of Snapshot: the checkout is read, as the poll does.
SnapshotOfCheckout(c) == work

\* commit_snapshot: git archive gives the tree of the commit.
Snapshot(c) == commits[c].tree

\* A job that may run: its project is bound to this checkout, and the commit has
\* a .memory tree.
Ready(c) ==
    /\ bound
    /\ Present(commits[c].tree) # {}

\* The queue runs the job of a commit, however long ago that was pushed.
StartJob(c) ==
    /\ c \in 1..Len(commits)
    /\ Ready(c)
    /\ Opened("job", c, Snapshot(c))
    /\ UNCHANGED <<repository, bound, rows>>

\* It raises, and writes nothing.
RefuseJob(c) ==
    /\ c \in 1..Len(commits)
    /\ ~Ready(c)
    /\ UNCHANGED gitVars

\* The files are taken in order.
Position(p) == CHOOSE n \in 1..Len(Files) : Files[n] = p

At(r) == CHOOSE p \in pass[r].todo : \A q \in pass[r].todo : Position(p) <= Position(q)

\* The file as it is now; one that has gone since is passed over.
Contents(r) == IF r = "job" THEN Snapshot(pass[r].ref)[At(r)] ELSE work[At(r)]

Read(r) ==
    /\ pass[r] # NULL
    /\ pass[r].todo # {}
    /\ pass[r].text = NULL
    /\ pass' = [pass EXCEPT ![r] = IF Contents(r) = NULL
                                   THEN [@ EXCEPT !.todo = pass[r].todo \ {At(r)}]
                                   ELSE [@ EXCEPT !.text = Contents(r)]]
    /\ UNCHANGED <<repository, bound, rows, passes>>

\* The commit that last touched p, seen from c; NULL if none did.
LastTouch(c, p) ==
    LET touch[n \in 1..Len(commits)] ==
            LET up == commits[n].parent
            IN  IF up = 0 THEN (IF commits[n].tree[p] = NULL THEN NULL ELSE n)
                ELSE IF commits[n].tree[p] # commits[up].tree[p] THEN n
                ELSE touch[up]
    IN  touch[c]

\* git_sha: from the job's commit, or from what is checked out.
Sha(r) == LastTouch(IF r = "job" THEN pass[r].ref ELSE head, At(r))

\* The table as the statement sees it.
View(r) == [id \in Id |-> IF pass[r].mine[id] # NULL THEN pass[r].mine[id]
                          ELSE rows[id]]

\* Rows the other reader has written and not committed.
Locked(r) == {id \in Id : \E o \in Reader \ {r} :
                            pass[o] # NULL /\ pass[o].mine[id] # NULL}

Open(r, p) == {id \in Id : id[1] = p /\ View(r)[id] # NULL /\ View(r)[id].open}

Writes(r, mine) ==
    /\ pass' = [pass EXCEPT ![r].mine = mine,
                            ![r].seen = @ \cup {At(r)},
                            ![r].todo = @ \ {At(r)},
                            ![r].text = NULL]
    /\ UNCHANGED <<repository, bound, rows, passes>>

\* The text is stored already, under whatever key: only where it comes from is
\* noted again, if that is another commit.
Restamp(r) ==
    /\ pass[r] # NULL
    /\ pass[r].text # NULL
    /\ \E id \in Id :
        /\ id[2] = pass[r].text
        /\ View(r)[id] # NULL
        /\ IF Sha(r) \in {NULL, View(r)[id].sha}
           THEN Writes(r, pass[r].mine)
           ELSE /\ id \notin Locked(r)
                /\ Writes(r, [pass[r].mine EXCEPT ![id] =
                        [View(r)[id] EXCEPT !.sha = Sha(r), !.uri = At(r),
                                            !.by = r]])

\* The text is new: it takes its key's place.
Store(r) ==
    LET closed == [id \in Id |->
            IF id \in Open(r, At(r)) THEN [View(r)[id] EXCEPT !.open = FALSE]
            ELSE pass[r].mine[id]]
    IN  /\ pass[r] # NULL
        /\ pass[r].text # NULL
        /\ \A id \in Id : id[2] = pass[r].text => View(r)[id] = NULL
        /\ \A id \in Locked(r) : id[1] # At(r)
        /\ Writes(r, [closed EXCEPT ![<<At(r), pass[r].text>>] =
                [open |-> TRUE, sha |-> Sha(r), uri |-> At(r), by |-> r]])

\* _archive_missing, and the commit.
Finish(r) ==
    LET gone == UNION {Open(r, p) : p \in Path \ pass[r].seen}
    IN  /\ pass[r] # NULL
        /\ pass[r].todo = {}
        /\ gone \cap Locked(r) = {}
        /\ rows' = [id \in Id |-> IF id \in gone
                                  THEN [View(r)[id] EXCEPT !.open = FALSE]
                                  ELSE View(r)[id]]
        /\ pass' = [pass EXCEPT ![r] = NULL]
        /\ UNCHANGED <<repository, bound, passes>>

\* A statement fails, a wait ends in a violated constraint or a deadlock, or
\* the process dies: the transaction is undone.
Fail(r) ==
    /\ pass[r] # NULL
    /\ pass' = [pass EXCEPT ![r] = NULL]
    /\ UNCHANGED <<repository, bound, rows, passes>>

Steps(r) == Read(r) \/ Restamp(r) \/ Store(r) \/ Finish(r) \/ Fail(r)

Next ==
    \/ \E p \in Path, text \in Text \cup {NULL} : Edit(p, text)
    \/ CommitWork
    \/ \E c \in Commit : Checkout(c) \/ StartJob(c) \/ RefuseJob(c)
    \/ Repoint
    \/ StartLive
    \/ \E r \in Reader : Steps(r)

Spec == Init /\ [][Next]_gitVars
-----------------------------------------------------------------------------
\* "Reading the live checkout at that point would record a later document under
\* the older webhook SHA, which corrupts Plane A provenance" (commit_snapshot):
\* where a job says a text comes from, that commit has it, whatever happened to
\* the checkout and whoever else wrote the row.
JobProvenanceResolves ==
    \A id \in Id :
        rows[id] # NULL /\ rows[id].by = "job"
            => commits[rows[id].sha].tree[rows[id].uri] = id[2]
=============================================================================
