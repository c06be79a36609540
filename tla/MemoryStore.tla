---------------------------- MODULE MemoryStore ----------------------------
(***************************************************************************)
(* The operations that change one project's memories, each the database    *)
(* transaction the code runs it in: the write endpoint, the ingestion of   *)
(* the .memory/ tree (Plane A), the review inbox with its undo, the        *)
(* console's bulk actions and the decay sweep.                             *)
(*                                                                         *)
(* The schedule is serial: an ingestion pass is many statements of one     *)
(* transaction, modelled statement by statement so that it can fail and    *)
(* roll back between any two of them, and nothing else runs meanwhile.     *)
(* now() is the start of the transaction and every transaction starts at   *)
(* an instant of its own.                                                  *)
(***************************************************************************)
EXTENDS MemoryTable

CONSTANTS
    Files,       \* sequence of the .memory/ files ingestion classifies, by path
    Refused,     \* texts the ingest gate refuses (secret found, or too large)
    Episodic,    \* texts API callers write as episodes, observations, summaries
    ApiSource,   \* sources of the writes that do not come from a pass
    MaxRows,     \* bound: rows of the table
    MaxClock     \* bound: transactions that take a timestamp

FileKeys == {Files[n] : n \in 1..Len(Files)}

ASSUME StoreAssumption ==
    /\ Files \in Seq(Key)
    /\ \A m, n \in 1..Len(Files) : Files[m] = Files[n] => m = n
    /\ Refused \subseteq Content
    /\ Episodic \subseteq Content
    /\ "git" \in Source
    /\ ApiSource \subseteq Source
    /\ MaxRows \in Nat
    /\ MaxClock \in Nat

\* A working tree: for each file, absent or its body and whether its
\* frontmatter withdraws it (ingest.lifecycle_for).
FileState == {NULL} \cup [content : Content, retired : BOOLEAN]
Tree == [FileKeys -> FileState]

CONSTANT Trees   \* bound: the working trees a pass may find

ASSUME TreesAssumption == Trees \subseteq Tree

VARIABLES
    mem,     \* the committed table
    clock,   \* the latest transaction timestamp
    pass,    \* the ingestion pass under way, or NULL
    call     \* how the last transaction ended; which one, if it was refused

vars == <<mem, clock, pass, call>>

Op == {"write", "ingest", "promote", "reject", "undo", "archive", "decay",
       "consolidate"}

Committed  == [outcome |-> "committed", op |-> NULL]
RolledBack == [outcome |-> "rolledback", op |-> NULL]
RefusedBy(op) == [outcome |-> "refused", op |-> op]

Pass == [tree : Tree,                       \* the tree being reconciled
         next : Nat,                        \* index in Files of the next file
         seen : SUBSET Key,                 \* seen_keys
         work : Seq(Row)]                   \* the table as the pass sees it

ASSUME PassAssumption == NULL \notin Pass

TypeOK ==
    /\ mem \in Seq(Row)
    /\ clock \in Nat
    /\ pass \in {NULL} \cup Pass
    /\ call \in {Committed, RolledBack} \cup {RefusedBy(op) : op \in Op}

Init ==
    /\ mem = <<>>
    /\ clock = 0
    /\ pass = NULL
    /\ call = Committed
-----------------------------------------------------------------------------
Idle == pass = NULL

\* A transaction begins: it reads now() once.
Begin ==
    /\ Idle
    /\ clock < MaxClock
    /\ clock' = clock + 1

\* The transaction tries to leave the table t.  If a constraint objects, the
\* statement raises and everything the transaction did is undone.
Attempt(op, t) ==
    /\ mem' = IF Admissible(t) THEN t ELSE mem
    /\ call' = IF Admissible(t) THEN Committed ELSE RefusedBy(op)

RoomFor(t, content) == Holding(t, content) # {} \/ Len(t) < MaxRows

\* Archive row i and close its validity at now, whatever it was before.
Archived(t, i, now) ==
    [t EXCEPT ![i].status = "archived", ![i].upper = now]
-----------------------------------------------------------------------------
(***************************************************************************)
(* POST /v1/memories, captures and extraction: one write, one transaction. *)
(* The caller may name a key; the lifecycle argument is ingestion's alone. *)
(***************************************************************************)
WriteMemory(source, content, key) ==
    /\ Begin
    /\ RoomFor(mem, content)
    /\ \E t \in Written(mem, source, content, key, FALSE,
                        content \in Episodic, clock + 1) :
            Attempt("write", t)
    /\ UNCHANGED pass
-----------------------------------------------------------------------------
(***************************************************************************)
(* ingest_tree: one transaction over the whole tree, files in path order.  *)
(***************************************************************************)
BeginPass(tree) ==
    /\ Begin
    /\ pass' = [tree |-> tree, next |-> 1, seen |-> {}, work |-> mem]
    /\ UNCHANGED <<mem, call>>

\* Files the pass does not take: absent from the tree, or refused by the gate.
\* A refused file is reported and not counted as seen.
SkipFile ==
    /\ ~Idle
    /\ pass.next <= Len(Files)
    /\ LET file == pass.tree[Files[pass.next]]
       IN  \/ file = NULL
           \/ file # NULL /\ file.content \in Refused
    /\ pass' = [pass EXCEPT !.next = @ + 1]
    /\ UNCHANGED <<mem, clock, call>>

IngestFile ==
    /\ ~Idle
    /\ pass.next <= Len(Files)
    /\ LET key  == Files[pass.next]
           file == pass.tree[key]
       IN  /\ file # NULL
           /\ file.content \notin Refused
           /\ RoomFor(pass.work, file.content)
           /\ \E t \in Written(pass.work, "git", file.content, key,
                               file.retired, FALSE, clock) :
                IF Admissible(t)
                THEN /\ pass' = [pass EXCEPT !.next = @ + 1,
                                             !.seen = @ \cup {key},
                                             !.work = t]
                     /\ UNCHANGED call
                ELSE /\ pass' = NULL
                     /\ call' = RefusedBy("ingest")
    /\ UNCHANGED <<mem, clock>>

\* The rows _archive_missing selects: served git rows under the tree's prefix
\* whose file the pass did not see.
Gone(t, seen) ==
    {i \in 1..Len(t) : /\ t[i].source = "git"
                       /\ t[i].status = "active"
                       /\ t[i].key \in FileKeys
                       /\ t[i].key \notin seen}

\* _archive_missing: the selected rows that are still open are archived.
ArchiveMissing(t, seen, now) ==
    [i \in 1..Len(t) |->
        IF i \in Gone(t, seen) /\ Open(t[i])
        THEN [t[i] EXCEPT !.status = "archived", !.upper = now]
        ELSE t[i]]

\* The end of the pass: sweep, then commit.
FinishPass ==
    /\ ~Idle
    /\ pass.next > Len(Files)
    /\ Attempt("ingest", ArchiveMissing(pass.work, pass.seen, clock))
    /\ pass' = NULL
    /\ UNCHANGED clock

\* The process dies or a statement fails for a reason of its own: rollback.
AbortPass ==
    /\ ~Idle
    /\ pass' = NULL
    /\ call' = RolledBack
    /\ UNCHANGED <<mem, clock>>
-----------------------------------------------------------------------------
(***************************************************************************)
(* The review inbox.                                                       *)
(***************************************************************************)
Promotable == {"observed", "verified"}

Promote(i, tier) ==
    /\ Begin
    /\ mem[i].status = "quarantined"
    /\ tier \in Promotable
    /\ Attempt("promote", [mem EXCEPT ![i].tier = tier,
                                      ![i].status = "active",
                                      ![i].review = mem[i].tier])
    /\ UNCHANGED pass

Reject(i) ==
    /\ Begin
    /\ mem[i].status = "quarantined"
    /\ Attempt("reject", [Archived(mem, i, clock + 1)
                            EXCEPT ![i].review = mem[i].tier])
    /\ UNCHANGED pass

\* Mutant of Undo: the recorded tier is not restored.
UndoToInferred(i) ==
    /\ Begin
    /\ mem[i].review # NULL
    /\ Attempt("undo", [mem EXCEPT ![i].status = "quarantined",
                                   ![i].tier = "inferred",
                                   ![i].upper = NULL,
                                   ![i].review = NULL])
    /\ UNCHANGED pass

\* unreview: back to the queue at the tier held before the review, with the
\* validity open again.  Any status will do as long as a review is recorded.
Undo(i) ==
    /\ Begin
    /\ mem[i].review # NULL
    /\ Attempt("undo", [mem EXCEPT ![i].status = "quarantined",
                                   ![i].tier = mem[i].review,
                                   ![i].upper = NULL,
                                   ![i].review = NULL])
    /\ UNCHANGED pass
-----------------------------------------------------------------------------
(***************************************************************************)
(* The console's bulk actions: all the rows asked for or none.             *)
(***************************************************************************)
\* Git rows are refused up front; rows already archived are left alone.  The
\* statement does not ask whether the validity is still open.
ConsoleArchive(refs) ==
    /\ Begin
    /\ \A i \in refs : mem[i].source # "git"
    /\ Attempt("archive",
               [i \in 1..Len(mem) |->
                    IF i \in refs /\ mem[i].status # "archived"
                    THEN [mem[i] EXCEPT !.status = "archived",
                                        !.upper = clock + 1]
                    ELSE mem[i]])
    /\ UNCHANGED pass
-----------------------------------------------------------------------------
(***************************************************************************)
(* maintenance.decay.  Which rows are old, unused and unpinned is left     *)
(* open: "stale" is any set of rows.                                       *)
(***************************************************************************)
Decayable(t, stale) ==
    {i \in stale : /\ t[i].status = "active"
                   /\ Open(t[i])
                   /\ t[i].episodic}

Decay(stale) ==
    /\ Begin
    /\ Decayable(mem, stale) # {}
    /\ Attempt("decay",
               [i \in 1..Len(mem) |->
                    IF i \in Decayable(mem, stale)
                    THEN [mem[i] EXCEPT !.status = "archived",
                                        !.upper = clock + 1]
                    ELSE mem[i]])
    /\ UNCHANGED pass
-----------------------------------------------------------------------------
Rows == 1..Len(mem)

Next ==
    \/ \E source \in ApiSource, content \in Content, key \in Key \cup {NULL} :
            WriteMemory(source, content, key)
    \/ \E tree \in Trees : BeginPass(tree)
    \/ SkipFile
    \/ IngestFile
    \/ FinishPass
    \/ AbortPass
    \/ \E i \in Rows, tier \in Tier : Promote(i, tier)
    \/ \E i \in Rows : Reject(i)
    \/ \E i \in Rows : Undo(i)
    \/ \E refs \in SUBSET Rows : ConsoleArchive(refs)
    \/ \E stale \in SUBSET Rows : Decay(stale)

Spec == Init /\ [][Next]_vars
-----------------------------------------------------------------------------
(***************************************************************************)
(* Properties.                                                             *)
(***************************************************************************)
\* Nothing but the console's own actions can trip over the table's
\* constraints.  In particular an edit of a keyed memory, an ingestion pass
\* and a review decision always find the old version of the key closed.
NeverRefused ==
    call.outcome = "refused" => call.op \in {"undo", "archive"}

\* A status and a validity that belong together.  What is served or waits for
\* review is open: the inbox and retrieval look at open rows only, so a closed
\* one would be lost to both.  What was archived is closed: an archived row
\* that stays open would keep its key from ever being written again.  And a
\* closed validity is neither empty nor in the future: upper() of an empty
\* range is NULL, which the write path would take for an open row.
StatusMatchesValidity ==
    \A i \in Rows :
        /\ mem[i].status \in {"active", "quarantined"} => Open(mem[i])
        /\ mem[i].status = "archived" => ~Open(mem[i])
        /\ ~Open(mem[i]) => /\ mem[i].lower < mem[i].upper
                            /\ mem[i].upper <= clock

\* Trust is what the source earned or what a recorded review assigned.  A row
\* without a review has the tier it was born with; a reviewed row remembers
\* that tier, so undoing the review restores it exactly; and a row whose birth
\* tier calls for quarantine is served only under a review.
TrustIsEarned ==
    \A i \in Rows :
        LET row   == mem[i]
            birth == BirthTier(row.content, row.source)
        IN  /\ row.review = NULL => row.tier = birth
            /\ row.review # NULL => /\ row.review = birth
                                    /\ birth \in QuarantineTiers
                                    /\ row.tier \in Promotable \cup {birth}
            /\ row.status = "active" => row.tier \notin QuarantineTiers

\* Writing is idempotent by content: however often, from whatever source and
\* under whatever key a text is written, one row holds it.
OneRowPerContent ==
    \A i, j \in Rows : mem[i].content = mem[j].content => i = j

\* The supersession graph tells the history of a key without gaps: the version
\* an edge points to is older, of the same key, and ends at the instant its
\* successor begins.  No later archive, review or undo may move that instant.
SupersessionIsContiguous ==
    \A i \in Rows : \A j \in mem[i].replaces :
        /\ j \in Rows
        /\ j < i
        /\ mem[j].key = mem[i].key
        /\ mem[j].upper = mem[i].lower

\* The pass that ends in this step committed.
PassCommits == pass # NULL /\ pass' = NULL /\ call' = Committed

\* After a pass no git memory is served under a file the tree does not have,
\* and no text the tree withdraws is served at all, from whichever source it
\* first came and under whichever key it is stored.
WithdrawnIsNotServed ==
    [][PassCommits =>
        \A i \in 1..Len(mem') :
            mem'[i].status = "active" =>
                /\ mem'[i].source = "git" /\ mem'[i].key \in FileKeys
                        => pass.tree[mem'[i].key] # NULL
                /\ \A key \in FileKeys :
                        LET file == pass.tree[key]
                        IN  file # NULL =>
                              \/ ~file.retired
                              \/ file.content \in Refused
                              \/ mem'[i].content # file.content]_vars

\* What Plane A says is what is served: when a pass commits, the text of every
\* file it accepted and the file does not withdraw is active and open.  This
\* is what the scheduler's reconciliation is there to guarantee.
PlaneAIsServed ==
    [][PassCommits =>
        \A key \in FileKeys :
            LET file == pass.tree[key]
            IN  \/ file = NULL
                \/ file # NULL /\ (file.retired \/ file.content \in Refused)
                \/ \E i \in 1..Len(mem') :
                        /\ mem'[i].content = file.content
                        /\ mem'[i].status = "active"
                        /\ Open(mem'[i])]_vars
=============================================================================
