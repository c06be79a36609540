--------------------------- MODULE Consolidation ---------------------------
(***************************************************************************)
(* The two unattended passes that take memories out of retrieval: dedup,   *)
(* which collapses near-identical memories onto one survivor, and episode  *)
(* compaction, which folds groups of aged episodes into one summary.  They *)
(* run beside the operations of MemoryStore, each pass one transaction,    *)
(* modelled group by group.                                                *)
(*                                                                         *)
(* Similarity, age, pins, vectors and the batch size decide which rows are *)
(* candidates and which of them are near each other; here any choice is    *)
(* possible.  The runs ledger and merged_from are left out.                *)
(***************************************************************************)
EXTENDS MemoryStore, FiniteSets

CONSTANTS
    SummaryOf,   \* the text of the summary of a group of texts
    MinGroup     \* consolidation_min_episodes

\* The texts compaction composes.
Summaries == {SummaryOf[group] : group \in SUBSET Content}

VARIABLES
    fold,     \* the pass under way, or NULL
    folded    \* edges <<new, old>> recorded by consolidation

foldVars == <<vars, fold, folded>>

Kind == {"dedup", "compaction"}

Fold == [kind  : Kind,
         left  : SUBSET Nat,            \* candidates not yet seen
         work  : Seq(Row),              \* the table as the pass sees it
         edges : SUBSET (Nat \X Nat)]   \* the edges it recorded

ConsolidationAssumption ==
    /\ SummaryOf \in [SUBSET Content -> Content]
    /\ MinGroup \in Nat
    /\ "consolidation" \in Source
    /\ NULL \notin Fold

FoldTypeOK ==
    /\ TypeOK
    /\ fold \in {NULL} \cup Fold
    /\ folded \subseteq Rows \X Rows

FoldInit ==
    /\ Init
    /\ fold = NULL
    /\ folded = {}
-----------------------------------------------------------------------------
\* Position in the order untrusted < ... < authoritative (TIER_RANK).
Rank(tier) ==
    CASE tier = "untrusted" -> 0
      [] tier = "inferred"  -> 1
      [] tier = "observed"  -> 2
      [] tier = "verified"  -> 3
      [] OTHER              -> 4

\* _candidates: served rows of the right types that are not Plane A's.  A row
\* consolidation wrote is a session_summary, which dedup takes and compaction
\* does not.
Eligible(t, kind) ==
    {i \in 1..Len(t) : /\ t[i].status = "active"
                       /\ Open(t[i])
                       /\ t[i].episodic
                       /\ t[i].source # "git"
                       /\ kind = "compaction" => t[i].source # "consolidation"}

\* _archive, for each of the rows olds that is still open.
Fold1(t, olds, now) ==
    [i \in 1..Len(t) |->
        IF i \in olds /\ Open(t[i])
        THEN [t[i] EXCEPT !.status = "archived", !.upper = now]
        ELSE t[i]]

BeginFold(kind, candidates) ==
    /\ fold = NULL
    /\ Begin
    /\ candidates # {}
    /\ candidates \subseteq Eligible(mem, kind)
    /\ fold' = [kind |-> kind, left |-> candidates, work |-> mem, edges |-> {}]
    /\ UNCHANGED <<mem, pass, call, folded>>

\* The oldest candidate not seen yet: each group is built around it.
Anchor == CHOOSE i \in fold.left : \A j \in fold.left : i <= j

\* The rows olds are folded onto row new of table t; group has been dealt with.
FoldGroup(t, group, olds, new) ==
    LET next == Fold1(t, olds, clock)
    IN  IF Admissible(next)
        THEN /\ fold' = [fold EXCEPT !.left = @ \ group,
                                     !.work = next,
                                     !.edges = @ \cup {<<new, i>> : i \in olds}]
             /\ UNCHANGED call
        ELSE /\ fold' = NULL
             /\ call' = RefusedBy("consolidate")

\* Mutant of Survivors: the oldest survives, whatever its tier.
SurvivorsByAge(group) == {i \in group : \A j \in group : i <= j}

\* _survivor: highest tier; which of equals was retrieved more is left open.
Survivors(group) ==
    {i \in group : \A j \in group : Rank(fold.work[i].tier) >= Rank(fold.work[j].tier)}

Dedup(near) ==
    /\ fold # NULL
    /\ fold.kind = "dedup"
    /\ fold.left # {}
    /\ near \subseteq fold.left \ {Anchor}
    /\ near # {}
    /\ LET group == {Anchor} \cup near
       IN  \E survivor \in Survivors(group) :
                FoldGroup(fold.work, group, group \ {survivor}, survivor)
    /\ UNCHANGED <<mem, clock, pass, folded>>

\* The source a summary is written under.
SummarySource == "consolidation"

\* The summary is written like any memory: with no key, deduplicated by its
\* text, quarantined if its text calls for it.
Compact(near) ==
    /\ fold # NULL
    /\ fold.kind = "compaction"
    /\ fold.left # {}
    /\ near \subseteq fold.left \ {Anchor}
    /\ LET group == {Anchor} \cup near
           summary == SummaryOf[{fold.work[i].content : i \in group}]
       IN  /\ Cardinality(group) >= MinGroup
           /\ RoomFor(fold.work, summary)
           /\ \E t \in Written(fold.work, SummarySource, summary, NULL, FALSE,
                               TRUE, clock) :
                \E new \in Holding(t, summary) : FoldGroup(t, group, group, new)
    /\ UNCHANGED <<mem, clock, pass, folded>>

\* The anchor has no neighbours, or too few.
SkipAnchor ==
    /\ fold # NULL
    /\ fold.left # {}
    /\ fold' = [fold EXCEPT !.left = @ \ {Anchor}]
    /\ UNCHANGED <<mem, clock, pass, call, folded>>

FinishFold ==
    /\ fold # NULL
    /\ fold.left = {}
    /\ mem' = fold.work
    /\ folded' = folded \cup fold.edges
    /\ fold' = NULL
    /\ call' = Committed
    /\ UNCHANGED <<clock, pass>>

\* A later step of the sweep breaks the transaction, or the process dies.
AbortFold ==
    /\ fold # NULL
    /\ fold' = NULL
    /\ call' = RolledBack
    /\ UNCHANGED <<mem, clock, pass, folded>>

\* A summary cites the dates and titles of its episodes: callers are taken not
\* to have written that very text before.
NoCallerWritesASummary ==
    \A i \in 1..Len(mem') : i > Len(mem) => mem'[i].content \notin Summaries

FoldNext ==
    \/ /\ fold = NULL
       /\ Next
       /\ NoCallerWritesASummary
       /\ UNCHANGED <<fold, folded>>
    \/ /\ Idle
       /\ \/ \E kind \in Kind, candidates \in SUBSET Rows : BeginFold(kind, candidates)
          \/ \E near \in SUBSET Rows : Dedup(near) \/ Compact(near)
          \/ SkipAnchor
          \/ FinishFold
          \/ AbortFold

FoldSpec == FoldInit /\ [][FoldNext]_foldVars
-----------------------------------------------------------------------------
(***************************************************************************)
(* Properties.                                                             *)
(***************************************************************************)
\* The pass of this kind that ends in this step commits.
Commits(kind) ==
    fold # NULL /\ fold' = NULL /\ call' = Committed /\ fold.kind = kind

\* Neither pass moves trust the wrong way when it commits.  What dedup archives
\* was collapsed onto a row that is served and is trusted at least as much; a
\* summary that no reviewer has promoted is never trusted more than anything it
\* summarises.
FoldsKeepTrust ==
    [][/\ Commits("dedup") =>
            \A e \in fold.edges :
                /\ mem'[e[1]].status = "active"
                /\ Rank(mem'[e[1]].tier) >= Rank(mem[e[2]].tier)
       /\ Commits("compaction") =>
            \A e \in fold.edges :
                \/ mem'[e[1]].review # NULL
                \/ Rank(mem'[e[1]].tier) <= Rank(mem[e[2]].tier)]_foldVars

\* "The summary can never be more trusted than what it summarises"
\* (compact_episodes).  The code does not keep it: when a group is folded again
\* after its reviews were undone, its summary is the stored row, which a reviewer
\* may have promoted above the group.
SummaryIsNeverMoreTrusted ==
    [][Commits("compaction") =>
        \A e \in fold.edges :
            Rank(mem'[e[1]].tier) <= Rank(mem[e[2]].tier)]_foldVars

\* Compaction takes nothing out of retrieval without putting something back:
\* when it commits, every group it archived has a summary that is served.
CompactionKeepsGroupServed ==
    [][Commits("compaction") =>
        \A e \in fold.edges : mem'[e[1]].status = "active"]_foldVars
=============================================================================
