------------------------------ MODULE Retrieval ------------------------------
(***************************************************************************)
(* One request for knowledge at a time: memory_context (build_pack) and    *)
(* memory_search over the memories of one project.  Each stage that asks   *)
(* the database is an action, because the transaction is READ COMMITTED    *)
(* and the stages between are slow (an embedding call, a cross-encoder):   *)
(* another transaction may replace a memory between two of them.           *)
(*                                                                         *)
(* A memory's text is the set of its words, its feature score and its      *)
(* digest similarities are numbers of the corpus.  Fewer candidates than   *)
(* the SQL limits (60 rows, 6 baseline rows) are assumed.  Unresolved      *)
(* conflicts, which are prepended whole, are EntityGraph's; no statement   *)
(* of the code gives a memory the status "disputed".                       *)
(***************************************************************************)
EXTENDS Integers, FiniteSets, Sequences, SequencesExt

CONSTANTS
    Memory,
    Key,          \* Key[m]: versions of one memory_key share it
    SectionOf,    \* Section of a pack, by type
    Tables,       \* bound: the tables a request may find
    Words,        \* Words[m]: evidence terms of title, digest and content
    Linked,       \* memories the identifier or the graph arm surfaced
    Score,        \* Score[m]: the weighted features, in hundredths
    Rrf,          \* Rrf[m]: the fused rank score, in hundredths
    Ident,        \* Ident[m]: the id, as a number
    Cross,        \* Cross[m]: what the cross-encoder adds to Score[m]
    Similarity,   \* Similarity[m][n]: digest cosine, in hundredths
    Cost, Cap,    \* emitted tokens of a memory, cap of a section
    Clause,       \* the questions joined in the task
    Terms,        \* Terms[c]: meaningful terms of clause c
    Marker,       \* Marker[c]: names and identifiers clause c cites
    Relational,   \* clauses that ask for a relation
    TopK,         \* settings.rerank_top_k
    Limit,        \* hits a search returns
    NULL

Section == {"constraints", "decisions", "recent"}
Tier == <<"inferred", "observed", "verified">>
Status == {"active", "quarantined", "archived", "superseded"}

Past == 1
Present == 2
Instant == 0..3      \* before, at a past cursor, at the request, after it

Row == [status : Status, tier : 1..3, lower : Instant,
        upper : Instant \cup {NULL}, recorded : Instant]

RetrievalAssumption ==
    /\ Tables \subseteq [Memory -> Row \cup {NULL}]
    /\ IsFiniteSet(Memory)
    /\ SectionOf \in [Memory -> Section]
    /\ Linked \subseteq Memory
    /\ \A f \in {Score, Rrf, Ident, Cross, Cost} : f \in [Memory -> Nat]
    /\ \A m, n \in Memory : Ident[m] = Ident[n] => m = n
    /\ \A m, n \in Memory : Similarity[m][n] = Similarity[n][m] /\ Similarity[m][n] \in Int
    /\ Relational \subseteq Clause
    /\ Cap \in [Section -> Nat] /\ TopK \in Nat /\ Limit \in Nat

\* What the store guarantees of a table: an active row holds from when it was
\* written, and quarantine is for the least trusted tier.
TablesAreOfTheStore ==
    \A table \in Tables, m \in Memory : table[m] # NULL =>
        /\ table[m].status = "active" =>
                /\ table[m].lower <= Present /\ table[m].recorded <= Present
                /\ table[m].upper = NULL
        /\ table[m].status = "quarantined" => table[m].tier = 1

VARIABLES
    row,        \* mem.memories
    late,       \* keys replaced after the request's now()
    stage,      \* where the request is
    request,    \* its arguments, and whether the two models answer it
    arrived,    \* the candidates, in the order the database returned them
    was,        \* the status each row had when a query read it
    ranked,     \* the candidates by score, as retrieval_events stores them
    pool,       \* the ranked that MMR has not looked at yet
    kept,       \* those MMR kept
    evidence,   \* the kept that passed the evidence gate, still to place
    served,     \* the items of the pack, or the hits of the search
    used,       \* tokens used by each section
    dropped,    \* what the pack says it left out, and why
    verdict,    \* answerability
    event       \* the row of retrieval_events, for the debugger

vars == <<row, late, stage, request, arrived, was, ranked, pool, kept, evidence,
          served, used, dropped, verdict, event>>

Request == [tool : {"context", "search"}, historical : BOOLEAN,
            unverified : BOOLEAN, degraded : BOOLEAN, cross : BOOLEAN]
Item == [id : Memory, role : {"baseline", "baseline_evidence", "evidence"},
         status : Status,               \* what the row was when it was read
         historical : BOOLEAN, unverified : BOOLEAN]
Reason == {"near-duplicate", "no evidence", "budget"}
Verdict == [status : {"supported", "partial_support", "no_relevant_evidence",
                      "evidence_not_included"},
            supported : SUBSET Clause]

TypeOK ==
    /\ row \in [Memory -> Row \cup {NULL}]
    /\ was \in [Memory -> Status \cup {NULL}]
    /\ late \subseteq {Key[m] : m \in Memory}
    /\ stage \in {"idle", "search", "rank", "dedup", "gate", "always",
                  "place", "done"}
    /\ request \in Request \cup {NULL}
    /\ \A s \in {arrived, ranked, kept} : s \in Seq(Memory)
    /\ pool \subseteq Memory /\ evidence \subseteq Memory
    /\ served \subseteq Item
    /\ used \in [Section -> Nat]
    /\ dropped \subseteq [id : Memory, reason : Reason, by : Memory \cup {NULL}]
    /\ verdict \in Verdict \cup {NULL}
    /\ event = NULL \/ (event.returned \subseteq Memory
                         /\ event.dropped \subseteq dropped)

Blank ==
    /\ stage = "idle"
    /\ request = NULL
    /\ late = {}
    /\ arrived = <<>> /\ ranked = <<>> /\ kept = <<>>
    /\ pool = {} /\ evidence = {}
    /\ was = [m \in Memory |-> NULL]
    /\ served = {} /\ dropped = {}
    /\ used = [s \in Section |-> 0]
    /\ verdict = NULL /\ event = NULL

Init == Blank /\ row \in Tables
-----------------------------------------------------------------------------
AsOf(req) == IF req.historical THEN Past ELSE Present

ValidAt(r, t) ==
    /\ r # NULL
    /\ r.lower <= t /\ r.recorded <= t
    /\ r.upper = NULL \/ t < r.upper

\* The statuses and the least tier the hybrid query asks for.
Statuses(req) ==
    IF req.historical
    THEN {"active", "archived", "superseded"}
            \cup (IF req.tool = "context" THEN {"quarantined"} ELSE {})
    ELSE {"active"} \cup (IF req.unverified THEN {"quarantined"} ELSE {})

MinTier(req) == IF req.unverified THEN 1 ELSE 2

Hybrid(req) ==
    {m \in Memory : /\ ValidAt(row[m], AsOf(req))
                    /\ row[m].status \in Statuses(req)
                    /\ row[m].tier >= MinTier(req)}

\* The lexical arm alone asks for the status only when no cursor is given, and
\* for no tier.
LexicalOnly(req) ==
    {m \in Memory : /\ ValidAt(row[m], AsOf(req))
                    /\ req.historical \/ row[m].status = "active"}

Candidates(req) == IF req.degraded THEN LexicalOnly(req) ELSE Hybrid(req)

Ask(req) ==
    /\ stage = "idle"
    /\ request' = req
    /\ stage' = "search"
    /\ UNCHANGED <<row, late, arrived, was, ranked, pool, kept, evidence,
                   served, used, dropped, verdict, event>>

\* The query has no ORDER BY of its own: any order may arrive.
Search ==
    /\ stage = "search"
    /\ arrived' \in SetToSeqs(Candidates(request))
    /\ was' = [m \in Memory |-> IF row[m] = NULL THEN NULL ELSE row[m].status]
    /\ stage' = "rank"
    /\ UNCHANGED <<row, late, request, ranked, pool, kept, evidence, served,
                   used, dropped, verdict, event>>
-----------------------------------------------------------------------------
First(seq, n) == SubSeq(seq, 1, IF Len(seq) < n THEN Len(seq) ELSE n)

\* The cross-encoder sees the first TopK rows that arrived; the others score
\* nothing with it.
Seen(req, order) ==
    IF req.cross THEN ToSet(First(order, TopK)) ELSE {}

Total(m, seen) == Score[m] + (IF m \in seen THEN Cross[m] ELSE 0)

\* Mutant of Before: ties are left to the order of arrival.
BeforeByScore(m, n, seen) == Total(m, seen) > Total(n, seen)

\* rerank sorts by score, then by the fused rank, then by id, descending.
Before(m, n, seen) ==
    \/ Total(m, seen) > Total(n, seen)
    \/ /\ Total(m, seen) = Total(n, seen)
       /\ \/ Rrf[m] > Rrf[n]
          \/ Rrf[m] = Rrf[n] /\ Ident[m] > Ident[n]

Position(order, m) == CHOOSE n \in 1..Len(order) : order[n] = m

\* A stable sort of what arrived: each has as many before it as its place says.
Precedes(m, n, order, seen) ==
    \/ Before(m, n, seen)
    \/ ~Before(n, m, seen) /\ Position(order, m) < Position(order, n)

Ranking(order, seen) ==
    [k \in 1..Len(order) |->
        CHOOSE m \in ToSet(order) :
            Cardinality({n \in ToSet(order) : Precedes(n, m, order, seen)}) = k - 1]

Rank ==
    /\ stage = "rank"
    /\ ranked' = Ranking(arrived, Seen(request, arrived))
    /\ IF request.tool = "context"
       THEN pool' = ToSet(ranked') /\ stage' = "dedup" /\ UNCHANGED kept
       ELSE /\ kept' = First(IF request.degraded THEN arrived ELSE ranked',
                             Limit)
            /\ stage' = "gate"
            /\ UNCHANGED pool
    /\ UNCHANGED <<row, late, request, arrived, was, evidence, served, used,
                   dropped, verdict, event>>
-----------------------------------------------------------------------------
Duplicate == 94      \* weights.dedup_cosine

\* Rows of the lexical fallback carry no vector.
Alike(m, n) == IF request.degraded THEN 0 ELSE Similarity[m][n]

Closest(m) ==
    LET all == {Alike(m, kept[k]) : k \in 1..Len(kept)} \cup {0}
    IN  CHOOSE s \in all : \A t \in all : t <= s

\* mmr_lambda is 0.7; the seen set does not change after the ranking.
Value(m) == 7 * Total(m, Seen(request, arrived)) - 3 * Closest(m)

\* Mutant of Collapses: only the memory kept last is compared.
CollapsesIntoLast(m) ==
    IF Len(kept) > 0 /\ Alike(m, kept[Len(kept)]) >= Duplicate
    THEN {Len(kept)} ELSE {}

\* The kept memories m is a near-duplicate of.
Collapses(m) == {k \in 1..Len(kept) : Alike(m, kept[k]) >= Duplicate}

\* One turn of mmr_dedup: the first of the best values leaves the pool.
Select ==
    /\ stage = "dedup"
    /\ \E m \in pool :
        /\ \A n \in pool \ {m} :
              \/ Value(n) < Value(m)
              \/ Value(n) = Value(m) /\ Position(ranked, m) < Position(ranked, n)
        /\ pool' = pool \ {m}
        /\ LET twins == Collapses(m)
           IN  IF twins = {}
               THEN kept' = Append(kept, m) /\ UNCHANGED dropped
               ELSE /\ dropped' = dropped \cup
                        {[id |-> m, reason |-> "near-duplicate",
                          by |-> kept[CHOOSE k \in twins :
                                        \A j \in twins : k <= j]]}
                    /\ UNCHANGED kept
    /\ stage' = IF pool' = {} THEN "gate" ELSE "dedup"
    /\ UNCHANGED <<row, late, request, arrived, was, ranked, evidence, served,
                   used, verdict, event>>

NothingFound ==
    /\ stage = "dedup"
    /\ pool = {}
    /\ stage' = "gate"
    /\ UNCHANGED <<row, late, request, arrived, was, ranked, pool, kept, evidence,
                   served, used, dropped, verdict, event>>
-----------------------------------------------------------------------------
(***************************************************************************)
(* select_evidence: a ranking always has a first, so a memory counts as    *)
(* evidence only for clauses it shares enough terms with.                  *)
(***************************************************************************)
KeptSet == ToSet(kept)

Required(c) ==
    LET n == Cardinality(Terms[c])
    IN  IF n = 1 THEN 1 ELSE IF n > 4 THEN (n + 1) \div 2 ELSE 2

\* Names the clause cites and no record mentions.
UnknownMarkers(c) == Marker[c] \ UNION {Words[m] : m \in KeptSet}

Direct(m, c) ==
    /\ UnknownMarkers(c) = {}
    /\ Cardinality(Terms[c] \cap Words[m]) >= Required(c)

\* The clauses m is evidence for.  A memory an entity of the query led to
\* counts for every clause that asks for a relation.
EvidenceFor(m) ==
    {c \in Clause : Direct(m, c)}
        \cup (IF m \in Linked /\ ~request.degraded THEN Relational ELSE {})

IsEvidence(m) == EvidenceFor(m) # {}

GateVerdict ==
    LET supported == UNION {EvidenceFor(m) : m \in KeptSet}
    IN  [status |-> IF supported = {} THEN "no_relevant_evidence"
                    ELSE IF supported = Clause THEN "supported"
                    ELSE "partial_support",
         supported |-> supported]

\* Mutant of Rendered: an archived row is taken for a current one.
RenderedUnlessArchived(m, role, status, told) ==
    [id |-> m, role |-> role, status |-> status,
     historical |-> told /\ status = "superseded",
     unverified |-> told /\ status = "quarantined"]

\* What the reader of an item is told.  The lexical fallback selects no
\* status, so its items are never marked.
Rendered(m, role, status, told) ==
    [id |-> m, role |-> role, status |-> status,
     historical |-> told /\ status \in {"superseded", "archived"},
     unverified |-> told /\ status = "quarantined"]

\* The candidates the gate rejects, as the pack reports them.
Unsupported ==
    {[id |-> m, reason |-> "no evidence", by |-> NULL] :
        m \in {n \in KeptSet : ~IsEvidence(n)}}

Gate ==
    /\ stage = "gate"
    /\ verdict' = GateVerdict
    /\ evidence' = {m \in KeptSet : IsEvidence(m)}
    /\ IF request.tool = "context"
       THEN /\ dropped' = dropped \cup Unsupported
            /\ stage' = "always"
            /\ UNCHANGED served
       ELSE /\ served' = {Rendered(m, "evidence", was[m], ~request.degraded) :
                            m \in evidence'}
            /\ stage' = "done"
            /\ UNCHANGED dropped
    /\ UNCHANGED <<row, late, request, arrived, was, ranked, pool, kept, used, event>>
-----------------------------------------------------------------------------
(***************************************************************************)
(* The pack: constraints and conventions whatever the ranking says, then   *)
(* the evidence in order, each section up to its cap.                      *)
(***************************************************************************)
\* Mutant of AlwaysIncluded: only what the ranking found.
AlwaysIncludedIfRanked ==
    {m \in KeptSet : /\ SectionOf[m] = "constraints"
                     /\ ValidAt(row[m], AsOf(request))
                     /\ row[m].tier >= 3
                     /\ request.historical \/ row[m].status = "active"}

\* _always_included asks the table, at this point of the request.
AlwaysIncluded ==
    {m \in Memory : /\ SectionOf[m] = "constraints"
                    /\ ValidAt(row[m], AsOf(request))
                    /\ row[m].tier >= 3
                    /\ request.historical \/ row[m].status = "active"}

\* What they cost together, counted token by token.
TotalCost(ms) == Cardinality(UNION {{m} \X (1..Cost[m]) : m \in ms})

Always ==
    /\ stage = "always"
    /\ served' = {Rendered(m, IF m \in evidence THEN "baseline_evidence"
                              ELSE "baseline", row[m].status, TRUE) :
                    m \in AlwaysIncluded}
    /\ used' = [used EXCEPT !["constraints"] = TotalCost(AlwaysIncluded)]
    /\ evidence' = evidence \ AlwaysIncluded
    /\ stage' = "place"
    /\ UNCHANGED <<row, late, request, arrived, was, ranked, pool, kept,
                   dropped, verdict, event>>

Fits(m) == used[SectionOf[m]] + Cost[m] <= Cap[SectionOf[m]]

\* _allocate, one item: the best of the evidence.
Place ==
    /\ stage = "place"
    /\ \E m \in evidence :
        /\ \A n \in evidence \ {m} : Position(kept, m) < Position(kept, n)
        /\ IF Fits(m)
           THEN /\ served' = served \cup
                        {Rendered(m, "evidence", was[m], ~request.degraded)}
                /\ used' = [used EXCEPT ![SectionOf[m]] = @ + Cost[m]]
                /\ UNCHANGED dropped
           ELSE /\ dropped' = dropped \cup
                        {[id |-> m, reason |-> "budget", by |-> NULL]}
                /\ UNCHANGED <<served, used>>
        /\ evidence' = evidence \ {m}
    /\ UNCHANGED <<row, late, stage, request, arrived, was, ranked, pool,
                   kept, verdict, event>>

Delivered(items) == {i.id : i \in {j \in items : j.role # "baseline"}}

\* _log_event: the ranking as it was scored, what was handed out and what was
\* left out.
Event(items) ==
    [ranked |-> First(ranked, 40), dropped |-> dropped,
     returned |-> {i.id : i \in items}]

\* The verdict is revised when nothing of the evidence got in, and only then.
Seal ==
    /\ stage = "place"
    /\ evidence = {}
    /\ verdict' = IF verdict.status # "no_relevant_evidence"
                     /\ Delivered(served) = {}
                  THEN [verdict EXCEPT !.status = "evidence_not_included"]
                  ELSE verdict
    /\ event' = Event(served)
    /\ stage' = "done"
    /\ UNCHANGED <<row, late, request, arrived, was, ranked, pool, kept,
                   evidence, served, used, dropped>>

\* The next request comes later and finds another table.
Answered ==
    /\ stage = "done"
    /\ stage' = "idle"
    /\ request' = NULL /\ verdict' = NULL /\ event' = NULL
    /\ late' = {} /\ served' = {} /\ dropped' = {}
    /\ arrived' = <<>> /\ ranked' = <<>> /\ kept' = <<>>
    /\ pool' = {} /\ evidence' = {}
    /\ was' = [m \in Memory |-> NULL]
    /\ used' = [s \in Section |-> 0]
    /\ row' \in Tables
-----------------------------------------------------------------------------
\* Another transaction commits a new version of a memory while the request
\* runs; its now() may be before or after the request's.
Replace(old, new, now) ==
    /\ stage \notin {"idle", "done"}
    /\ row[old] # NULL /\ row[old].status = "active" /\ row[old].upper = NULL
    /\ row[new] = NULL
    /\ Key[old] = Key[new]
    /\ now > row[old].lower
    /\ row' = [row EXCEPT ![old].status = "superseded", ![old].upper = now,
                          ![new] = [row[old] EXCEPT !.lower = now,
                                                    !.recorded = now]]
    /\ late' = IF now > Present THEN late \cup {Key[old]} ELSE late
    /\ UNCHANGED <<stage, request, arrived, was, ranked, pool, kept, evidence,
                   served, used, dropped, verdict, event>>

Next ==
    \/ \E req \in Request :
            /\ req.tool = "search" => ~req.unverified
            /\ Ask(req)
    \/ Search
    \/ Rank
    \/ Select
    \/ NothingFound
    \/ Gate
    \/ Always
    \/ Place
    \/ Seal
    \/ Answered
    \/ \E old, new \in Memory, now \in {Present, Present + 1} :
            Replace(old, new, now)
-----------------------------------------------------------------------------
(***************************************************************************)
(* Properties.                                                             *)
(***************************************************************************)
PackDone == stage = "done" /\ request.tool = "context"

\* The debugger can explain every candidate: the event has it among what was
\* returned or among what was left out, for a reason that is true of the finished pack.  A
\* near-duplicate names a kept memory that is as similar, the pack keeps no
\* two of those, and what was dropped for space would not fit now either.
DropsAreExplained ==
    PackDone =>
        /\ ToSet(arrived) \subseteq event.returned \cup {d.id : d \in event.dropped}
        /\ \A m, n \in KeptSet : m # n => Alike(m, n) < Duplicate
        /\ \A d \in event.dropped :
            /\ d.reason = "near-duplicate" =>
                    d.by \in KeptSet /\ Alike(d.id, d.by) >= Duplicate
            /\ d.reason = "no evidence" => ~IsEvidence(d.id)
            /\ d.reason = "budget" => ~Fits(d.id) /\ d.id \notin event.returned
        /\ \A i \in served : i.role = "evidence" =>
                used[SectionOf[i.id]] <= Cap[SectionOf[i.id]]

\* The same table ranks the same way however the rows arrive, so a stored
\* retrieval event can be reproduced, unless the cross-encoder is on and there
\* are more candidates than it scores.
RankingIsReproducible ==
    stage \notin {"idle", "search", "rank"} =>
        \/ request.cross /\ Len(arrived) > TopK
        \/ \A order \in SetToSeqs(ToSet(arrived)) :
                ranked = Ranking(order, Seen(request, order))

\* Whoever is handed a row that is no longer current is told so, and nobody
\* is handed an unreviewed one without asking.
IsMarked(item) ==
    /\ item.status \in {"superseded", "archived"} => item.historical
    /\ item.status = "quarantined" => request.unverified /\ item.unverified

\* A pack or a search made with the embedder up marks what is not current.
HistoryIsMarked ==
    request # NULL /\ ~request.degraded => \A item \in served : IsMarked(item)

\* So does a pack made without it.
HistoryIsMarkedAnyhow ==
    request # NULL /\ request.tool = "context" =>
        \A item \in served : IsMarked(item)

\* A project's reviewed constraints and conventions are in every pack, in one
\* version or another, however the ranking went and whoever was replacing them
\* meanwhile, unless a replacement began after the request did or changed what
\* the key is about.
BaselineIsServed ==
    PackDone /\ ~request.historical =>
        \A m \in Memory :
            /\ SectionOf[m] = "constraints"
            /\ row[m] # NULL /\ row[m].status = "active" /\ row[m].tier = 3
            /\ Key[m] \notin late
            /\ \A n \in Memory : Key[n] = Key[m] => SectionOf[n] = "constraints"
            => \E i \in served : Key[i.id] = Key[m]

\* What the answer says the project supports, the pack carries evidence for.
AnswerabilityIsOfThePack ==
    PackDone /\ verdict.status \in {"supported", "partial_support"} =>
        verdict.supported \subseteq
            UNION {EvidenceFor(m) : m \in Delivered(served)}
=============================================================================
