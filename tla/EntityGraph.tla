----------------------------- MODULE EntityGraph -----------------------------
(***************************************************************************)
(* The knowledge graph of one project: entities and mentions, edges and    *)
(* their proposals, and disagreements between memories.  Every write of a  *)
(* memory feeds it, reviewers decide what it asks, and each process        *)
(* matches entities with a vocabulary of its own that it read once.        *)
(*                                                                         *)
(* A text stands for the terms and relations the extractor would find in   *)
(* it: which regular expression found them is left out.  A glossary term   *)
(* is not also a dictionary term, and an entity is its canonical name.     *)
(***************************************************************************)
EXTENDS Naturals, Sequences, FiniteSets, Functions

CONSTANTS
    Process,     \* API replicas, the worker, the scheduler
    Memory,
    Reviewer,
    Dictionary,  \* names entities.DICTIONARY holds
    Glossary,    \* names the project's glossary may define
    Subjects,    \* the terms of each memory's text, heaviest first
    Infers,      \* the pairs its prose relates
    Declares,    \* the targets its frontmatter relates it to
    Trusted,     \* memories whose source is one of EDGE_SOURCES
    Supersedes,  \* the pairs of which the first says it supersedes the second
    Labels,      \* the kinds under which two texts may be found to disagree
    MaxAborts,   \* bound: transactions that are rolled back
    NULL

Term == Dictionary \cup Glossary
Pair == {e \in Term \X Term : e[1] # e[2]}
Kind == Labels \cup {"dangling-supersession"}

\* What the constants are; the instances assume it.
GraphAssumption ==
    /\ Dictionary \cap Glossary = {}
    /\ Subjects \in [Memory -> Seq(Term)]
    /\ Infers \in [Memory -> SUBSET (Dictionary \X Dictionary)]
    /\ Declares \in [Memory -> SUBSET Term]
    /\ \A m \in Memory : \A e \in Infers[m] :
        e[1] # e[2] /\ {e[1], e[2]} \subseteq Range(Subjects[m])
    /\ Trusted \subseteq Memory
    /\ Supersedes \subseteq {d \in Memory \X Memory : d[1] # d[2]}
    /\ MaxAborts \in Nat
    /\ IsFiniteSet(Memory)
    /\ NULL \notin Pair \cup {"source", "review", "pending", "accepted", "rejected",
                             "quarantined", "active", "archived", "open", "resolved"}

VARIABLES
    authored,   \* entities with attributes.source = 'glossary'
    observed,   \* the other entities
    mention,    \* mem.entity_mentions
    edge,       \* mem.relationships: what put each edge there
    proposal,   \* mem.proposed_relationships: the decision on each pair
    status,     \* of each memory; archived ones have closed their validity
    conflict,   \* mem.conflicts: the resolution of each (memory, memory, kind)
    cache,      \* _AUTHORED of each process
    reviewing,  \* what each reviewer's transaction has read
    aborts

vars == <<authored, observed, mention, edge, proposal, status, conflict,
          cache, reviewing, aborts>>

graph == <<authored, observed, mention, edge, proposal>>

Held == {m \in Memory : status[m] # NULL}
Open == {m \in Memory : status[m] \in {"quarantined", "active"}}
Active == {m \in Memory : status[m] = "active"}

TypeOK ==
    /\ authored \subseteq Glossary
    /\ observed \subseteq Term
    /\ mention \subseteq Memory \X Term
    /\ edge \in [Pair -> {NULL, "source", "review"}]
    /\ proposal \in [Pair -> {NULL, "pending", "accepted", "rejected"}]
    /\ status \in [Memory -> {NULL, "quarantined", "active", "archived"}]
    /\ conflict \in [Memory \X Memory \X Kind -> {NULL, "open", "resolved"}]
    /\ cache \in [Process -> {NULL} \cup SUBSET Glossary]
    /\ reviewing \in [Reviewer -> {NULL} \cup Pair]
    /\ aborts \in 0..MaxAborts

Init ==
    /\ authored = {} /\ observed = {} /\ mention = {}
    /\ edge = [e \in Pair |-> NULL]
    /\ proposal = [e \in Pair |-> NULL]
    /\ status = [m \in Memory |-> NULL]
    /\ conflict = [c \in Memory \X Memory \X Kind |-> NULL]
    /\ cache = [p \in Process |-> NULL]
    /\ reviewing = [r \in Reviewer |-> NULL]
    /\ aborts = 0
-----------------------------------------------------------------------------
(***************************************************************************)
(* Linking a memory: entities.extract, link_memory, link_relations.        *)
(***************************************************************************)
Entities == authored \cup observed

\* extract: the text's terms that the vocabulary in use matches.
Found(m, words) == Range(Subjects[m]) \cap (Dictionary \cup words)

\* The most weighted of them, which come first in Subjects, if there is one.
Heaviest(m, found) ==
    {Subjects[m][i] : i \in {i \in DOMAIN Subjects[m] :
        Subjects[m][i] \in found /\ \A j \in 1..(i - 1) : Subjects[m][j] \notin found}}

\* The relations of a memory: the prose's, and the declared ones with the
\* heaviest term found as their subject.
Relations(m, found, declares) ==
    Infers[m] \cup {e \in Heaviest(m, found) \X declares : e[1] # e[2]}

\* load_authored without refresh: what the process has, else what is stored.
Loaded(p) == IF cache[p] = NULL THEN authored ELSE cache[p]

\* Mutant of Asked: a pair that is proposed again is pending again.
AskedAfresh(pairs) ==
    [e \in Pair |-> IF e \in pairs THEN "pending" ELSE proposal[e]]

\* ON CONFLICT DO NOTHING against the pair's open validity: what was decided
\* about it stays.
Asked(pairs) ==
    [e \in Pair |-> IF e \in pairs /\ proposal[e] = NULL THEN "pending" ELSE proposal[e]]

Asserted(pairs) ==
    [e \in Pair |-> IF e \in pairs /\ edge[e] = NULL THEN "source" ELSE edge[e]]

\* Mutant of Related: any memory's relations become edges.
RelatedAnyhow(m, pairs) == edge' = Asserted(pairs) /\ UNCHANGED proposal

\* Edges for a trusted source, proposals for any other.
Related(m, pairs) ==
    \/ m \in Trusted /\ edge' = Asserted(pairs) /\ UNCHANGED proposal
    \/ m \notin Trusted /\ proposal' = Asked(pairs) /\ UNCHANGED edge

\* Pairs both of whose ends are entities by now.
Resolved(pairs, known) == {e \in pairs \cap Pair : {e[1], e[2]} \subseteq known}

Link(m, words, declares) ==
    LET names == Found(m, words)
    IN  /\ observed' = observed \cup (names \ authored)
        /\ mention' = mention \cup ({m} \X names)
        /\ Related(m, Resolved(Relations(m, names, declares), Entities \cup names))

\* An exception of the linker that is not the database's: the memory is kept,
\* with its mentions or without.
LinkPartly(m, words) ==
    \/ UNCHANGED <<observed, mention, edge, proposal>>
    \/ LET names == Found(m, words) IN
        /\ observed' = observed \cup (names \ authored)
        /\ mention' = mention \cup ({m} \X names)
        /\ UNCHANGED <<edge, proposal>>

\* The create path of memories.write_memory, from the vocabulary on.
WriteMemory(p, m) ==
    /\ status[m] = NULL
    /\ status' = [status EXCEPT ![m] = IF m \in Trusted THEN "active" ELSE "quarantined"]
    /\ cache' = [cache EXCEPT ![p] = Loaded(p)]
    /\ Link(m, Loaded(p), Declares[m]) \/ LinkPartly(m, Loaded(p))
    /\ UNCHANGED <<authored, conflict, reviewing, aborts>>

\* An error of the database while linking: the handler goes on, but the
\* transaction does not, and the memory is lost with its links.
WriteLost(p, m) ==
    /\ status[m] = NULL
    /\ aborts < MaxAborts
    /\ aborts' = aborts + 1
    /\ cache' = [cache EXCEPT ![p] = Loaded(p)]
    /\ UNCHANGED <<graph, status, conflict, reviewing>>

\* upsert_glossary_entities within an ingest pass.  The matcher is refreshed
\* inside the transaction, so it keeps the terms of a pass that is rolled back.
IngestGlossary(p, terms) ==
    /\ cache' = [cache EXCEPT ![p] = authored \cup terms]
    /\ \/ /\ authored' = authored \cup terms
          /\ observed' = observed \ terms
          /\ UNCHANGED aborts
       \/ /\ aborts < MaxAborts
          /\ aborts' = aborts + 1
          /\ UNCHANGED <<authored, observed>>
    /\ UNCHANGED <<mention, edge, proposal, status, conflict, reviewing>>

\* backfill: memories without mentions are linked, then the relations of all,
\* from their text alone, here one memory at a time.
Backfill(p, m) ==
    /\ m \in Open
    /\ LET words == IF cache[p] = NULL THEN {} ELSE cache[p]
           names == IF \E t \in Term : <<m, t>> \in mention THEN {}
                    ELSE Found(m, words)
       IN  /\ observed' = observed \cup (names \ authored)
           /\ mention' = mention \cup ({m} \X names)
           /\ Related(m, Resolved(Infers[m], Entities \cup names))
    /\ UNCHANGED <<authored, status, conflict, cache, reviewing, aborts>>

\* A process starts with an empty cache.
Restart(p) ==
    /\ cache[p] # NULL
    /\ cache' = [cache EXCEPT ![p] = NULL]
    /\ UNCHANGED <<graph, status, conflict, reviewing, aborts>>
-----------------------------------------------------------------------------
(***************************************************************************)
(* The review of edges and of memories: inbox.                             *)
(***************************************************************************)
\* accept_edge reads the pending proposal ...
AcceptRead(r, e) ==
    /\ reviewing[r] = NULL
    /\ proposal[e] = "pending"
    /\ reviewing' = [reviewing EXCEPT ![r] = e]
    /\ UNCHANGED <<graph, status, conflict, cache, aborts>>

\* ... and inserts the edge and records the decision without asking again.
AcceptCommit(r) ==
    /\ reviewing[r] # NULL
    /\ LET e == reviewing[r] IN
        /\ edge' = [edge EXCEPT ![e] = IF @ = NULL THEN "review" ELSE @]
        /\ proposal' = [proposal EXCEPT ![e] = "accepted"]
    /\ reviewing' = [reviewing EXCEPT ![r] = NULL]
    /\ UNCHANGED <<authored, observed, mention, status, conflict, cache, aborts>>

\* reject_edge: one guarded update.
RejectEdge(e) ==
    /\ proposal[e] = "pending"
    /\ proposal' = [proposal EXCEPT ![e] = "rejected"]
    /\ UNCHANGED <<authored, observed, mention, edge, status, conflict,
                   cache, reviewing, aborts>>

\* What inbox.promote, reject and unreview and the console do to a memory.
Move(m, to) ==
    /\ <<status[m], to>> \in
        {<<"quarantined", "active">>, <<"quarantined", "archived">>, <<"active", "archived">>,
         <<"active", "quarantined">>, <<"archived", "quarantined">>}
    /\ status' = [status EXCEPT ![m] = to]
    /\ UNCHANGED <<graph, conflict, cache, reviewing, aborts>>
-----------------------------------------------------------------------------
(***************************************************************************)
(* Disagreements: conflicts.detect, inbox.resolve_conflict.                *)
(***************************************************************************)
Mentioned(m) == {t \in Term : <<m, t>> \in mention}

\* Mutant of Ordered: the pair is stored in the order it was found in.
OrderedAsFound(a, b, rank) == <<a, b>>

\* sorted((a, b)): by identifier.
Ordered(a, b, rank) == IF rank[a] < rank[b] THEN <<a, b>> ELSE <<b, a>>

\* The identifiers' order.
Rank == CHOOSE rank \in [Memory -> 1..Cardinality(Memory)] : IsInjective(rank)

Disagree(a, b, kind) ==
    IF kind = "dangling-supersession" THEN <<a, b>> \in Supersedes
    ELSE Mentioned(a) \cap Mentioned(b) # {}

\* One finding of a pass over the served memories.  Recorded unless the pair
\* has a row of that kind, resolved or not.
Detect(a, b, kind) ==
    /\ a # b /\ {a, b} \subseteq Active
    /\ Disagree(a, b, kind)
    /\ LET pair == Ordered(a, b, Rank)
           row == <<pair[1], pair[2], kind>>
       IN  /\ conflict[row] = NULL
           /\ conflict' = [conflict EXCEPT ![row] = "open"]
    /\ UNCHANGED <<graph, status, cache, reviewing, aborts>>

ResolveConflict(c) ==
    /\ conflict[c] = "open"
    /\ conflict' = [conflict EXCEPT ![c] = "resolved"]
    /\ UNCHANGED <<graph, status, cache, reviewing, aborts>>

\* conflicts.unresolved: what a context pack shows as contested.
Contested ==
    {c \in DOMAIN conflict : conflict[c] = "open" /\ {c[1], c[2]} \subseteq Active}

\* A reviewer's transaction is rolled back.
ReviewAbort(r) ==
    /\ reviewing[r] # NULL
    /\ aborts < MaxAborts
    /\ aborts' = aborts + 1
    /\ reviewing' = [reviewing EXCEPT ![r] = NULL]
    /\ UNCHANGED <<graph, status, conflict, cache>>
-----------------------------------------------------------------------------
Next ==
    \/ \E p \in Process, m \in Memory :
        \/ WriteMemory(p, m)
        \/ WriteLost(p, m)
        \/ Backfill(p, m)
    \/ \E p \in Process : Restart(p) \/ \E terms \in SUBSET Glossary : IngestGlossary(p, terms)
    \/ \E e \in Pair : RejectEdge(e) \/ \E r \in Reviewer : AcceptRead(r, e)
    \/ \E r \in Reviewer : AcceptCommit(r) \/ ReviewAbort(r)
    \/ \E m \in Memory, to \in {"active", "quarantined", "archived"} : Move(m, to)
    \/ \E a, b \in Memory, kind \in Kind : Detect(a, b, kind)
    \/ \E c \in DOMAIN conflict : ResolveConflict(c)

Spec == Init /\ [][Next]_vars
-----------------------------------------------------------------------------
(***************************************************************************)
(* Properties.                                                             *)
(***************************************************************************)
\* An edge is in the graph because a trusted memory states it or because a
\* reviewer accepted its proposal, and what a reviewer accepted is in the graph;
\* whatever reviews, re-extraction and backfill race, no machine's guess is an
\* edge on its own (link_relations, accept_edge).
EdgesAreEarned ==
    \A e \in Pair :
        /\ edge[e] = "review" => proposal[e] = "accepted"
        /\ proposal[e] = "accepted" => edge[e] # NULL
        /\ edge[e] = "source" =>
            \E m \in Trusted \cap Held : e \in Infers[m] \/ e[2] \in Declares[m]

\* What a reviewer has decided is not put to a reviewer again, whatever is
\* extracted, backfilled or detected later (link_relations, detect).
DecisionsStand ==
    [][/\ \A e \in Pair : proposal[e] \in {"accepted", "rejected"}
                          => proposal'[e] \in {"accepted", "rejected"}
       /\ \A c \in DOMAIN conflict : conflict[c] = "resolved" => conflict'[c] = "resolved"]_vars

\* Two memories are asked about once per kind, in whichever order two passes
\* meet them, also when a reviewer has settled the question.
OneQuestionPerDisagreement ==
    \A a, b \in Memory, kind \in Kind :
        conflict[<<a, b, kind>>] # NULL => conflict[<<b, a, kind>>] = NULL \/ a = b

\* "Authored glossary terms must be matchable on every write, not only after
\* a restart": a memory written after the term was ingested mentions it.
AuthoredIsMatched ==
    [][\A p \in Process, m \in Memory :
        WriteMemory(p, m) /\ mention' # mention
        => \A t \in authored \cap Range(Subjects[m]) : <<m, t>> \in mention']_vars
=============================================================================
