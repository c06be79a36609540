---------------------------- MODULE MemoryTable ----------------------------
(***************************************************************************)
(* The bi-temporal table mem.memories of one project, the constraints the  *)
(* database keeps on it, and what memories.write_memory does to it.        *)
(*                                                                         *)
(* A table is a sequence of rows: the application role has no DELETE, so a *)
(* row is only ever appended or updated, and its position stands for its   *)
(* id and its recorded_at order.  Rows of mem.memory_supersessions are     *)
(* kept in the field "replaces" of the row that is their new_id.           *)
(*                                                                         *)
(* A text is a member of Content and stands for its content_hash.  Digest, *)
(* title, token cost, pins, provenance columns, entity links and vectors   *)
(* are left out: no property here tells two values of them apart.          *)
(***************************************************************************)
EXTENDS Naturals, Sequences

CONSTANTS
    Content,    \* texts a memory can hold
    Injected,   \* the texts in which injection.scan finds a signal
    Key,        \* memory keys a caller can name, file keys included
    Source,     \* values of source_type in use
    NULL        \* SQL NULL: an unbounded range, an absent key or review

ASSUME ContentAssumption == Injected \subseteq Content
ASSUME KeyAssumption == Key \cap (Source \X Content) = {}
ASSUME NullAssumption ==
    /\ NULL \notin Nat
    /\ NULL \notin Key
    /\ NULL \notin Source \X Content
    /\ NULL \notin {"untrusted", "inferred", "observed", "verified",
                    "authoritative"}
-----------------------------------------------------------------------------
(***************************************************************************)
(* Trust.                                                                  *)
(***************************************************************************)
Tier == {"untrusted", "inferred", "observed", "verified", "authoritative"}

\* memories.TIER_BY_SOURCE and assign_tier: the tier a source earns.
TierOf(source) ==
    CASE source \in {"git", "human"}                              -> "authoritative"
      [] source \in {"ci", "deploy", "test"}                      -> "verified"
      [] source \in {"commit", "tool", "capture", "consolidation"} -> "observed"
      [] source \in {"agent", "extraction"}                       -> "inferred"
      [] OTHER                                                    -> "untrusted"

QuarantineTiers == {"inferred", "untrusted"}

\* injection.assess: text with a signal is capped and quarantined unless a
\* human reviewed the source it comes from.
Capped(content, source) ==
    content \in Injected /\ source \notin {"git", "human"}

\* The tier write_memory gives a new row.
BirthTier(content, source) ==
    IF Capped(content, source) THEN "untrusted" ELSE TierOf(source)

Quarantined(content, source) ==
    \/ BirthTier(content, source) \in QuarantineTiers
    \/ Capped(content, source)

-----------------------------------------------------------------------------
(***************************************************************************)
(* Rows.  valid_at is [lower, upper); upper = NULL is an open row.         *)
(***************************************************************************)
Status == {"active", "superseded", "archived", "quarantined"}

RowKey == Key \cup (Source \X Content)

Row == [key      : RowKey,
        content  : Content,
        source   : Source,
        tier     : Tier,
        status   : Status,
        lower    : Nat,
        upper    : Nat \cup {NULL},
        episodic : BOOLEAN,              \* type is one that decays and compacts
        review   : Tier \cup {NULL},     \* metadata.review.from_tier
        replaces : SUBSET Nat]           \* memory_supersessions, by new_id

Open(row) == row.upper = NULL

\* The key of a row written without one is derived from its source and hash.
KeyFor(key, source, content) == IF key = NULL THEN <<source, content>> ELSE key

Overlap(r, s) ==
    /\ Open(r) \/ s.lower < r.upper
    /\ Open(s) \/ r.lower < s.upper

\* Mutant of TemporalUniq: the exclusion constraint covers open rows only.
TemporalUniqOfOpenRows(t) ==
    \A i, j \in 1..Len(t) :
        i # j /\ t[i].key = t[j].key => ~(Open(t[i]) /\ Open(t[j]))

\* CONSTRAINT memories_temporal_uniq.
TemporalUniq(t) ==
    \A i, j \in 1..Len(t) :
        i # j /\ t[i].key = t[j].key => ~Overlap(t[i], t[j])

\* CONSTRAINT quarantine_tier_consistency.
QuarantineTierConsistency(t) ==
    \A i \in 1..Len(t) :
        t[i].status = "quarantined" => t[i].tier \in QuarantineTiers

\* A statement that leaves the table outside its constraints raises, and the
\* transaction it belongs to is rolled back.
Admissible(t) == TemporalUniq(t) /\ QuarantineTierConsistency(t)
-----------------------------------------------------------------------------
(***************************************************************************)
(* write_memory.                                                           *)
(***************************************************************************)
\* Mutant of Holding: the lookup asks for served rows only.
ServedHolding(t, content) ==
    {i \in 1..Len(t) : t[i].content = content /\ t[i].status = "active"}

\* The dedup lookup: by content alone, whatever the key, status or validity.
Holding(t, content) == {i \in 1..Len(t) : t[i].content = content}

\* Mutant of OpenRows: the previous version is looked for by status.
ActiveRows(t, key) ==
    {i \in 1..Len(t) : t[i].key = key /\ t[i].status = "active"}

\* The open rows of a key, of any status.
OpenRows(t, key) == {i \in 1..Len(t) : t[i].key = key /\ Open(t[i])}

\* ORDER BY recorded_at DESC LIMIT 1 over the open rows; empty if there is none.
Prior(t, key) == {i \in OpenRows(t, key) : \A j \in OpenRows(t, key) : j <= i}

\* Mutants of Refound: the lifecycle is honoured for new rows only; the row
\* takes the word the document uses.
RefoundAsIs(t, i, retired) == t

RefoundAsDeclared(t, i, retired) ==
    IF retired /\ t[i].status # "quarantined"
    THEN [t EXCEPT ![i].status = "deprecated"]
    ELSE t

\* What the dedup path does to the row it found: a source that withdraws its
\* document retires it, unless the row is quarantined.  valid_at stays open.
Refound(t, i, retired) ==
    IF retired /\ t[i].status # "quarantined"
    THEN [t EXCEPT ![i].status = "superseded"]
    ELSE t

\* Close the previous version of a key at the instant the new one opens.
ClosePrior(t, key, now) ==
    IF key = NULL THEN t
    ELSE [i \in 1..Len(t) |->
            IF i \in Prior(t, key)
            THEN [t[i] EXCEPT !.upper = now, !.status = "superseded"]
            ELSE t[i]]

NewRow(t, source, content, key, retired, episodic, now) ==
    [key      |-> KeyFor(key, source, content),
     content  |-> content,
     source   |-> source,
     tier     |-> BirthTier(content, source),
     status   |-> IF Quarantined(content, source) THEN "quarantined"
                  ELSE IF retired THEN "superseded" ELSE "active",
     lower    |-> now,
     upper    |-> NULL,
     episodic |-> episodic,
     review   |-> NULL,
     replaces |-> IF key = NULL THEN {} ELSE Prior(t, key)]

\* Same key, new content: close the old version, then insert the new one.
Inserted(t, source, content, key, retired, episodic, now) ==
    Append(ClosePrior(t, key, now),
           NewRow(t, source, content, key, retired, episodic, now))

\* The tables a write may leave behind.  Dedup takes any row with the content:
\* the lookup has LIMIT 1 and no ORDER BY.
Written(t, source, content, key, retired, episodic, now) ==
    IF Holding(t, content) # {}
    THEN {Refound(t, i, retired) : i \in Holding(t, content)}
    ELSE {Inserted(t, source, content, key, retired, episodic, now)}
=============================================================================
