----------------------------- MODULE Extraction ------------------------------
(***************************************************************************)
(* What machines write into one project's memory and what stops them:      *)
(* deterministic captures, the extractor that reads session transcripts    *)
(* with a language model, the inbox a curator empties, its daily samples   *)
(* and the switch that keeps the extractor off a queue nobody reads.       *)
(*                                                                         *)
(* A text stands for a candidate memory.  The transcript decides which     *)
(* candidates the model's evidence grounds; the model answers with any     *)
(* sequence of them.                                                       *)
(***************************************************************************)
EXTENDS Integers, Sequences, FiniteSets, SequencesExt, FiniteSetsExt

CONSTANTS
    Text,
    WellFormed,    \* texts parse() keeps: of an allowed type, with title and content
    Grounded,      \* texts whose evidence is in the transcript
    Flagged,       \* texts that carry an injection signal
    MaxCandidates, \* settings().llm_max_candidates
    DisableDepth, SustainedDays,
    MaxDay,        \* bound: days
    MaxReviews,    \* bound: decisions of the curator
    NULL

\* What the constants are; the instances assume it.
ExtractionAssumption ==
    /\ WellFormed \subseteq Text /\ Grounded \subseteq Text /\ Flagged \subseteq Text
    /\ {MaxCandidates, DisableDepth, SustainedDays, MaxDay} \subseteq Nat \ {0}
    /\ MaxReviews \in Nat
    /\ IsFiniteSet(Text)
    /\ NULL \notin [by : {"capture", "extractor"}, on : 1..MaxDay, reviewed : BOOLEAN,
                   status : {"quarantined", "active", "archived"}]
    /\ NULL \notin [depth : Nat, count : [promoted : Nat, rejected : Nat, extracted : Nat]]

VARIABLES
    day,       \* current_date
    row,       \* the memory with each text: who wrote it first and its status
    decided,   \* decisions of each day in the audit log
    sample,    \* mem.curation_metrics, by day
    session,   \* the day an extraction that waits for the model began, or 0
    low,       \* history: days on which the inbox was below the threshold
    lastDepth  \* history: the depth last sampled

vars == <<day, row, decided, sample, session, low, lastDepth>>

Count == [promoted : Nat, rejected : Nat, extracted : Nat]

TypeOK ==
    /\ day \in 1..MaxDay
    /\ row \in [Text -> {NULL} \cup
            [by : {"capture", "extractor"}, on : 1..MaxDay, reviewed : BOOLEAN,
             status : {"quarantined", "active", "archived"}]]
    /\ decided \in [1..MaxDay -> [promoted : Nat, rejected : Nat]]
    /\ \A d \in 1..MaxDay : sample[d] # NULL =>
        sample[d].depth \in Nat /\ sample[d].count \in Count
    /\ session \in 0..MaxDay
    /\ low \subseteq 1..MaxDay
    /\ lastDepth \in Nat

Inbox(rows) == {t \in Text : rows[t] # NULL /\ rows[t].status = "quarantined"}
Below(rows) == Cardinality(Inbox(rows)) < DisableDepth
Extracted(d) == {t \in Text : row[t] # NULL /\ row[t].by = "extractor" /\ row[t].on = d}

Init ==
    /\ day = 1
    /\ row = [t \in Text |-> NULL]
    /\ decided = [d \in 1..MaxDay |-> [promoted |-> 0, rejected |-> 0]]
    /\ sample = [d \in 1..MaxDay |-> NULL]
    /\ session = 0
    /\ low = {1}
    /\ lastDepth = 0

\* History: the inbox as each action leaves it.
Watch(rows, on) == low' = low \cup (IF Below(rows) THEN {on} ELSE {})
-----------------------------------------------------------------------------
(***************************************************************************)
(* write_memory: a text that is stored is not stored again, whoever comes. *)
(***************************************************************************)
\* A capture is served, unless it carries an injection signal (capture.py:
\* ci, commit and tool are all above the quarantine's tiers).
Captured == [t \in Text |-> IF t \in Flagged THEN "quarantined" ELSE "active"]

\* recorded_at is the start of the writer's transaction.
Stored(texts, by, on, status) ==
    [t \in Text |->
        IF t \in texts /\ row[t] = NULL
        THEN [by |-> by, on |-> on, reviewed |-> FALSE, status |-> status[t]]
        ELSE row[t]]

Capture(t) ==
    /\ row' = Stored({t}, "capture", day, Captured)
    /\ row' # row
    /\ Watch(row', day)
    /\ UNCHANGED <<day, decided, sample, session, lastDepth>>
-----------------------------------------------------------------------------
(***************************************************************************)
(* The kill switch: curation.snapshot and extraction_allowed.              *)
(***************************************************************************)
Window == {d \in 1..MaxDay : d > day - SustainedDays /\ d <= day}
Sampled == {d \in Window : sample[d] # NULL}

\* Mutant of Allowed: any sample of the window at the threshold is enough.
AllowedUnlessFull == \A d \in Sampled : sample[d].depth < DisableDepth

\* Off only when every day of the window has a sample and none is below.
Allowed ==
    \/ Cardinality(Sampled) < SustainedDays
    \/ \E d \in Sampled : sample[d].depth < DisableDepth

Today ==
    [depth |-> Cardinality(Inbox(row)),
     count |-> [promoted |-> decided[day].promoted,
                rejected |-> decided[day].rejected,
                extracted |-> Cardinality(Extracted(day))]]

\* Mutant of Snapshot: today's row adds up what every pass has counted.
SnapshotAdding ==
    /\ sample' = [sample EXCEPT ![day] =
        IF @ = NULL THEN Today
        ELSE [depth |-> Today.depth,
              count |-> [f \in DOMAIN @.count |-> @.count[f] + Today.count[f]]]]
    /\ lastDepth' = Today.depth
    /\ UNCHANGED <<day, row, decided, session, low>>

\* The scheduler's upsert: one row per day, its last sample.
Snapshot ==
    /\ sample' = [sample EXCEPT ![day] = Today]
    /\ lastDepth' = Today.depth
    /\ UNCHANGED <<day, row, decided, session, low>>
-----------------------------------------------------------------------------
(***************************************************************************)
(* extract.propose.                                                        *)
(***************************************************************************)
\* The switch is consulted before the model is called; the transaction then
\* waits for the answer.
Consult ==
    /\ session = 0
    /\ Allowed
    /\ session' = day
    /\ UNCHANGED <<day, row, decided, sample, low, lastDepth>>

\* parse: the first well-formed candidates, up to the cap; _grounded comes after.
Parsed(answer) ==
    LET kept == SelectSeq(answer, LAMBDA t : t \in WellFormed)
    IN  {kept[i] : i \in 1..Min({Len(kept), MaxCandidates})}

\* source_type 'agent' is tier `inferred`, which is always quarantined.
Quarantined == [t \in Text |-> "quarantined"]

\* Mutant of Answer: the candidates are written with the session's source.
AnswerTrusted(answer) ==
    /\ session # 0
    /\ session' = 0
    /\ row' = Stored(Parsed(answer) \cap Grounded, "extractor", session, Captured)
    /\ Watch(row', day)
    /\ UNCHANGED <<day, decided, sample, lastDepth>>

Answer(answer) ==
    /\ session # 0
    /\ session' = 0
    /\ row' = Stored(Parsed(answer) \cap Grounded, "extractor", session, Quarantined)
    /\ Watch(row', day)
    /\ UNCHANGED <<day, decided, sample, lastDepth>>

\* ExtractionUnavailable: the model did not answer.
Unavailable ==
    /\ session # 0
    /\ session' = 0
    /\ UNCHANGED <<day, row, decided, sample, low, lastDepth>>
-----------------------------------------------------------------------------
(***************************************************************************)
(* The curator, and time.                                                  *)
(***************************************************************************)
Decisions == FoldSet(LAMBDA d, n : n + decided[d].promoted + decided[d].rejected, 0, 1..MaxDay)

\* inbox.promote and inbox.reject, with their audit rows.
Review(t, status) ==
    /\ Decisions < MaxReviews
    /\ t \in Inbox(row)
    /\ row' = [row EXCEPT ![t].status = status, ![t].reviewed = TRUE]
    /\ decided' = IF status = "active" THEN [decided EXCEPT ![day].promoted = @ + 1]
                  ELSE [decided EXCEPT ![day].rejected = @ + 1]
    /\ Watch(row', day)
    /\ UNCHANGED <<day, sample, session, lastDepth>>

\* inbox.unreview: the row waits again; the audit log keeps the decision.
Unreview(t) ==
    /\ row[t] # NULL /\ row[t].reviewed
    /\ row' = [row EXCEPT ![t].status = "quarantined", ![t].reviewed = FALSE]
    /\ Watch(row', day)
    /\ UNCHANGED <<day, decided, sample, session, lastDepth>>

NextDay ==
    /\ day < MaxDay
    /\ day' = day + 1
    /\ Watch(row, day')
    /\ UNCHANGED <<row, decided, sample, session, lastDepth>>

Answers == UNION {[1..n -> Text] : n \in 0..(MaxCandidates + 1)}

Next ==
    \/ Snapshot \/ Consult \/ Unavailable \/ NextDay
    \/ \E answer \in Answers : Answer(answer)
    \/ \E t \in Text :
        \/ Capture(t)
        \/ Unreview(t)
        \/ \E status \in {"active", "archived"} : Review(t, status)

Spec == Init /\ [][Next]_vars
-----------------------------------------------------------------------------
(***************************************************************************)
(* Properties.                                                             *)
(***************************************************************************)
\* Extraction stops when the inbox has stood at the threshold for the whole
\* window and every day was sampled, and goes on as soon as a sample is below
\* it, however samples, reviews and midnights interleave (extraction_allowed).
SwitchFollowsTheQueue ==
    /\ Cardinality(Window) = SustainedDays /\ Window \cap low = {} /\ Sampled = Window
       => ~Allowed
    /\ lastDepth < DisableDepth /\ sample[day] # NULL => Allowed

\* A machine's candidate is served only after a person promoted it, also when
\* it repeats what a capture wrote or comes back after an undo (propose).
MachineWritingIsReviewed ==
    \A t \in Text :
        row[t] # NULL /\ row[t].status = "active" =>
            row[t].reviewed \/ (row[t].by = "capture" /\ t \notin Flagged)

\* The acceptance rate sums the days' samples.  It counts no decision and no
\* candidate twice, however often a day is sampled and on whichever day a long
\* extraction ends: a day's sample has no more than the audit log and the table
\* hold for that day alone (snapshot, acceptance_rate).
DecisionsCountedOnce ==
    \A d \in 1..MaxDay :
        sample[d] # NULL =>
            /\ sample[d].count.promoted <= decided[d].promoted
            /\ sample[d].count.rejected <= decided[d].rejected
            /\ sample[d].count.extracted <= Cardinality(Extracted(d))
=============================================================================
