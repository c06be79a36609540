---------------------------- MODULE Distillation ----------------------------
(***************************************************************************)
(* Procedure distillation: when one sequence of actions has succeeded      *)
(* often enough, a document is proposed as a branch of the project's       *)
(* repository, never as a memory.  The pass is a step of the maintenance   *)
(* sweep: its audit row commits or rolls back with the sweep, while what   *)
(* git has done by then stays.  The scheduler and POST /v1/maintenance may *)
(* run it side by side.                                                    *)
(*                                                                         *)
(* An action is a model value: normalise_action maps the commands of       *)
(* repeated runs to one value.  Left out: the wording of the document, the *)
(* batch limit (2000 rows), the patch files, successes that leave service  *)
(* and the removal of the temporary clone.                                 *)
(***************************************************************************)
EXTENDS Naturals, Sequences, FiniteSets

CONSTANTS
    Action,       \* normalised commands
    Session,      \* values of metadata.session_id
    Sweeper,      \* processes that may run the pass
    Minimum,      \* distillation_min_episodes
    MaxCaptures,  \* bound: captured successes
    MaxRuns,      \* bound: passes
    NULL

DistillationAssumption ==
    /\ Minimum \in Nat \ {0}
    /\ {MaxCaptures, MaxRuns} \subseteq Nat
    /\ NULL \notin Session \cup Sweeper

VARIABLES
    captures,  \* successes in the order of recorded_at
    pass,      \* the pass each sweeper is in, or NULL
    runs,      \* number of passes begun
    audit,     \* committed passes: what each says it has proposed
    attempts,  \* calls of open_pull_request, as made
    checkout   \* branches of the operator's checkout besides its own

distillVars == <<captures, pass, runs, audit, attempts, checkout>>

Capture == [action : Action, session : Session \cup {NULL}]

Run == 1..MaxRuns

Branch == Action \X Run

Procedure == UNION {[1..n -> Action] : n \in 1..MaxCaptures}

Group == [sequence : Procedure, from : SUBSET (1..MaxCaptures)]

TypeOK ==
    /\ captures \in Seq(Capture)
    /\ Len(captures) <= MaxCaptures
    /\ runs \in 0..MaxRuns
    /\ \A s \in Sweeper :
        pass[s] # NULL =>
            /\ pass[s].run \in Run
            /\ pass[s].beside \subseteq Run
            /\ pass[s].left \subseteq Group
            /\ pass[s].proposed \subseteq Procedure
    /\ \A r \in DOMAIN audit : r \in Run /\ audit[r] \subseteq Procedure
    /\ attempts \subseteq [sequence : Procedure, from : SUBSET (1..MaxCaptures),
                           run : Run, beside : SUBSET Run]
    /\ checkout \subseteq Branch

Init ==
    /\ captures = <<>>
    /\ pass = [s \in Sweeper |-> NULL]
    /\ runs = 0
    /\ audit = <<>>
    /\ attempts = {}
    /\ checkout = {}
-----------------------------------------------------------------------------
(***************************************************************************)
(* Evidence.                                                               *)
(***************************************************************************)
\* capture_tool_result and capture_ci_run store a success.
CaptureSuccess(action, session) ==
    /\ Len(captures) < MaxCaptures
    /\ captures' = Append(captures, [action |-> action, session |-> session])
    /\ UNCHANGED <<pass, runs, audit, attempts, checkout>>

Of(session) == {i \in DOMAIN captures : captures[i].session = session}

\* The n-th success of a session.
Nth(session, n) ==
    CHOOSE i \in Of(session) : Cardinality({j \in Of(session) : j <= i}) = n

\* What was done in a session, in order.
SequenceOf(session) ==
    [n \in 1..Cardinality(Of(session)) |-> captures[Nth(session, n)].action]

First(members) == CHOOSE i \in members : \A j \in members : i <= j

\* Mutant of Evidence: every episode of a session counts.
EvidencePerEpisode(sequence) ==
    UNION {Of(s) : s \in {s \in Session : Of(s) # {} /\ SequenceOf(s) = sequence}}
    \cup {i \in Of(NULL) : sequence = <<captures[i].action>>}

\* group_episodes: one member per session that performed the sequence and, for
\* a sequence of one action, one per success without a session.
Evidence(sequence) ==
    {First(Of(s)) : s \in {s \in Session : Of(s) # {} /\ SequenceOf(s) = sequence}}
    \cup {i \in Of(NULL) : sequence = <<captures[i].action>>}

Performed ==
    {SequenceOf(s) : s \in {s \in Session : Of(s) # {}}}
    \cup {<<captures[i].action>> : i \in Of(NULL)}
-----------------------------------------------------------------------------
(***************************************************************************)
(* The pass.                                                               *)
(***************************************************************************)
\* The sequences that committed passes say they have proposed.
Proposed == UNION {audit[r] : r \in DOMAIN audit}

\* distill up to the loop: successes, groups and what was proposed before.
Begin(s) ==
    /\ pass[s] = NULL
    /\ runs < MaxRuns
    /\ runs' = runs + 1
    /\ pass' = [pass EXCEPT ![s] =
                    [run      |-> runs + 1,
                     beside   |-> {pass[o].run : o \in {o \in Sweeper : pass[o] # NULL}},
                     left     |-> {[sequence |-> q, from |-> Evidence(q)] :
                                        q \in {q \in Performed \ Proposed :
                                            Cardinality(Evidence(q)) >= Minimum}},
                     proposed |-> {}]]
    /\ UNCHANGED <<captures, audit, attempts, checkout>>

\* The file, and so the branch and the patch, is named after the first step.
BranchOf(sequence, run) == <<Head(sequence), run>>

\* open_pull_request clones the checkout and commits on a branch of the clone;
\* then it pushes to "origin", which in a clone is the
\* repository it was cloned from.  A branch of that name refuses the push.
Pushed(branch) == {checkout, checkout \cup {branch}}

\* The outcome is recorded whatever it is.
Recorded(s, group) ==
    pass' = [pass EXCEPT ![s].left = @ \ {group},
                         ![s].proposed = @ \cup {group.sequence}]

Attempted(s, group) ==
    attempts' = attempts \cup {[sequence |-> group.sequence, from |-> group.from,
                                run |-> pass[s].run, beside |-> pass[s].beside]}

\* Groups with most evidence first.
Foremost(s) ==
    {g \in pass[s].left :
        \A o \in pass[s].left : Cardinality(o.from) <= Cardinality(g.from)}

Propose(s) ==
    /\ pass[s] # NULL
    /\ \E g \in Foremost(s) :
        LET branch == BranchOf(g.sequence, pass[s].run)
        IN  /\ Recorded(s, g)
            /\ Attempted(s, g)
            /\ checkout' \in Pushed(branch)
    /\ UNCHANGED <<captures, runs, audit>>

\* The clone, the branch or the commit fails.
ProposeFails(s) ==
    /\ pass[s] # NULL
    /\ \E g \in Foremost(s) : Recorded(s, g) /\ Attempted(s, g)
    /\ UNCHANGED <<captures, runs, audit, checkout>>

Commit(s) ==
    /\ pass[s] # NULL
    /\ pass[s].left = {}
    /\ audit' = [r \in DOMAIN audit \cup {pass[s].run} |->
                    IF r = pass[s].run THEN pass[s].proposed ELSE audit[r]]
    /\ pass' = [pass EXCEPT ![s] = NULL]
    /\ UNCHANGED <<captures, runs, attempts, checkout>>

\* The sweep is rolled back, or its process dies.
Abort(s) ==
    /\ pass[s] # NULL
    /\ pass' = [pass EXCEPT ![s] = NULL]
    /\ UNCHANGED <<captures, runs, audit, attempts, checkout>>

Next ==
    \/ \E a \in Action, x \in Session \cup {NULL} : CaptureSuccess(a, x)
    \/ \E s \in Sweeper :
        \/ Begin(s)
        \/ Propose(s)
        \/ ProposeFails(s)
        \/ Commit(s)
        \/ Abort(s)

Spec == Init /\ [][Next]_distillVars
-----------------------------------------------------------------------------
(***************************************************************************)
(* Properties.                                                             *)
(***************************************************************************)
\* The independent run a success is evidence of.
Witness(i) == <<captures[i].session, IF captures[i].session = NULL THEN i ELSE 0>>

\* "Four tool calls in one session is one piece of evidence that the sequence
\* works, not four" (group_episodes): behind every proposal stand Minimum
\* different sessions or successes outside any session.
ProposalsAreEarned ==
    \A p \in attempts : Cardinality({Witness(i) : i \in p.from}) >= Minimum

\* A sequence is not proposed again by a pass that began after one that
\* proposed it had committed, whether or not that proposal went through: a
\* nightly pass does not open the same pull request every night.
ProposedOnce ==
    \A p, q \in attempts :
        /\ p.sequence = q.sequence
        /\ p.run < q.run
        /\ p.run \in DOMAIN audit
        => p.run \in q.beside

\* Both: a person is asked about a sequence for a reason, and once.
ProposalsAreEarnedOnce == ProposalsAreEarned /\ ProposedOnce

\* The checkout an operator works in gains no branch; the code does not keep
\* it, since the push of the clone goes where the clone came from.
CheckoutGainsNoBranch == checkout = {}
=============================================================================
