----------------------------- MODULE OrgEntities -----------------------------
(***************************************************************************)
(* The promotion of a project's entities to organisation scope, when it is *)
(* enabled: an entity's name is proposed, a reviewer reads the proposals   *)
(* and decides one of them, and an accepted name is an entity that every   *)
(* project of the organisation sees.  Meanwhile memories go on mentioning  *)
(* entities, restricted ones too, and proposals are made again.            *)
(***************************************************************************)
EXTENDS Naturals, FiniteSets

CONSTANTS
    Entity,
    Name,      \* names an entity may be proposed under
    Specific,  \* those of them that screen() refuses
    Reviewer,
    NULL

\* What the constants are; the instances assume it.
OrgAssumption ==
    /\ Specific \subseteq Name
    /\ NULL \notin {"accepted", "rejected"}
    /\ NULL \notin [name : Name, decision : {NULL, "accepted", "rejected"}, clear : BOOLEAN]
    /\ NULL \notin [entity : Entity, name : Name, verdict : {"accepted", "rejected"}]

VARIABLES
    restricted,  \* entities that a memory classified restricted mentions
    proposal,    \* mem.proposed_org_entities: the name and the decision
    shared,      \* entities without a project: their name and their origin
    reviewing    \* the row and the verdict of a review transaction under way

vars == <<restricted, proposal, shared, reviewing>>

Verdict == {"accepted", "rejected"}

TypeOK ==
    /\ restricted \subseteq Entity
    /\ proposal \in [Entity -> {NULL} \cup
            [name : Name, decision : Verdict \cup {NULL}, clear : BOOLEAN]]
    /\ shared \subseteq [name : Name, origin : Entity]
    /\ reviewing \in [Reviewer -> {NULL} \cup
            [entity : Entity, name : Name, verdict : Verdict]]

Init ==
    /\ restricted = {}
    /\ proposal = [e \in Entity |-> NULL]
    /\ shared = {}
    /\ reviewing = [r \in Reviewer |-> NULL]

\* A restricted memory that mentions the entity is written.
MentionRestricted(e) ==
    /\ restricted' = restricted \cup {e}
    /\ UNCHANGED <<proposal, shared, reviewing>>

\* screen and the count of restricted support that sees past row security.
Generalisable(e, name) == name \notin Specific /\ e \notin restricted

\* propose: one row per entity.  Proposing again replaces the name and keeps
\* the decision.  `clear` is history: no restricted memory mentioned the entity.
Propose(e, name) ==
    /\ Generalisable(e, name)
    /\ proposal' = [proposal EXCEPT ![e] =
            [name |-> name, decision |-> IF @ = NULL THEN NULL ELSE @.decision,
             clear |-> e \notin restricted]]
    /\ UNCHANGED <<restricted, shared, reviewing>>

\* review reads the row, and screens the name it read before it accepts ...
ReadProposal(r, e, verdict) ==
    /\ reviewing[r] = NULL
    /\ proposal[e] # NULL
    /\ proposal[e].decision = NULL
    /\ verdict = "accepted" => proposal[e].name \notin Specific
    /\ reviewing' = [reviewing EXCEPT ![r] =
            [entity |-> e, name |-> proposal[e].name, verdict |-> verdict]]
    /\ UNCHANGED <<restricted, proposal, shared>>

\* Mutant of Decide: the decision is recorded by a later transaction.
DecideLater(r) ==
    /\ reviewing[r] # NULL
    /\ shared' = shared \cup {[name |-> reviewing[r].name, origin |-> reviewing[r].entity]}
    /\ reviewing' = [reviewing EXCEPT ![r] = NULL]
    /\ UNCHANGED <<restricted, proposal>>

\* ... and decides by the row's id alone, so the last of two reviewers wins.
\* No two shared rows collide: the unique constraint takes rows without a
\* project for distinct, so every acceptance inserts one.
Decide(r) ==
    /\ reviewing[r] # NULL
    /\ LET read == reviewing[r] IN
        /\ shared' = IF read.verdict = "accepted"
                     THEN shared \cup {[name |-> read.name, origin |-> read.entity]}
                     ELSE shared
        /\ proposal' = [proposal EXCEPT ![read.entity].decision = read.verdict]
    /\ reviewing' = [reviewing EXCEPT ![r] = NULL]
    /\ UNCHANGED restricted

\* The review's transaction fails before it commits.
Fail(r) ==
    /\ reviewing[r] # NULL
    /\ reviewing' = [reviewing EXCEPT ![r] = NULL]
    /\ UNCHANGED <<restricted, proposal, shared>>

Next ==
    \/ \E e \in Entity : MentionRestricted(e) \/ \E name \in Name : Propose(e, name)
    \/ \E r \in Reviewer : Decide(r) \/ Fail(r)
    \/ \E r \in Reviewer, e \in Entity, verdict \in Verdict : ReadProposal(r, e, verdict)

Spec == Init /\ [][Next]_vars
-----------------------------------------------------------------------------
\* Nothing is shared with other projects whose proposal waits for a decision,
\* or whose entity a restricted memory mentioned when it was last proposed, or
\* under a name the screen refuses; and what the row says was accepted is
\* shared, whichever of two reviewers decided last (propose, review).
SharedCrossedReview ==
    /\ \A s \in shared :
        /\ s.name \notin Specific
        /\ proposal[s.origin] # NULL
        /\ proposal[s.origin].decision # NULL
        /\ proposal[s.origin].clear
    /\ \A e \in Entity :
        proposal[e] # NULL /\ proposal[e].decision = "accepted"
        => \E s \in shared : s.origin = e
==============================================================================
