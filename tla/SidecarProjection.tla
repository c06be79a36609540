-------------------------- MODULE SidecarProjection --------------------------
(***************************************************************************)
(* What the evidence pipeline promises of the assertions it projects,      *)
(* whoever runs it and however it fails: the projection changes only when  *)
(* a delivery becomes processed, in that one step, and then by the whole   *)
(* revision the delivery pushes.  Workers, statements, locks, crashes and  *)
(* the queue are GithubEvidence's, which implements this.                  *)
(***************************************************************************)
EXTENDS Naturals, Sequences

CONSTANTS Delivery, Revision, Key, NULL

VARIABLES
    world,      \* the revision each delivery pushes and each revision's files
    processed,  \* deliveries whose outcome is recorded
    state       \* [Key \X Revision -> state of the assertion, or NULL]

projectionVars == <<world, processed, state>>

Id == Key \X Revision

Init ==
    /\ processed = {}
    /\ state = [id \in Id |-> NULL]

\* What the files of a revision say of a key, the last file deciding.
Says(rev, key, what) ==
    LET docs == world.tree[rev]
    IN  \E n \in 1..Len(docs) :
            /\ docs[n].key = key
            /\ docs[n].state = what
            /\ \A m \in n + 1..Len(docs) : docs[m].key # key

Mentions(rev, key) == \E n \in 1..Len(world.tree[rev]) : world.tree[rev][n].key = key

\* An assertion leaves service for good: only its own revision can bring it
\* back.
Retires(id) ==
    \/ state'[id] = state[id]
    \/ state[id] \in {"accepted", "contested"} /\ state'[id] = "superseded"
    \/ state[id] # NULL /\ state'[id] = "retracted"

\* A delivery is processed: its revision is projected whole, and what the
\* other revisions said stays or retires.
Process(d) ==
    /\ d \notin processed
    /\ processed' = processed \cup {d}
    /\ DOMAIN state' = Id
    /\ IF world.sent[d].rev = NULL
       THEN state' = state
       ELSE \A id \in Id :
              IF id[2] = world.sent[d].rev /\ Mentions(id[2], id[1])
              THEN Says(id[2], id[1], state'[id])
              ELSE Retires(id)
    /\ UNCHANGED world

\* The webhook handler calls a delivery failed that has been processed: it may
\* be processed again.
Reopen(d) ==
    /\ d \in processed
    /\ processed' = processed \ {d}
    /\ UNCHANGED <<world, state>>

Next == \E d \in Delivery : Process(d) \/ Reopen(d)

Spec == Init /\ [][Next]_projectionVars
=============================================================================
