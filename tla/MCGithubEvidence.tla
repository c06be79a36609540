-------------------------- MODULE MCGithubEvidence --------------------------
(***************************************************************************)
(* Small instances of GithubEvidence: two assertion files, two ids, two    *)
(* deliveries, two revisions, one or two workers.                          *)
(***************************************************************************)
EXTENDS GithubEvidence, TLC

CONSTANTS d1, d2, r1, r2, p1, p2, k1, k2, w1, w2

doc(path, key, state) == [path |-> path, key |-> key, state |-> state]
Trees(first, second) == (r1 :> first) @@ (r2 :> second)
Push(rev) == [rev |-> rev, ref |-> "default"]
Pushes(rev1, rev2) == (d1 :> Push(rev1)) @@ (d2 :> Push(rev2))

One == <<doc(p1, k1, "accepted")>>
Both == <<doc(p1, k1, "accepted"), doc(p2, k2, "accepted")>>
Twice == <<doc(p1, k1, "accepted"), doc(p2, k1, "contested")>>
Renamed == <<doc(p1, k2, "accepted")>>

\* Revisions that may follow Both with no id dropped from a file that stays: a
\* file removed; the files' ids exchanged (rows are then locked in the opposite
\* order) and one of them withdrawn.
AfterBoth ==
    {One, <<doc(p1, k2, "accepted"), doc(p2, k1, "retracted")>>}

\* Two pushes of one branch, a second file for the same id, the only file
\* removed, one revision pushed twice, and an event that is not an evidence push.
MCWorlds ==
    {[sent |-> Pushes(r1, r2), tree |-> Trees(Both, second)] : second \in AfterBoth}
        \cup {[sent |-> Pushes(r1, r2), tree |-> Trees(One, Twice)],
              [sent |-> Pushes(r1, r2), tree |-> Trees(One, <<>>)],
              [sent |-> Pushes(r1, r1), tree |-> Trees(Both, <<>>)],
              [sent |-> Pushes(r1, NULL), tree |-> Trees(One, <<>>)]}

\* The same file with the same id in both revisions.
SameFileWorlds == {[sent |-> Pushes(r1, r2), tree |-> Trees(One, One)]}

\* A file is merged; another is proposed on a branch.
ProposalWorlds ==
    {[sent |-> (d1 :> Push(r1)) @@ (d2 :> [rev |-> r2, ref |-> "proposal"]),
      tree |-> Trees(One, Both)]}

\* The same file with another id in the second revision.
RenamedWorlds == {[sent |-> Pushes(r1, r2), tree |-> Trees(One, Renamed)]}
=============================================================================
