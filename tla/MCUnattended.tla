----------------------------- MODULE MCUnattended -----------------------------
(***************************************************************************)
(* A small instance of each part of Unattended for TLC.                    *)
(***************************************************************************)
EXTENDS Unattended, TLC

CONSTANTS
    adr, note,                     \* memories
    redis, kafka, ledger,          \* dictionary terms and a glossary term
    url,                           \* a name the screen refuses
    a, b, c, s, q, k,              \* episodes and their summaries, a key
    d1, d2, x, y,                  \* files of .memory and their texts
    acme, globex, ours, other, far,  \* organizations and their projects
    src, side, lib, k1, k2         \* repositories and access tokens
-----------------------------------------------------------------------------
\* The decision names its terms redis, ledger and kafka and declares a relation;
\* the note relates kafka to redis and is not trusted.
Texts == adr :> <<redis, ledger, kafka>> @@ note :> <<ledger, kafka, redis>>
Prose == adr :> {} @@ note :> {<<kafka, redis>>}
Frontmatter == adr :> {kafka} @@ note :> {redis}
Replacing == {<<adr, note>>}

\* Three episodes, one of which carries an injection signal.  A summary quotes
\* its episodes, so the summary of a group with that episode, q, carries the
\* signal and the other, s, does not.
Summary == [group \in SUBSET Content |-> IF c \in group THEN q ELSE s]

Sorted == <<d1, d2>>
FirstTree == d1 :> x @@ d2 :> NULL

\* The scheduler's reconciliation, an agent, and the reconciliation that a job or
\* the console runs beside it.
Write(key, text, source) == [op |-> "write", key |-> key, text |-> text, source |-> source]
Asked == "loop" :> {Write(k, x, "git"), Write(k, y, "git")}
         @@ "api" :> {Write(k, y, "tool"), Write(NULL, x, "ci")}
         @@ "jobs" :> {[op |-> "retire", key |-> k, text |-> y, source |-> "git"],
                       [op |-> "archive", key |-> k]}

Remote(r, form) == [repo |-> r, form |-> form]
GitHub(p0, s0, e) ==
    [project |-> p0, row |-> [repo |-> Remote(s0, "https"),
                              evidence |-> Remote(e, "https"), provider |-> "github"]]
Legacy(p0, s0, form) ==
    [project |-> p0, row |-> [repo |-> Remote(s0, form), evidence |-> NULL,
                              provider |-> "legacy"]]

Owners == ours :> acme @@ other :> acme @@ far :> globex
Reaching == k1 :> {src, side} @@ k2 :> {src, side, lib}
Registrations == {GitHub(ours, src, side), GitHub(ours, src, lib),
                  GitHub(other, lib, side), Legacy(ours, src, "ssh"),
                  Legacy(far, src, "https")}
=============================================================================
