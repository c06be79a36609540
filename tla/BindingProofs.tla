----------------------------- MODULE BindingProofs -----------------------------
(***************************************************************************)
(* For any organizations, projects, repositories, threads and tokens: no   *)
(* repository is bound to two GitHub-native projects of one organization,  *)
(* and tokens cover what is read with them.  The first rests on the row of *)
(* the organization, which a registration holds from its first statement   *)
(* (SoleHolder), so that what its check saw still holds when it commits    *)
(* (CheckedIsFree); the second on rows that only gain repositories.        *)
(***************************************************************************)
EXTENDS Binding, TLAPS

\* One registration at a time is open in an organization.
SoleHolder ==
    \A t, u \in Thread :
        /\ open[t] # NULL /\ open[u] # NULL
        /\ OrgOf[open[t].project] = OrgOf[open[u].project]
        => t = u

\* A GitHub-native project names both its repositories.
Whole(row) == row.provider = "github" => row.repo # NULL /\ row.evidence # NULL
GithubIsWhole == \A p \in Project : project[p] # NULL => Whole(project[p])

\* What an open registration will leave goes with what is there.
OpenIsCurrent ==
    \A t \in Thread : open[t] # NULL =>
        /\ Whole(open[t].row)
        /\ open[t].row.provider = "github" => open[t].github \/ IsGithub(open[t].project)
        /\ IsGithub(open[t].project) => open[t].row = project[open[t].project]
        /\ project[open[t].project] # NULL =>
                Named(project[open[t].project]) \subseteq Named(open[t].row)

\* The repositories of a checked registration are nobody else's.
CheckedIsFree ==
    \A t \in Thread : open[t] # NULL /\ open[t].checked =>
        \A q \in Project :
            /\ q # open[t].project /\ OrgOf[q] = OrgOf[open[t].project] /\ IsGithub(q)
            => Named(open[t].row) \cap Named(project[q]) = {}

\* Tokens cover the project they are asked or kept for.
Covers(p, k) == IsGithub(p) /\ Named(project[p]) \subseteq Reach[k]
TokensCover ==
    /\ \A t \in Thread : asked[t] # NULL => Covers(asked[t].project, asked[t].token)
    /\ \A p \in Project : credential[p] # NULL => Covers(p, credential[p].token)

\* Deliveries are of registered projects, and a worker's row is no larger than
\* the project's.
JobsFollow ==
    /\ \A d \in delivery : project[d.project] # NULL
    /\ \A w \in Worker : job[w] # NULL =>
        /\ project[job[w].project] # NULL
        /\ Named(job[w].row) \subseteq Named(project[job[w].project])

Bindings == SoleHolder /\ GithubIsWhole /\ OpenIsCurrent /\ CheckedIsFree /\ OrgBindsOnce
Tokens == TokensCover /\ JobsFollow /\ TokenCoversReads
Inv == TypeOK /\ Bindings /\ Tokens

\* The initial states satisfy the invariant.
THEOREM InitInv == ASSUME BindingAssumption PROVE Init => Inv
<1> SUFFICES ASSUME Init PROVE Inv
  OBVIOUS
<1>1. TypeOK
  BY DEF Init, TypeOK
<1>2. Bindings
  BY DEF Init, Bindings, SoleHolder, GithubIsWhole, OpenIsCurrent, CheckedIsFree,
         OrgBindsOnce, IsGithub
<1>3. Tokens
  BY DEF Init, Tokens, TokensCover, JobsFollow, TokenCoversReads
<1> QED
  BY <1>1, <1>2, <1>3 DEF Inv

\* A step that leaves projects and registrations alone keeps the bindings.
LEMMA BindingsStand ==
    ASSUME Bindings, UNCHANGED <<project, open>>
    PROVE  Bindings'
BY DEF Bindings, SoleHolder, GithubIsWhole, OpenIsCurrent, CheckedIsFree,
       OrgBindsOnce, IsGithub, Whole, Named

\* A step that leaves projects and jobs alone keeps the tokens.
LEMMA TokensStand ==
    ASSUME Tokens, UNCHANGED <<project, credential, asked, delivery, job>>
    PROVE  Tokens'
BY DEF Tokens, TokensCover, JobsFollow, TokenCoversReads, Covers, IsGithub, Named

\* A registration's row fills in what was missing and changes nothing else.
LEMMA BoundFillsIn ==
    ASSUME BindingAssumption, NEW old \in Row \cup {NULL}, NEW new \in Row,
           new.provider = "github" => new.repo # NULL /\ new.evidence # NULL,
           old # NULL => Whole(old) /\ ~Repoints(old, new)
    PROVE  /\ Bound(old, new) \in Row
           /\ Whole(Bound(old, new))
           /\ Bound(old, new).provider = "github" =>
                \/ new.provider = "github"
                \/ old # NULL /\ old.provider = "github"
           /\ old # NULL /\ old.provider = "github" => Bound(old, new) = old
           /\ old # NULL => Named(old) \subseteq Named(Bound(old, new))
<1>1. CASE old = NULL
  BY <1>1 DEF Bound, Whole
<1>2. CASE old # NULL
  <2>1. old \in Row
    BY <1>2
  <2>2. Bound(old, new) =
          [repo |-> IF old.repo = NULL THEN new.repo ELSE old.repo,
           evidence |-> IF new.provider = "github" THEN new.evidence ELSE old.evidence,
           provider |-> IF new.provider = "github" THEN "github" ELSE old.provider]
    BY <1>2 DEF Bound
  <2>3. Bound(old, new) \in Row
    BY <2>1, <2>2 DEF Row, Provider
  <2>4. /\ old.evidence # NULL => Bound(old, new).evidence = old.evidence
        /\ old.repo # NULL => Bound(old, new).repo = old.repo
    BY <1>2, <2>2 DEF Repoints
  <2>5. Whole(Bound(old, new))
    BY <1>2, <2>2 DEF Whole
  <2>6. Named(old) \subseteq Named(Bound(old, new))
    BY <2>4 DEF Named
  <2>7. old.provider = "github" => Bound(old, new) = old
    BY <1>2, <2>1, <2>2, <2>4 DEF Whole, Row
  <2> QED
    BY <1>2, <2>2, <2>3, <2>5, <2>6, <2>7
<1> QED
  BY <1>1, <1>2

\* A registration begins: it takes the organization's row.
LEMMA RegisterInv ==
    ASSUME BindingAssumption, Inv, NEW t \in Thread, NEW r \in Requests, Register(t, r)
    PROVE  Inv'
<1> DEFINE reg == [project |-> r.project, row |-> Bound(project[r.project], r.row),
                   github |-> r.row.provider = "github", checked |-> FALSE]
<1>1. r.project \in Project /\ r.row \in Row
  BY DEF BindingAssumption, Request
<1>2. /\ Bound(project[r.project], r.row) \in Row
      /\ Whole(Bound(project[r.project], r.row))
      /\ Bound(project[r.project], r.row).provider = "github" =>
            r.row.provider = "github" \/ IsGithub(r.project)
      /\ IsGithub(r.project) => Bound(project[r.project], r.row) = project[r.project]
      /\ project[r.project] # NULL =>
            Named(project[r.project]) \subseteq Named(Bound(project[r.project], r.row))
  BY <1>1, BoundFillsIn DEF Register, Valid, Inv, TypeOK, Bindings, GithubIsWhole, IsGithub
<1>3. open' = [open EXCEPT ![t] = reg] /\ UNCHANGED <<project, credential, asked, delivery, job>>
  BY DEF Register
<1>4. reg \in Registration /\ reg # NULL /\ reg.project = r.project /\ ~reg.checked
  <2>1. reg \in Registration
    BY <1>1, <1>2 DEF Registration
  <2> QED
    BY <2>1, <1>3 DEF BindingAssumption, Registration
<1>5. TypeOK'
  BY <1>3, <1>4 DEF Inv, TypeOK
<1>6. SoleHolder'
  BY <1>3, <1>4 DEF Register, Locks, Inv, TypeOK, Bindings, SoleHolder
<1>7. OpenIsCurrent'
  BY <1>2, <1>3, <1>4 DEF Inv, TypeOK, Bindings, OpenIsCurrent, IsGithub, Whole, Named
<1>8. CheckedIsFree'
  BY <1>3, <1>4 DEF Inv, TypeOK, Bindings, CheckedIsFree, IsGithub
<1>9. GithubIsWhole' /\ OrgBindsOnce'
  BY <1>3 DEF Inv, Bindings, GithubIsWhole, OrgBindsOnce, IsGithub, Whole
<1> QED
  BY <1>3, <1>5, <1>6, <1>7, <1>8, <1>9, TokensStand DEF Inv, Bindings

\* A registration that ends without a commit leaves the others as they were.
LEMMA EndKeepsBindings ==
    ASSUME Inv, NEW t \in Thread, open' = [open EXCEPT ![t] = NULL], project' = project
    PROVE  Bindings'
<1>1. \A u \in Thread : open'[u] # NULL => u # t /\ open'[u] = open[u]
  BY DEF Inv, TypeOK
<1>2. SoleHolder'
  BY <1>1 DEF Inv, Bindings, SoleHolder
<1>3. OpenIsCurrent'
  <2> SUFFICES ASSUME NEW u \in Thread, open'[u] # NULL
               PROVE  (/\ Whole(open[u].row)
                       /\ open[u].row.provider = "github"
                            => open[u].github \/ IsGithub(open[u].project)
                       /\ IsGithub(open[u].project) => open[u].row = project[open[u].project]
                       /\ project[open[u].project] # NULL =>
                            Named(project[open[u].project]) \subseteq Named(open[u].row))'
    BY DEF OpenIsCurrent
  <2> QED
    BY <1>1 DEF Inv, Bindings, OpenIsCurrent, IsGithub, Whole, Named
<1>4. CheckedIsFree'
  <2> SUFFICES ASSUME NEW u \in Thread, open'[u] # NULL, open'[u].checked,
                      NEW q \in Project, q # open'[u].project,
                      OrgOf[q] = OrgOf[open'[u].project], IsGithub(q)'
               PROVE  Named(open'[u].row) \cap Named(project'[q]) = {}
    BY DEF CheckedIsFree, Named
  <2> QED
    BY <1>1 DEF Inv, Bindings, CheckedIsFree, IsGithub
<1>5. GithubIsWhole' /\ OrgBindsOnce'
  BY DEF Inv, Bindings, GithubIsWhole, OrgBindsOnce, IsGithub, Whole, Named
<1> QED
  BY <1>2, <1>3, <1>4, <1>5 DEF Bindings

\* The check of a GitHub-native registration: nobody else has its repositories.
LEMMA CheckInv ==
    ASSUME BindingAssumption, Inv, NEW t \in Thread, Check(t)
    PROVE  Inv'
<1>1. /\ open[t] \in Registration
      /\ UNCHANGED <<project, credential, asked, delivery, job>>
  BY DEF Check, Inv, TypeOK
<1>2. CASE Taken(open[t])
  <2>1. open' = [open EXCEPT ![t] = NULL]
    BY <1>2 DEF Check
  <2>2. TypeOK'
    BY <1>1, <2>1 DEF Inv, TypeOK
  <2>3. Bindings'
    BY <1>1, <2>1, EndKeepsBindings
  <2> QED
    BY <1>1, <2>2, <2>3, TokensStand DEF Inv
<1>3. CASE ~Taken(open[t])
  <2> DEFINE reg == [open[t] EXCEPT !.checked = TRUE]
  <2>1. open' = [open EXCEPT ![t] = reg]
    BY <1>3 DEF Check
  <2>2. /\ reg \in Registration /\ reg # NULL /\ reg.checked
        /\ reg.project = open[t].project /\ reg.row = open[t].row
        /\ reg.github = open[t].github
    BY <1>1 DEF Registration, BindingAssumption
  <2>3. TypeOK'
    BY <1>1, <2>1, <2>2 DEF Inv, TypeOK
  <2>4. open[t] # NULL
    BY DEF Check
  <2>5. SoleHolder'
    BY <2>1, <2>2, <2>4 DEF Inv, TypeOK, Bindings, SoleHolder
  <2>6. OpenIsCurrent'
    BY <1>1, <2>1, <2>2, <2>4 DEF Inv, TypeOK, Bindings, OpenIsCurrent, IsGithub, Whole, Named
  <2>7. \A q \in Project : q # reg.project /\ IsGithub(q)
                           => Named(reg.row) \cap Named(project[q]) = {}
    BY <1>3, <2>2 DEF Taken, Others, IsGithub
  <2>8. CheckedIsFree'
    BY <1>1, <2>1, <2>2, <2>7 DEF Inv, TypeOK, Bindings, CheckedIsFree, IsGithub, Named
  <2>9. GithubIsWhole' /\ OrgBindsOnce'
    BY <1>1 DEF Inv, Bindings, GithubIsWhole, OrgBindsOnce, IsGithub, Whole, Named
  <2> QED
    BY <1>1, <2>3, <2>5, <2>6, <2>8, <2>9, TokensStand DEF Inv, Bindings
<1> QED
  BY <1>2, <1>3

\* A registration commits: what its check saw is still so, because the others
\* of its organization have waited.
LEMMA CommitInv ==
    ASSUME BindingAssumption, Inv, NEW t \in Thread, Commit(t)
    PROVE  Inv'
<1> DEFINE p == open[t].project
           row == open[t].row
<1>1. /\ open[t] \in Registration /\ open[t] # NULL
      /\ p \in Project /\ row \in Row /\ row # NULL
      /\ open[t].github => open[t].checked
      /\ project' = [project EXCEPT ![p] = row]
      /\ open' = [open EXCEPT ![t] = NULL]
      /\ UNCHANGED <<credential, asked, delivery, job>>
  <2>1. open[t] \in Registration /\ open[t] # NULL
    BY DEF Commit, Inv, TypeOK
  <2>2. p \in Project /\ row \in Row
    BY <2>1 DEF Registration
  <2> QED
    BY <2>1, <2>2 DEF Commit, BindingAssumption
<1>2. TypeOK'
  BY <1>1 DEF Inv, TypeOK
<1>3. /\ Whole(row)
      /\ row.provider = "github" => open[t].github \/ IsGithub(p)
      /\ IsGithub(p) => row = project[p]
      /\ project[p] # NULL => Named(project[p]) \subseteq Named(row)
  BY <1>1 DEF Inv, Bindings, OpenIsCurrent
<1>4. \A q \in Project :
         /\ q # p => project'[q] = project[q]
         /\ q = p => project'[q] = row
  BY <1>1 DEF Inv, TypeOK
<1>5. \A u \in Thread : open'[u] # NULL =>
         /\ u # t /\ open'[u] = open[u]
         /\ open[u].project \in Project
         /\ OrgOf[open[u].project] # OrgOf[p]
         /\ open[u].project # p
  BY <1>1 DEF Inv, TypeOK, Bindings, SoleHolder, Registration
<1>6. SoleHolder'
  BY <1>5 DEF Inv, Bindings, SoleHolder
<1>7. GithubIsWhole'
  BY <1>3, <1>4 DEF Inv, Bindings, GithubIsWhole, Whole
<1>8. OpenIsCurrent'
  <2> SUFFICES ASSUME NEW u \in Thread, open'[u] # NULL
               PROVE  (/\ Whole(open[u].row)
                       /\ open[u].row.provider = "github"
                            => open[u].github \/ IsGithub(open[u].project)
                       /\ IsGithub(open[u].project) => open[u].row = project[open[u].project]
                       /\ project[open[u].project] # NULL =>
                            Named(project[open[u].project]) \subseteq Named(open[u].row))'
    BY DEF OpenIsCurrent
  <2>1. open'[u] = open[u] /\ project'[open[u].project] = project[open[u].project]
    BY <1>4, <1>5
  <2> QED
    BY <1>5, <2>1 DEF Inv, Bindings, OpenIsCurrent, IsGithub, Whole, Named
<1>9. CheckedIsFree'
  <2> SUFFICES ASSUME NEW u \in Thread, open'[u] # NULL, open'[u].checked,
                      NEW q \in Project, q # open'[u].project,
                      OrgOf[q] = OrgOf[open'[u].project], IsGithub(q)'
               PROVE  Named(open'[u].row) \cap Named(project'[q]) = {}
    BY DEF CheckedIsFree, Named
  <2>1. open'[u] = open[u] /\ q # p
    BY <1>5
  <2>2. project'[q] = project[q]
    BY <1>4, <2>1
  <2> QED
    BY <2>1, <2>2 DEF Inv, Bindings, CheckedIsFree, IsGithub
<1>10. OrgBindsOnce'
  <2>1. ASSUME NEW q \in Project, q # p, OrgOf[q] = OrgOf[p], IsGithub(q),
               row.provider = "github"
        PROVE  Named(row) \cap Named(project[q]) = {}
    <3>1. CASE open[t].github
      BY <1>1, <2>1, <3>1 DEF Inv, Bindings, CheckedIsFree
    <3>2. CASE IsGithub(p)
      BY <1>1, <1>3, <2>1, <3>2 DEF Inv, Bindings, OrgBindsOnce
    <3> QED
      BY <1>3, <2>1, <3>1, <3>2
  <2> SUFFICES ASSUME NEW a \in Project, NEW b \in Project, a # b, OrgOf[a] = OrgOf[b],
                      IsGithub(a)', IsGithub(b)'
               PROVE  Named(project'[a]) \cap Named(project'[b]) = {}
    BY DEF OrgBindsOnce, Named
  <2>2. CASE a = p
    BY <1>4, <2>1, <2>2 DEF IsGithub
  <2>3. CASE b = p
    BY <1>4, <2>1, <2>3 DEF IsGithub
  <2>4. CASE a # p /\ b # p
    BY <1>4, <2>4 DEF Inv, Bindings, OrgBindsOnce, IsGithub
  <2> QED
    BY <2>2, <2>3, <2>4
<1>11. \A q \in Project :
         /\ IsGithub(q) => project'[q] = project[q]
         /\ project[q] # NULL =>
               /\ project'[q] # NULL
               /\ Named(project[q]) \subseteq Named(project'[q])
  BY <1>1, <1>3, <1>4
<1>12. \A q \in Project, k \in Token : Covers(q, k) => Covers(q, k)'
  <2> SUFFICES ASSUME NEW q \in Project, NEW k \in Token, Covers(q, k)
               PROVE  Covers(q, k)'
    OBVIOUS
  <2>1. IsGithub(q) /\ Named(project[q]) \subseteq Reach[k]
    BY DEF Covers
  <2>2. project'[q] = project[q]
    BY <1>11, <2>1
  <2>3. IsGithub(q)'
    BY <2>1, <2>2 DEF IsGithub
  <2>4. Named(project'[q]) \subseteq Reach[k]
    BY <2>1, <2>2
  <2> QED
    BY <2>3, <2>4 DEF Covers, Named
<1>13. TokensCover'
  <2>1. \A u \in Thread : asked[u] # NULL =>
            asked[u].project \in Project /\ asked[u].token \in Token
    BY DEF Inv, TypeOK, Connection
  <2>2. \A q \in Project : credential[q] # NULL => credential[q].token \in Token
    BY DEF Inv, TypeOK, Credential
  <2> QED
    BY <1>1, <1>12, <2>1, <2>2 DEF Inv, Tokens, TokensCover
<1>14. JobsFollow' /\ TokenCoversReads'
  <2>1. \A d \in delivery : d.project \in Project
    BY DEF Inv, TypeOK, Delivery
  <2>2. \A w \in Worker : job[w] # NULL => job[w].project \in Project
    BY DEF Inv, TypeOK, Job
  <2>3. JobsFollow'
    <3>1. \A d \in delivery : project'[d.project] # NULL
      BY <1>11, <2>1 DEF Inv, Tokens, JobsFollow
    <3>2. ASSUME NEW w \in Worker, job[w] # NULL
          PROVE  /\ project'[job[w].project] # NULL
                 /\ Named(job[w].row) \subseteq Named(project'[job[w].project])
      <4>1. /\ project[job[w].project] # NULL
            /\ Named(job[w].row) \subseteq Named(project[job[w].project])
        BY <3>2 DEF Inv, Tokens, JobsFollow
      <4>2. /\ project'[job[w].project] # NULL
            /\ Named(project[job[w].project]) \subseteq Named(project'[job[w].project])
        BY <1>11, <2>2, <3>2, <4>1
      <4> QED
        BY <4>1, <4>2
    <3> QED
      BY <1>1, <3>1, <3>2 DEF JobsFollow, Named
  <2>4. TokenCoversReads'
    BY <1>1 DEF Inv, Tokens, TokenCoversReads, Named
  <2> QED
    BY <2>3, <2>4
<1> QED
  BY <1>2, <1>6, <1>7, <1>8, <1>9, <1>10, <1>13, <1>14 DEF Inv, Bindings, Tokens

\* A registration that ends without a trace.
LEMMA RollbackInv ==
    ASSUME BindingAssumption, Inv, NEW t \in Thread, Rollback(t)
    PROVE  Inv'
<1>1. /\ open' = [open EXCEPT ![t] = NULL]
      /\ UNCHANGED <<project, credential, asked, delivery, job>>
  BY DEF Rollback
<1>2. TypeOK'
  BY <1>1 DEF Inv, TypeOK
<1>3. Bindings'
  BY <1>1, EndKeepsBindings
<1> QED
  BY <1>1, <1>2, <1>3, TokensStand DEF Inv

\* The console: what is stored was validated for the binding, which stands.
LEMMA ConsoleInv ==
    ASSUME BindingAssumption, Inv,
           \/ \E t \in Thread : \/ \E p \in Project, k \in Token : Ask(t, p, k)
                               \/ Store(t)
           \/ \E p \in Project : Disconnect(p)
    PROVE  Inv'
<1>1. CASE \E t \in Thread, p \in Project, k \in Token : Ask(t, p, k)
  <2>1. PICK t \in Thread, p \in Project, k \in Token : Ask(t, p, k)
    BY <1>1
  <2>2. /\ project[p] \in Row /\ project[p].repo \in Url
        /\ asked' = [asked EXCEPT ![t] = [project |-> p, token |-> k,
                                          repo |-> project[p].repo]]
        /\ Covers(p, k)
        /\ UNCHANGED <<project, open, credential, delivery, job>>
    BY <2>1 DEF Ask, Validated, Covers, IsGithub, Inv, TypeOK, Row
  <2>3. TypeOK'
    BY <2>2 DEF Inv, TypeOK, Connection
  <2>4. TokensCover'
    BY <2>2 DEF Inv, TypeOK, Tokens, TokensCover, Covers, IsGithub, Named
  <2> QED
    BY <2>2, <2>3, <2>4, BindingsStand DEF Inv, Tokens, JobsFollow, TokenCoversReads, Named
<1>2. CASE \E t \in Thread : Store(t)
  <2>1. PICK t \in Thread : Store(t)
    BY <1>2
  <2> DEFINE p == asked[t].project
             c == [token |-> asked[t].token, blames |-> NULL]
  <2>2. /\ asked[t] \in Connection
        /\ credential' = credential \/ credential' = [credential EXCEPT ![p] = c]
        /\ asked' = [asked EXCEPT ![t] = NULL]
        /\ Covers(p, asked[t].token)
        /\ UNCHANGED <<project, open, delivery, job>>
    BY <2>1 DEF Store, Inv, TypeOK, Tokens, TokensCover
  <2>3. p \in Project /\ c \in Credential /\ c.token = asked[t].token
    BY <2>2 DEF Connection, Credential
  <2>4. TypeOK'
    BY <2>2, <2>3 DEF Inv, TypeOK
  <2>5. TokensCover'
    BY <2>2, <2>3 DEF Inv, TypeOK, Tokens, TokensCover, Covers, IsGithub, Named
  <2> QED
    BY <2>2, <2>4, <2>5, BindingsStand DEF Inv, Tokens, JobsFollow, TokenCoversReads, Named
<1>3. CASE \E p \in Project : Disconnect(p)
  <2>1. PICK p \in Project : Disconnect(p)
    BY <1>3
  <2>2. TypeOK' /\ TokensCover'
    BY <2>1 DEF Disconnect, Inv, TypeOK, Tokens, TokensCover, Covers, IsGithub, Named
  <2> QED
    BY <2>1, <2>2, BindingsStand DEF Disconnect, Inv, Tokens, JobsFollow,
                                     TokenCoversReads, Named
<1> QED
  BY <1>1, <1>2, <1>3

\* A delivery is recorded for a registered project.
LEMMA DeliverInv ==
    ASSUME BindingAssumption, Inv, NEW r \in Repo, Deliver(r)
    PROVE  Inv'
<1>1. \A d \in Matches(r) : d \in Delivery /\ project[d.project] # NULL
  BY DEF Matches, Remotes, Delivery
<1>2. delivery' = delivery \cup Matches(r) /\ UNCHANGED <<project, open, credential, asked, job>>
  BY DEF Deliver
<1>3. TypeOK'
  BY <1>1, <1>2 DEF Inv, TypeOK
<1>4. Tokens'
  BY <1>1, <1>2 DEF Inv, Tokens, TokensCover, JobsFollow, TokenCoversReads, Covers,
                    IsGithub, Named
<1> QED
  BY <1>2, <1>3, <1>4, BindingsStand DEF Inv

\* The worker reads the binding, then the token, then the repositories.
LEMMA WorkerInv ==
    ASSUME BindingAssumption, Inv, NEW w \in Worker,
           \/ \E d \in delivery : Scope(w, d)
           \/ Load(w)
           \/ \E failed \in BOOLEAN : Use(w, failed)
    PROVE  Inv'
<1>1. CASE \E d \in delivery : Scope(w, d)
  <2>1. PICK d \in delivery : Scope(w, d)
    BY <1>1
  <2> DEFINE j == [project |-> d.project, row |-> project[d.project], token |-> NULL,
                   at |-> "scope"]
  <2>2. d.project \in Project /\ project[d.project] # NULL /\ project[d.project] \in Row
    BY DEF Inv, TypeOK, Delivery, Tokens, JobsFollow
  <2>3. j \in Job /\ job' = [job EXCEPT ![w] = j] /\ UNCHANGED <<project, open, credential, asked, delivery>>
    BY <2>1, <2>2 DEF Scope, Job
  <2>4. TypeOK'
    BY <2>3 DEF Inv, TypeOK
  <2>5. Tokens'
    BY <2>2, <2>3 DEF Inv, TypeOK, Tokens, TokensCover, JobsFollow, TokenCoversReads,
                      Covers, IsGithub, Named
  <2> QED
    BY <2>3, <2>4, <2>5, BindingsStand DEF Inv
<1>2. CASE Load(w)
  <2> DEFINE c == credential[job[w].project]
             k == IF c = NULL THEN NULL ELSE c.token
             j == [job[w] EXCEPT !.at = "read", !.token = k]
  <2>1. /\ job[w] \in Job /\ job[w] # NULL
        /\ job' = [job EXCEPT ![w] = j]
        /\ UNCHANGED <<project, open, credential, asked, delivery>>
    BY <1>2 DEF Load, Inv, TypeOK
  <2>2. job[w].project \in Project
    BY <2>1 DEF Job
  <2>3. k \in Token \cup {NULL}
    BY <2>2 DEF Inv, TypeOK, Credential
  <2>4. k # NULL => Named(job[w].row) \subseteq Reach[k]
    BY <2>1, <2>2 DEF Inv, Tokens, TokensCover, JobsFollow, Covers
  <2>5. j \in Job /\ j.token = k /\ j.row = job[w].row /\ j.project = job[w].project
    BY <2>1, <2>3 DEF Job
  <2>6. TypeOK'
    BY <2>1, <2>5 DEF Inv, TypeOK
  <2>7. Tokens'
    BY <2>1, <2>4, <2>5 DEF Inv, TypeOK, Tokens, TokensCover, JobsFollow,
                            TokenCoversReads, Covers, IsGithub, Named
  <2> QED
    BY <2>1, <2>6, <2>7, BindingsStand DEF Inv
<1>3. CASE \E failed \in BOOLEAN : Use(w, failed)
  <2>1. PICK failed \in BOOLEAN : Use(w, failed)
    BY <1>3
  <2> DEFINE p == job[w].project
             c == [credential[p] EXCEPT !.blames = IF failed THEN job[w].token ELSE NULL]
  <2>2. /\ job[w] \in Job
        /\ job' = [job EXCEPT ![w] = NULL]
        /\ UNCHANGED <<project, open, asked, delivery>>
    BY <2>1 DEF Use, Inv, TypeOK
  <2>3. p \in Project /\ job[w].token \in Token \cup {NULL}
    BY <2>2 DEF Job
  <2>4. \/ credential' = credential
        \/ /\ credential[p] # NULL
           /\ credential' = [credential EXCEPT ![p] = c]
    BY <2>1 DEF Use
  <2>5. credential[p] # NULL => c \in Credential /\ c.token = credential[p].token
    BY <2>3 DEF Inv, TypeOK, Credential
  <2>6. TypeOK'
    BY <2>2, <2>4, <2>5 DEF Inv, TypeOK
  <2>7. TokensCover'
    BY <2>2, <2>3, <2>4, <2>5 DEF Inv, TypeOK, Tokens, TokensCover, Covers, IsGithub, Named
  <2>8. JobsFollow' /\ TokenCoversReads'
    BY <2>2 DEF Inv, TypeOK, Tokens, JobsFollow, TokenCoversReads, Named
  <2> QED
    BY <2>2, <2>6, <2>7, <2>8, BindingsStand DEF Inv, Tokens
<1> QED
  BY <1>1, <1>2, <1>3

\* Every step keeps the invariant.
THEOREM StepInv == ASSUME BindingAssumption PROVE Inv /\ [Next]_vars => Inv'
<1> SUFFICES ASSUME Inv, [Next]_vars PROVE Inv'
  OBVIOUS
<1>1. CASE UNCHANGED vars
  <2>1. TypeOK'
    BY <1>1 DEF vars, Inv, TypeOK
  <2> QED
    BY <1>1, <2>1, BindingsStand, TokensStand DEF vars, Inv
<1>2. CASE Next
  BY <1>2, RegisterInv, CheckInv, CommitInv, RollbackInv, ConsoleInv, DeliverInv, WorkerInv
     DEF Next
<1> QED
  BY <1>1, <1>2

\* Values keep to their types.
THEOREM BindingTypeCorrect == ASSUME BindingAssumption PROVE Spec => []TypeOK
<1>1. Init => Inv
  BY InitInv
<1>2. Inv /\ [Next]_vars => Inv'
  BY StepInv
<1>3. Inv => TypeOK
  BY DEF Inv
<1> QED
  BY <1>1, <1>2, <1>3, PTL DEF Spec

\* Overlapping registrations of one organization never bind a repository to two
\* of its GitHub-native projects.
THEOREM OrgBindsOnceAlways == ASSUME BindingAssumption PROVE Spec => []OrgBindsOnce
<1>1. Init => Inv
  BY InitInv
<1>2. Inv /\ [Next]_vars => Inv'
  BY StepInv
<1>3. Inv => OrgBindsOnce
  BY DEF Inv, Bindings
<1> QED
  BY <1>1, <1>2, <1>3, PTL DEF Spec

\* A token was validated for whatever a worker reads with it.
THEOREM TokenCoversReadsAlways == ASSUME BindingAssumption PROVE Spec => []TokenCoversReads
<1>1. Init => Inv
  BY InitInv
<1>2. Inv /\ [Next]_vars => Inv'
  BY StepInv
<1>3. Inv => TokenCoversReads
  BY DEF Inv, Tokens
<1> QED
  BY <1>1, <1>2, <1>3, PTL DEF Spec
================================================================================
