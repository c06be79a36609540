-------------------------------- MODULE Binding --------------------------------
(***************************************************************************)
(* Which GitHub repositories belong to which project, and the personal     *)
(* access token a project reads them with: registration (POST              *)
(* /v1/projects), the webhook's and the CLI's resolution of a repository,  *)
(* the console's connection of a token, and the worker's use of it.        *)
(*                                                                         *)
(* A registration is one transaction under READ COMMITTED.  Its first      *)
(* statement upserts the organization's row and so holds that row until it *)
(* ends.  Who a project's principals are, branches and installations are   *)
(* left out; GitHub's answer to a read is its own to choose.               *)
(***************************************************************************)
EXTENDS Naturals, FiniteSets

CONSTANTS
    Org, Project,
    OrgOf,       \* the organization a project's slug is in
    Repo,        \* repositories, as normalize_repository_url names them
    Form,        \* the spellings of a remote: SSH, HTTPS
    Token,
    Reach,       \* the repositories a token may read
    Thread,      \* API workers
    Worker,
    Requests,    \* bound: the registrations that are asked for
    NULL

Url == [repo : Repo, form : Form]
Provider == {"legacy", "github"}

\* The columns of mem.projects, and RegisterProject.
Row == [repo : Url \cup {NULL}, evidence : Url \cup {NULL}, provider : Provider]
Request == [project : Project, row : Row]

Registration == [project : Project, row : Row, github : BOOLEAN, checked : BOOLEAN]
Connection == [project : Project, token : Token, repo : Url]
Credential == [token : Token, blames : Token \cup {NULL}]
Delivery == [project : Project, role : {"source", "evidence"}, repo : Repo]
Job == [project : Project, row : Row, token : Token \cup {NULL},
        at : {"scope", "read"}]

BindingAssumption ==
    /\ OrgOf \in [Project -> Org]
    /\ Reach \in [Token -> SUBSET Repo]
    /\ Requests \subseteq Request
    /\ NULL \notin Url \cup Row \cup Token \cup Registration \cup Connection
                \cup Credential \cup Job

VARIABLES
    project,     \* mem.projects, as committed
    open,        \* the registration each thread is in
    credential,  \* mem.github_pat_credentials
    asked,       \* the connection each thread is validating
    delivery,    \* recorded deliveries: the project and the repository's role
    job          \* what each worker reads, and with what

vars == <<project, open, credential, asked, delivery, job>>

TypeOK ==
    /\ project \in [Project -> Row \cup {NULL}]
    /\ open \in [Thread -> Registration \cup {NULL}]
    /\ credential \in [Project -> Credential \cup {NULL}]
    /\ asked \in [Thread -> Connection \cup {NULL}]
    /\ delivery \subseteq Delivery
    /\ job \in [Worker -> Job \cup {NULL}]

Init ==
    /\ project = [p \in Project |-> NULL]
    /\ open = [t \in Thread |-> NULL]
    /\ credential = [p \in Project |-> NULL]
    /\ asked = [t \in Thread |-> NULL]
    /\ delivery = {}
    /\ job = [w \in Worker |-> NULL]

\* The repositories a row names.
Named(row) == {u.repo : u \in {row.repo, row.evidence} \ {NULL}}
-----------------------------------------------------------------------------
(***************************************************************************)
(* register_project.                                                       *)
(***************************************************************************)
\* What is asked of a GitHub-native registration before the database is.
Valid(r) ==
    r.row.provider = "github" =>
        /\ r.row.repo # NULL /\ r.row.evidence # NULL
        /\ r.row.repo.repo # r.row.evidence.repo

\* Mutant of Repoints: the evidence repository may be changed.
RepointsSource(old, new) == new.repo # NULL /\ old.repo \notin {NULL, new.repo}

\* An existing project is not repointed.  Remotes are compared as spelled.
Repoints(old, new) ==
    \/ new.repo # NULL /\ old.repo \notin {NULL, new.repo}
    \/ new.provider = "github" /\ old.evidence \notin {NULL, new.evidence}

\* The row a registration leaves: a new one, or the old one with the remote
\* filled in and, for GitHub, the evidence repository and the provider.
Bound(old, new) ==
    IF old = NULL THEN new
    ELSE [repo |-> IF old.repo = NULL THEN new.repo ELSE old.repo,
          evidence |-> IF new.provider = "github" THEN new.evidence ELSE old.evidence,
          provider |-> IF new.provider = "github" THEN "github" ELSE old.provider]

\* Mutant of Locks: ON CONFLICT DO NOTHING would lock no row.
LocksNothing(t, org) == open[t] = NULL

\* Nobody else is in a registration of the organization.
Locks(t, org) ==
    /\ open[t] = NULL
    /\ \A u \in Thread : open[u] # NULL => OrgOf[open[u].project] # org

\* Up to the write; a request that repoints is refused and leaves nothing.
Register(t, r) ==
    /\ Valid(r)
    /\ Locks(t, OrgOf[r.project])
    /\ project[r.project] # NULL => ~Repoints(project[r.project], r.row)
    /\ open' = [open EXCEPT ![t] =
                    [project |-> r.project, row |-> Bound(project[r.project], r.row),
                     github |-> r.row.provider = "github", checked |-> FALSE]]
    /\ UNCHANGED <<project, credential, asked, delivery, job>>

\* GitHub-native projects other than the one registered, as committed.
Others(p) == {q \in Project \ {p} : project[q] # NULL /\ project[q].provider = "github"}

\* One of the repositories is somebody's, in either role.
Taken(reg) ==
    \E q \in Others(reg.project) : Named(reg.row) \cap Named(project[q]) # {}

\* The check of a GitHub-native registration: 409 rolls it back.
Check(t) ==
    /\ open[t] # NULL /\ open[t].github /\ ~open[t].checked
    /\ open' = IF Taken(open[t]) THEN [open EXCEPT ![t] = NULL]
               ELSE [open EXCEPT ![t].checked = TRUE]
    /\ UNCHANGED <<project, credential, asked, delivery, job>>

Commit(t) ==
    /\ open[t] # NULL
    /\ open[t].github => open[t].checked
    /\ project' = [project EXCEPT ![open[t].project] = open[t].row]
    /\ open' = [open EXCEPT ![t] = NULL]
    /\ UNCHANGED <<credential, asked, delivery, job>>

\* The request fails, or its process dies.
Rollback(t) ==
    /\ open[t] # NULL
    /\ open' = [open EXCEPT ![t] = NULL]
    /\ UNCHANGED <<project, credential, asked, delivery, job>>
-----------------------------------------------------------------------------
(***************************************************************************)
(* Resolution.                                                             *)
(***************************************************************************)
Remotes == {p \in Project : project[p] # NULL /\ project[p].repo # NULL}

\* find_project_for_repository: every registered project counts, legacy too.
Matches(r) ==
    {[project |-> p, role |-> "source", repo |-> r] :
        p \in {q \in Remotes : project[q].repo.repo = r}}
    \cup {[project |-> p, role |-> "evidence", repo |-> r] :
        p \in {q \in Remotes : project[q].evidence # NULL
                               /\ project[q].evidence.repo = r}}

\* receive_webhook: an unbound, ambiguous or legacy repository is answered 202
\* and forgotten.
Deliver(r) ==
    /\ Cardinality(Matches(r)) = 1
    /\ \A d \in Matches(r) : project[d.project].provider = "github"
    /\ delivery' = delivery \cup Matches(r)
    /\ UNCHANGED <<project, open, credential, asked, job>>
-----------------------------------------------------------------------------
(***************************************************************************)
(* The console and the worker.                                             *)
(***************************************************************************)
\* validate_repository, for both: the token reads them.
Validated(k, row) == Named(row) \subseteq Reach[k]

\* connect_pat reads the project and validates the token for its repositories.
Ask(t, p, k) ==
    /\ asked[t] = NULL
    /\ project[p] # NULL /\ project[p].provider = "github" /\ project[p].repo # NULL
    /\ Validated(k, project[p])
    /\ asked' = [asked EXCEPT ![t] = [project |-> p, token |-> k,
                                      repo |-> project[p].repo]]
    /\ UNCHANGED <<project, open, credential, delivery, job>>

\* It stores the token unless the source repository has changed meanwhile.
Store(t) ==
    /\ asked[t] # NULL
    /\ credential' =
            IF project[asked[t].project].repo # asked[t].repo THEN credential
            ELSE [credential EXCEPT ![asked[t].project] =
                    [token |-> asked[t].token, blames |-> NULL]]
    /\ asked' = [asked EXCEPT ![t] = NULL]
    /\ UNCHANGED <<project, open, delivery, job>>

Disconnect(p) ==
    /\ credential[p] # NULL
    /\ credential' = [credential EXCEPT ![p] = NULL]
    /\ UNCHANGED <<project, open, asked, delivery, job>>

\* _github_service_scope: the worker reads the binding ...
Scope(w, d) ==
    /\ job[w] = NULL
    /\ d.role = "evidence"
    /\ job' = [job EXCEPT ![w] = [project |-> d.project, row |-> project[d.project],
                                  token |-> NULL, at |-> "scope"]]
    /\ UNCHANGED <<project, open, credential, asked, delivery>>

\* ... and, in a transaction of its own, the token of the project.
Load(w) ==
    /\ job[w] # NULL /\ job[w].at = "scope"
    /\ LET kept == credential[job[w].project]
       IN  job' = [job EXCEPT ![w].at = "read",
                              ![w].token = IF kept = NULL THEN NULL ELSE kept.token]
    /\ UNCHANGED <<project, open, credential, asked, delivery>>

\* The reads succeed or fail, and record_use writes that to the credential the
\* project has by now.
Use(w, failed) ==
    /\ job[w] # NULL /\ job[w].at = "read"
    /\ LET its == job[w].project
       IN  credential' =
            IF job[w].token = NULL \/ credential[its] = NULL THEN credential
            ELSE [credential EXCEPT ![its].blames =
                    IF failed THEN job[w].token ELSE NULL]
    /\ job' = [job EXCEPT ![w] = NULL]
    /\ UNCHANGED <<project, open, asked, delivery>>
-----------------------------------------------------------------------------
Next ==
    \/ \E t \in Thread :
        \/ \E r \in Requests : Register(t, r)
        \/ Check(t)
        \/ Commit(t)
        \/ Rollback(t)
        \/ \E p \in Project, k \in Token : Ask(t, p, k)
        \/ Store(t)
    \/ \E r \in Repo : Deliver(r)
    \/ \E p \in Project : Disconnect(p)
    \/ \E w \in Worker :
        \/ \E d \in delivery : Scope(w, d)
        \/ Load(w)
        \/ \E failed \in BOOLEAN : Use(w, failed)

Spec == Init /\ [][Next]_vars
-----------------------------------------------------------------------------
IsGithub(p) == project[p] # NULL /\ project[p].provider = "github"

\* However registrations of one organization overlap, no repository is bound to
\* two of its GitHub-native projects, in either role (api.py:746-772).
OrgBindsOnce ==
    \A p, q \in Project :
        /\ p # q /\ OrgOf[p] = OrgOf[q]
        /\ IsGithub(p) /\ IsGithub(q)
        => Named(project[p]) \cap Named(project[q]) = {}

\* A worker reads with a token that was validated for both repositories it
\* reads, although project, token and repositories are read and written by
\* requests of their own (routes_github_console.py:108-116).
TokenCoversReads ==
    \A w \in Worker :
        job[w] # NULL /\ job[w].token # NULL => Named(job[w].row) \subseteq Reach[job[w].token]

\* "source and evidence repositories must map to exactly one project"
\* (api.py:771): the deliveries of a bound repository have one place to go.
DeliveriesAreRouted ==
    \A p \in Project : IsGithub(p) =>
        \A r \in Named(project[p]) : Cardinality(Matches(r)) = 1

\* last_error is about the token the project has: connecting another clears it.
ErrorIsOfTheToken ==
    \A p \in Project :
        credential[p] # NULL => credential[p].blames \in {NULL, credential[p].token}
==============================================================================
