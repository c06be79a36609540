-------------------------------- MODULE Access --------------------------------
(***************************************************************************)
(* What a database session may read and write: the scope that db.scoped    *)
(* sets for one transaction on a pooled connection, and the row level      *)
(* security policies of the migrations, which read that scope.             *)
(*                                                                         *)
(* A row carries its own scope.  Tables that hang off a memory (versions,  *)
(* embeddings, mentions, feedback) are readable where the memory is;       *)
(* tables with a project of their own (entities, relationships, conflicts, *)
(* ingestion and retrieval events) where the project is.  A transaction    *)
(* writes last, so a write and its commit are one step.  The audit log,    *)
(* which the whole tenant reads, and the registry of projects are left out.*)
(***************************************************************************)
EXTENDS Naturals

CONSTANTS
    Tenant, Project, Principal,
    Conn,        \* connections of the pool
    Memory,      \* memory ids
    Key,         \* memory keys
    Scopes,      \* bound: the scopes that requests resolve to
    Grant,       \* bound: rows mem.scope_grants may hold
    Stored,      \* bound: what is in mem.memories at first
    Levels,      \* bound: the levels operators classify at
    MaxTime,     \* bound: steps of the clock
    Months,      \* bound: months of retrieval events
    NULL

\* mem.sensitivity, in the order of its declaration: public, internal,
\* confidential, restricted.
Level == 0..3
Internal == 1

\* What fn_set_scope is given.
Scope == [tenant : Tenant, principal : Principal, project : Project \cup {NULL},
          projects : SUBSET Project]

\* The columns of a row that policies read.
Row == [tenant : Tenant, kind : {"organization", "project", "user"},
        project : Project \cup {NULL}, owner : Principal \cup {NULL},
        level : Level, key : Key \cup {NULL}, open : BOOLEAN]

Reader == [kind : {"organization", "project", "user"},
           id : Tenant \cup Project \cup Principal]

AccessAssumption ==
    /\ Scopes \subseteq Scope
    /\ Grant \subseteq [tenant : Tenant, to : Reader, level : Level]
    /\ Stored \in [Memory -> Row \cup {NULL}]
    /\ Levels \subseteq Level
    /\ MaxTime \in Nat /\ Months \in Nat
    /\ NULL \notin Row \cup Scope \cup Project \cup Principal

VARIABLES
    holder,        \* the scope each connection was handed out for
    setting,     \* the app.* settings of each connection
    since,       \* when its transaction began: now()
    memory,      \* mem.memories
    versions,    \* mem.memory_versions: the snapshots of each memory
    derived,     \* memories with an embedding, a mention or feedback
    shared,      \* rows of the tables that carry a project
    partition,   \* the partitions of retrieval_events, and their policies
    until,       \* expires_at of each grant, NULL before it is issued
    revoked,     \* grants with a revoked_at
    time,
    seen,        \* history: what each open transaction has read
    refused      \* history: the rows that writes were refused for

vars == <<holder, setting, since, memory, versions, derived, shared, partition,
          until, revoked, time, seen, refused>>
session == <<holder, setting, since>>
tables == <<memory, versions, derived, shared, partition>>

TypeOK ==
    /\ holder \in [Conn -> Scopes \cup {NULL}]
    /\ setting \in [Conn -> Scopes \cup {NULL}]
    /\ since \in [Conn -> 0..MaxTime]
    /\ memory \in [Memory -> Row \cup {NULL}]
    /\ versions \in [Memory -> SUBSET Row]
    /\ derived \subseteq Memory
    /\ shared \subseteq Row \X (0..Months)
    /\ partition \in [1..Months -> {"absent", "open", "secured"}]
    /\ until \in [Grant -> 0..MaxTime \cup {NULL}]
    /\ revoked \subseteq Grant
    /\ time \in 0..MaxTime
    /\ seen \in [Conn -> SUBSET Row]
    /\ refused \subseteq {"seen", "hidden"}

Init ==
    /\ holder = [c \in Conn |-> NULL]
    /\ setting = [c \in Conn |-> NULL]
    /\ since = [c \in Conn |-> 0]
    /\ memory = Stored
    /\ versions = [m \in Memory |-> {memory[m]} \ {NULL}]
    /\ derived = {}
    /\ shared = {}
    /\ partition = [n \in 1..Months |-> "absent"]
    /\ until = [g \in Grant |-> NULL]
    /\ revoked = {}
    /\ time = 0
    /\ seen = [c \in Conn |-> {}]
    /\ refused = {}
-----------------------------------------------------------------------------
(***************************************************************************)
(* The policies.                                                           *)
(***************************************************************************)
Names(s, reader) ==
    \/ reader.kind = "user" /\ reader.id = s.principal
    \/ reader.kind = "project" /\ reader.id \in s.projects
    \/ reader.kind = "organization" /\ reader.id = s.tenant

Reaches(s, g, level) == g.tenant = s.tenant /\ g.level >= level /\ Names(s, g.to)

\* sensitivity_allowed.  now() is the start of the transaction; revoked_at is not
\* asked for.
SensitivityAllowed(c, level) ==
    \/ level <= Internal
    \/ \E g \in Grant : /\ Reaches(setting[c], g, level)
                        /\ until[g] # NULL /\ until[g] > since[c]

InScope(s, row) ==
    /\ row.tenant = s.tenant
    /\ \/ row.kind = "organization"
       \/ row.kind = "project" /\ row.project \in s.projects
       \/ row.kind = "user" /\ row.owner = s.principal

\* memories_read.  Without settings the tenant is NULL, which equals nothing.
MayRead(c, row) ==
    /\ setting[c] # NULL
    /\ InScope(setting[c], row)
    /\ SensitivityAllowed(c, row.level)

\* memories_write: only the current project, never the organization.
MayInsert(c, row) ==
    /\ setting[c] # NULL
    /\ row.tenant = setting[c].tenant
    /\ \/ row.kind = "project" /\ row.project = setting[c].project
       \/ row.kind = "user" /\ row.owner = setting[c].principal

Present == {m \in Memory : memory[m] # NULL}
Visible(c) == {m \in Present : MayRead(c, memory[m])}

\* memory_versions_read.
VersionsRead(c) == Visible(c)

\* emb_read, entity_mentions_read, feedback_read.
DerivedRead(c) == derived \cap Visible(c)

\* {t}_read of the tables with a project, and of every secured partition.
SharedRead(c) ==
    {x \in shared : \/ /\ setting[c] # NULL
                       /\ InScope(setting[c], x[1])
                    \/ x[2] # 0 /\ partition[x[2]] = "open"}

Readable(c) == {memory[m] : m \in Visible(c) \cup VersionsRead(c) \cup DerivedRead(c)}
               \cup {x[1] : x \in SharedRead(c)}
-----------------------------------------------------------------------------
(***************************************************************************)
(* Sessions.                                                               *)
(***************************************************************************)
\* db.scoped takes a connection and sets the scope for this transaction.
Scoped(c, s) ==
    /\ holder[c] = NULL
    /\ holder' = [holder EXCEPT ![c] = s]
    /\ setting' = [setting EXCEPT ![c] = s]
    /\ since' = [since EXCEPT ![c] = time]
    /\ UNCHANGED <<tables, until, revoked, time, seen, refused>>

\* Any select.  On a connection nobody holds it is isolation_selftest's, or one
\* of a handler that opens the engine without a scope.
Read(c) ==
    /\ seen' = [seen EXCEPT ![c] = @ \cup Readable(c)]
    /\ UNCHANGED <<session, tables, until, revoked, time, refused>>

\* Mutant of Ends: set_config(..., false) outlives the transaction.
EndsKeepsSetting(c) ==
    /\ holder' = [holder EXCEPT ![c] = NULL]
    /\ seen' = [seen EXCEPT ![c] = {}]
    /\ since' = [since EXCEPT ![c] = 0]
    /\ UNCHANGED setting

\* Commit or rollback: the settings were local to the transaction.
Ends(c) ==
    /\ holder' = [holder EXCEPT ![c] = NULL]
    /\ setting' = [setting EXCEPT ![c] = NULL]
    /\ seen' = [seen EXCEPT ![c] = {}]
    /\ since' = [since EXCEPT ![c] = 0]

Close(c) ==
    /\ holder[c] # NULL
    /\ Ends(c)
    /\ UNCHANGED <<tables, until, revoked, time, refused>>
-----------------------------------------------------------------------------
(***************************************************************************)
(* Writes.                                                                 *)
(***************************************************************************)
\* scope_key: rows of one scope and key may not be open at once.
ScopeKey(row) ==
    CASE row.kind = "organization" -> row.tenant
      [] row.kind = "project"      -> row.project
      [] row.kind = "user"         -> row.owner

Collides(row, other) ==
    /\ other.open /\ row.open
    /\ <<row.tenant, ScopeKey(row), row.key>>
         = <<other.tenant, ScopeKey(other), other.key>>

NewRow(c, k) ==
    [tenant |-> setting[c].tenant, kind |-> "project",
     project |-> setting[c].project, owner |-> NULL, level |-> Internal,
     key |-> k, open |-> TRUE]

\* write_memory closes the open row it finds under the key, whatever its scope,
\* and inserts; the trigger keeps a snapshot of every row written.
WriteMemory(c, m, k) ==
    /\ holder[c] # NULL
    /\ memory[m] = NULL
    /\ MayInsert(c, NewRow(c, k))
    /\ LET found == {o \in Visible(c) : memory[o].key = k /\ memory[o].open}
       IN  \E prior \in IF found = {} THEN {{}} ELSE {{o} : o \in found} :
             LET closed == [o \in Memory |->
                              IF o \in prior THEN [memory[o] EXCEPT !.open = FALSE]
                              ELSE memory[o]]
                 clash == {o \in Present : Collides(NewRow(c, k), closed[o])}
             IN  IF clash = {}
                 THEN /\ memory' = [closed EXCEPT ![m] = NewRow(c, k)]
                      /\ versions' = [o \in Memory |->
                            IF o \in prior \cup {m} THEN versions[o] \cup {memory'[o]}
                            ELSE versions[o]]
                      /\ UNCHANGED refused
                 ELSE /\ refused' = refused \cup
                            {IF clash \subseteq Visible(c) THEN "seen" ELSE "hidden"}
                      /\ UNCHANGED <<memory, versions>>
    /\ Ends(c)
    /\ UNCHANGED <<derived, shared, partition, until, revoked, time>>

\* emb_write and the like: rows that hang off a memory the session can read.
Derive(c, m) ==
    /\ holder[c] # NULL
    /\ m \in Visible(c)
    /\ derived' = derived \cup {m}
    /\ Ends(c)
    /\ UNCHANGED <<memory, versions, shared, partition, until, revoked, time,
                   refused>>

\* {t}_write: a row of the current project; month n # 0 is a retrieval event,
\* which needs its partition.
Share(c, n) ==
    /\ holder[c] # NULL
    /\ setting[c].project # NULL
    /\ n # 0 => partition[n] # "absent"
    /\ shared' = shared \cup {<<NewRow(c, NULL), n>>}
    /\ Ends(c)
    /\ UNCHANGED <<memory, versions, derived, partition, until, revoked, time,
                   refused>>

\* ensure_retrieval_partitions secures what it creates.
EnsurePartitions(n) ==
    /\ partition[n] = "absent"
    /\ partition' = [partition EXCEPT ![n] = "secured"]
    /\ UNCHANGED <<session, memory, versions, derived, shared, until, revoked,
                   time, seen, refused>>
-----------------------------------------------------------------------------
(***************************************************************************)
(* Operators, with a role of their own: they classify memories and issue   *)
(* grants.  The application's role does neither.                           *)
(***************************************************************************)
Classify(m, level) ==
    /\ m \in Present
    /\ level # memory[m].level
    /\ memory' = [memory EXCEPT ![m].level = level]
    /\ versions' = [versions EXCEPT ![m] = @ \cup {memory'[m]}]
    /\ UNCHANGED <<session, derived, shared, partition, until, revoked, time,
                   seen, refused>>

Issue(g, t) ==
    /\ until[g] = NULL
    /\ until' = [until EXCEPT ![g] = t]
    /\ UNCHANGED <<session, tables, revoked, time, seen, refused>>

Revoke(g) ==
    /\ until[g] # NULL
    /\ revoked' = revoked \cup {g}
    /\ UNCHANGED <<session, tables, until, time, seen, refused>>

Tick ==
    /\ time < MaxTime
    /\ time' = time + 1
    /\ UNCHANGED <<session, tables, until, revoked, seen, refused>>
-----------------------------------------------------------------------------
Next ==
    \/ \E c \in Conn :
         \/ \E s \in Scopes : Scoped(c, s)
         \/ Read(c)
         \/ Close(c)
         \/ \E m \in Memory, k \in Key : WriteMemory(c, m, k)
         \/ \E m \in Memory : Derive(c, m)
         \/ \E n \in 0..Months : Share(c, n)
    \/ \E n \in 1..Months : EnsurePartitions(n)
    \/ \E m \in Memory, level \in Levels : Classify(m, level)
    \/ \E g \in Grant, t \in 1..MaxTime : Issue(g, t)
    \/ \E g \in Grant : Revoke(g)
    \/ Tick

Spec == Init /\ [][Next]_vars
-----------------------------------------------------------------------------
\* A level above internal takes a grant that was issued to the reader.
Cleared(s, level) ==
    \/ level <= Internal
    \/ \E g \in Grant : until[g] # NULL /\ Reaches(s, g, level)

\* What a transaction reads, from any table, belongs to the scope its caller
\* was handed and is cleared for it; a connection nobody holds reads nothing.
\* The pool hands one connection to many callers, and the trigger, the derived
\* tables and the partitions hold copies of what a memory says (db.py:3-7;
\* migrations 0005, 0023, 0029).
ReadsStayInScope ==
    \A c \in Conn : \A row \in seen[c] :
        /\ holder[c] # NULL
        /\ InScope(holder[c], row)
        /\ Cleared(holder[c], row.level)

\* A select returns no row above internal unless a grant that nobody revoked
\* reaches it.  Grants are rows with a revoked_at (01-SCHEMA.sql:107, 109), and
\* the console lists those without (api.py:1193).
RevokedGrantsOpenNothing ==
    [][\A c \in Conn : \A row \in seen'[c] \ seen[c] :
          \/ row.level <= Internal
          \/ \E g \in Grant \ revoked : /\ until[g] # NULL
                                       /\ Reaches(holder[c], g, row.level)]_vars

\* A write is refused only for a row its writer could have found (migration
\* 0013: the domain in which keys are unique is the one its writer sees).  A
\* memory above internal is in the first and not in the second.
CollisionsAreVisible == "hidden" \notin refused
==============================================================================
