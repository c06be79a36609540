------------------------------ MODULE Admission ------------------------------
(***************************************************************************)
(* Admission control of the write path (limits.py): the in-process fixed   *)
(* window of one API process, and the two counts a write makes inside its  *)
(* transaction, queue depth and storage quota.                             *)
(*                                                                         *)
(* Time is cut into Second ticks per second; the window of the limiter is  *)
(* one second.  Each worker thread of the process runs one request: the    *)
(* limiter is passed under its lock, the counts are statements of a READ   *)
(* COMMITTED transaction whose row other transactions do not see before it *)
(* commits.                                                                *)
(***************************************************************************)
EXTENDS Integers, FiniteSets

CONSTANTS
    Tenant,
    Thread,         \* worker threads of the API process
    Limit,          \* rate_limit_write_rps
    MaxTracked,     \* MAX_TRACKED_KEYS
    Quota,          \* max_memories_per_tenant
    Second,         \* ticks in a second
    MaxTime,        \* bound: ticks
    MaxRequests,    \* bound: requests that reach the limiter
    NULL

AdmissionAssumption ==
    /\ Limit \in Nat \ {0} /\ MaxTracked \in Nat \ {0} /\ Quota \in Nat \ {0}
    /\ Second \in Nat \ {0} /\ MaxTime \in Nat /\ MaxRequests \in Nat
    /\ IsFiniteSet(Tenant) /\ IsFiniteSet(Thread)
    /\ NULL \notin [started : Nat, count : Nat]

Window == Second     \* window_s = 1

VARIABLES
    clock,
    window,     \* _windows: NULL, or when the tenant's window began and its count
    held,       \* committed memories of each tenant
    writing,    \* what each thread is doing
    answers,    \* history: each answer of the limiter, numbered
    forgiven    \* history: tenants whose window was dropped before its end

vars == <<clock, window, held, writing, answers, forgiven>>

Time == 0..MaxTime
Stage == {"idle", "depth", "quota", "insert"}

TypeOK ==
    /\ clock \in Time
    /\ \A t \in Tenant : window[t] # NULL =>
            window[t].started \in Time /\ window[t].count \in Nat
    /\ held \in [Tenant -> Nat]
    /\ writing \in [Thread -> [stage : Stage, tenant : Tenant \cup {NULL}]]
    /\ answers \subseteq [n : Nat, tenant : Tenant, at : Time, wait : Nat]
    /\ forgiven \subseteq Tenant

Idle == [stage |-> "idle", tenant |-> NULL]

Init ==
    /\ clock = 0
    /\ window = [t \in Tenant |-> NULL]
    /\ held = [t \in Tenant |-> 0]
    /\ writing = [th \in Thread |-> Idle]
    /\ answers = {}
    /\ forgiven = {}

Move(th, stage, t) == writing' = [writing EXCEPT ![th] =
                                    [stage |-> stage, tenant |-> t]]

\* Answer the limiter gave: wait = 0 admits, otherwise the Retry-After seconds.
Answer(t, wait) ==
    answers' = answers \cup {[n |-> Cardinality(answers), tenant |-> t,
                              at |-> clock, wait |-> wait]}
-----------------------------------------------------------------------------
Live(t) == window[t] # NULL /\ clock - window[t].started < Window

Arrives(th) == writing[th] = Idle /\ Cardinality(answers) < MaxRequests

Tracked(w) == {t \in Tenant : w[t] # NULL}

\* The windows that go when more than the cap are left after the sweep: the
\* oldest ones.  Among equals any may go.
Capped(w) ==
    {gone \in SUBSET Tracked(w) :
        /\ Cardinality(gone) = Cardinality(Tracked(w)) -
              (IF Cardinality(Tracked(w)) < MaxTracked
               THEN Cardinality(Tracked(w)) ELSE MaxTracked)
        /\ \A t \in gone, u \in Tracked(w) \ gone : w[t].started <= w[u].started}

\* _evict: sweep what expired, then drop the oldest to the cap.
Evicted(w) ==
    LET swept == [t \in Tenant |->
                    IF w[t] # NULL /\ w[t].started < clock - Window
                    THEN NULL ELSE w[t]]
    IN  {[t \in Tenant |-> IF t \in gone THEN NULL ELSE swept[t]] :
            gone \in Capped(swept)}

\* Mutant of Opened: the request that opens the window is not counted.
OpenedAtZero(t) == [window EXCEPT ![t] = [started |-> clock, count |-> 0]]

\* Mutant of Opened: the end of the window is kept in place of its start.
OpenedByDeadline(t) ==
    [window EXCEPT ![t] = [started |-> clock + Window, count |-> 1]]

Opened(t) == [window EXCEPT ![t] = [started |-> clock, count |-> 1]]

\* check: the first request of a window.
OpenWindow(th, t) ==
    /\ Arrives(th)
    /\ ~Live(t)
    /\ LET w == Opened(t)
       IN  \/ Cardinality(Tracked(w)) <= MaxTracked /\ window' = w
           \/ Cardinality(Tracked(w)) > MaxTracked /\ window' \in Evicted(w)
    /\ forgiven' = forgiven \cup
            {u \in Tenant : (u = t \/ Live(u)) /\ window'[u] = NULL}
    /\ Answer(t, 0)
    /\ Move(th, "depth", t)
    /\ UNCHANGED <<clock, held>>

Counted(t) == [window EXCEPT ![t].count = @ + 1]

\* check: a later request within the limit.
Admit(th, t) ==
    /\ Arrives(th)
    /\ Live(t)
    /\ window[t].count + 1 <= Limit
    /\ window' = Counted(t)
    /\ Answer(t, 0)
    /\ Move(th, "depth", t)
    /\ UNCHANGED <<clock, held, forgiven>>

\* Whole seconds: what is left of the window, rounded down, and one more.
RetryAfter(t) == (Window - (clock - window[t].started)) \div Second + 1

\* check: one too many; it is counted all the same.
Refuse(th, t) ==
    /\ Arrives(th)
    /\ Live(t)
    /\ window[t].count + 1 > Limit
    /\ window' = Counted(t)
    /\ Answer(t, RetryAfter(t))
    /\ UNCHANGED <<clock, held, writing, forgiven>>
-----------------------------------------------------------------------------
\* check_backpressure: 503 while the queue is too deep, which is for other
\* processes to say.
CheckDepth(th) ==
    /\ writing[th].stage = "depth"
    /\ \/ Move(th, "idle", NULL)
       \/ Move(th, "quota", writing[th].tenant)
    /\ UNCHANGED <<clock, window, held, answers, forgiven>>

\* Mutant of WithinQuota: a tenant at its quota may write once more.
UpToQuota(t) == held[t] <= Quota

WithinQuota(t) == held[t] < Quota

\* check_quota: a count of the rows that are committed.
CheckQuota(th) ==
    /\ writing[th].stage = "quota"
    /\ IF WithinQuota(writing[th].tenant)
       THEN Move(th, "insert", writing[th].tenant)
       ELSE Move(th, "idle", NULL)
    /\ UNCHANGED <<clock, window, held, answers, forgiven>>

\* The write commits a row, finds its text stored already, or fails.
Insert(th) ==
    /\ writing[th].stage = "insert"
    /\ \/ held' = [held EXCEPT ![writing[th].tenant] = @ + 1]
       \/ UNCHANGED held
    /\ Move(th, "idle", NULL)
    /\ UNCHANGED <<clock, window, answers, forgiven>>

Tick ==
    /\ clock < MaxTime
    /\ clock' = clock + 1
    /\ UNCHANGED <<window, held, writing, answers, forgiven>>

Next ==
    \/ \E th \in Thread, t \in Tenant :
            OpenWindow(th, t) \/ Admit(th, t) \/ Refuse(th, t)
    \/ \E th \in Thread : CheckDepth(th) \/ CheckQuota(th) \/ Insert(th)
    \/ Tick
-----------------------------------------------------------------------------
(***************************************************************************)
(* Properties.                                                             *)
(***************************************************************************)
Admissions(t) == {a \in answers : a.tenant = t /\ a.wait = 0}
Within(as, from) == {a \in as : from <= a.at /\ a.at < from + Window}

\* A fixed window lets through at most twice the limit in any second, however
\* the requests of the threads fall around its boundary, as long as the
\* tenant's window was never dropped; and the map of windows keeps its cap.
BurstIsBounded ==
    /\ Cardinality(Tracked(window)) <= MaxTracked
    /\ \A t \in Tenant \ forgiven, from \in Time :
            Cardinality(Within(Admissions(t), from)) <= 2 * Limit

\* A refused tenant has used its limit in the second before, whatever other
\* tenants sent and whatever was dropped from the map; and once it has waited
\* as it was told, the window that refused it is over.
RefusalIsEarned ==
    \A a \in {b \in answers : b.wait > 0} :
        /\ Cardinality({b \in Admissions(a.tenant) :
                          b.n < a.n /\ b.at > a.at - Window}) >= Limit
        /\ clock >= a.at + a.wait * Second =>
                ~Live(a.tenant) \/ window[a.tenant].started > a.at

\* Both, of the same windows: the limiter neither over-admits nor denies.
WindowIsFair == BurstIsBounded /\ RefusalIsEarned

\* The count and the insert are two statements: concurrent writers may pass the
\* quota, by at most one row each but one.
QuotaOvershootIsBounded ==
    \A t \in Tenant :
        LET pending == {th \in Thread : writing[th] = [stage |-> "insert",
                                                       tenant |-> t]}
        IN  held[t] + Cardinality(pending) <= Quota + Cardinality(Thread) - 1
=============================================================================
