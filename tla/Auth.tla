--------------------------------- MODULE Auth ---------------------------------
(***************************************************************************)
(* Bearer verification and scope resolution (auth.py) in one process: the  *)
(* cached key set of the identity provider, shared by the threads under a  *)
(* lock, and the transaction that turns verified claims into a scope.  The *)
(* cache is made by the first token, after a slow discovery that no lock   *)
(* covers: threads that discover side by side make a cache each, and the   *)
(* last one stays.                                                         *)
(*                                                                         *)
(* A token is its key id and the project its claims name; expiry, issuer   *)
(* and audience are checked by the JWT library against the token alone.    *)
(* Fetching happens with the lock held, so a thread's turn under the lock  *)
(* is one action; what it looks up afterwards, without the lock, is not.   *)
(***************************************************************************)
EXTENDS Integers

CONSTANTS
    Thread,
    Kid,            \* ids of signing keys
    Project,        \* projects that exist
    Unknown,        \* a project claim that names none
    TTL,            \* ttl_s, in ticks
    MinRefresh,     \* min_refresh_s, in ticks
    MaxTime,        \* bound: ticks
    MaxRefreshes,   \* bound: fetches for an unknown key id
    MaxDenials,     \* bound: denied scopes
    NULL

AuthAssumption ==
    /\ TTL \in Nat /\ MinRefresh \in Nat \ {0} /\ MaxTime \in Nat
    /\ MaxRefreshes \in Nat /\ MaxDenials \in Nat
    /\ Kid # {} /\ NULL \notin Thread
    /\ Unknown \notin Project

VARIABLES
    clock,
    published,      \* keys the provider publishes now
    lastSeen,       \* history: when each key was last published, or NULL
    reachable,      \* the provider answers
    cache,          \* the _JWKS each thread has made, or NULL
    current,        \* whose _JWKS the module holds
    thread,         \* what each thread is verifying
    audit,          \* mem.audit_log: committed denials
    denials         \* history: scopes denied with 403

cacheVars == <<cache, current>>
vars == <<clock, published, lastSeen, reachable, cache, current, thread,
          audit, denials>>

\* The process starts when its clock reads Start: monotonic() counts from the
\* boot of the machine and _last_attempt begins at 0.
Start == MinRefresh + 1
Time == 0..Start + MaxTime

\* _JWKS; refresh is history: its fetches for an unknown key id, and the
\* last one's time.
Cache == [keys : SUBSET Kid, fetched : Time, lastAttempt : Time,
          refresh : [n : 0..MaxRefreshes, at : Time]]

Verification == [stage : {"idle", "discover", "lookup", "resolve"},
                 kid : Kid \cup {NULL}, now : Time, cache : Thread \cup {NULL}]

TypeOK ==
    /\ clock \in Time
    /\ published \subseteq Kid
    /\ lastSeen \in [Kid -> Time \cup {NULL}]
    /\ reachable \in BOOLEAN
    /\ cache \in [Thread -> Cache \cup {NULL}]
    /\ current \in Thread \cup {NULL}
    /\ thread \in [Thread -> Verification]
    /\ audit \in Nat /\ denials \in Nat

Idle == [stage |-> "idle", kid |-> NULL, now |-> 0, cache |-> NULL]

\* A _JWKS as it is made.
Empty == [keys |-> {}, fetched |-> 0, lastAttempt |-> 0,
          refresh |-> [n |-> 0, at |-> 0]]

Init ==
    /\ clock = Start
    /\ published = {CHOOSE k \in Kid : TRUE}
    /\ lastSeen = [k \in Kid |-> IF k \in published THEN clock ELSE NULL]
    /\ reachable = TRUE
    /\ cache = [th \in Thread |-> NULL] /\ current = NULL
    /\ thread = [th \in Thread |-> Idle]
    /\ audit = 0 /\ denials = 0
-----------------------------------------------------------------------------
Set(th, r) == thread' = [thread EXCEPT ![th] = r]

\* verify_token finds no cache: the provider is asked where its keys are.
Discover(th) ==
    /\ thread[th] = Idle
    /\ current = NULL
    /\ Set(th, [Idle EXCEPT !.stage = "discover"])
    /\ UNCHANGED <<clock, published, lastSeen, reachable, audit, denials,
                   cacheVars>>

\* A _JWKS is kept by the threads that look up in it.
Kept(o) == IF \E u \in Thread : thread[u].cache = o THEN cache[o] ELSE NULL

\* It answers, and the thread's cache becomes the module's, whoever else has
\* put one there by now; or it does not, and the token is refused.
Discovered(th) ==
    /\ thread[th].stage = "discover"
    /\ IF reachable
       THEN /\ cache' = [o \in Thread |-> IF o = th THEN Empty ELSE Kept(o)]
            /\ current' = th
       ELSE UNCHANGED cacheVars
    /\ Set(th, Idle)
    /\ UNCHANGED <<clock, published, lastSeen, reachable, audit, denials>>

\* Mutant of Refreshed: keys the provider dropped are kept.
RefreshedByMerging(old) == old \cup published

\* _fetch replaces the whole set.
Refreshed(old) == published

Stale(c) == c.keys = {} \/ clock - c.fetched > TTL

\* What _fetch needs.
Answers == reachable /\ published # {}

\* key_for: the first thing under the lock is an empty or a stale cache, which
\* is fetched as often as it is asked for.  An unreachable provider, or one that
\* publishes nothing, refuses the token and leaves the cache alone.
StaleFetchFails(th, kid) ==
    /\ thread[th] = Idle
    /\ current # NULL
    /\ Stale(cache[current])
    /\ ~Answers
    /\ UNCHANGED vars

\* An attempt is noted before it is made.
Attempt(last) == clock

\* A cache after key_for(kid), with the lock: as it is or as just fetched, and
\* one more fetch for a key id it does not hold.
Asks(c, kid) ==
    /\ kid \notin (IF Stale(c) THEN Refreshed(c.keys) ELSE c.keys)
    /\ clock - c.lastAttempt > MinRefresh

Looked(c, kid) ==
    LET now == IF Stale(c) THEN Refreshed(c.keys) ELSE c.keys
        asks == Asks(c, kid)
    IN  [keys |-> IF asks /\ Answers THEN Refreshed(now) ELSE now,
         fetched |-> IF Stale(c) \/ (asks /\ Answers) THEN clock ELSE c.fetched,
         lastAttempt |-> IF asks THEN Attempt(c.lastAttempt) ELSE c.lastAttempt,
         refresh |-> IF asks THEN [n |-> c.refresh.n + 1, at |-> clock]
                     ELSE c.refresh]

KeyFor(th, kid) ==
    /\ thread[th] = Idle
    /\ current # NULL
    /\ LET c == cache[current]
       IN  /\ ~Stale(c) \/ Answers
           /\ Asks(c, kid) => c.refresh.n < MaxRefreshes
           /\ cache' = [cache EXCEPT ![current] = Looked(c, kid)]
           /\ IF Asks(c, kid) /\ ~Answers
              THEN UNCHANGED thread
              ELSE Set(th, [stage |-> "lookup", kid |-> kid, now |-> clock,
                            cache |-> current])
    /\ UNCHANGED <<clock, published, lastSeen, reachable, current, audit,
                   denials>>

\* The key is taken from whatever that cache holds by then.
Lookup(th) ==
    /\ thread[th].stage = "lookup"
    /\ Set(th, IF thread[th].kid \in cache[thread[th].cache].keys
               THEN [Idle EXCEPT !.stage = "resolve"] ELSE Idle)
    /\ UNCHANGED <<clock, published, lastSeen, reachable, audit, denials,
                   cacheVars>>

\* resolve_scope finds the project the claims name, and the transaction that
\* provisions the principal commits.
Resolve(th, claim) ==
    /\ thread[th].stage = "resolve"
    /\ claim \in Project
    /\ Set(th, Idle)
    /\ UNCHANGED <<clock, published, lastSeen, reachable, audit, denials,
                   cacheVars>>

\* The rows of audit_log once Forbidden has left the block of the transaction
\* that wrote the denial: the exception rolls back the row, savepoint and all.
AuditAfterRollback == audit

\* resolve_scope finds no project the claims name.
Deny(th, claim) ==
    /\ thread[th].stage = "resolve"
    /\ claim \notin Project
    /\ denials < MaxDenials
    /\ denials' = denials + 1
    /\ audit' = AuditAfterRollback
    /\ Set(th, Idle)
    /\ UNCHANGED <<clock, published, lastSeen, reachable, cacheVars>>
-----------------------------------------------------------------------------
Publish(ks) ==
    /\ published' = ks
    /\ lastSeen' = [k \in Kid |-> IF k \in published \cup ks THEN clock
                                  ELSE lastSeen[k]]
    /\ UNCHANGED <<clock, reachable, thread, audit, denials, cacheVars>>

Outage ==
    /\ reachable' = ~reachable
    /\ UNCHANGED <<clock, published, lastSeen, thread, audit, denials,
                   cacheVars>>

Tick ==
    /\ clock < Start + MaxTime
    /\ clock' = clock + 1
    /\ lastSeen' = [k \in Kid |-> IF k \in published THEN clock + 1
                                  ELSE lastSeen[k]]
    /\ UNCHANGED <<published, reachable, thread, audit, denials, cacheVars>>

Next ==
    \/ \E th \in Thread, kid \in Kid : StaleFetchFails(th, kid) \/ KeyFor(th, kid)
    \/ \E th \in Thread : Discover(th) \/ Discovered(th) \/ Lookup(th)
    \/ \E th \in Thread, claim \in Project \cup {Unknown, NULL} :
            Resolve(th, claim) \/ Deny(th, claim)
    \/ \E ks \in SUBSET Kid : Publish(ks)
    \/ Outage
    \/ Tick
-----------------------------------------------------------------------------
(***************************************************************************)
(* Properties.                                                             *)
(***************************************************************************)
\* A step of th that finds a key, or finds none.
LooksUp(th) == thread[th].stage = "lookup" /\ thread'[th] # thread[th]

\* The key cache forgets what was withdrawn and finds what is published, and
\* does not let tokens call the provider at will:
\*   - a token whose signing key the provider withdrew is refused once the cache
\*     is older than its lifetime, whatever other threads fetch or replace and
\*     however the provider fails;
\*   - a token whose key is published is only refused when that cache fetched
\*     for an unknown key id within min_refresh_s;
\*   - unknown key ids cost the provider one request per min_refresh_s and
\*     cache, whether it answers or not.  A thread that discovers late replaces
\*     the cache, and what it knew of earlier requests.
KeyCacheIsSound ==
    [][\A th \in Thread :
        LET r == thread[th]
            refresh == cache[r.cache].refresh
        IN  /\ LooksUp(th) =>
                IF thread'[th].stage = "resolve"
                THEN r.now - lastSeen[r.kid] <= TTL
                ELSE r.kid \in published /\ r.now = clock =>
                        refresh.n > 0 /\ clock - refresh.at <= MinRefresh
            /\ NULL \notin {cache[th], cache'[th]} /\ cache[th].refresh.n > 0 =>
                \/ cache'[th].refresh = cache[th].refresh
                \/ cache'[th].refresh.at - cache[th].refresh.at > MinRefresh]_vars

\* Every denied scope is in the audit log.
DenialIsAudited == audit >= denials
=============================================================================
