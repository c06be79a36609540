----------------------------- MODULE ServingProofs -----------------------------
(***************************************************************************)
(* For any tenants, threads, tokens, tables and bounds: what one request   *)
(* goes through (Confirmation, Admission, Auth and Retrieval, as Serving   *)
(* puts them side by side).  Access is proved in AccessProofs.             *)
(***************************************************************************)
EXTENDS Serving, AccessProofs, FiniteSetTheorems, FunctionTheorems,
        NaturalsInduction, WellFoundedInduction, TLAPS

-----------------------------------------------------------------------------
(***************************************************************************)
(* Confirmation.                                                           *)
(***************************************************************************)
\* A question's token was signed for the call it asks about, when it was asked.
QuestionsAreSigned ==
    \A q \in questions :
        /\ q.at \in Nat /\ q.at <= minute
        /\ q.token.expires = q.at + AnswerTime
        /\ q.token.mac.of = Confirmation!Canonical(q.call)

AskingInv ==
    /\ minute \in Nat
    /\ QuestionsAreSigned
    /\ confirmed \subseteq {q.token : q \in questions}
    /\ Confirmation!TrustIsAskedFor

LEMMA AnswerTimeIsNat == AnswerTime \in Nat
BY ServingAssumption DEF ServingAssumption, Confirmation!ConfirmationAssumption

LEMMA DispatchInv ==
    ASSUME AskingInv, NEW p \in Replica, NEW c \in Calls,
           NEW token \in Confirmation!Tokens \cup {NULL}, Confirmation!Dispatch(p, c, token)
    PROVE  AskingInv'
<1>1. /\ UNCHANGED <<minute, secret, questions, confirmed>>
      /\ done' = [call |-> c, at |-> minute, by |-> secret[p]] \/ done' = done
  BY DEF Confirmation!Dispatch
<1>2. CASE done' = done
  BY <1>1, <1>2 DEF AskingInv, QuestionsAreSigned, Confirmation!TrustIsAskedFor
<1>3. CASE done' = [call |-> c, at |-> minute, by |-> secret[p]]
  <2>1. done'.call = c /\ done'.at = minute /\ done'.by = secret[p]
    BY <1>3
  <2>2. ASSUME Confirmation!RequiresConfirmation(c)
        PROVE  \E q \in questions :
                  /\ q.token \in confirmed
                  /\ q.call.op = c.op /\ q.call.type = c.type /\ q.call.ref = c.ref
                  /\ q.token.mac.secret = secret[p]
                  /\ q.at <= minute /\ minute <= q.at + AnswerTime
    <3>1. /\ token \in confirmed /\ token.expires >= minute
          /\ token.mac = Confirmation!Signed(p, token.expires, c)
      BY <2>2 DEF Confirmation!Dispatch, Confirmation!Verified
    <3>2. PICK q \in questions : q.token = token
      BY <3>1 DEF AskingInv
    <3>3. token.mac.secret = secret[p] /\ token.mac.of = Confirmation!Canonical(c)
      BY <3>1 DEF Confirmation!Signed
    <3>4. Confirmation!Canonical(q.call) = Confirmation!Canonical(c)
      BY <3>2, <3>3 DEF AskingInv, QuestionsAreSigned
    <3>5. q.call.op = c.op /\ q.call.type = c.type /\ q.call.ref = c.ref
      BY <3>4 DEF Confirmation!Canonical
    <3>6. q.at <= minute /\ minute <= q.at + AnswerTime
      BY <3>1, <3>2, AnswerTimeIsNat DEF AskingInv, QuestionsAreSigned
    <3> QED
      BY <3>1, <3>2, <3>3, <3>5, <3>6
  <2>3. Confirmation!TrustIsAskedFor'
    BY <1>1, <2>1, <2>2 DEF Confirmation!TrustIsAskedFor, Confirmation!RequiresConfirmation
  <2> QED
    BY <1>1, <2>3 DEF AskingInv, QuestionsAreSigned
<1> QED
  BY <1>1, <1>2, <1>3

LEMMA AskFirstInv ==
    ASSUME AskingInv, NEW p \in Replica, NEW c \in Calls,
           NEW token \in Confirmation!Tokens \cup {NULL}, Confirmation!AskFirst(p, c, token)
    PROVE  AskingInv'
<1> DEFINE new == Confirmation!Question(p, c)
<1>1. /\ questions' = questions \cup {new}
      /\ UNCHANGED <<minute, secret, confirmed, done>>
  BY DEF Confirmation!AskFirst
<1>2. /\ new.at = minute /\ new.token.expires = minute + AnswerTime
      /\ new.token.mac.of = Confirmation!Canonical(c) /\ new.call = c
  BY DEF Confirmation!Question, Confirmation!Signed
<1> HIDE DEF new
<1>3. QuestionsAreSigned'
  BY <1>1, <1>2 DEF AskingInv, QuestionsAreSigned
<1>4. Confirmation!TrustIsAskedFor'
  BY <1>1 DEF AskingInv, Confirmation!TrustIsAskedFor
<1> QED
  BY <1>1, <1>3, <1>4 DEF AskingInv

LEMMA AskingRestInv ==
    ASSUME AskingInv,
           \/ \E q \in questions : Confirmation!Confirm(q)
           \/ \E p \in Replica : Confirmation!Restart(p)
           \/ Confirmation!Tick
           \/ UNCHANGED Confirmation!vars
    PROVE  AskingInv'
<1>1. /\ UNCHANGED <<questions, done>>
      /\ confirmed \subseteq confirmed' /\ confirmed' \subseteq {q.token : q \in questions}
  BY DEF AskingInv, Confirmation!Confirm, Confirmation!Restart, Confirmation!Tick,
     Confirmation!vars
<1>2. minute' = minute \/ minute' = minute + 1
  BY DEF Confirmation!Confirm, Confirmation!Restart, Confirmation!Tick, Confirmation!vars
<1>3. QuestionsAreSigned' /\ minute' \in Nat
  BY <1>1, <1>2 DEF AskingInv, QuestionsAreSigned
<1>4. Confirmation!TrustIsAskedFor'
  BY <1>1 DEF AskingInv, Confirmation!TrustIsAskedFor
<1> QED
  BY <1>1, <1>3, <1>4 DEF AskingInv

ConfirmationSpec == Confirmation!Init /\ [][Confirmation!Next]_Confirmation!vars

\* Whatever acted on trust, a person had said yes to that operation, to the
\* process that let it through and in time, whichever tokens clients present to
\* whichever process and however often one restarts.
THEOREM PeopleAreAskedFirst == ConfirmationSpec => []TrustIsAskedFor
<1>1. Confirmation!Init => AskingInv
  BY DEF Confirmation!Init, AskingInv, QuestionsAreSigned, Confirmation!TrustIsAskedFor
<1>2. AskingInv /\ [Confirmation!Next]_Confirmation!vars => AskingInv'
  BY DispatchInv, AskFirstInv, AskingRestInv DEF Confirmation!Next
<1>3. AskingInv => TrustIsAskedFor
  BY DEF AskingInv, TrustIsAskedFor
<1> QED
  BY <1>1, <1>2, <1>3, PTL DEF ConfirmationSpec
-----------------------------------------------------------------------------
(***************************************************************************)
(* Admission: the quota.                                                   *)
(***************************************************************************)
Pending(t) == {th \in Thread : writing[th] = [stage |-> "insert", tenant |-> t]}

QuotaInv ==
    /\ held \in [Tenant -> Nat]
    /\ writing \in [Thread -> [stage : Admission!Stage, tenant : Tenant \cup {NULL}]]
    /\ \A t \in Tenant :
        held[t] + Cardinality(Pending(t)) <= Quota + Cardinality(Thread) - 1

AdmissionSpec == Admission!Init /\ [][Admission!Next]_Admission!vars

LEMMA AdmissionConstants ==
    /\ Limit \in Nat \ {0} /\ MaxTracked \in Nat \ {0} /\ Quota \in Nat \ {0}
    /\ Second \in Nat \ {0} /\ MaxTick \in Nat
    /\ IsFiniteSet(Tenant) /\ IsFiniteSet(Thread)
    /\ NULL \notin [started : Nat, count : Nat]
    /\ \A S : Admission!Cardinality(S) = Cardinality(S)
<1>1. Admission!AdmissionAssumption
  BY ServingAssumption DEF ServingAssumption
<1>2. ASSUME NEW S PROVE Admission!Cardinality(S) = Cardinality(S)
  BY Zenon DEF Admission!Cardinality, Cardinality
<1>3. ASSUME NEW S PROVE Admission!IsFiniteSet(S) => IsFiniteSet(S)
  BY DEF Admission!IsFiniteSet, IsFiniteSet
<1> QED
  BY <1>1, <1>2, <1>3 DEF Admission!AdmissionAssumption

\* A part of a finite set is no larger.
LEMMA PartIsSmaller ==
    ASSUME NEW S, IsFiniteSet(S), NEW T, T \subseteq S
    PROVE  /\ IsFiniteSet(T)
           /\ Cardinality(T) \in Nat /\ Cardinality(S) \in Nat
           /\ Cardinality(T) <= Cardinality(S)
BY FS_Subset, FS_CardinalityType

LEMMA PendingIsFinite ==
    ASSUME NEW t
    PROVE  /\ IsFiniteSet(Pending(t)) /\ Cardinality(Pending(t)) \in Nat
           /\ Cardinality(Thread) \in Nat
           /\ Cardinality(Pending(t)) <= Cardinality(Thread)
BY AdmissionConstants, PartIsSmaller DEF Pending

\* A thread that does not come to insert leaves the quota alone.
LEMMA QuotaIdles ==
    ASSUME QuotaInv, held' = held,
           NEW th \in Thread, NEW r \in [stage : Admission!Stage, tenant : Tenant \cup {NULL}],
           r.stage # "insert", writing' = [writing EXCEPT ![th] = r] \/ writing' = writing
    PROVE  QuotaInv'
<1>1. writing' \in [Thread -> [stage : Admission!Stage, tenant : Tenant \cup {NULL}]]
  BY DEF QuotaInv
<1>2. ASSUME NEW t \in Tenant PROVE Pending(t)' \subseteq Pending(t)
  BY DEF Pending, QuotaInv
<1>3. ASSUME NEW t \in Tenant
      PROVE  /\ Cardinality(Pending(t)') <= Cardinality(Pending(t))
             /\ Cardinality(Pending(t)') \in Nat /\ Cardinality(Pending(t)) \in Nat
  BY <1>2, PendingIsFinite, PartIsSmaller
<1>4. Cardinality(Thread) \in Nat /\ Quota \in Nat
  BY PendingIsFinite, AdmissionConstants
<1> QED
  BY <1>1, <1>3, <1>4 DEF QuotaInv

LEMMA QuotaCheckInv ==
    ASSUME QuotaInv, NEW th \in Thread, Admission!CheckQuota(th)
    PROVE  QuotaInv'
<1> DEFINE u == writing[th].tenant
           r == [stage |-> "insert", tenant |-> u]
<1>1. /\ writing[th].stage = "quota" /\ held' = held
      /\ u \in Tenant \cup {NULL}
      /\ r \in [stage : Admission!Stage, tenant : Tenant \cup {NULL}]
  BY DEF QuotaInv, Admission!CheckQuota, Admission!Stage
<1>2. CASE Admission!WithinQuota(u)
  <2>1. writing' = [writing EXCEPT ![th] = r] /\ held[u] < Quota
    BY <1>2 DEF Admission!CheckQuota, Admission!Move, Admission!WithinQuota
  <2>2. writing' \in [Thread -> [stage : Admission!Stage, tenant : Tenant \cup {NULL}]]
    BY <1>1, <2>1 DEF QuotaInv
  <2>3. ASSUME NEW t \in Tenant
        PROVE  held[t] + Cardinality(Pending(t)') <= Quota + Cardinality(Thread) - 1
    <3>1. CASE t = u
      <4>1. Pending(t)' \subseteq Thread
        BY DEF Pending
      <4>2. Cardinality(Pending(t)') <= Cardinality(Thread)
        BY <4>1, AdmissionConstants, PartIsSmaller
      <4>3. held[t] <= Quota - 1 /\ held[t] \in Nat /\ Quota \in Nat
        BY <2>1, <3>1, AdmissionConstants DEF QuotaInv
      <4>4. Cardinality(Pending(t)') \in Nat /\ Cardinality(Thread) \in Nat
        BY <4>1, AdmissionConstants, PartIsSmaller
      <4> QED
        BY <4>2, <4>3, <4>4
    <3>2. CASE t # u
      <4>1. Pending(t)' \subseteq Pending(t)
        BY <2>1, <3>2 DEF Pending, QuotaInv
      <4>2. /\ Cardinality(Pending(t)') <= Cardinality(Pending(t))
            /\ Cardinality(Pending(t)') \in Nat /\ Cardinality(Pending(t)) \in Nat
        BY <4>1, PendingIsFinite, PartIsSmaller
      <4>3. Cardinality(Thread) \in Nat /\ Quota \in Nat
        BY PendingIsFinite, AdmissionConstants
      <4> QED
        BY <4>2, <4>3 DEF QuotaInv
    <3> QED
      BY <3>1, <3>2
  <2> QED
    BY <1>1, <2>2, <2>3 DEF QuotaInv
<1>3. CASE ~Admission!WithinQuota(u)
  <2>1. writing' = [writing EXCEPT ![th] = [stage |-> "idle", tenant |-> NULL]]
    BY <1>3 DEF Admission!CheckQuota, Admission!Move
  <2>2. [stage |-> "idle", tenant |-> NULL]
            \in [stage : Admission!Stage, tenant : Tenant \cup {NULL}]
    BY DEF Admission!Stage
  <2> QED
    BY <1>1, <2>1, <2>2, QuotaIdles
<1> QED
  BY <1>2, <1>3

LEMMA InsertInv ==
    ASSUME QuotaInv, NEW th \in Thread, Admission!Insert(th)
    PROVE  QuotaInv'
<1> DEFINE u == writing[th].tenant
           idle == [stage |-> "idle", tenant |-> NULL]
<1>1. /\ writing[th].stage = "insert"
      /\ held' = [held EXCEPT ![u] = @ + 1] \/ held' = held
      /\ writing' = [writing EXCEPT ![th] = idle]
      /\ idle \in [stage : Admission!Stage, tenant : Tenant \cup {NULL}]
  BY DEF Admission!Insert, Admission!Move, Admission!Stage
<1>2. writing[th] = [stage |-> "insert", tenant |-> u]
  BY <1>1 DEF QuotaInv
<1>3. CASE held' = held
  BY <1>1, <1>3, QuotaIdles
<1>4. CASE held' = [held EXCEPT ![u] = @ + 1]
  <2>1. /\ held' \in [Tenant -> Nat]
        /\ writing' \in [Thread -> [stage : Admission!Stage, tenant : Tenant \cup {NULL}]]
    <3>1. held' \in [Tenant -> Nat]
      <4>1. held \in [Tenant -> Nat]
        BY DEF QuotaInv
      <4> HIDE DEF u
      <4>2. CASE u \in Tenant
        <5>1. held[u] + 1 \in Nat
          BY <4>1, <4>2
        <5> QED
          BY <1>4, <4>1, <5>1
      <4>3. CASE u \notin Tenant
        BY <1>4, <4>1, <4>3
      <4> QED
        BY <4>2, <4>3
    <3>2. writing' \in [Thread -> [stage : Admission!Stage, tenant : Tenant \cup {NULL}]]
      BY <1>1 DEF QuotaInv
    <3> QED
      BY <3>1, <3>2
  <2>2. ASSUME NEW t \in Tenant
        PROVE  held'[t] + Cardinality(Pending(t)') <= Quota + Cardinality(Thread) - 1
    <3>1. Cardinality(Thread) \in Nat /\ Quota \in Nat /\ held[t] \in Nat
      BY PendingIsFinite, AdmissionConstants DEF QuotaInv
    <3>2. CASE t = u
      <4>1. th \in Pending(t) /\ Pending(t)' = Pending(t) \ {th}
        BY <1>1, <1>2, <3>2 DEF Pending, QuotaInv
      <4>2. /\ Cardinality(Pending(t)') = Cardinality(Pending(t)) - 1
            /\ Cardinality(Pending(t)) \in Nat
        BY <4>1, PendingIsFinite, FS_RemoveElement
      <4>3. held'[t] = held[t] + 1
        BY <1>4, <3>2 DEF QuotaInv
      <4> QED
        BY <3>1, <4>2, <4>3 DEF QuotaInv
    <3>3. CASE t # u
      <4>1. Pending(t)' \subseteq Pending(t) /\ held'[t] = held[t]
        BY <1>1, <1>4, <3>3 DEF Pending, QuotaInv
      <4>2. /\ Cardinality(Pending(t)') <= Cardinality(Pending(t))
            /\ Cardinality(Pending(t)') \in Nat /\ Cardinality(Pending(t)) \in Nat
        BY <4>1, PendingIsFinite, PartIsSmaller
      <4> QED
        BY <3>1, <4>1, <4>2 DEF QuotaInv
    <3> QED
      BY <3>2, <3>3
  <2> QED
    BY <2>1, <2>2 DEF QuotaInv
<1> QED
  BY <1>1, <1>3, <1>4

LEMMA QuotaInvariance == AdmissionSpec => []QuotaInv
<1>1. Admission!Init => QuotaInv
  <2> SUFFICES ASSUME Admission!Init PROVE QuotaInv
    OBVIOUS
  <2>1. /\ held = [t \in Tenant |-> 0]
        /\ writing = [th \in Thread |-> [stage |-> "idle", tenant |-> NULL]]
    BY DEF Admission!Init, Admission!Idle
  <2>2. ASSUME NEW t \in Tenant PROVE Pending(t) = {}
    BY <2>1 DEF Pending
  <2>3. Cardinality({}) = 0 /\ Cardinality(Thread) \in Nat /\ Quota \in Nat \ {0}
    BY FS_EmptySet, PendingIsFinite, AdmissionConstants
  <2>4. ASSUME NEW t \in Tenant
        PROVE  held[t] + Cardinality(Pending(t)) <= Quota + Cardinality(Thread) - 1
    <3>1. Cardinality(Pending(t)) = Cardinality({})
      BY <2>2
    <3>2. held[t] = 0
      BY <2>1
    <3> QED
      BY <2>3, <3>1, <3>2
  <2> QED
    BY <2>1, <2>4 DEF QuotaInv, Admission!Stage
<1>2. ASSUME QuotaInv, NEW th \in Thread, NEW t \in Tenant,
             \/ Admission!OpenWindow(th, t) \/ Admission!Admit(th, t) \/ Admission!Refuse(th, t)
      PROVE  QuotaInv'
  <2>1. [stage |-> "depth", tenant |-> t]
            \in [stage : Admission!Stage, tenant : Tenant \cup {NULL}]
    BY DEF Admission!Stage
  <2>2. /\ held' = held
        /\ \/ writing' = [writing EXCEPT ![th] = [stage |-> "depth", tenant |-> t]]
           \/ writing' = writing
    BY <1>2 DEF Admission!OpenWindow, Admission!Admit, Admission!Refuse, Admission!Move
  <2> QED
    BY <1>2, <2>1, <2>2, QuotaIdles
<1>3. ASSUME QuotaInv, NEW th \in Thread, Admission!CheckDepth(th)
      PROVE  QuotaInv'
  <2>1. PICK r \in [stage : Admission!Stage, tenant : Tenant \cup {NULL}] :
            r.stage # "insert" /\ writing' = [writing EXCEPT ![th] = r]
    <3>1. /\ [stage |-> "idle", tenant |-> NULL]
                \in [stage : Admission!Stage, tenant : Tenant \cup {NULL}]
          /\ [stage |-> "quota", tenant |-> writing[th].tenant]
                \in [stage : Admission!Stage, tenant : Tenant \cup {NULL}]
      BY <1>3 DEF Admission!Stage, QuotaInv
    <3> QED
      BY <1>3, <3>1 DEF Admission!CheckDepth, Admission!Move
  <2>2. held' = held
    BY <1>3 DEF Admission!CheckDepth
  <2> QED
    BY <1>3, <2>1, <2>2, QuotaIdles
<1>4. ASSUME QuotaInv, Admission!Tick \/ UNCHANGED Admission!vars
      PROVE  QuotaInv'
  BY <1>4 DEF Admission!Tick, Admission!vars, QuotaInv, Pending
<1>5. QuotaInv /\ [Admission!Next]_Admission!vars => QuotaInv'
  BY <1>2, <1>3, <1>4, QuotaCheckInv, InsertInv DEF Admission!Next
<1> QED
  BY <1>1, <1>5, PTL DEF AdmissionSpec

\* However many threads count and insert at once, a tenant exceeds its quota by
\* less than their number.
THEOREM OvershootIsBounded == AdmissionSpec => []QuotaOvershootIsBounded
<1>1. QuotaInv => QuotaOvershootIsBounded
  BY AdmissionConstants DEF QuotaInv, QuotaOvershootIsBounded,
     Admission!QuotaOvershootIsBounded, Pending
<1> QED
  BY <1>1, QuotaInvariance, PTL
-----------------------------------------------------------------------------
(***************************************************************************)
(* Admission: the window.  adm is the set of admissions of one tenant, w    *)
(* the window the process has for it.                                      *)
(***************************************************************************)
From(adm, x) == {a \in adm : x <= a.at}
Span(adm, x, y) == {a \in adm : x <= a.at /\ a.at < y}

\* Nothing was admitted now, and no more than the limit in the last second.
Fresh(adm, now) ==
    /\ \A a \in adm : a.at < now
    /\ \A x \in Nat : x + Second > now => Cardinality(From(adm, x)) <= Limit

\* What the window counted was admitted, up to the limit.
Enough(adm, w) ==
    \/ Cardinality(From(adm, w.started)) >= w.count
    \/ Cardinality(From(adm, w.started)) >= Limit

\* What was admitted since the window began was counted, and what was admitted
\* in the second before is within the limit too.
Few(adm, w) ==
    /\ Cardinality(From(adm, w.started)) <= w.count
    /\ Cardinality(From(adm, w.started)) <= Limit
    /\ \A a \in adm : a.at < w.started + Second
    /\ \A x \in Nat : x + Second > w.started => Cardinality(Span(adm, x, w.started)) <= Limit

Bursts(adm) == \A x \in Nat : Cardinality(Span(adm, x, x + Second)) <= 2 * Limit

Timed(adm) == IsFiniteSet(adm) /\ \A a \in adm : a.at \in Nat

LEMMA PartsOf ==
    ASSUME NEW adm, IsFiniteSet(adm), NEW x, NEW y
    PROVE  /\ IsFiniteSet(From(adm, x)) /\ Cardinality(From(adm, x)) \in Nat
           /\ IsFiniteSet(Span(adm, x, y)) /\ Cardinality(Span(adm, x, y)) \in Nat
<1>1. From(adm, x) \subseteq adm /\ Span(adm, x, y) \subseteq adm
  BY DEF From, Span
<1> QED
  BY <1>1, PartIsSmaller

LEMMA OneMore ==
    ASSUME NEW S, IsFiniteSet(S), NEW a, NEW T, T \subseteq S \cup {a}
    PROVE  /\ IsFiniteSet(T) /\ Cardinality(T) \in Nat /\ Cardinality(S) \in Nat
           /\ Cardinality(T) <= Cardinality(S) + 1
<1>1. /\ IsFiniteSet(S \cup {a}) /\ Cardinality(S) \in Nat
      /\ Cardinality(S \cup {a}) <= Cardinality(S) + 1
  BY FS_AddElement, FS_CardinalityType
<1>2. /\ IsFiniteSet(T) /\ Cardinality(T) \in Nat
      /\ Cardinality(T) <= Cardinality(S \cup {a}) /\ Cardinality(S \cup {a}) \in Nat
  BY <1>1, PartIsSmaller
<1> QED
  BY <1>1, <1>2

LEMMA FreshAfterWindow ==
    ASSUME NEW adm, Timed(adm), NEW w \in [started : Nat, count : Nat], Few(adm, w),
           NEW now \in Nat, now >= w.started + Second
    PROVE  Fresh(adm, now)
<1>1. \A a \in adm : a.at < now
  BY AdmissionConstants DEF Few, Timed
<1>2. ASSUME NEW x \in Nat, x + Second > now
      PROVE  Cardinality(From(adm, x)) <= Limit
  <2>1. From(adm, x) \subseteq From(adm, w.started)
    BY <1>2, AdmissionConstants DEF From, Timed
  <2>2. /\ Cardinality(From(adm, x)) <= Cardinality(From(adm, w.started))
        /\ Cardinality(From(adm, x)) \in Nat /\ Cardinality(From(adm, w.started)) \in Nat
    BY <2>1, PartsOf, PartIsSmaller DEF Timed
  <2> QED
    BY <2>2, AdmissionConstants DEF Few
<1> QED
  BY <1>1, <1>2 DEF Fresh

LEMMA FreshLater ==
    ASSUME NEW adm, Timed(adm), NEW now \in Nat, Fresh(adm, now)
    PROVE  Fresh(adm, now + 1)
BY AdmissionConstants DEF Fresh, Timed

\* The first admission of a window.
LEMMA OpeningCounts ==
    ASSUME NEW adm, Timed(adm), NEW now \in Nat, Fresh(adm, now), Bursts(adm),
           NEW a, a.at = now
    PROVE  /\ Few(adm \cup {a}, [started |-> now, count |-> 1])
           /\ Bursts(adm \cup {a})
<1> DEFINE all == adm \cup {a}
           w == [started |-> now, count |-> 1]
<1>1. w.started = now /\ w.count = 1
  OBVIOUS
<1>2. Limit \in Nat \ {0} /\ Second \in Nat \ {0}
  BY AdmissionConstants
<1> HIDE DEF w
<1>3. Cardinality(From(all, now)) <= 1
  <2>1. From(all, now) \subseteq {a}
    BY DEF From, Fresh, Timed
  <2>2. IsFiniteSet({a}) /\ Cardinality({a}) = 1
    BY FS_Singleton
  <2> QED
    BY <2>1, <2>2, PartIsSmaller
<1>4. \A b \in all : b.at < now + Second
  BY <1>2 DEF Fresh, Timed
<1>5. ASSUME NEW x \in Nat, x + Second > now
      PROVE  Cardinality(Span(all, x, now)) <= Limit
  <2>1. Span(all, x, now) \subseteq From(adm, x)
    BY DEF Span, From, Timed
  <2>2. /\ Cardinality(Span(all, x, now)) <= Cardinality(From(adm, x))
        /\ Cardinality(Span(all, x, now)) \in Nat /\ Cardinality(From(adm, x)) \in Nat
    BY <2>1, PartsOf, PartIsSmaller DEF Timed
  <2>3. Cardinality(From(adm, x)) <= Limit
    BY <1>5 DEF Fresh
  <2> QED
    BY <1>2, <2>2, <2>3
<1>6. Cardinality(From(all, now)) \in Nat
  <2>1. IsFiniteSet(all)
    BY FS_AddElement DEF Timed
  <2> QED
    BY <2>1, PartsOf
<1>7. Few(all, w)
  BY <1>1, <1>2, <1>3, <1>4, <1>5, <1>6 DEF Few
<1>8. ASSUME NEW x \in Nat PROVE Cardinality(Span(all, x, x + Second)) <= 2 * Limit
  <2>1. CASE x + Second > now
    <3>1. Span(all, x, x + Second) \subseteq From(adm, x) \cup {a}
      BY DEF Span, From
    <3>2. IsFiniteSet(From(adm, x))
      BY PartsOf DEF Timed
    <3>3. /\ Cardinality(Span(all, x, x + Second)) <= Cardinality(From(adm, x)) + 1
          /\ Cardinality(Span(all, x, x + Second)) \in Nat
          /\ Cardinality(From(adm, x)) \in Nat
      BY <3>1, <3>2, OneMore
    <3>4. Cardinality(From(adm, x)) <= Limit
      BY <2>1 DEF Fresh
    <3> QED
      BY <1>2, <3>3, <3>4
  <2>2. CASE ~(x + Second > now)
    <3>1. Span(all, x, x + Second) = Span(adm, x, x + Second)
      BY <1>2, <2>2 DEF Span
    <3> QED
      BY <3>1 DEF Bursts
  <2> QED
    BY <2>1, <2>2
<1> QED
  BY <1>7, <1>8 DEF Bursts, w

\* A later one within the limit.
LEMMA AdmittingCounts ==
    ASSUME NEW adm, Timed(adm), NEW now \in Nat, NEW s \in Nat, NEW c \in Nat,
           s <= now, now < s + Second, c + 1 <= Limit,
           Few(adm, [started |-> s, count |-> c]), Bursts(adm), \A b \in adm : b.at <= now,
           NEW a, a.at = now
    PROVE  /\ Few(adm \cup {a}, [started |-> s, count |-> c + 1])
           /\ Bursts(adm \cup {a})
<1> DEFINE all == adm \cup {a}
<1>1. Limit \in Nat \ {0} /\ Second \in Nat \ {0}
  BY AdmissionConstants
<1>2. /\ Cardinality(From(adm, s)) <= c
      /\ \A b \in adm : b.at < s + Second
      /\ \A x \in Nat : x + Second > s => Cardinality(Span(adm, x, s)) <= Limit
  BY DEF Few
<1>3. /\ Cardinality(From(all, s)) <= Cardinality(From(adm, s)) + 1
      /\ Cardinality(From(all, s)) \in Nat /\ Cardinality(From(adm, s)) \in Nat
  <2>1. From(all, s) \subseteq From(adm, s) \cup {a}
    BY DEF From
  <2> QED
    BY <2>1, PartsOf, OneMore DEF Timed
<1>4. \A b \in all : b.at < s + Second
  BY <1>2
<1>5. ASSUME NEW x \in Nat, x + Second > s
      PROVE  Cardinality(Span(all, x, s)) <= Limit
  <2>1. Span(all, x, s) = Span(adm, x, s)
    BY DEF Span
  <2> QED
    BY <1>2, <1>5, <2>1
<1>6. Few(all, [started |-> s, count |-> c + 1])
  BY <1>1, <1>2, <1>3, <1>4, <1>5 DEF Few
<1>7. ASSUME NEW x \in Nat PROVE Cardinality(Span(all, x, x + Second)) <= 2 * Limit
  <2>1. CASE x + Second > now
    <3> DEFINE early == Span(adm, x, s)
               recent == From(all, s)
    <3>1. Span(all, x, x + Second) \subseteq early \cup recent
      BY DEF Span, From, Timed
    <3>2. /\ IsFiniteSet(early) /\ Cardinality(early) \in Nat
          /\ IsFiniteSet(recent) /\ Cardinality(recent) \in Nat
      <4>1. IsFiniteSet(all)
        BY FS_AddElement DEF Timed
      <4> QED
        BY <4>1, PartsOf DEF Timed
    <3>3. Cardinality(early) <= Limit
      <4>1. x + Second > s
        BY <1>1, <2>1
      <4> QED
        BY <1>2, <4>1
    <3>4. Cardinality(recent) <= Limit
      BY <1>1, <1>2, <1>3
    <3> HIDE DEF early, recent
    <3>5. /\ IsFiniteSet(early \cup recent)
          /\ Cardinality(early \cup recent)
                = Cardinality(early) + Cardinality(recent) - Cardinality(early \cap recent)
      BY <3>2, FS_Union
    <3>6. Cardinality(early \cap recent) \in Nat
      BY <3>2, PartIsSmaller
    <3>7. /\ Cardinality(Span(all, x, x + Second)) <= Cardinality(early \cup recent)
          /\ Cardinality(Span(all, x, x + Second)) \in Nat
          /\ Cardinality(early \cup recent) \in Nat
      BY <3>1, <3>5, PartIsSmaller
    <3> QED
      BY <1>1, <3>2, <3>3, <3>4, <3>5, <3>6, <3>7
  <2>2. CASE ~(x + Second > now)
    <3>1. Span(all, x, x + Second) = Span(adm, x, x + Second)
      BY <1>1, <2>2 DEF Span
    <3> QED
      BY <3>1 DEF Bursts
  <2> QED
    BY <2>1, <2>2
<1> QED
  BY <1>6, <1>7 DEF Bursts

Answered == [n : Nat, tenant : Tenant, at : 0..MaxTick, wait : Nat]

\* Answers are numbered in the order they were given.
AnswersKept ==
    /\ IsFiniteSet(answers)
    /\ answers \subseteq Answered
    /\ \A a \in answers : a.n < Cardinality(answers) /\ a.at <= second

WindowsKept ==
    /\ DOMAIN window = Tenant
    /\ \A t \in Tenant :
        window[t] # NULL => window[t] \in [started : 0..second, count : Nat]

\* What is known of one tenant's window and its admissions, as long as no
\* window of its was dropped for the second part.
TenantKept(w, adm, now, dropt) ==
    /\ w # NULL => Enough(adm, w)
    /\ ~dropt => /\ w # NULL => Few(adm, w)
                 /\ w = NULL => Fresh(adm, now)
                 /\ Bursts(adm)

\* A refused tenant had used its limit, and its window ends before its wait.
RefusalKept(a, adm, w) ==
    /\ Cardinality({b \in adm : b.n < a.n /\ b.at > a.at - Second}) >= Limit
    /\ w # NULL => w.started > a.at \/ w.started + Second <= a.at + a.wait * Second

LimiterInv ==
    /\ second \in 0..MaxTick
    /\ AnswersKept
    /\ WindowsKept
    /\ Cardinality(Admission!Tracked(window)) <= MaxTracked
    /\ \A t \in Tenant :
        TenantKept(window[t], Admission!Admissions(t), second, t \in forgiven)
    /\ \A a \in answers :
        a.wait > 0 => RefusalKept(a, Admission!Admissions(a.tenant), window[a.tenant])

LEMMA AdmissionsAreTimed ==
    ASSUME AnswersKept, NEW t
    PROVE  Timed(Admission!Admissions(t))
<1>1. Admission!Admissions(t) \subseteq answers
  BY DEF Admission!Admissions
<1>2. \A a \in answers : a.at \in Nat
  BY AdmissionConstants DEF AnswersKept, Answered
<1> QED
  BY <1>1, <1>2, PartIsSmaller DEF AnswersKept, Timed

\* A wait is a second or more.
LEMMA WaitsASecond ==
    ASSUME NEW n \in Nat \ {0}
    PROVE  n * Second \in Nat /\ n * Second >= Second
<1> DEFINE s == Second
<1>1. s \in Nat
  BY AdmissionConstants
<1> HIDE DEF s
<1>2. n * s \in Nat /\ n * s >= s
  BY <1>1
<1> QED
  BY <1>2 DEF s

LEMMA RetryIsPositive ==
    ASSUME NEW t \in Tenant, WindowsKept, second \in Nat, Admission!Live(t)
    PROVE  Admission!RetryAfter(t) \in Nat \ {0}
<1> DEFINE left == Second - (second - window[t].started)
<1>1. /\ window[t].started \in Nat /\ window[t].started <= second
      /\ second - window[t].started < Second
  BY DEF WindowsKept, Admission!Live, Admission!Window
<1>2. left \in Nat /\ Second \in Nat \ {0}
  BY <1>1, AdmissionConstants
<1> HIDE DEF left
<1>3. left \div Second \in Nat
  BY <1>2
<1>4. Admission!RetryAfter(t) = left \div Second + 1
  BY DEF Admission!RetryAfter, Admission!Window, left
<1> QED
  BY <1>3, <1>4

\* What one more answer changes.
LEMMA AnswerAdds ==
    ASSUME LimiterInv, NEW t \in Tenant, NEW wait \in Nat, Admission!Answer(t, wait),
           second' = second
    PROVE  \E new \in Answered :
              /\ answers' = answers \cup {new} /\ new \notin answers
              /\ new.tenant = t /\ new.at = second /\ new.wait = wait
              /\ new.n = Cardinality(answers)
              /\ AnswersKept'
              /\ wait > 0 => \A u \in Tenant :
                                Admission!Admissions(u)' = Admission!Admissions(u)
              /\ wait = 0 =>
                    /\ Admission!Admissions(t)' = Admission!Admissions(t) \cup {new}
                    /\ new \notin Admission!Admissions(t)
                    /\ \A u \in Tenant \ {t} :
                            Admission!Admissions(u)' = Admission!Admissions(u)
<1> DEFINE new == [n |-> Cardinality(answers), tenant |-> t, at |-> second, wait |-> wait]
<1>1. answers' = answers \cup {new}
  BY AdmissionConstants DEF Admission!Answer
<1>2. /\ new.tenant = t /\ new.at = second /\ new.wait = wait
      /\ new.n = Cardinality(answers)
  OBVIOUS
<1>3. Cardinality(answers) \in Nat
  BY FS_CardinalityType DEF LimiterInv, AnswersKept
<1>4. new \in Answered
  BY <1>3 DEF LimiterInv, Answered
<1> HIDE DEF new
<1>5. new \notin answers
  BY <1>2, <1>3 DEF LimiterInv, AnswersKept
<1>6. IsFiniteSet(answers') /\ Cardinality(answers') = Cardinality(answers) + 1
  BY <1>1, <1>5, FS_AddElement DEF LimiterInv, AnswersKept
<1>7. \A a \in answers : a.n \in Nat
  BY DEF LimiterInv, AnswersKept, Answered
<1>8. AnswersKept'
  <2>1. answers' \subseteq Answered
    BY <1>1, <1>4 DEF LimiterInv, AnswersKept
  <2>2. \A a \in answers' : a.n < Cardinality(answers') /\ a.at <= second
    BY <1>1, <1>2, <1>3, <1>6, <1>7 DEF LimiterInv, AnswersKept
  <2>3. Answered' = Answered
    BY DEF Answered
  <2> QED
    BY <1>6, <2>1, <2>2, <2>3 DEF AnswersKept
<1>9. wait > 0 => \A u \in Tenant : Admission!Admissions(u)' = Admission!Admissions(u)
  BY <1>1, <1>2 DEF Admission!Admissions
<1>10. wait = 0 => /\ Admission!Admissions(t)' = Admission!Admissions(t) \cup {new}
                   /\ new \notin Admission!Admissions(t)
                   /\ \A u \in Tenant \ {t} :
                        Admission!Admissions(u)' = Admission!Admissions(u)
  BY <1>1, <1>2, <1>5 DEF Admission!Admissions
<1> QED
  BY <1>1, <1>2, <1>4, <1>5, <1>8, <1>9, <1>10

\* Refusals stay earned when admissions are added and windows opened later.
LEMMA RefusalStays ==
    ASSUME NEW adm, NEW more, Timed(more), adm \subseteq more, NEW a \in Answered, a.wait > 0,
           NEW w, RefusalKept(a, adm, w),
           NEW v, v = NULL \/ v = w \/ (w # NULL /\ v.started = w.started)
                           \/ (v.started \in Nat /\ v.started >= a.at)
    PROVE  RefusalKept(a, more, v)
<1> DEFINE old == {b \in adm : b.n < a.n /\ b.at > a.at - Second}
           all == {b \in more : b.n < a.n /\ b.at > a.at - Second}
<1>1. old \subseteq all /\ all \subseteq more
  OBVIOUS
<1>2. IsFiniteSet(all)
  BY <1>1, PartIsSmaller DEF Timed
<1>3. Cardinality(old) >= Limit
  BY DEF RefusalKept
<1> HIDE DEF old, all
<1>4. Cardinality(all) >= Limit
  BY <1>1, <1>2, <1>3, PartIsSmaller, AdmissionConstants
<1>5. v # NULL => v.started > a.at \/ v.started + Second <= a.at + a.wait * Second
  <2>1. a.at \in Nat /\ a.wait \in Nat \ {0}
    BY DEF Answered
  <2>2. a.wait * Second \in Nat /\ a.wait * Second >= Second
    BY <2>1, WaitsASecond
  <2>3. Second \in Nat
    BY AdmissionConstants
  <2>4. CASE v = w \/ (w # NULL /\ v.started = w.started)
    BY <2>4 DEF RefusalKept
  <2>5. CASE v.started \in Nat /\ v.started >= a.at
    <3>1. CASE v.started > a.at
      BY <3>1
    <3>2. CASE v.started = a.at
      <4> DEFINE long == a.wait * Second
      <4>1. long \in Nat /\ long >= Second
        BY <2>2
      <4> HIDE DEF long
      <4>2. v.started + Second <= a.at + long
        BY <2>1, <2>3, <3>2, <4>1
      <4> QED
        BY <4>2 DEF long
    <3> QED
      BY <2>1, <2>5, <3>1, <3>2
  <2> QED
    BY <2>4, <2>5
<1> QED
  BY <1>4, <1>5 DEF RefusalKept, all

\* Dropping the oldest windows leaves MaxTracked of them.
LEMMA EvictionKeepsTheCap ==
    ASSUME NEW w, NEW new \in Admission!Evicted(w)
    PROVE  /\ Cardinality(Admission!Tracked(new)) <= MaxTracked
           /\ DOMAIN new = Tenant
           /\ \A t \in Tenant : new[t] \in {w[t], NULL}
<1> DEFINE swept == [t \in Tenant |->
                IF w[t] # NULL /\ w[t].started < second - Second THEN NULL ELSE w[t]]
           all == Admission!Tracked(swept)
<1>1. PICK gone \in Admission!Capped(swept) :
        new = [t \in Tenant |-> IF t \in gone THEN NULL ELSE swept[t]]
  BY DEF Admission!Evicted, Admission!Window
<1>2. DOMAIN new = Tenant /\ \A t \in Tenant : new[t] \in {w[t], NULL}
  BY <1>1
<1>3. Admission!Tracked(new) = all \ gone /\ all \subseteq Tenant
  BY <1>1 DEF Admission!Tracked
<1>4. /\ gone \subseteq all
      /\ Cardinality(gone) = Cardinality(all) -
            (IF Cardinality(all) < MaxTracked THEN Cardinality(all) ELSE MaxTracked)
  BY AdmissionConstants DEF Admission!Capped
<1> HIDE DEF swept, all
<1>5. IsFiniteSet(all) /\ Cardinality(all) \in Nat
  BY <1>3, AdmissionConstants, PartIsSmaller
<1>6. Cardinality(all \ gone) = Cardinality(all) - Cardinality(all \cap gone)
  BY <1>5, FS_Difference
<1>7. all \cap gone = gone
  BY <1>4
<1>8. Cardinality(all \ gone) <= MaxTracked
  <2>1. Cardinality(all \ gone) = Cardinality(all) - Cardinality(gone)
    BY <1>6, <1>7
  <2>2. MaxTracked \in Nat
    BY AdmissionConstants
  <2>3. CASE Cardinality(all) < MaxTracked
    <3>1. Cardinality(all \ gone) <= Cardinality(all)
      BY <1>3, <1>5, PartIsSmaller
    <3> QED
      BY <1>5, <2>1, <2>2, <2>3, <3>1, <1>4
  <2>4. CASE ~(Cardinality(all) < MaxTracked)
    <3>1. Cardinality(gone) = Cardinality(all) - MaxTracked
      BY <1>4, <2>4
    <3> QED
      BY <1>5, <2>1, <2>2, <3>1
  <2> QED
    BY <2>3, <2>4
<1> QED
  BY <1>2, <1>3, <1>8

LEMMA OpeningInv ==
    ASSUME LimiterInv, NEW th \in Thread, NEW t \in Tenant, Admission!OpenWindow(th, t)
    PROVE  LimiterInv'
<1> DEFINE opened == [started |-> second, count |-> 1]
           w == [window EXCEPT ![t] = opened]
<1>1. /\ second' = second /\ Admission!Answer(t, 0) /\ ~Admission!Live(t)
      /\ forgiven' = forgiven \cup
            {u \in Tenant : (u = t \/ Admission!Live(u)) /\ window'[u] = NULL}
      /\ \/ Cardinality(Admission!Tracked(w)) <= MaxTracked /\ window' = w
         \/ window' \in Admission!Evicted(w)
  BY AdmissionConstants DEF Admission!OpenWindow, Admission!Opened
<1>2. second \in Nat /\ second \in 0..MaxTick /\ WindowsKept /\ AnswersKept
  BY AdmissionConstants DEF LimiterInv
<1>3. opened.started = second /\ opened.count = 1 /\ opened \in [started : 0..second, count : Nat]
  BY <1>2
<1>4. opened # NULL
  BY <1>2, <1>3, AdmissionConstants
<1> HIDE DEF opened
<1>5. /\ DOMAIN w = Tenant /\ w[t] = opened
      /\ \A u \in Tenant \ {t} : w[u] = window[u]
  BY <1>2 DEF WindowsKept
<1> HIDE DEF w
<1>6. /\ DOMAIN window' = Tenant
      /\ window'[t] \in {opened, NULL}
      /\ \A u \in Tenant \ {t} : window'[u] \in {window[u], NULL}
      /\ Cardinality(Admission!Tracked(window')) <= MaxTracked
  BY <1>1, <1>5, EvictionKeepsTheCap
<1>7. WindowsKept'
  BY <1>1, <1>2, <1>3, <1>6 DEF WindowsKept
<1>8. PICK new \in Answered :
        /\ answers' = answers \cup {new} /\ new \notin answers
        /\ new.tenant = t /\ new.at = second /\ new.wait = 0
        /\ AnswersKept'
        /\ Admission!Admissions(t)' = Admission!Admissions(t) \cup {new}
        /\ new \notin Admission!Admissions(t)
        /\ \A u \in Tenant \ {t} : Admission!Admissions(u)' = Admission!Admissions(u)
  BY <1>1, AnswerAdds
<1>9. ASSUME NEW u \in Tenant, u \notin forgiven, ~Admission!Live(u)
      PROVE  Fresh(Admission!Admissions(u), second) /\ Bursts(Admission!Admissions(u))
  <2>1. TenantKept(window[u], Admission!Admissions(u), second, FALSE)
    BY <1>9 DEF LimiterInv, TenantKept
  <2>2. CASE window[u] = NULL
    BY <2>1, <2>2 DEF TenantKept
  <2>3. CASE window[u] # NULL
    <3>1. /\ window[u] \in [started : Nat, count : Nat] /\ second >= window[u].started + Second
      BY <1>2, <1>9, <2>3, AdmissionConstants DEF WindowsKept, Admission!Live, Admission!Window
    <3>2. Timed(Admission!Admissions(u))
      BY <1>2, AdmissionsAreTimed
    <3> QED
      BY <1>2, <2>1, <2>3, <3>1, <3>2, FreshAfterWindow DEF TenantKept
  <2> QED
    BY <2>2, <2>3
<1>10. ASSUME NEW u \in Tenant
       PROVE  TenantKept(window'[u], Admission!Admissions(u)', second, u \in forgiven')
  <2>1. CASE u = t
    <3>1. Timed(Admission!Admissions(t))
      BY <1>2, AdmissionsAreTimed
    <3>2. window'[u] # NULL => Enough(Admission!Admissions(t) \cup {new}, window'[u])
      <4>1. Timed(Admission!Admissions(t) \cup {new})
        BY <3>1, <1>2, <1>8, FS_AddElement DEF Timed
      <4>2. {new} \subseteq From(Admission!Admissions(t) \cup {new}, second)
        BY <1>2, <1>8 DEF From
      <4>3. IsFiniteSet(From(Admission!Admissions(t) \cup {new}, second))
        BY <4>1, PartsOf DEF Timed
      <4>4. /\ Cardinality({new}) = 1
            /\ Cardinality({new}) <= Cardinality(From(Admission!Admissions(t) \cup {new}, second))
        BY <4>2, <4>3, PartIsSmaller, FS_Singleton
      <4> QED
        BY <1>3, <1>6, <2>1, <4>4 DEF Enough
    <3>3. ASSUME u \notin forgiven'
          PROVE  /\ window'[u] = opened
                 /\ Few(Admission!Admissions(t) \cup {new}, opened)
                 /\ Bursts(Admission!Admissions(t) \cup {new})
      <4>1. window'[u] = opened /\ u \notin forgiven
        BY <1>1, <1>6, <2>1, <3>3
      <4>2. Fresh(Admission!Admissions(t), second) /\ Bursts(Admission!Admissions(t))
        BY <1>1, <1>9, <2>1, <4>1
      <4> QED
        BY <1>2, <1>8, <3>1, <4>1, <4>2, OpeningCounts DEF opened
    <3> QED
      BY <1>4, <1>8, <2>1, <3>2, <3>3 DEF TenantKept
  <2>2. CASE u # t
    <3>1. Admission!Admissions(u)' = Admission!Admissions(u) /\ window'[u] \in {window[u], NULL}
      BY <1>6, <1>8, <2>2
    <3>2. TenantKept(window[u], Admission!Admissions(u), second, u \in forgiven)
      BY DEF LimiterInv
    <3>3. CASE window'[u] = window[u]
      BY <1>1, <3>1, <3>2, <3>3 DEF TenantKept
    <3>4. CASE window'[u] = NULL
      <4>1. u \notin forgiven' => u \notin forgiven /\ ~Admission!Live(u)
        BY <1>1, <3>4
      <4> QED
        BY <1>9, <3>1, <3>4, <4>1 DEF TenantKept
    <3> QED
      BY <3>1, <3>3, <3>4
  <2> QED
    BY <2>1, <2>2
<1>11. ASSUME NEW a \in answers', a.wait > 0
       PROVE  RefusalKept(a, Admission!Admissions(a.tenant)', window'[a.tenant])
  <2>1. a \in answers /\ a \in Answered /\ a.tenant \in Tenant
    BY <1>2, <1>8, <1>11 DEF AnswersKept, Answered
  <2>2. RefusalKept(a, Admission!Admissions(a.tenant), window[a.tenant])
    BY <1>11, <2>1 DEF LimiterInv
  <2>3. Admission!Admissions(a.tenant) \subseteq Admission!Admissions(a.tenant)'
    BY <1>8, <2>1
  <2>4. Timed(Admission!Admissions(a.tenant)')
    <3>1. Timed(Admission!Admissions(a.tenant))
      BY <1>2, AdmissionsAreTimed
    <3> QED
      BY <1>2, <1>8, <2>1, <3>1, FS_AddElement DEF Timed
  <2>5. a.at <= second
    BY <1>2, <2>1 DEF AnswersKept
  <2>6. \/ window'[a.tenant] = NULL \/ window'[a.tenant] = window[a.tenant]
        \/ window'[a.tenant].started \in Nat /\ window'[a.tenant].started >= a.at
    BY <1>2, <1>3, <1>6, <2>1, <2>5
  <2> QED
    BY <1>11, <2>1, <2>2, <2>3, <2>4, <2>6, RefusalStays
<1> QED
  BY <1>1, <1>2, <1>6, <1>7, <1>8, <1>10, <1>11 DEF LimiterInv

LEMMA CountingInv ==
    ASSUME LimiterInv, NEW t \in Tenant, Admission!Live(t),
           window' = [window EXCEPT ![t].count = @ + 1]
    PROVE  LET w == window[t]
               v == [started |-> w.started, count |-> w.count + 1]
           IN  /\ w # NULL /\ w \in [started : 0..second, count : Nat]
               /\ w = [started |-> w.started, count |-> w.count]
               /\ v # NULL /\ v \in [started : 0..second, count : Nat]
               /\ DOMAIN window' = Tenant /\ window'[t] = v
               /\ \A u \in Tenant \ {t} : window'[u] = window[u]
               /\ Admission!Tracked(window') = Admission!Tracked(window)
<1> DEFINE w == window[t]
           v == [started |-> w.started, count |-> w.count + 1]
<1>1. w # NULL /\ w \in [started : 0..second, count : Nat] /\ DOMAIN window = Tenant
  BY DEF LimiterInv, WindowsKept, Admission!Live
<1>2. second \in Nat
  BY AdmissionConstants DEF LimiterInv
<1>3. v \in [started : 0..second, count : Nat] /\ v \in [started : Nat, count : Nat]
  BY <1>1, <1>2
<1>4. v # NULL
  BY <1>3, AdmissionConstants
<1>5. w = [started |-> w.started, count |-> w.count]
  BY <1>1
<1>6. window' = [window EXCEPT ![t] = v]
  <2>1. [w EXCEPT !.count = w.count + 1] = v
    BY <1>1
  <2>2. window' = [window EXCEPT ![t] = [w EXCEPT !.count = w.count + 1]]
    BY <1>1
  <2> QED
    BY <2>1, <2>2
<1> HIDE DEF v
<1>7. /\ DOMAIN window' = Tenant /\ window'[t] = v
      /\ \A u \in Tenant \ {t} : window'[u] = window[u]
  BY <1>1, <1>6
<1>8. Admission!Tracked(window') = Admission!Tracked(window)
  BY <1>1, <1>4, <1>7 DEF Admission!Tracked
<1> QED
  BY <1>1, <1>3, <1>4, <1>5, <1>7, <1>8 DEF v

LEMMA AdmitInv ==
    ASSUME LimiterInv, NEW th \in Thread, NEW t \in Tenant, Admission!Admit(th, t)
    PROVE  LimiterInv'
<1> DEFINE w == window[t]
           v == [started |-> w.started, count |-> w.count + 1]
<1>1. /\ second' = second /\ forgiven' = forgiven /\ Admission!Answer(t, 0)
      /\ Admission!Live(t) /\ w.count + 1 <= Limit
      /\ window' = [window EXCEPT ![t].count = @ + 1]
  BY DEF Admission!Admit, Admission!Counted
<1>2. /\ w # NULL /\ w \in [started : 0..second, count : Nat]
      /\ w = [started |-> w.started, count |-> w.count]
      /\ v # NULL /\ v \in [started : 0..second, count : Nat]
      /\ DOMAIN window' = Tenant /\ window'[t] = v
      /\ \A u \in Tenant \ {t} : window'[u] = window[u]
      /\ Admission!Tracked(window') = Admission!Tracked(window)
  BY <1>1, CountingInv
<1>3. second \in Nat /\ second \in 0..MaxTick /\ WindowsKept /\ AnswersKept
  BY AdmissionConstants DEF LimiterInv
<1>4. /\ v.started = w.started /\ v.count = w.count + 1
      /\ w.started \in Nat /\ w.count \in Nat /\ w.started <= second
      /\ second < w.started + Second
  BY <1>1, <1>2, <1>3, AdmissionConstants DEF Admission!Live, Admission!Window
<1>5. PICK new \in Answered :
        /\ answers' = answers \cup {new} /\ new \notin answers
        /\ new.tenant = t /\ new.at = second /\ new.wait = 0
        /\ AnswersKept'
        /\ Admission!Admissions(t)' = Admission!Admissions(t) \cup {new}
        /\ new \notin Admission!Admissions(t)
        /\ \A u \in Tenant \ {t} : Admission!Admissions(u)' = Admission!Admissions(u)
  BY <1>1, AnswerAdds
<1>6. Timed(Admission!Admissions(t))
  BY <1>3, AdmissionsAreTimed
<1>7. TenantKept(w, Admission!Admissions(t), second, t \in forgiven)
  BY DEF LimiterInv
<1> HIDE DEF w
<1>8. Enough(Admission!Admissions(t) \cup {new}, v)
  <2> DEFINE old == From(Admission!Admissions(t), w.started)
  <2>1. From(Admission!Admissions(t) \cup {new}, w.started) = old \cup {new}
    BY <1>4, <1>5 DEF From
  <2>2. new \notin old /\ IsFiniteSet(old)
    BY <1>5, <1>6, PartsOf DEF From, Timed
  <2>3. Cardinality(old) >= w.count \/ Cardinality(old) >= Limit
    BY <1>2, <1>7 DEF TenantKept, Enough
  <2> HIDE DEF old
  <2>4. Cardinality(old \cup {new}) = Cardinality(old) + 1 /\ Cardinality(old) \in Nat
    BY <2>2, FS_AddElement, FS_CardinalityType
  <2>5. Limit \in Nat
    BY AdmissionConstants
  <2>6. Cardinality(old) + 1 >= w.count + 1 \/ Cardinality(old) + 1 >= Limit
    BY <1>4, <2>3, <2>4, <2>5
  <2>7. Cardinality(From(Admission!Admissions(t) \cup {new}, v.started))
            = Cardinality(old) + 1
    BY <1>4, <2>1, <2>4
  <2> QED
    BY <1>4, <2>6, <2>7 DEF Enough
<1>9. ASSUME t \notin forgiven
      PROVE  /\ Few(Admission!Admissions(t) \cup {new}, v)
             /\ Bursts(Admission!Admissions(t) \cup {new})
  <2>1. /\ Few(Admission!Admissions(t), [started |-> w.started, count |-> w.count])
        /\ Bursts(Admission!Admissions(t))
    BY <1>2, <1>7, <1>9 DEF TenantKept
  <2>2. \A b \in Admission!Admissions(t) : b.at <= second
    BY <1>3 DEF AnswersKept, Admission!Admissions
  <2> QED
    BY <1>1, <1>3, <1>4, <1>5, <1>6, <2>1, <2>2, AdmittingCounts DEF w
<1> HIDE DEF v
<1>10. ASSUME NEW u \in Tenant
       PROVE  TenantKept(window'[u], Admission!Admissions(u)', second, u \in forgiven')
  <2>1. CASE u = t
    BY <1>1, <1>2, <1>5, <1>8, <1>9, <2>1 DEF TenantKept
  <2>2. CASE u # t
    <3>1. Admission!Admissions(u)' = Admission!Admissions(u) /\ window'[u] = window[u]
      BY <1>2, <1>5, <2>2
    <3>2. TenantKept(window[u], Admission!Admissions(u), second, u \in forgiven)
      BY DEF LimiterInv
    <3> QED
      BY <1>1, <3>1, <3>2
  <2> QED
    BY <2>1, <2>2
<1>11. ASSUME NEW a \in answers', a.wait > 0
       PROVE  RefusalKept(a, Admission!Admissions(a.tenant)', window'[a.tenant])
  <2>1. a \in answers /\ a \in Answered /\ a.tenant \in Tenant
    BY <1>3, <1>5, <1>11 DEF AnswersKept, Answered
  <2>2. RefusalKept(a, Admission!Admissions(a.tenant), window[a.tenant])
    BY <1>11, <2>1 DEF LimiterInv
  <2>3. Admission!Admissions(a.tenant) \subseteq Admission!Admissions(a.tenant)'
    BY <1>5, <2>1
  <2>4. Timed(Admission!Admissions(a.tenant)')
    <3>1. Timed(Admission!Admissions(a.tenant))
      BY <1>3, AdmissionsAreTimed
    <3> QED
      BY <1>3, <1>5, <2>1, <3>1, FS_AddElement DEF Timed
  <2>5. \/ window'[a.tenant] = window[a.tenant]
        \/ window[a.tenant] # NULL /\ window'[a.tenant].started = window[a.tenant].started
    BY <1>2, <1>4, <2>1 DEF w
  <2> QED
    BY <1>11, <2>1, <2>2, <2>3, <2>4, <2>5, RefusalStays
<1>12. WindowsKept'
  BY <1>1, <1>2, <1>3 DEF WindowsKept
<1> QED
  BY <1>1, <1>2, <1>3, <1>5, <1>10, <1>11, <1>12 DEF LimiterInv

LEMMA RefuseInv ==
    ASSUME LimiterInv, NEW th \in Thread, NEW t \in Tenant, Admission!Refuse(th, t)
    PROVE  LimiterInv'
<1> DEFINE w == window[t]
           v == [started |-> w.started, count |-> w.count + 1]
           wait == Admission!RetryAfter(t)
<1>1. /\ second' = second /\ forgiven' = forgiven /\ Admission!Answer(t, wait)
      /\ Admission!Live(t) /\ w.count + 1 > Limit
      /\ window' = [window EXCEPT ![t].count = @ + 1]
  BY DEF Admission!Refuse, Admission!Counted
<1>2. /\ w # NULL /\ w \in [started : 0..second, count : Nat]
      /\ v # NULL /\ v \in [started : 0..second, count : Nat]
      /\ DOMAIN window' = Tenant /\ window'[t] = v
      /\ \A u \in Tenant \ {t} : window'[u] = window[u]
      /\ Admission!Tracked(window') = Admission!Tracked(window)
  BY <1>1, CountingInv
<1>3. second \in Nat /\ second \in 0..MaxTick /\ WindowsKept /\ AnswersKept
  BY AdmissionConstants DEF LimiterInv
<1>4. /\ v.started = w.started /\ v.count = w.count + 1
      /\ w.started \in Nat /\ w.count \in Nat /\ w.started <= second
      /\ second < w.started + Second
      /\ Limit \in Nat /\ Second \in Nat \ {0}
  BY <1>1, <1>2, <1>3, AdmissionConstants DEF Admission!Live, Admission!Window
<1>5. wait \in Nat \ {0}
  BY <1>1, <1>3, RetryIsPositive
<1>6. wait \in Nat /\ wait > 0
  BY <1>5
<1>7. TenantKept(w, Admission!Admissions(t), second, t \in forgiven)
  BY DEF LimiterInv
<1> HIDE DEF w, wait
<1>8. PICK new \in Answered :
        /\ answers' = answers \cup {new} /\ new \notin answers
        /\ new.tenant = t /\ new.at = second /\ new.wait = wait
        /\ new.n = Cardinality(answers)
        /\ AnswersKept'
        /\ \A u \in Tenant : Admission!Admissions(u)' = Admission!Admissions(u)
  BY <1>1, <1>6, AnswerAdds
<1>9. TenantKept(v, Admission!Admissions(t), second, t \in forgiven)
  <2>1. Timed(Admission!Admissions(t))
    BY <1>3, AdmissionsAreTimed
  <2>2. Cardinality(From(Admission!Admissions(t), w.started)) \in Nat
    BY <2>1, PartsOf DEF Timed
  <2>3. Enough(Admission!Admissions(t), v)
    BY <1>1, <1>2, <1>4, <1>7, <2>2 DEF TenantKept, Enough, w
  <2>4. t \notin forgiven => Few(Admission!Admissions(t), v) /\ Bursts(Admission!Admissions(t))
    BY <1>2, <1>4, <1>7, <2>2 DEF TenantKept, Few
  <2> QED
    BY <1>2, <2>3, <2>4 DEF TenantKept
<1> HIDE DEF v
<1>10. ASSUME NEW u \in Tenant
       PROVE  TenantKept(window'[u], Admission!Admissions(u)', second, u \in forgiven')
  <2>1. CASE u = t
    BY <1>1, <1>2, <1>8, <1>9, <2>1
  <2>2. CASE u # t
    <3>1. TenantKept(window[u], Admission!Admissions(u), second, u \in forgiven)
      BY DEF LimiterInv
    <3> QED
      BY <1>1, <1>2, <1>8, <2>2, <3>1
  <2> QED
    BY <2>1, <2>2
<1>11. ASSUME NEW a \in answers', a.wait > 0
       PROVE  RefusalKept(a, Admission!Admissions(a.tenant)', window'[a.tenant])
  <2>1. CASE a \in answers
    <3>1. a \in Answered /\ a.tenant \in Tenant
      BY <1>3, <2>1 DEF AnswersKept, Answered
    <3>2. RefusalKept(a, Admission!Admissions(a.tenant), window[a.tenant])
      BY <1>11, <2>1 DEF LimiterInv
    <3>3. Timed(Admission!Admissions(a.tenant)')
      BY <1>3, <1>8, <3>1, AdmissionsAreTimed
    <3>4. \/ window'[a.tenant] = window[a.tenant]
          \/ window[a.tenant] # NULL /\ window'[a.tenant].started = window[a.tenant].started
      BY <1>2, <1>4, <3>1 DEF w
    <3> QED
      BY <1>8, <1>11, <3>1, <3>2, <3>3, <3>4, RefusalStays
  <2>2. CASE a = new
    <3> DEFINE now == From(Admission!Admissions(t), w.started)
               all == {b \in Admission!Admissions(t) : b.n < a.n /\ b.at > a.at - Second}
    <3>1. Timed(Admission!Admissions(t))
      BY <1>3, AdmissionsAreTimed
    <3>2. now \subseteq all /\ all \subseteq Admission!Admissions(t)
      <4>1. \A b \in Admission!Admissions(t) : b.n < Cardinality(answers) /\ b.at \in Nat
        BY <1>3, <3>1 DEF AnswersKept, Admission!Admissions, Timed
      <4> QED
        BY <1>3, <1>4, <1>8, <2>2, <4>1 DEF From
    <3>3. Cardinality(now) >= Limit
      <4>1. Cardinality(now) \in Nat
        BY <3>1, PartsOf DEF Timed
      <4>2. Cardinality(now) >= w.count \/ Cardinality(now) >= Limit
        BY <1>2, <1>7 DEF TenantKept, Enough
      <4> HIDE DEF now
      <4> QED
        BY <1>1, <1>4, <4>1, <4>2 DEF w
    <3> HIDE DEF now, all
    <3>4. IsFiniteSet(all)
      BY <3>1, <3>2, PartIsSmaller DEF Timed
    <3>5. Cardinality(all) >= Limit
      BY <1>4, <3>2, <3>3, <3>4, PartIsSmaller
    <3>6. v.started + Second <= a.at + a.wait * Second
      <4>1. wait * Second \in Nat /\ wait * Second >= Second
        BY <1>5, WaitsASecond
      <4> DEFINE long == wait * Second
      <4>2. long \in Nat /\ long >= Second
        BY <4>1
      <4> HIDE DEF long
      <4>3. v.started + Second <= second + long
        BY <1>3, <1>4, <4>2
      <4> QED
        BY <1>8, <2>2, <4>3 DEF long
    <3>7. a.tenant = t
      BY <1>8, <2>2
    <3> QED
      BY <1>2, <1>8, <3>5, <3>6, <3>7 DEF RefusalKept, all
  <2> QED
    BY <1>8, <2>1, <2>2
<1>12. WindowsKept'
  BY <1>1, <1>2, <1>3 DEF WindowsKept
<1> QED
  BY <1>1, <1>2, <1>3, <1>8, <1>10, <1>11, <1>12 DEF LimiterInv

\* Steps that leave the limiter alone, but for the time.
LEMMA LimiterRests ==
    ASSUME LimiterInv, UNCHANGED <<window, answers, forgiven>>,
           second' = second \/ (second < MaxTick /\ second' = second + 1)
    PROVE  LimiterInv'
<1>1. /\ second \in Nat /\ MaxTick \in Nat /\ second' \in 0..MaxTick /\ second <= second'
      /\ AnswersKept /\ WindowsKept
  BY AdmissionConstants DEF LimiterInv
<1>2. \A u \in Tenant : Admission!Admissions(u)' = Admission!Admissions(u)
  BY DEF Admission!Admissions
<1>3. AnswersKept'
  <2>1. \A a \in answers : a.at \in Nat
    BY <1>1 DEF AnswersKept, Answered
  <2>2. Answered' = Answered
    BY DEF Answered
  <2> QED
    BY <1>1, <2>1, <2>2 DEF AnswersKept
<1>4. WindowsKept'
  BY <1>1 DEF WindowsKept
<1>5. ASSUME NEW u \in Tenant
      PROVE  TenantKept(window[u], Admission!Admissions(u), second', u \in forgiven)
  <2>1. TenantKept(window[u], Admission!Admissions(u), second, u \in forgiven)
    BY DEF LimiterInv
  <2>2. Fresh(Admission!Admissions(u), second) => Fresh(Admission!Admissions(u), second')
    <3>1. Timed(Admission!Admissions(u))
      BY <1>1, AdmissionsAreTimed
    <3> QED
      BY <1>1, <3>1, FreshLater
  <2> QED
    BY <2>1, <2>2 DEF TenantKept
<1>6. \A a \in answers :
        a.wait > 0 => RefusalKept(a, Admission!Admissions(a.tenant)', window'[a.tenant])
  <2>1. \A a \in answers : a.tenant \in Tenant
    BY <1>1 DEF AnswersKept, Answered
  <2> QED
    BY <1>2, <2>1 DEF LimiterInv
<1>7. Cardinality(Admission!Tracked(window')) <= MaxTracked
  BY DEF LimiterInv
<1> QED
  BY <1>1, <1>2, <1>3, <1>4, <1>5, <1>6, <1>7 DEF LimiterInv

LEMMA LimiterInvariance == AdmissionSpec => []LimiterInv
<1>1. Admission!Init => LimiterInv
  <2> SUFFICES ASSUME Admission!Init PROVE LimiterInv
    OBVIOUS
  <2>1. /\ second = 0 /\ window = [t \in Tenant |-> NULL] /\ answers = {} /\ forgiven = {}
    BY DEF Admission!Init
  <2>2. Admission!Tracked(window) = {}
    BY <2>1 DEF Admission!Tracked
  <2>3. IsFiniteSet({}) /\ Cardinality({}) = 0
    BY FS_EmptySet
  <2>4. ASSUME NEW t \in Tenant
        PROVE  TenantKept(window[t], Admission!Admissions(t), second, t \in forgiven)
    <3>1. Admission!Admissions(t) = {} /\ window[t] = NULL
      BY <2>1 DEF Admission!Admissions
    <3>2. \A x, y \in Int : From({}, x) = {} /\ Span({}, x, y) = {}
      BY DEF From, Span
    <3>3. Limit \in Nat /\ Second \in Nat /\ 0 <= Limit /\ 0 <= 2 * Limit
      BY AdmissionConstants
    <3>4. Fresh({}, 0)
      <4>1. ASSUME NEW x \in Nat PROVE Cardinality(From({}, x)) <= Limit
        <5>1. From({}, x) = {}
          BY <3>2
        <5> QED
          BY <2>3, <3>3, <5>1
      <4> QED
        BY <4>1 DEF Fresh
    <3>5. Bursts({})
      <4>1. ASSUME NEW x \in Nat PROVE Cardinality(Span({}, x, x + Second)) <= 2 * Limit
        <5>1. Span({}, x, x + Second) = {}
          BY <3>2, <3>3
        <5> QED
          BY <2>3, <3>3, <5>1
      <4> QED
        BY <4>1 DEF Bursts
    <3> QED
      BY <2>1, <3>1, <3>4, <3>5 DEF TenantKept
  <2>5. AnswersKept /\ WindowsKept /\ second \in 0..MaxTick
    BY <2>1, <2>3, AdmissionConstants DEF AnswersKept, WindowsKept
  <2>6. Cardinality(Admission!Tracked(window)) <= MaxTracked
    <3>1. MaxTracked \in Nat
      BY AdmissionConstants
    <3> QED
      BY <2>2, <2>3, <3>1
  <2> QED
    BY <2>1, <2>4, <2>5, <2>6 DEF LimiterInv
<1>2. ASSUME LimiterInv,
             \/ \E th \in Thread : \/ Admission!CheckDepth(th) \/ Admission!CheckQuota(th)
                                   \/ Admission!Insert(th)
             \/ Admission!Tick
             \/ UNCHANGED Admission!vars
      PROVE  LimiterInv'
  <2>1. /\ UNCHANGED <<window, answers, forgiven>>
        /\ second' = second \/ (second < MaxTick /\ second' = second + 1)
    BY <1>2 DEF Admission!CheckDepth, Admission!CheckQuota, Admission!Insert, Admission!Tick,
       Admission!vars
  <2> QED
    BY <1>2, <2>1, LimiterRests
<1>3. LimiterInv /\ [Admission!Next]_Admission!vars => LimiterInv'
  BY <1>2, OpeningInv, AdmitInv, RefuseInv DEF Admission!Next
<1> QED
  BY <1>1, <1>3, PTL DEF AdmissionSpec

\* For any tenants, threads, limits and caps: no second sees more than twice the
\* limit of a tenant whose windows all ran to their end, the map keeps its cap,
\* a refused tenant had used its limit within the second, and its wait outlasts
\* the window that refused it.
THEOREM TheLimiterIsFair == AdmissionSpec => []WindowIsFair
<1>1. LimiterInv => WindowIsFair
  <2> SUFFICES ASSUME LimiterInv
               PROVE  Admission!BurstIsBounded /\ Admission!RefusalIsEarned
    BY DEF WindowIsFair, Admission!WindowIsFair
  <2>1. Admission!BurstIsBounded
    <3>1. ASSUME NEW t \in Tenant \ forgiven, NEW x \in Admission!Time
          PROVE  Cardinality(Admission!Within(Admission!Admissions(t), x)) <= 2 * Limit
      <4>1. TenantKept(window[t], Admission!Admissions(t), second, FALSE) /\ x \in Nat
        BY AdmissionConstants DEF LimiterInv, TenantKept, Admission!Time
      <4>2. Admission!Within(Admission!Admissions(t), x)
                = Span(Admission!Admissions(t), x, x + Second)
        BY DEF Admission!Within, Admission!Window, Span
      <4> QED
        BY <4>1, <4>2 DEF TenantKept, Bursts
    <3> QED
      BY <3>1, AdmissionConstants DEF LimiterInv, Admission!BurstIsBounded
  <2>2. Admission!RefusalIsEarned
    <3> SUFFICES ASSUME NEW a \in answers, a.wait > 0
                 PROVE  /\ Cardinality({b \in Admission!Admissions(a.tenant) :
                              b.n < a.n /\ b.at > a.at - Second}) >= Limit
                        /\ second >= a.at + a.wait * Second =>
                              ~Admission!Live(a.tenant) \/ window[a.tenant].started > a.at
      BY AdmissionConstants DEF Admission!RefusalIsEarned, Admission!Window
    <3>1. RefusalKept(a, Admission!Admissions(a.tenant), window[a.tenant])
      BY DEF LimiterInv
    <3>2. ASSUME second >= a.at + a.wait * Second, Admission!Live(a.tenant),
                 ~(window[a.tenant].started > a.at)
          PROVE  FALSE
      <4> DEFINE long == a.wait * Second
                 began == window[a.tenant].started
      <4>1. a \in Answered /\ a.tenant \in Tenant /\ a.wait \in Nat \ {0} /\ a.at \in Nat
        BY DEF LimiterInv, AnswersKept, Answered
      <4>2. /\ began \in Nat /\ began + Second <= a.at + long
            /\ second - began < Second
        BY <3>1, <3>2, <4>1 DEF RefusalKept, Admission!Live, Admission!Window, LimiterInv,
           WindowsKept
      <4>3. long \in Nat /\ second \in Nat /\ Second \in Nat
        BY <4>1, WaitsASecond, AdmissionConstants DEF LimiterInv
      <4>4. second >= a.at + long
        BY <3>2
      <4> HIDE DEF long, began
      <4> QED
        BY <4>1, <4>2, <4>3, <4>4
    <3> QED
      BY <3>1, <3>2 DEF RefusalKept
  <2> QED
    BY <2>1, <2>2
<1> QED
  BY <1>1, LimiterInvariance, PTL

\* Every reachable state of admission control has its types.
THEOREM AdmissionTypeCorrect == AdmissionSpec => []Admission!TypeOK
<1>1. ASSUME LimiterInv, QuotaInv, forgiven \subseteq Tenant PROVE Admission!TypeOK
  <2>1. second \in 0..MaxTick /\ MaxTick \in Nat
    BY <1>1, AdmissionConstants DEF LimiterInv
  <2>2. ASSUME NEW t \in Tenant, window[t] # NULL
        PROVE  window[t].started \in 0..MaxTick /\ window[t].count \in Nat
    BY <1>1, <2>1, <2>2 DEF LimiterInv, WindowsKept
  <2>3. answers \subseteq [n : Nat, tenant : Tenant, at : 0..MaxTick, wait : Nat]
    BY <1>1 DEF LimiterInv, AnswersKept, Answered
  <2> QED
    BY <1>1, <2>1, <2>2, <2>3 DEF QuotaInv, Admission!TypeOK, Admission!Time
<1>2. Admission!Init => forgiven \subseteq Tenant
  BY DEF Admission!Init
<1>3. forgiven \subseteq Tenant /\ [Admission!Next]_Admission!vars => (forgiven \subseteq Tenant)'
  BY DEF Admission!Next, Admission!OpenWindow, Admission!Admit, Admission!Refuse,
     Admission!CheckDepth, Admission!CheckQuota, Admission!Insert, Admission!Tick, Admission!vars
<1> QED
  BY <1>1, <1>2, <1>3, LimiterInvariance, QuotaInvariance, PTL DEF AdmissionSpec
-----------------------------------------------------------------------------
(***************************************************************************)
(* Authentication.                                                         *)
(***************************************************************************)
AuthSpec == Auth!Init /\ [][Auth!Next]_Auth!vars

\* What a cache holds was published when it was fetched or has been since, and
\* its last attempt is the last fetch for an unknown key id.
CacheIsTrue(c, now, seen_) ==
    /\ c.keys \subseteq Kid
    /\ c.fetched \in Nat /\ c.fetched <= now
    /\ c.lastAttempt \in Nat /\ c.refresh.n \in Nat
    /\ IF c.refresh.n = 0 THEN c.lastAttempt = 0 ELSE c.refresh.at = c.lastAttempt
    /\ \A k \in c.keys : seen_[k] \in Nat /\ c.fetched <= seen_[k]

\* What a thread that is about to look a key up can count on: the cache was
\* fresh when it had the lock, and if that is now, the key is in it or was
\* fetched for a moment ago.
LooksInFresh(r, c, now) ==
    /\ r.now \in Nat /\ r.now <= now /\ r.now - c.fetched <= CacheTime
    /\ r.now = now => \/ r.kid \in c.keys
                      \/ c.refresh.n > 0 /\ now - c.refresh.at <= MinRefresh

UsedCache(o) == o = current \/ \E u \in Thread : thread[u].cache = o

PublishedIsSeen ==
    /\ clock \in Nat /\ clock > MinRefresh
    /\ published \subseteq Kid
    /\ DOMAIN lastSeen = Kid
    /\ \A k \in published : lastSeen[k] = clock

CachesAreTrue ==
    /\ DOMAIN cache = Thread
    /\ current \in Thread \cup {NULL}
    /\ \A o \in Thread : UsedCache(o) => CacheIsTrue(cache[o], clock, lastSeen)

ThreadsLookInFresh ==
    /\ DOMAIN thread = Thread
    /\ \A u \in Thread : thread[u].stage = "lookup" =>
            thread[u].cache \in Thread /\ LooksInFresh(thread[u], cache[thread[u].cache], clock)

\* Only a thread without a cache discovers one, and only while there is none.
DiscoverersHaveNone ==
    /\ current = NULL => \A u \in Thread : cache[u] = NULL /\ thread[u].cache = NULL
    /\ \A u \in Thread : thread[u].stage = "discover" =>
            cache[u] = NULL /\ ~UsedCache(u)

AuthInv ==
    /\ PublishedIsSeen /\ CachesAreTrue /\ ThreadsLookInFresh /\ DiscoverersHaveNone

LEMMA AuthConstants ==
    /\ CacheTime \in Nat /\ MinRefresh \in Nat \ {0} /\ Kid # {} /\ NULL \notin Thread
BY ServingAssumption DEF ServingAssumption, Auth!AuthAssumption

LEMMA AuthInit == Auth!Init => AuthInv
<1> SUFFICES ASSUME Auth!Init PROVE AuthInv
  OBVIOUS
<1> USE AuthConstants
<1>1. PublishedIsSeen
  BY DEF Auth!Init, Auth!Start, PublishedIsSeen
<1>2. current = NULL /\ \A u \in Thread : thread[u].cache = NULL /\ thread[u].stage = "idle"
  BY DEF Auth!Init, Auth!Idle
<1>3. \A o \in Thread : ~UsedCache(o)
  BY <1>2 DEF UsedCache
<1>4. CachesAreTrue /\ ThreadsLookInFresh /\ DiscoverersHaveNone
  BY <1>2, <1>3 DEF Auth!Init, CachesAreTrue, ThreadsLookInFresh, DiscoverersHaveNone
<1> QED
  BY <1>1, <1>4 DEF AuthInv

\* What a thread does next when it neither discovers, looks up nor has a cache.
LEMMA MovingOn ==
    ASSUME AuthInv, NEW th \in Thread, NEW r, thread' = [thread EXCEPT ![th] = r],
           r.cache = NULL, r.stage \notin {"discover", "lookup"},
           UNCHANGED <<clock, published, lastSeen, cache, current>>
    PROVE  AuthInv'
<1> USE AuthConstants
<1>1. /\ DOMAIN thread' = Thread /\ thread'[th] = r
      /\ \A u \in Thread \ {th} : thread'[u] = thread[u]
  BY DEF AuthInv, ThreadsLookInFresh
<1>2. \A o \in Thread : UsedCache(o)' => UsedCache(o)
  BY <1>1 DEF UsedCache
<1>3. PublishedIsSeen'
  BY DEF AuthInv, PublishedIsSeen
<1>4. CachesAreTrue'
  BY <1>2 DEF AuthInv, CachesAreTrue
<1>5. ThreadsLookInFresh'
  BY <1>1 DEF AuthInv, ThreadsLookInFresh
<1>6. DiscoverersHaveNone'
  BY <1>1, <1>2 DEF AuthInv, DiscoverersHaveNone
<1> QED
  BY <1>3, <1>4, <1>5, <1>6 DEF AuthInv

LEMMA DiscoverInv ==
    ASSUME AuthInv, NEW th \in Thread, Auth!Discover(th)
    PROVE  AuthInv'
<1> USE AuthConstants
<1>1. /\ current = NULL /\ UNCHANGED <<clock, published, lastSeen, cache, current>>
      /\ \A u \in Thread : cache[u] = NULL /\ thread[u].cache = NULL
  BY DEF Auth!Discover, Auth!cacheVars, AuthInv, DiscoverersHaveNone
<1>2. /\ DOMAIN thread' = Thread
      /\ thread'[th].stage = "discover" /\ thread'[th].cache = NULL
      /\ \A u \in Thread \ {th} : thread'[u] = thread[u]
  BY DEF Auth!Discover, Auth!Set, Auth!Idle, AuthInv, ThreadsLookInFresh
<1>3. \A o \in Thread : ~UsedCache(o)'
  BY <1>1, <1>2 DEF UsedCache
<1>4. PublishedIsSeen'
  BY <1>1 DEF AuthInv, PublishedIsSeen
<1>5. CachesAreTrue'
  BY <1>1, <1>3 DEF AuthInv, CachesAreTrue
<1>6. ThreadsLookInFresh'
  BY <1>1, <1>2 DEF AuthInv, ThreadsLookInFresh
<1>7. DiscoverersHaveNone'
  BY <1>1, <1>2, <1>3 DEF DiscoverersHaveNone
<1> QED
  BY <1>4, <1>5, <1>6, <1>7 DEF AuthInv

\* A cache as it is made is nobody's but its maker's.
LEMMA DiscoveredInv ==
    ASSUME AuthInv, NEW th \in Thread, Auth!Discovered(th)
    PROVE  AuthInv'
<1> USE AuthConstants
<1>1. /\ thread[th].stage = "discover"
      /\ thread' = [thread EXCEPT ![th] = Auth!Idle]
      /\ UNCHANGED <<clock, published, lastSeen>>
  BY DEF Auth!Discovered, Auth!Set
<1>2. Auth!Idle.cache = NULL /\ Auth!Idle.stage = "idle"
  BY DEF Auth!Idle
<1>3. CASE ~reachable
  BY <1>1, <1>2, <1>3, MovingOn DEF Auth!Discovered, Auth!cacheVars
<1>4. CASE reachable
  <2>1. /\ DOMAIN thread' = Thread
        /\ thread'[th].stage = "idle" /\ thread'[th].cache = NULL
        /\ \A u \in Thread \ {th} : thread'[u] = thread[u]
    BY <1>1, <1>2 DEF AuthInv, ThreadsLookInFresh
  <2>2. /\ current' = th /\ DOMAIN cache' = Thread /\ cache'[th] = Auth!Empty
        /\ \A o \in Thread \ {th} : cache'[o] = Auth!Kept(o)
    BY <1>4 DEF Auth!Discovered
  <2>3. \A u \in Thread : thread[u].cache # th
    BY <1>1 DEF AuthInv, DiscoverersHaveNone, UsedCache
  <2>4. \A o \in Thread \ {th} : UsedCache(o)' =>
            cache'[o] = cache[o] /\ UsedCache(o)
    <3> SUFFICES ASSUME NEW o \in Thread \ {th}, UsedCache(o)'
                 PROVE  cache'[o] = cache[o] /\ UsedCache(o)
      OBVIOUS
    <3>1. PICK u \in Thread : thread'[u].cache = o
      BY <2>2 DEF UsedCache
    <3>2. thread[u].cache = o
      BY <2>1, <3>1
    <3>3. Auth!Kept(o) = cache[o]
      BY <3>2 DEF Auth!Kept
    <3> QED
      BY <2>2, <3>2, <3>3 DEF UsedCache
  <2>5. PublishedIsSeen'
    BY <1>1 DEF AuthInv, PublishedIsSeen
  <2>6. CacheIsTrue(Auth!Empty, clock, lastSeen)
    BY DEF CacheIsTrue, Auth!Empty, AuthInv, PublishedIsSeen
  <2>7. CachesAreTrue'
    BY <1>1, <2>2, <2>4, <2>6 DEF AuthInv, CachesAreTrue
  <2>8. ThreadsLookInFresh'
    <3> SUFFICES ASSUME NEW u \in Thread, thread'[u].stage = "lookup"
                 PROVE  /\ thread'[u].cache \in Thread
                        /\ LooksInFresh(thread'[u], cache'[thread'[u].cache], clock')
      BY <2>1 DEF ThreadsLookInFresh
    <3>1. /\ thread'[u] = thread[u] /\ thread[u].cache \in Thread \ {th}
          /\ LooksInFresh(thread[u], cache[thread[u].cache], clock)
      BY <2>1, <2>3 DEF AuthInv, ThreadsLookInFresh
    <3>2. UsedCache(thread[u].cache)'
      BY <3>1 DEF UsedCache
    <3> QED
      BY <1>1, <2>4, <3>1, <3>2
  <2>9. DiscoverersHaveNone'
    <3>1. ASSUME NEW u \in Thread, thread'[u].stage = "discover"
          PROVE  cache'[u] = NULL /\ ~UsedCache(u)'
      <4>1. /\ u # th /\ cache[u] = NULL /\ ~UsedCache(u)
        BY <2>1, <3>1 DEF AuthInv, DiscoverersHaveNone
      <4> QED
        BY <2>2, <2>4, <4>1 DEF Auth!Kept
    <3> QED
      BY <2>2, <3>1 DEF DiscoverersHaveNone
  <2> QED
    BY <2>5, <2>7, <2>8, <2>9 DEF AuthInv
<1> QED
  BY <1>3, <1>4

\* A cache after a thread's turn under the lock.
LEMMA LookedIsTrue ==
    ASSUME AuthInv, NEW c, CacheIsTrue(c, clock, lastSeen), NEW kid
    PROVE  /\ CacheIsTrue(Auth!Looked(c, kid), clock, lastSeen)
           /\ \/ Auth!Looked(c, kid).refresh = c.refresh
              \/ /\ Auth!Looked(c, kid).refresh.n > 0
                 /\ Auth!Looked(c, kid).refresh.at = clock
                 /\ clock - c.lastAttempt > MinRefresh
           /\ clock - Auth!Looked(c, kid).fetched <= CacheTime
           /\ Auth!Looked(c, kid).fetched >= c.fetched
<1> USE AuthConstants
<1> DEFINE stale == Auth!Stale(c)
           asks == Auth!Asks(c, kid)
           now == IF stale THEN published ELSE c.keys
           new == Auth!Looked(c, kid)
<1>1. /\ new.keys = IF asks /\ Auth!Answers THEN published ELSE now
      /\ new.fetched = IF stale \/ (asks /\ Auth!Answers) THEN clock ELSE c.fetched
      /\ new.lastAttempt = IF asks THEN clock ELSE c.lastAttempt
      /\ new.refresh = IF asks THEN [n |-> c.refresh.n + 1, at |-> clock] ELSE c.refresh
  BY DEF Auth!Looked, Auth!Refreshed, Auth!Attempt
<1>2. /\ ~stale => clock - c.fetched <= CacheTime
      /\ asks => clock - c.lastAttempt > MinRefresh
  BY DEF Auth!Stale, Auth!Asks, CacheIsTrue, AuthInv, PublishedIsSeen
<1> HIDE DEF stale, asks, new
<1>3. /\ asks => new.refresh.n = c.refresh.n + 1 /\ new.refresh.at = clock
      /\ ~asks => new.refresh = c.refresh
  BY <1>1
<1>4. /\ clock \in Nat /\ published \subseteq Kid
      /\ \A k \in published : lastSeen[k] = clock
  BY DEF AuthInv, PublishedIsSeen
<1>5. \/ new.keys = published /\ new.fetched = clock
      \/ new.keys = c.keys /\ new.fetched = c.fetched
  BY <1>1
<1>6. CacheIsTrue(new, clock, lastSeen)
  BY <1>1, <1>3, <1>4, <1>5 DEF CacheIsTrue
<1>7. clock - new.fetched <= CacheTime /\ new.fetched >= c.fetched
  BY <1>1, <1>2, <1>4 DEF CacheIsTrue
<1>8. \/ new.refresh = c.refresh
      \/ new.refresh.n > 0 /\ new.refresh.at = clock /\ clock - c.lastAttempt > MinRefresh
  BY <1>2, <1>3 DEF CacheIsTrue
<1> QED
  BY <1>6, <1>7, <1>8 DEF new

\* Who counted on the cache still can after another thread's turn.
LEMMA LookedIsFresh ==
    ASSUME AuthInv, NEW c, CacheIsTrue(c, clock, lastSeen), NEW kid,
           NEW r, LooksInFresh(r, c, clock)
    PROVE  LooksInFresh(r, Auth!Looked(c, kid), clock)
<1> USE AuthConstants
<1> DEFINE new == Auth!Looked(c, kid)
<1>1. /\ CacheIsTrue(new, clock, lastSeen) /\ new.fetched >= c.fetched
      /\ \/ new.refresh = c.refresh
         \/ new.refresh.n > 0 /\ new.refresh.at = clock
  BY LookedIsTrue
<1>2. clock \in Nat
  BY DEF AuthInv, PublishedIsSeen
<1>3. r.now \in Nat /\ r.now <= clock /\ r.now - new.fetched <= CacheTime
  BY <1>1, <1>2 DEF LooksInFresh, CacheIsTrue
<1>4. ASSUME r.now = clock
      PROVE  \/ r.kid \in new.keys
             \/ new.refresh.n > 0 /\ clock - new.refresh.at <= MinRefresh
  <2>1. CASE new.refresh.n > 0 /\ new.refresh.at = clock
    BY <1>2, <2>1
  <2>2. CASE new.refresh = c.refresh
    <3>1. CASE c.refresh.n > 0 /\ clock - c.refresh.at <= MinRefresh
      BY <2>2, <3>1
    <3>2. CASE r.kid \in c.keys
      <4>1. ~Auth!Stale(c)
        BY <1>2, <1>4, <3>2 DEF LooksInFresh, CacheIsTrue, Auth!Stale
      <4>2. Auth!Asks(c, kid) => new.refresh.n = c.refresh.n + 1
        BY DEF Auth!Looked
      <4>3. ~Auth!Asks(c, kid)
        BY <2>2, <4>2 DEF CacheIsTrue
      <4>4. new.keys = c.keys
        BY <4>1, <4>3 DEF Auth!Looked
      <4> QED
        BY <3>2, <4>4
    <3> QED
      BY <1>4, <3>1, <3>2 DEF LooksInFresh
  <2> QED
    BY <1>1, <2>1, <2>2
<1> QED
  BY <1>3, <1>4 DEF LooksInFresh

\* A thread whose turn ends with a lookup to come finds its key or has just
\* fetched for it: only a recent attempt keeps it from asking.
LEMMA TurnIsFresh ==
    ASSUME AuthInv, NEW c, CacheIsTrue(c, clock, lastSeen), NEW kid,
           ~(Auth!Asks(c, kid) /\ ~Auth!Answers),
           NEW o, NEW r, r = [stage |-> "lookup", kid |-> kid, now |-> clock, cache |-> o]
    PROVE  LooksInFresh(r, Auth!Looked(c, kid), clock)
<1> USE AuthConstants
<1> DEFINE new == Auth!Looked(c, kid)
           now == IF Auth!Stale(c) THEN Auth!Refreshed(c.keys) ELSE c.keys
<1>1. /\ CacheIsTrue(new, clock, lastSeen) /\ clock - new.fetched <= CacheTime
      /\ clock \in Nat /\ clock > MinRefresh
  BY LookedIsTrue DEF AuthInv, PublishedIsSeen
<1>2. CASE Auth!Asks(c, kid)
  <2>1. new.refresh.n = c.refresh.n + 1 /\ new.refresh.at = clock
    BY <1>2 DEF Auth!Looked
  <2> QED
    BY <1>1, <2>1 DEF LooksInFresh, CacheIsTrue
<1>3. CASE ~Auth!Asks(c, kid)
  <2>1. new.keys = now /\ new.refresh = c.refresh
    BY <1>3 DEF Auth!Looked
  <2>2. kid \in now \/ clock - c.lastAttempt <= MinRefresh
    BY <1>1, <1>3 DEF Auth!Asks, CacheIsTrue
  <2>3. clock - c.lastAttempt <= MinRefresh =>
            c.refresh.n > 0 /\ clock - c.refresh.at <= MinRefresh
    BY <1>1 DEF CacheIsTrue
  <2> QED
    BY <1>1, <2>1, <2>2, <2>3 DEF LooksInFresh
<1> QED
  BY <1>2, <1>3

LEMMA KeyForInv ==
    ASSUME AuthInv, NEW th \in Thread, NEW kid \in Kid, Auth!KeyFor(th, kid)
    PROVE  AuthInv'
<1> USE AuthConstants
<1> DEFINE c == cache[current]
           new == Auth!Looked(c, kid)
           r == [stage |-> "lookup", kid |-> kid, now |-> clock, cache |-> current]
<1>1. /\ current \in Thread /\ current' = current
      /\ cache' = [cache EXCEPT ![current] = new]
      /\ \/ thread' = thread
         \/ thread' = [thread EXCEPT ![th] = r] /\ ~(Auth!Asks(c, kid) /\ ~Auth!Answers)
      /\ UNCHANGED <<clock, published, lastSeen>>
  BY DEF Auth!KeyFor, Auth!Set, AuthInv, CachesAreTrue
<1>2. CacheIsTrue(c, clock, lastSeen)
  BY <1>1 DEF AuthInv, CachesAreTrue, UsedCache
<1>3. CacheIsTrue(new, clock, lastSeen)
  BY <1>2, LookedIsTrue
<1>4. /\ DOMAIN cache' = Thread /\ cache'[current] = new
      /\ \A o \in Thread \ {current} : cache'[o] = cache[o]
  BY <1>1 DEF AuthInv, CachesAreTrue
<1>5. /\ DOMAIN thread' = Thread
      /\ \A u \in Thread : thread'[u] # thread[u] =>
            thread'[u] = r /\ ~(Auth!Asks(c, kid) /\ ~Auth!Answers)
  BY <1>1 DEF AuthInv, ThreadsLookInFresh
<1>6. r.stage = "lookup" /\ r.cache = current
  OBVIOUS
<1>7. \A u \in Thread : LooksInFresh(thread[u], c, clock) => LooksInFresh(thread[u], new, clock)
  BY <1>2, LookedIsFresh
<1>8. ~(Auth!Asks(c, kid) /\ ~Auth!Answers) => LooksInFresh(r, new, clock)
  BY <1>2, TurnIsFresh
<1> HIDE DEF c, new, r
<1>9. \A o \in Thread : UsedCache(o)' => UsedCache(o)
  BY <1>1, <1>5, <1>6 DEF UsedCache
<1>10. PublishedIsSeen'
  BY <1>1 DEF AuthInv, PublishedIsSeen
<1>11. CachesAreTrue'
  BY <1>1, <1>3, <1>4, <1>9 DEF AuthInv, CachesAreTrue
<1>12. ThreadsLookInFresh'
  <2> SUFFICES ASSUME NEW u \in Thread, thread'[u].stage = "lookup"
               PROVE  /\ thread'[u].cache \in Thread
                      /\ LooksInFresh(thread'[u], cache'[thread'[u].cache], clock')
    BY <1>5 DEF ThreadsLookInFresh
  <2>1. CASE thread'[u] # thread[u]
    BY <1>1, <1>4, <1>5, <1>6, <1>8, <2>1
  <2>2. CASE thread'[u] = thread[u]
    <3>1. /\ thread[u].cache \in Thread
          /\ LooksInFresh(thread[u], cache[thread[u].cache], clock)
      BY <2>2 DEF AuthInv, ThreadsLookInFresh
    <3>2. CASE thread[u].cache = current
      BY <1>1, <1>4, <1>7, <2>2, <3>1, <3>2 DEF c
    <3>3. CASE thread[u].cache # current
      BY <1>1, <1>4, <2>2, <3>1, <3>3
    <3> QED
      BY <3>2, <3>3
  <2> QED
    BY <2>1, <2>2
<1>13. DiscoverersHaveNone'
  <2> SUFFICES ASSUME NEW u \in Thread, thread'[u].stage = "discover"
               PROVE  cache'[u] = NULL /\ ~UsedCache(u)'
    BY <1>1 DEF DiscoverersHaveNone
  <2>1. cache[u] = NULL /\ ~UsedCache(u)
    BY <1>5, <1>6 DEF AuthInv, DiscoverersHaveNone
  <2> QED
    BY <1>1, <1>4, <1>9, <2>1 DEF UsedCache
<1> QED
  BY <1>10, <1>11, <1>12, <1>13 DEF AuthInv

LEMMA ProviderInv ==
    ASSUME AuthInv,
           UNCHANGED <<thread, cache, current>>, published' \subseteq Kid, DOMAIN lastSeen' = Kid,
           clock' \in {clock, clock + 1}, \A k \in published' : lastSeen'[k] = clock',
           \A k \in Kid : lastSeen'[k] = clock' \/ lastSeen'[k] = lastSeen[k]
    PROVE  AuthInv'
<1> USE AuthConstants
<1>1. clock \in Nat /\ clock' \in Nat /\ clock' >= clock /\ clock > MinRefresh
  BY DEF AuthInv, PublishedIsSeen
<1>2. PublishedIsSeen'
  BY <1>1 DEF PublishedIsSeen
<1>3. \A o \in Thread : UsedCache(o)' <=> UsedCache(o)
  BY DEF UsedCache
<1>4. ASSUME NEW c, CacheIsTrue(c, clock, lastSeen)
      PROVE  CacheIsTrue(c, clock', lastSeen')
  BY <1>1, <1>4 DEF CacheIsTrue
<1>5. CachesAreTrue'
  BY <1>3, <1>4 DEF AuthInv, CachesAreTrue
<1>6. ASSUME NEW r, NEW c, LooksInFresh(r, c, clock)
      PROVE  LooksInFresh(r, c, clock')
  BY <1>1, <1>6 DEF LooksInFresh
<1>7. ThreadsLookInFresh'
  BY <1>6 DEF AuthInv, ThreadsLookInFresh
<1>8. DiscoverersHaveNone'
  BY <1>3 DEF AuthInv, DiscoverersHaveNone
<1> QED
  BY <1>2, <1>5, <1>7, <1>8 DEF AuthInv

LEMMA AuthNext == AuthInv /\ [Auth!Next]_Auth!vars => AuthInv'
<1> SUFFICES ASSUME AuthInv, [Auth!Next]_Auth!vars PROVE AuthInv'
  OBVIOUS
<1> USE AuthConstants
<1>0. ASSUME UNCHANGED Auth!vars
      PROVE  AuthInv'
  BY <1>0 DEF Auth!vars, AuthInv, PublishedIsSeen, CachesAreTrue, ThreadsLookInFresh,
     DiscoverersHaveNone, UsedCache
<1>1. ASSUME NEW th \in Thread, NEW kid \in Kid,
             Auth!StaleFetchFails(th, kid) \/ Auth!KeyFor(th, kid)
      PROVE  AuthInv'
  BY <1>0, <1>1, KeyForInv DEF Auth!StaleFetchFails
<1>2. ASSUME NEW th \in Thread,
             Auth!Discover(th) \/ Auth!Discovered(th) \/ Auth!Lookup(th)
      PROVE  AuthInv'
  <2>1. CASE Auth!Lookup(th)
    <3> DEFINE r == IF thread[th].kid \in cache[thread[th].cache].keys
                    THEN [Auth!Idle EXCEPT !.stage = "resolve"] ELSE Auth!Idle
    <3>1. /\ thread' = [thread EXCEPT ![th] = r]
          /\ r.cache = NULL /\ r.stage \in {"idle", "resolve"}
      BY <2>1 DEF Auth!Lookup, Auth!Set, Auth!Idle
    <3> HIDE DEF r
    <3>2. UNCHANGED <<clock, published, lastSeen, cache, current>>
      BY <2>1 DEF Auth!Lookup, Auth!cacheVars
    <3> QED
      BY <3>1, <3>2, MovingOn
  <2> QED
    BY <1>2, <2>1, DiscoverInv, DiscoveredInv
<1>3. ASSUME NEW th \in Thread, NEW claim,
             Auth!Resolve(th, claim) \/ Auth!Deny(th, claim)
      PROVE  AuthInv'
  <2>1. /\ thread' = [thread EXCEPT ![th] = Auth!Idle]
        /\ UNCHANGED <<clock, published, lastSeen, cache, current>>
    BY <1>3 DEF Auth!Resolve, Auth!Deny, Auth!Set, Auth!cacheVars
  <2>2. Auth!Idle.cache = NULL /\ Auth!Idle.stage = "idle"
    BY DEF Auth!Idle
  <2> QED
    BY <2>1, <2>2, MovingOn
<1>4. ASSUME NEW ks \in SUBSET Kid, Auth!Publish(ks)
      PROVE  AuthInv'
  <2>1. /\ published' = ks /\ clock' = clock
        /\ lastSeen' = [k \in Kid |-> IF k \in published \cup ks THEN clock ELSE lastSeen[k]]
        /\ UNCHANGED <<thread, cache, current>>
    BY <1>4 DEF Auth!Publish, Auth!cacheVars
  <2> QED
    BY <2>1, ProviderInv
<1>5. ASSUME Auth!Outage
      PROVE  AuthInv'
  <2>1. UNCHANGED <<clock, published, lastSeen, thread, cache, current>>
    BY <1>5 DEF Auth!Outage, Auth!cacheVars
  <2> QED
    BY <2>1, ProviderInv DEF AuthInv, PublishedIsSeen
<1>6. ASSUME Auth!Tick
      PROVE  AuthInv'
  <2>1. /\ clock' = clock + 1 /\ published' = published
        /\ lastSeen' = [k \in Kid |-> IF k \in published THEN clock + 1 ELSE lastSeen[k]]
        /\ UNCHANGED <<thread, cache, current>>
    BY <1>6 DEF Auth!Tick, Auth!cacheVars
  <2>2. published \subseteq Kid
    BY DEF AuthInv, PublishedIsSeen
  <2> QED
    BY <2>1, <2>2, ProviderInv
<1> QED
  BY <1>0, <1>1, <1>2, <1>3, <1>4, <1>5, <1>6 DEF Auth!Next

LEMMA AuthInvariance == AuthSpec => []AuthInv
BY AuthInit, AuthNext, PTL DEF AuthSpec

\* A lookup finds what the cache saw published no longer ago than its lifetime,
\* and misses a published key only after a recent fetch for an unknown one.
LEMMA LookupIsSound ==
    ASSUME AuthInv, [Auth!Next]_Auth!vars, NEW th \in Thread,
           thread[th].stage = "lookup", thread'[th] # thread[th]
    PROVE  IF thread'[th].stage = "resolve"
           THEN thread[th].now - lastSeen[thread[th].kid] <= CacheTime
           ELSE thread[th].kid \in published /\ thread[th].now = clock =>
                  /\ cache[thread[th].cache].refresh.n > 0
                  /\ clock - cache[thread[th].cache].refresh.at <= MinRefresh
<1> USE AuthConstants
<1> DEFINE r == thread[th]
           c == cache[r.cache]
<1>1. /\ r.cache \in Thread /\ LooksInFresh(r, c, clock)
      /\ DOMAIN thread = Thread /\ clock \in Nat
  BY DEF AuthInv, ThreadsLookInFresh, PublishedIsSeen
<1>2. CacheIsTrue(c, clock, lastSeen)
  BY <1>1 DEF AuthInv, CachesAreTrue, UsedCache
<1>3. ASSUME NEW u \in Thread, NEW s, thread' = [thread EXCEPT ![u] = s]
      PROVE  u = th
  BY <1>1, <1>3
<1>4. Auth!Idle.stage = "idle" /\ r # Auth!Idle
  BY DEF Auth!Idle
<1>5. Auth!Lookup(th)
  <2>1. ASSUME NEW u \in Thread, NEW kid \in Kid,
               Auth!StaleFetchFails(u, kid) \/ Auth!KeyFor(u, kid)
        PROVE  FALSE
    BY <1>3, <1>4, <2>1 DEF Auth!StaleFetchFails, Auth!KeyFor, Auth!Set, Auth!vars
  <2>2. ASSUME NEW u \in Thread,
               Auth!Discover(u) \/ Auth!Discovered(u) \/ Auth!Lookup(u)
        PROVE  Auth!Lookup(th)
    BY <1>3, <1>4, <2>2 DEF Auth!Discover, Auth!Discovered, Auth!Lookup, Auth!Set
  <2>3. ASSUME NEW u \in Thread, NEW claim, Auth!Resolve(u, claim) \/ Auth!Deny(u, claim)
        PROVE  FALSE
    BY <1>3, <2>3 DEF Auth!Resolve, Auth!Deny, Auth!Set
  <2>4. ~(\E ks \in SUBSET Kid : Auth!Publish(ks)) /\ ~Auth!Outage /\ ~Auth!Tick
    BY DEF Auth!Publish, Auth!Outage, Auth!Tick
  <2>5. ~UNCHANGED Auth!vars
    BY DEF Auth!vars
  <2> QED
    BY <2>1, <2>2, <2>3, <2>4, <2>5 DEF Auth!Next
<1>6. /\ r.kid \in c.keys => thread'[th].stage = "resolve"
      /\ r.kid \notin c.keys => thread'[th].stage = "idle"
  BY <1>1, <1>5 DEF Auth!Lookup, Auth!Set, Auth!Idle
<1>7. CASE r.kid \in c.keys
  <2>1. lastSeen[r.kid] \in Nat /\ c.fetched <= lastSeen[r.kid] /\ c.fetched \in Nat
    BY <1>2, <1>7 DEF CacheIsTrue
  <2>2. r.now \in Nat /\ r.now - c.fetched <= CacheTime
    BY <1>1 DEF LooksInFresh
  <2> QED
    BY <1>6, <1>7, <2>1, <2>2
<1>8. CASE r.kid \notin c.keys
  BY <1>1, <1>6, <1>8 DEF LooksInFresh
<1> QED
  BY <1>7, <1>8

\* Fetches for unknown key ids are at least the refresh interval apart.
LEMMA RefreshesAreApart ==
    ASSUME AuthInv, [Auth!Next]_Auth!vars, NEW th \in Thread,
           NULL \notin {cache[th], cache'[th]}, cache[th].refresh.n > 0
    PROVE  \/ cache'[th].refresh = cache[th].refresh
           \/ cache'[th].refresh.at - cache[th].refresh.at > MinRefresh
<1> USE AuthConstants
<1>1. CASE cache' = cache
  BY <1>1
<1>2. ASSUME NEW u \in Thread, Auth!Discovered(u), cache' # cache
      PROVE  cache'[th] = cache[th]
  <2>1. /\ thread[u].stage = "discover"
        /\ cache' = [o \in Thread |-> IF o = u THEN Auth!Empty ELSE Auth!Kept(o)]
    BY <1>2 DEF Auth!Discovered, Auth!cacheVars
  <2>2. u # th
    BY <2>1 DEF AuthInv, DiscoverersHaveNone
  <2> QED
    BY <2>1, <2>2 DEF Auth!Kept
<1>3. ASSUME NEW u \in Thread, NEW kid \in Kid, Auth!KeyFor(u, kid)
      PROVE  \/ cache'[th].refresh = cache[th].refresh
             \/ cache'[th].refresh.at - cache[th].refresh.at > MinRefresh
  <2>1. /\ current \in Thread /\ DOMAIN cache = Thread
        /\ cache' = [cache EXCEPT ![current] = Auth!Looked(cache[current], kid)]
    BY <1>3 DEF Auth!KeyFor, AuthInv, CachesAreTrue
  <2>2. CASE th # current
    BY <2>1, <2>2
  <2>3. CASE th = current
    <3>1. CacheIsTrue(cache[th], clock, lastSeen)
      BY <2>1, <2>3 DEF AuthInv, CachesAreTrue, UsedCache
    <3>2. cache'[th] = Auth!Looked(cache[th], kid)
      BY <2>1, <2>3
    <3>3. \/ cache'[th].refresh = cache[th].refresh
          \/ /\ cache'[th].refresh.at = clock
             /\ clock - cache[th].lastAttempt > MinRefresh
      BY <3>1, <3>2, LookedIsTrue
    <3>4. cache[th].refresh.at = cache[th].lastAttempt
      BY <3>1 DEF CacheIsTrue
    <3> QED
      BY <3>3, <3>4
  <2> QED
    BY <2>2, <2>3
<1>4. CASE cache' # cache
  <2>1. \/ \E u \in Thread, kid \in Kid : Auth!KeyFor(u, kid)
        \/ \E u \in Thread : Auth!Discovered(u)
    BY <1>4 DEF Auth!Next, Auth!vars, Auth!cacheVars, Auth!StaleFetchFails, Auth!Discover,
       Auth!Lookup, Auth!Resolve, Auth!Deny, Auth!Publish, Auth!Outage, Auth!Tick
  <2> QED
    BY <1>2, <1>3, <1>4, <2>1
<1> QED
  BY <1>1, <1>4

\* A token whose key the provider withdrew is refused once the cache is older
\* than its lifetime, one whose key is published is refused only soon after a
\* fetch for an unknown key, and unknown keys cost one fetch per interval,
\* however threads take their turns and the provider fails.
THEOREM KeysAreSound == AuthSpec => KeyCacheIsSound
<1> DEFINE Sound ==
        \A th \in Thread :
            LET r == thread[th]
                refresh == cache[r.cache].refresh
            IN  /\ Auth!LooksUp(th) =>
                    IF thread'[th].stage = "resolve"
                    THEN r.now - lastSeen[r.kid] <= CacheTime
                    ELSE r.kid \in published /\ r.now = clock =>
                            refresh.n > 0 /\ clock - refresh.at <= MinRefresh
                /\ NULL \notin {cache[th], cache'[th]} /\ cache[th].refresh.n > 0 =>
                    \/ cache'[th].refresh = cache[th].refresh
                    \/ cache'[th].refresh.at - cache[th].refresh.at > MinRefresh
<1>1. AuthInv /\ [Auth!Next]_Auth!vars => Sound
  <2> SUFFICES ASSUME AuthInv, [Auth!Next]_Auth!vars PROVE Sound
    OBVIOUS
  <2> QED
    BY LookupIsSound, RefreshesAreApart DEF Auth!LooksUp
<1>2. AuthSpec => [][Sound]_Auth!vars
  BY <1>1, AuthInvariance, PTL DEF AuthSpec
<1> QED
  BY <1>2 DEF KeyCacheIsSound, Auth!KeyCacheIsSound
-----------------------------------------------------------------------------
(***************************************************************************)
(* Retrieval: a ranking is the one order of its candidates.                *)
(***************************************************************************)
RetrievalSpec == Retrieval!Init /\ [][Retrieval!Next]_Retrieval!vars

LEMMA RetrievalConstants ==
    /\ Tables \subseteq [Known -> Retrieval!Row \cup {NULL}]
    /\ IsFiniteSet(Known) /\ SectionOf \in [Known -> Retrieval!Section]
    /\ Score \in [Known -> Nat] /\ Rrf \in [Known -> Nat] /\ Ident \in [Known -> Nat]
    /\ Cross \in [Known -> Nat] /\ Cost \in [Known -> Nat]
    /\ \A m, n \in Known : Ident[m] = Ident[n] => m = n
    /\ \A m, n \in Known : Similarity[m][n] = Similarity[n][m] /\ Similarity[m][n] \in Int
    /\ Cap \in [Retrieval!Section -> Nat] /\ TopK \in Nat /\ Hits \in Nat
<1>1. IsFiniteSet(Known) <=> Retrieval!IsFiniteSet(Known)
  BY Zenon DEF Retrieval!IsFiniteSet, IsFiniteSet
<1> QED
  BY <1>1, ServingAssumption DEF ServingAssumption, Retrieval!RetrievalAssumption

LEMMA SameCount == \A S : Retrieval!Cardinality(S) = Cardinality(S)
BY Zenon DEF Retrieval!Cardinality, Cardinality

\* s has every member of S once.
Enumerates(s, S) ==
    /\ s \in Seq(S) /\ Len(s) = Cardinality(S)
    /\ \A i, j \in 1..Len(s) : s[i] = s[j] => i = j
    /\ \A m \in S : \E i \in 1..Len(s) : s[i] = m

LEMMA IntoIsOnto ==
    ASSUME NEW S, IsFiniteSet(S), NEW f \in [1..Cardinality(S) -> S],
           \A i, j \in 1..Cardinality(S) : f[i] = f[j] => i = j
    PROVE  Enumerates(f, S)
<1> DEFINE d == 1..Cardinality(S)
<1>1. Cardinality(S) \in Nat /\ Cardinality(d) = Cardinality(S)
  BY FS_CardinalityType, FS_Interval
<1>2. f \in Injection(d, S)
  BY Fun_IsInj
<1>3. f \in Surjection(d, S)
  BY <1>1, <1>2, FS_Injection
<1>4. \A m \in S : \E i \in d : f[i] = m
  BY <1>3 DEF Surjection
<1> QED
  BY <1>1, <1>4 DEF Enumerates

LEMMA ArrivalsEnumerate ==
    ASSUME NEW S, IsFiniteSet(S), NEW s \in Retrieval!SetToSeqs(S)
    PROVE  Enumerates(s, S) /\ Retrieval!ToSet(s) = S
<1>1. /\ s \in [1..Cardinality(S) -> S]
      /\ \A i, j \in 1..Cardinality(S) : i # j => s[i] # s[j]
  BY SameCount DEF Retrieval!SetToSeqs
<1>2. Enumerates(s, S)
  BY <1>1, IntoIsOnto
<1>3. DOMAIN s = 1..Len(s)
  BY <1>2 DEF Enumerates
<1> QED
  BY <1>2, <1>3 DEF Enumerates, Retrieval!ToSet

LEMMA EnumeratedSet ==
    ASSUME NEW S, NEW s, Enumerates(s, S)
    PROVE  Retrieval!ToSet(s) = S /\ DOMAIN s = 1..Len(s)
BY DEF Enumerates, Retrieval!ToSet

LEMMA EnumerationsArrive ==
    ASSUME NEW S, NEW s, Enumerates(s, S)
    PROVE  s \in Retrieval!SetToSeqs(S)
<1>1. s \in [1..Cardinality(S) -> S]
  BY DEF Enumerates
<1> QED
  BY <1>1, SameCount DEF Enumerates, Retrieval!SetToSeqs

\* The total score is a number.
LEMMA TotalIsNat ==
    ASSUME NEW m \in Known, NEW cross
    PROVE  Retrieval!Total(m, cross) \in Nat
BY RetrievalConstants DEF Retrieval!Total

\* By score, fused rank and id: a strict total order.
LEMMA BeforeIsAnOrder ==
    ASSUME NEW cross
    PROVE  /\ \A m \in Known : ~Retrieval!Before(m, m, cross)
           /\ \A m, n \in Known : m # n =>
                 (Retrieval!Before(m, n, cross) <=> ~Retrieval!Before(n, m, cross))
           /\ \A l, m, n \in Known :
                 Retrieval!Before(l, m, cross) /\ Retrieval!Before(m, n, cross)
                    => Retrieval!Before(l, n, cross)
<1>1. ASSUME NEW m \in Known
      PROVE  Retrieval!Total(m, cross) \in Nat /\ Rrf[m] \in Nat /\ Ident[m] \in Nat
  BY TotalIsNat, RetrievalConstants
<1>2. \A m, n \in Known : Ident[m] = Ident[n] => m = n
  BY RetrievalConstants
<1>3. ASSUME NEW m \in Known PROVE ~Retrieval!Before(m, m, cross)
  BY <1>1 DEF Retrieval!Before
<1>4. ASSUME NEW m \in Known, NEW n \in Known, m # n
      PROVE  Retrieval!Before(m, n, cross) <=> ~Retrieval!Before(n, m, cross)
  BY <1>1, <1>2, <1>4 DEF Retrieval!Before
<1>5. ASSUME NEW l \in Known, NEW m \in Known, NEW n \in Known,
             Retrieval!Before(l, m, cross), Retrieval!Before(m, n, cross)
      PROVE  Retrieval!Before(l, n, cross)
  BY <1>1, <1>5 DEF Retrieval!Before
<1> QED
  BY <1>3, <1>4, <1>5

\* Those of S that come before m.
Ahead(m, S, cross) == {n \in S : Retrieval!Before(n, m, cross)}

Sorted(S, cross) ==
    [k \in 1..Cardinality(S) |-> CHOOSE m \in S : Cardinality(Ahead(m, S, cross)) = k - 1]

\* The order of arrival settles nothing: no two memories tie.
LEMMA RankingIsSorted ==
    ASSUME NEW S, S \subseteq Known, NEW s, Enumerates(s, S), NEW cross
    PROVE  Retrieval!Ranking(s, cross) = Sorted(S, cross)
<1> DEFINE T == Retrieval!ToSet(s)
<1>1. T = S /\ Len(s) = Cardinality(T)
  BY EnumeratedSet DEF Enumerates
<1>2. ASSUME NEW m \in T, NEW n \in T
      PROVE  Retrieval!Precedes(n, m, s, cross) <=> Retrieval!Before(n, m, cross)
  <2>0. m \in S /\ n \in S
    BY <1>1
  <2>1. CASE n # m
    BY <2>0, <2>1, BeforeIsAnOrder DEF Retrieval!Precedes
  <2>2. CASE n = m
    <3>1. ~Retrieval!Before(m, m, cross)
      BY <2>0, BeforeIsAnOrder
    <3>2. \E i \in 1..Len(s) : s[i] = m
      BY <2>0 DEF Enumerates
    <3>3. Retrieval!Position(s, m) \in 1..Len(s)
      BY <3>2 DEF Retrieval!Position
    <3>4. ~(Retrieval!Position(s, m) < Retrieval!Position(s, m))
      BY <3>3
    <3> QED
      BY <2>2, <3>1, <3>4 DEF Retrieval!Precedes
  <2> QED
    BY <2>1, <2>2
<1>3. ASSUME NEW m \in T
      PROVE  {n \in T : Retrieval!Precedes(n, m, s, cross)} = Ahead(m, T, cross)
  BY <1>2 DEF Ahead
<1>4. ASSUME NEW k \in 1..Len(s)
      PROVE  (CHOOSE m \in T :
                Retrieval!Cardinality({n \in T : Retrieval!Precedes(n, m, s, cross)}) = k - 1)
             = (CHOOSE m \in T : Cardinality(Ahead(m, T, cross)) = k - 1)
  <2>1. \A m \in T :
            Retrieval!Cardinality({n \in T : Retrieval!Precedes(n, m, s, cross)}) = k - 1
                <=> Cardinality(Ahead(m, T, cross)) = k - 1
    BY <1>3, SameCount
  <2> QED
    BY Zenon, <2>1
<1>5. Retrieval!Ranking(s, cross) =
        [k \in 1..Len(s) |-> CHOOSE m \in T :
            Retrieval!Cardinality({n \in T : Retrieval!Precedes(n, m, s, cross)}) = k - 1]
  BY DEF Retrieval!Ranking
<1>6. Sorted(T, cross) =
        [k \in 1..Len(s) |-> CHOOSE m \in T : Cardinality(Ahead(m, T, cross)) = k - 1]
  BY Zenon, <1>1 DEF Sorted
<1>7. Retrieval!Ranking(s, cross) = Sorted(T, cross)
  BY <1>4, <1>5, <1>6
<1> QED
  BY <1>1, <1>7

\* Everybody has a rank of its own.
LEMMA RanksDiffer ==
    ASSUME NEW S, S \subseteq Known, NEW cross, NEW m \in S, NEW n \in S,
           Cardinality(Ahead(m, S, cross)) = Cardinality(Ahead(n, S, cross))
    PROVE  m = n
<1>1. ASSUME NEW l \in S, NEW o \in S, Retrieval!Before(l, o, cross)
      PROVE  Cardinality(Ahead(l, S, cross)) # Cardinality(Ahead(o, S, cross))
  <2>1. Ahead(l, S, cross) \subseteq Ahead(o, S, cross)
    BY <1>1, BeforeIsAnOrder DEF Ahead
  <2>2. l \in Ahead(o, S, cross) /\ l \notin Ahead(l, S, cross)
    BY <1>1, BeforeIsAnOrder DEF Ahead
  <2>3. IsFiniteSet(Ahead(o, S, cross))
    BY RetrievalConstants, PartIsSmaller DEF Ahead
  <2> QED
    BY <2>1, <2>2, <2>3, FS_Subset
<1> QED
  BY <1>1, BeforeIsAnOrder

\* A ranking has every candidate once.
LEMMA SortedEnumerates ==
    ASSUME NEW S, S \subseteq Known, NEW cross
    PROVE  Enumerates(Sorted(S, cross), S)
<1> DEFINE d == 1..Cardinality(S)
           rank == [m \in S |-> Cardinality(Ahead(m, S, cross)) + 1]
<1>1. IsFiniteSet(S) /\ Cardinality(S) \in Nat
  BY RetrievalConstants, PartIsSmaller
<1>2. ASSUME NEW m \in S PROVE Cardinality(Ahead(m, S, cross)) + 1 \in d
  <2>1. Ahead(m, S, cross) \subseteq S \ {m}
    BY BeforeIsAnOrder DEF Ahead
  <2>2. IsFiniteSet(S \ {m}) /\ Cardinality(S \ {m}) = Cardinality(S) - 1
    BY <1>1, FS_RemoveElement
  <2>3. /\ Cardinality(Ahead(m, S, cross)) \in Nat
        /\ Cardinality(Ahead(m, S, cross)) <= Cardinality(S \ {m})
    BY <2>1, <2>2, PartIsSmaller
  <2> QED
    BY <1>1, <2>2, <2>3
<1>3. rank \in [S -> d]
  BY <1>2
<1>4. ASSUME NEW m \in S, NEW n \in S, rank[m] = rank[n] PROVE m = n
  <2>1. Cardinality(Ahead(m, S, cross)) + 1 = Cardinality(Ahead(n, S, cross)) + 1
    BY <1>4
  <2>2. /\ Cardinality(Ahead(m, S, cross)) \in Nat
        /\ Cardinality(Ahead(n, S, cross)) \in Nat
    BY RetrievalConstants, PartIsSmaller DEF Ahead
  <2>3. Cardinality(Ahead(m, S, cross)) = Cardinality(Ahead(n, S, cross))
    BY <2>1, <2>2
  <2> QED
    BY <2>3, RanksDiffer
<1>5. rank \in Injection(S, d)
  BY <1>3, <1>4, Fun_IsInj
<1>6. IsFiniteSet(d) /\ Cardinality(d) = Cardinality(S)
  BY <1>1, FS_Interval
<1>7. rank \in Surjection(S, d)
  BY <1>5, <1>6, FS_Injection
<1>8. ASSUME NEW k \in d
      PROVE  /\ Sorted(S, cross)[k] \in S
             /\ Cardinality(Ahead(Sorted(S, cross)[k], S, cross)) = k - 1
  <2>1. PICK m \in S : rank[m] = k
    BY <1>7 DEF Surjection
  <2>2. Cardinality(Ahead(m, S, cross)) \in Nat
    BY RetrievalConstants, PartIsSmaller DEF Ahead
  <2>3. Cardinality(Ahead(m, S, cross)) = k - 1
    BY <2>1, <2>2
  <2>4. Sorted(S, cross)[k] = CHOOSE n \in S : Cardinality(Ahead(n, S, cross)) = k - 1
    BY DEF Sorted
  <2> QED
    BY <2>3, <2>4
<1>9. Sorted(S, cross) \in [d -> S]
  BY <1>8 DEF Sorted
<1>10. ASSUME NEW i \in d, NEW j \in d, Sorted(S, cross)[i] = Sorted(S, cross)[j]
       PROVE  i = j
  <2>1. i - 1 = j - 1
    BY <1>8, <1>10
  <2> QED
    BY <2>1
<1> QED
  BY <1>1, <1>9, <1>10, IntoIsOnto

\* What was ranked is what arrived, once each.
ArrivalInv ==
    /\ stage \in {"idle", "search"} \/
            /\ Retrieval!ToSet(arrived) \subseteq Known
            /\ Enumerates(arrived, Retrieval!ToSet(arrived))
    /\ stage \in {"idle", "search", "rank"} \/
            ranked = Retrieval!Ranking(arrived, Retrieval!Seen(request, arrived))

LEMMA CandidatesAreKnown ==
    /\ \A req : Retrieval!Candidates(req) \subseteq Known
    /\ \A req : IsFiniteSet(Retrieval!Candidates(req))
<1>1. \A req : Retrieval!Candidates(req) \subseteq Known
  BY DEF Retrieval!Candidates, Retrieval!LexicalOnly, Retrieval!Hybrid
<1> QED
  BY <1>1, RetrievalConstants, PartIsSmaller

\* After the ranking nothing touches it until the next request.
LEMMA RankingStays ==
    ASSUME ArrivalInv,
           \/ Retrieval!Select \/ Retrieval!NothingFound \/ Retrieval!Gate
           \/ Retrieval!Always \/ Retrieval!Place \/ Retrieval!Seal
    PROVE  /\ stage \notin {"idle", "search", "rank"}
           /\ stage' \notin {"idle", "search", "rank"}
           /\ UNCHANGED <<request, arrived, ranked, was, row, late>>
BY DEF Retrieval!Select, Retrieval!NothingFound, Retrieval!Gate, Retrieval!Always,
   Retrieval!Place, Retrieval!Seal

LEMMA ArrivalInvNext == ArrivalInv /\ [Retrieval!Next]_Retrieval!vars => ArrivalInv'
<1> SUFFICES ASSUME ArrivalInv, [Retrieval!Next]_Retrieval!vars PROVE ArrivalInv'
  OBVIOUS
<1>1. ASSUME Retrieval!Search PROVE ArrivalInv'
  <2>1. arrived' \in Retrieval!SetToSeqs(Retrieval!Candidates(request)) /\ stage' = "rank"
    BY <1>1 DEF Retrieval!Search
  <2>2. /\ Enumerates(arrived', Retrieval!Candidates(request))
        /\ Retrieval!ToSet(arrived') = Retrieval!Candidates(request)
    BY <2>1, CandidatesAreKnown, ArrivalsEnumerate
  <2> QED
    BY <2>1, <2>2, CandidatesAreKnown DEF ArrivalInv
<1>2. ASSUME Retrieval!Rank PROVE ArrivalInv'
  BY <1>2 DEF Retrieval!Rank, ArrivalInv
<1>3. ASSUME \/ Retrieval!Select \/ Retrieval!NothingFound \/ Retrieval!Gate
             \/ Retrieval!Always \/ Retrieval!Place \/ Retrieval!Seal
      PROVE  ArrivalInv'
  BY <1>3, RankingStays DEF ArrivalInv
<1>4. ASSUME NEW req, Retrieval!Ask(req) PROVE ArrivalInv'
  BY <1>4 DEF Retrieval!Ask, ArrivalInv
<1>5. ASSUME Retrieval!Answered PROVE ArrivalInv'
  BY <1>5 DEF Retrieval!Answered, ArrivalInv
<1>6. ASSUME NEW old, NEW new, NEW now, Retrieval!Replace(old, new, now) PROVE ArrivalInv'
  BY <1>6 DEF Retrieval!Replace, ArrivalInv
<1>7. CASE UNCHANGED Retrieval!vars
  BY <1>7 DEF Retrieval!vars, ArrivalInv
<1> QED
  BY <1>1, <1>2, <1>3, <1>4, <1>5, <1>6, <1>7 DEF Retrieval!Next

LEMMA RankedInvariance == RetrievalSpec => []ArrivalInv
<1>1. Retrieval!Init => ArrivalInv
  BY DEF Retrieval!Init, Retrieval!Blank, ArrivalInv
<1> QED
  BY <1>1, ArrivalInvNext, PTL DEF RetrievalSpec

LEMMA FirstIsAll ==
    ASSUME NEW S, NEW s, Enumerates(s, S), NEW n \in Nat, Len(s) <= n
    PROVE  Retrieval!ToSet(Retrieval!First(s, n)) = S
<1>1. s \in Seq(S) /\ Len(s) \in Nat
  BY DEF Enumerates
<1>2. Retrieval!First(s, n) = SubSeq(s, 1, Len(s))
  BY <1>1 DEF Retrieval!First
<1>3. SubSeq(s, 1, Len(s)) = s
  BY <1>1
<1> QED
  BY <1>2, <1>3, EnumeratedSet

\* The same candidates rank the same way in whatever order they arrive, unless
\* the cross-encoder scores only some of them.
THEOREM RankingsAreReproducible == RetrievalSpec => []RankingIsReproducible
<1>1. ArrivalInv => Retrieval!RankingIsReproducible
  <2> SUFFICES ASSUME ArrivalInv, stage \notin {"idle", "search", "rank"},
                      ~(request.cross /\ Len(arrived) > TopK),
                      NEW order \in Retrieval!SetToSeqs(Retrieval!ToSet(arrived))
               PROVE  ranked = Retrieval!Ranking(order, Retrieval!Seen(request, order))
    BY DEF Retrieval!RankingIsReproducible
  <2> DEFINE S == Retrieval!ToSet(arrived)
  <2>1. /\ S \subseteq Known /\ IsFiniteSet(S) /\ Enumerates(arrived, S)
        /\ ranked = Retrieval!Ranking(arrived, Retrieval!Seen(request, arrived))
    BY RetrievalConstants, PartIsSmaller DEF ArrivalInv
  <2>2. Enumerates(order, S)
    BY <2>1, ArrivalsEnumerate
  <2> HIDE DEF S
  <2>3. Retrieval!Seen(request, order) = Retrieval!Seen(request, arrived)
    <3>1. CASE ~request.cross
      BY <3>1 DEF Retrieval!Seen
    <3>2. CASE request.cross
      <4>1. Len(arrived) = Cardinality(S) /\ Len(order) = Cardinality(S) /\ Len(arrived) \in Nat
        BY <2>1, <2>2 DEF Enumerates
      <4>2. Len(arrived) <= TopK /\ Len(order) <= TopK /\ TopK \in Nat
        BY <3>2, <4>1, RetrievalConstants
      <4>3. /\ Retrieval!ToSet(Retrieval!First(order, TopK)) = S
            /\ Retrieval!ToSet(Retrieval!First(arrived, TopK)) = S
        BY <2>1, <2>2, <4>2, FirstIsAll
      <4> QED
        BY <4>3 DEF Retrieval!Seen
    <3> QED
      BY <3>1, <3>2
  <2>4. /\ Retrieval!Ranking(order, Retrieval!Seen(request, order))
            = Sorted(S, Retrieval!Seen(request, order))
        /\ Retrieval!Ranking(arrived, Retrieval!Seen(request, arrived))
            = Sorted(S, Retrieval!Seen(request, arrived))
    BY <2>1, <2>2, RankingIsSorted
  <2> QED
    BY <2>1, <2>3, <2>4
<1> QED
  BY <1>1, RankedInvariance, PTL DEF RankingIsReproducible
-----------------------------------------------------------------------------
(***************************************************************************)
(* Retrieval: what the stages hand on, and what readers are told.          *)
(***************************************************************************)
Early == {"idle", "search", "rank"}

\* Each stage works on what the stages before it left.
StagesInv ==
    /\ stage \in Early \cup {"dedup", "gate"} => served = {} /\ evidence = {}
    /\ stage \in Early => kept = <<>> /\ pool = {} /\ dropped = {}
    /\ stage \notin Early =>
            kept \in Seq(Retrieval!ToSet(arrived)) /\ pool \subseteq Retrieval!ToSet(arrived)
    /\ evidence \subseteq Retrieval!ToSet(kept)

LEMMA SeqSet ==
    ASSUME NEW S, NEW s \in Seq(S)
    PROVE  DOMAIN s = 1..Len(s) /\ Len(s) \in Nat /\ Retrieval!ToSet(s) \subseteq S
<1>1. DOMAIN s = 1..Len(s) /\ Len(s) \in Nat /\ \A i \in 1..Len(s) : s[i] \in S
  OBVIOUS
<1> QED
  BY <1>1 DEF Retrieval!ToSet

LEMMA FirstIsSeq ==
    ASSUME NEW S, NEW s \in Seq(S), NEW n \in Nat
    PROVE  Retrieval!First(s, n) \in Seq(S)
BY DEF Retrieval!First

LEMMA AppendIsSeq ==
    ASSUME NEW S, NEW s \in Seq(S), NEW x \in S
    PROVE  /\ Append(s, x) \in Seq(S)
           /\ Retrieval!ToSet(Append(s, x)) = Retrieval!ToSet(s) \cup {x}
<1>1. Len(s) \in Nat /\ DOMAIN s = 1..Len(s)
  OBVIOUS
<1>2. /\ Append(s, x) \in Seq(S) /\ DOMAIN Append(s, x) = 1..(Len(s) + 1)
      /\ Append(s, x)[Len(s) + 1] = x
      /\ \A i \in 1..Len(s) : Append(s, x)[i] = s[i]
  BY <1>1
<1>3. 1..(Len(s) + 1) = (1..Len(s)) \cup {Len(s) + 1}
  BY <1>1
<1> QED
  BY <1>1, <1>2, <1>3 DEF Retrieval!ToSet

\* The ranking is an enumeration of what arrived.
LEMMA RankedEnumerates ==
    ASSUME NEW s, Retrieval!ToSet(s) \subseteq Known, Enumerates(s, Retrieval!ToSet(s)), NEW cross
    PROVE  Enumerates(Retrieval!Ranking(s, cross), Retrieval!ToSet(s))
BY RankingIsSorted, SortedEnumerates

LEMMA StagesNext ==
    ASSUME ArrivalInv, StagesInv, [Retrieval!Next]_Retrieval!vars
    PROVE  StagesInv'
<1> DEFINE A == Retrieval!ToSet(arrived)
<1>1. ASSUME Retrieval!Search PROVE StagesInv'
  BY <1>1 DEF Retrieval!Search, StagesInv, Early
<1>2. ASSUME Retrieval!Rank PROVE StagesInv'
  <2>1. /\ stage = "rank" /\ Enumerates(arrived, A) /\ A \subseteq Known
        /\ ranked' = Retrieval!Ranking(arrived, Retrieval!Seen(request, arrived))
        /\ UNCHANGED <<arrived, served, evidence, dropped>>
    BY <1>2 DEF Retrieval!Rank, ArrivalInv
  <2>2. kept = <<>> /\ served = {} /\ evidence = {} /\ dropped = {} /\ pool = {}
    BY <2>1 DEF StagesInv, Early
  <2>3. ranked' \in Seq(A) /\ arrived \in Seq(A) /\ Retrieval!ToSet(ranked') = A
    BY <2>1, RankedEnumerates, EnumeratedSet DEF Enumerates
  <2>4. Hits \in Nat
    BY RetrievalConstants
  <2>5. CASE request.tool = "context"
    <3>1. pool' = A /\ stage' = "dedup" /\ kept' = kept
      BY <1>2, <2>3, <2>5 DEF Retrieval!Rank
    <3> QED
      BY <2>1, <2>2, <3>1 DEF StagesInv, Early
  <2>6. CASE request.tool # "context"
    <3>1. /\ \/ kept' = Retrieval!First(arrived, Hits)
             \/ kept' = Retrieval!First(ranked', Hits)
          /\ stage' = "gate" /\ pool' = pool
      BY <1>2, <2>6 DEF Retrieval!Rank
    <3>2. kept' \in Seq(A)
      BY <2>3, <2>4, <3>1, FirstIsSeq
    <3> QED
      BY <2>1, <2>2, <3>1, <3>2 DEF StagesInv, Early
  <2> QED
    BY <2>5, <2>6
<1>3. ASSUME Retrieval!Select PROVE StagesInv'
  <2>1. PICK m \in pool :
          /\ pool' = pool \ {m}
          /\ kept' = Append(kept, m) \/ kept' = kept
    BY <1>3 DEF Retrieval!Select
  <2>2. /\ stage = "dedup" /\ stage' \in {"dedup", "gate"}
        /\ UNCHANGED <<arrived, served, evidence>>
    BY <1>3 DEF Retrieval!Select
  <2>3. kept \in Seq(A) /\ pool \subseteq A /\ served = {} /\ evidence = {}
    BY <2>2 DEF StagesInv, Early
  <2>4. kept' \in Seq(A)
    BY <2>1, <2>3, AppendIsSeq
  <2> QED
    BY <2>1, <2>2, <2>3, <2>4 DEF StagesInv, Early
<1>4. ASSUME Retrieval!NothingFound PROVE StagesInv'
  BY <1>4 DEF Retrieval!NothingFound, StagesInv, Early
<1>5. ASSUME Retrieval!Gate PROVE StagesInv'
  <2>1. /\ stage = "gate" /\ stage' \in {"always", "done"}
        /\ UNCHANGED <<arrived, kept, pool>>
        /\ evidence' \subseteq Retrieval!ToSet(kept)
    BY <1>5 DEF Retrieval!Gate, Retrieval!KeptSet
  <2> QED
    BY <2>1 DEF StagesInv, Early
<1>6. ASSUME Retrieval!Always PROVE StagesInv'
  BY <1>6 DEF Retrieval!Always, StagesInv, Early
<1>7. ASSUME Retrieval!Place PROVE StagesInv'
  <2>1. /\ stage = "place" /\ UNCHANGED <<stage, arrived, kept, pool>>
        /\ evidence' \subseteq evidence
    BY <1>7 DEF Retrieval!Place
  <2> QED
    BY <2>1 DEF StagesInv, Early
<1>8. ASSUME Retrieval!Seal PROVE StagesInv'
  BY <1>8 DEF Retrieval!Seal, StagesInv, Early
<1>9. ASSUME NEW req, Retrieval!Ask(req) PROVE StagesInv'
  BY <1>9 DEF Retrieval!Ask, StagesInv, Early
<1>10. ASSUME Retrieval!Answered PROVE StagesInv'
  BY <1>10 DEF Retrieval!Answered, StagesInv, Early
<1>11. ASSUME NEW old, NEW new, NEW now, Retrieval!Replace(old, new, now) PROVE StagesInv'
  BY <1>11 DEF Retrieval!Replace, StagesInv, Early
<1>12. CASE UNCHANGED Retrieval!vars
  BY <1>12 DEF Retrieval!vars, StagesInv, Early
<1> QED
  BY <1>1, <1>2, <1>3, <1>4, <1>5, <1>6, <1>7, <1>8, <1>9, <1>10, <1>11, <1>12
     DEF Retrieval!Next

\* A table is one the store could hold; what began to hold after the request
\* did replaced something under a key that is noted.
RowHolds(r, noted) ==
    /\ r \in Retrieval!Row
    /\ r.status = "active" =>
            /\ r.upper = NULL
            /\ noted \/ (r.lower <= Retrieval!Present /\ r.recorded <= Retrieval!Present)
    /\ r.status = "quarantined" => r.tier = 1

RowsHold ==
    /\ DOMAIN row = Known
    /\ \A m \in Known : row[m] # NULL => RowHolds(row[m], KeyOf[m] \in late)

LEMMA TablesHold ==
    ASSUME NEW table \in Tables
    PROVE  /\ DOMAIN table = Known
           /\ \A m \in Known : table[m] # NULL =>
                RowHolds(table[m], FALSE) /\ RowHolds(table[m], TRUE)
<1>1. table \in [Known -> Retrieval!Row \cup {NULL}]
  BY RetrievalConstants
<1>2. Retrieval!TablesAreOfTheStore
  BY ServingAssumption DEF ServingAssumption
<1> QED
  BY <1>1, <1>2 DEF Retrieval!TablesAreOfTheStore, RowHolds

LEMMA ReplaceHolds ==
    ASSUME RowsHold, NEW old \in Known, NEW new \in Known,
           NEW now \in {Retrieval!Present, Retrieval!Present + 1},
           Retrieval!Replace(old, new, now)
    PROVE  /\ RowsHold'
           /\ late \subseteq late' /\ old # new /\ KeyOf[old] = KeyOf[new]
           /\ \A m \in Known \ {old, new} : row'[m] = row[m]
           /\ row[old] # NULL /\ row[old].status = "active"
           /\ row'[old] # NULL => row'[old].status = "superseded"
           /\ row'[new].tier = row[old].tier
<1> DEFINE closed == [row[old] EXCEPT !.status = "superseded", !.upper = now]
           opened == [row[old] EXCEPT !.lower = now, !.recorded = now]
<1>1. /\ row[old] # NULL /\ row[old].status = "active" /\ row[new] = NULL
      /\ KeyOf[old] = KeyOf[new] /\ old # new
      /\ row' = [row EXCEPT ![old].status = "superseded", ![old].upper = now, ![new] = opened]
      /\ late' = IF now > Retrieval!Present THEN late \cup {KeyOf[old]} ELSE late
  BY DEF Retrieval!Replace
<1>2. RowHolds(row[old], KeyOf[old] \in late) /\ DOMAIN row = Known
  BY <1>1 DEF RowsHold
<1>3. /\ DOMAIN row' = Known /\ row'[old] = closed /\ row'[new] = opened
      /\ \A m \in Known \ {old, new} : row'[m] = row[m]
  BY <1>1, <1>2
<1>4. now \in Retrieval!Instant /\ now \in Nat
  BY DEF Retrieval!Present, Retrieval!Instant
<1>5. /\ closed \in Retrieval!Row /\ closed.status = "superseded"
      /\ opened \in Retrieval!Row /\ opened.status = "active" /\ opened.upper = NULL
      /\ opened.lower = now /\ opened.recorded = now /\ opened.tier = row[old].tier
  BY <1>1, <1>2, <1>4 DEF RowHolds, Retrieval!Row, Retrieval!Status
<1>6. KeyOf[new] \in late' \/ now <= Retrieval!Present
  BY <1>1, <1>4 DEF Retrieval!Present
<1>7. RowHolds(closed, TRUE) /\ RowHolds(closed, FALSE)
  BY <1>5 DEF RowHolds
<1> HIDE DEF closed, opened
<1>8. RowHolds(opened, KeyOf[new] \in late')
  BY <1>5, <1>6 DEF RowHolds
<1>9. ASSUME NEW m \in Known \ {old, new}, row'[m] # NULL
      PROVE  RowHolds(row'[m], KeyOf[m] \in late')
  <2>1. RowHolds(row[m], KeyOf[m] \in late) /\ row'[m] = row[m]
    BY <1>3, <1>9 DEF RowsHold
  <2>2. KeyOf[m] \in late => KeyOf[m] \in late'
    BY <1>1
  <2> QED
    BY <2>1, <2>2 DEF RowHolds
<1>10. ASSUME NEW m \in Known, row'[m] # NULL
       PROVE  RowHolds(row'[m], KeyOf[m] \in late')
  <2>1. CASE m = old
    BY <1>3, <1>5, <2>1 DEF RowHolds
  <2>2. CASE m = new
    BY <1>3, <1>8, <2>2
  <2> QED
    BY <1>9, <1>10, <2>1, <2>2
<1>11. RowsHold'
  BY <1>3, <1>10 DEF RowsHold
<1> QED
  BY <1>1, <1>3, <1>5, <1>11

LEMMA RowsNext ==
    ASSUME RowsHold, [Retrieval!Next]_Retrieval!vars
    PROVE  RowsHold'
<1>1. ASSUME Retrieval!Answered PROVE RowsHold'
  <2>1. row' \in Tables
    BY <1>1 DEF Retrieval!Answered
  <2>2. \A m \in Known : row'[m] # NULL =>
            RowHolds(row'[m], FALSE) /\ RowHolds(row'[m], TRUE)
    BY <2>1, TablesHold
  <2>3. \A m \in Known : row'[m] # NULL => RowHolds(row'[m], KeyOf[m] \in late')
    BY <2>2 DEF RowHolds
  <2> QED
    BY <2>1, <2>3, TablesHold DEF RowsHold
<1>2. ASSUME NEW old \in Known, NEW new \in Known,
             NEW now \in {Retrieval!Present, Retrieval!Present + 1},
             Retrieval!Replace(old, new, now)
      PROVE  RowsHold'
  BY <1>2, ReplaceHolds
<1>3. CASE UNCHANGED <<row, late>>
  BY <1>3 DEF RowsHold
<1> QED
  BY <1>1, <1>2, <1>3 DEF Retrieval!Next, Retrieval!vars, Retrieval!Ask, Retrieval!Search,
     Retrieval!Rank, Retrieval!Select, Retrieval!NothingFound, Retrieval!Gate,
     Retrieval!Always, Retrieval!Place, Retrieval!Seal

\* Unreviewed rows were read only for who asked for them, and what is served is
\* marked.
MarkInv ==
    /\ stage \in {"idle", "search"} \/ request.degraded
        \/ \A m \in Retrieval!ToSet(arrived) : was[m] = "quarantined" => request.unverified
    /\ request.degraded \/ \A item \in served : Retrieval!IsMarked(item)

LEMMA RenderedIsMarked ==
    ASSUME NEW m, NEW role, NEW status_, status_ = "quarantined" => request.unverified
    PROVE  Retrieval!IsMarked(Retrieval!Rendered(m, role, status_, TRUE))
BY DEF Retrieval!Rendered, Retrieval!IsMarked

\* What a hybrid query returns.
LEMMA HybridIsReviewed ==
    ASSUME RowsHold, ~request.degraded, NEW m \in Retrieval!Candidates(request)
    PROVE  row[m] # NULL /\ (row[m].status = "quarantined" => request.unverified)
<1>1. /\ m \in Known /\ row[m] # NULL
      /\ row[m].tier >= Retrieval!MinTier(request)
  BY DEF Retrieval!Candidates, Retrieval!Hybrid, Retrieval!ValidAt
<1>2. row[m].status = "quarantined" => row[m].tier = 1
  BY <1>1 DEF RowsHold, RowHolds
<1> QED
  BY <1>1, <1>2 DEF Retrieval!MinTier

LEMMA MarkNext ==
    ASSUME ArrivalInv, StagesInv, RowsHold, MarkInv, [Retrieval!Next]_Retrieval!vars
    PROVE  MarkInv'
<1> DEFINE A == Retrieval!ToSet(arrived)
<1>1. ASSUME Retrieval!Search PROVE MarkInv'
  <2>1. /\ arrived' \in Retrieval!SetToSeqs(Retrieval!Candidates(request))
        /\ was' = [m \in Known |-> IF row[m] = NULL THEN NULL ELSE row[m].status]
        /\ UNCHANGED <<request, served>> /\ stage = "search"
    BY <1>1 DEF Retrieval!Search
  <2>2. /\ Retrieval!ToSet(arrived') = Retrieval!Candidates(request)
        /\ Retrieval!Candidates(request) \subseteq Known
    BY <2>1, CandidatesAreKnown, ArrivalsEnumerate
  <2>3. ASSUME ~request.degraded, NEW m \in Retrieval!ToSet(arrived'), was'[m] = "quarantined"
        PROVE  request.unverified
    BY <2>1, <2>2, <2>3, HybridIsReviewed
  <2> QED
    BY <2>1, <2>3 DEF MarkInv, StagesInv, Early
<1>2. ASSUME \/ Retrieval!Select \/ Retrieval!NothingFound \/ Retrieval!Gate
             \/ Retrieval!Always \/ Retrieval!Place \/ Retrieval!Seal
      PROVE  MarkInv'
  <2>1. /\ stage \notin Early /\ stage' \notin Early
        /\ UNCHANGED <<request, arrived, was>>
    BY <1>2, RankingStays DEF Early
  <2>2. CASE request.degraded
    BY <2>1, <2>2 DEF MarkInv
  <2>3. CASE ~request.degraded
    <3>1. /\ \A m \in A : was[m] = "quarantined" => request.unverified
          /\ \A item \in served : Retrieval!IsMarked(item)
      BY <2>1, <2>3 DEF MarkInv, Early
    <3>2. Retrieval!ToSet(kept) \subseteq A /\ evidence \subseteq Retrieval!ToSet(kept)
      BY <2>1, SeqSet DEF StagesInv
    <3>3. ASSUME NEW item \in served'
          PROVE  Retrieval!IsMarked(item)
      <4>1. CASE item \in served
        BY <3>1, <4>1
      <4>2. ASSUME Retrieval!Gate, item \notin served PROVE Retrieval!IsMarked(item)
        <5>1. PICK m \in Retrieval!ToSet(kept) :
                 item = Retrieval!Rendered(m, "evidence", was[m], TRUE)
          BY <2>3, <3>3, <4>2 DEF Retrieval!Gate, Retrieval!KeptSet
        <5> QED
          BY <3>1, <3>2, <5>1, RenderedIsMarked
      <4>3. ASSUME Retrieval!Always, item \notin served PROVE Retrieval!IsMarked(item)
        <5>1. PICK m \in Retrieval!AlwaysIncluded, role \in {"baseline_evidence", "baseline"} :
                 item = Retrieval!Rendered(m, role, row[m].status, TRUE)
          BY <3>3, <4>3 DEF Retrieval!Always
        <5>2. row[m] # NULL /\ row[m].tier >= 3 /\ m \in Known
          BY DEF Retrieval!AlwaysIncluded, Retrieval!ValidAt
        <5>3. row[m].status # "quarantined"
          BY <5>2 DEF RowsHold, RowHolds
        <5> QED
          BY <5>1, <5>3, RenderedIsMarked
      <4>4. ASSUME Retrieval!Place, item \notin served PROVE Retrieval!IsMarked(item)
        <5>1. PICK m \in evidence : item = Retrieval!Rendered(m, "evidence", was[m], TRUE)
          BY <2>3, <3>3, <4>4 DEF Retrieval!Place
        <5> QED
          BY <3>1, <3>2, <5>1, RenderedIsMarked
      <4>5. Retrieval!Select \/ Retrieval!NothingFound \/ Retrieval!Seal => served' = served
        BY DEF Retrieval!Select, Retrieval!NothingFound, Retrieval!Seal
      <4> QED
        BY <1>2, <3>3, <4>1, <4>2, <4>3, <4>4, <4>5
    <3>4. \A item \in served' : Retrieval!IsMarked(item)'
      BY <2>1, <3>3 DEF Retrieval!IsMarked
    <3> QED
      BY <2>1, <3>1, <3>4 DEF MarkInv
  <2> QED
    BY <2>2, <2>3
<1>3. ASSUME Retrieval!Rank PROVE MarkInv'
  <2>1. /\ stage = "rank" /\ UNCHANGED <<request, arrived, was, served>>
    BY <1>3 DEF Retrieval!Rank
  <2> QED
    BY <2>1 DEF MarkInv, Retrieval!IsMarked
<1>4. ASSUME NEW req, Retrieval!Ask(req) PROVE MarkInv'
  BY <1>4 DEF Retrieval!Ask, MarkInv, StagesInv, Early
<1>5. ASSUME Retrieval!Answered PROVE MarkInv'
  BY <1>5 DEF Retrieval!Answered, MarkInv
<1>6. CASE UNCHANGED <<stage, request, arrived, was, served>>
  BY <1>6 DEF MarkInv, Retrieval!IsMarked
<1> QED
  BY <1>1, <1>2, <1>3, <1>4, <1>5, <1>6 DEF Retrieval!Next, Retrieval!vars, Retrieval!Replace

PackInv == ArrivalInv /\ StagesInv /\ RowsHold /\ MarkInv

LEMMA PackInvariance == RetrievalSpec => []PackInv
<1>1. Retrieval!Init => PackInv
  <2> SUFFICES ASSUME Retrieval!Init PROVE PackInv
    OBVIOUS
  <2>1. /\ stage = "idle" /\ late = {} /\ kept = <<>> /\ pool = {} /\ evidence = {}
        /\ served = {} /\ dropped = {} /\ row \in Tables
    BY DEF Retrieval!Init, Retrieval!Blank
  <2>2. RowsHold
    <3>1. \A m \in Known : row[m] # NULL => RowHolds(row[m], FALSE)
      BY <2>1, TablesHold
    <3> QED
      BY <2>1, <3>1, TablesHold DEF RowsHold, RowHolds
  <2> QED
    BY <2>1, <2>2 DEF PackInv, ArrivalInv, StagesInv, MarkInv, Early
<1>2. PackInv /\ [Retrieval!Next]_Retrieval!vars => PackInv'
  BY ArrivalInvNext, StagesNext, RowsNext, MarkNext DEF PackInv
<1> QED
  BY <1>1, <1>2, PTL DEF RetrievalSpec

\* While the embedder is up nobody is handed what is superseded, archived or
\* unreviewed without being told, in a pack or in a search, now or as of a day.
THEOREM ReadersAreTold == RetrievalSpec => []HistoryIsMarked
<1>1. PackInv => Retrieval!HistoryIsMarked
  BY DEF PackInv, MarkInv, Retrieval!HistoryIsMarked
<1> QED
  BY <1>1, PackInvariance, PTL DEF HistoryIsMarked
-----------------------------------------------------------------------------
(***************************************************************************)
(* Retrieval: reviewed constraints are in every pack.                      *)
(***************************************************************************)
\* m is a current, reviewed constraint the pack owes its reader.
Owed(m) ==
    /\ SectionOf[m] = "constraints"
    /\ row[m] # NULL /\ row[m].status = "active" /\ row[m].tier = 3
    /\ KeyOf[m] \notin late
    /\ \A n \in Known : KeyOf[n] = KeyOf[m] => SectionOf[n] = "constraints"

BaselineInv ==
    stage \in {"place", "done"} /\ request.tool = "context" /\ ~request.historical =>
        \A m \in Known : Owed(m) => \E i \in served : KeyOf[i.id] = KeyOf[m]

LEMMA BaselineNext ==
    ASSUME PackInv, BaselineInv, [Retrieval!Next]_Retrieval!vars
    PROVE  BaselineInv'
<1>1. ASSUME Retrieval!Always PROVE BaselineInv'
  <2> SUFFICES ASSUME ~request.historical, NEW m \in Known, Owed(m)
               PROVE  \E i \in served' : KeyOf[i.id] = KeyOf[m]
    BY <1>1 DEF Retrieval!Always, BaselineInv, Owed
  <2>1. /\ RowHolds(row[m], FALSE) /\ row[m] # NULL /\ row[m].tier >= 3
        /\ row[m].status = "active" /\ SectionOf[m] = "constraints"
    BY DEF PackInv, RowsHold, Owed, RowHolds
  <2>2. Retrieval!ValidAt(row[m], Retrieval!AsOf(request))
    BY <2>1 DEF Retrieval!ValidAt, Retrieval!AsOf, RowHolds
  <2>3. m \in Retrieval!AlwaysIncluded
    BY <2>1, <2>2 DEF Retrieval!AlwaysIncluded
  <2>4. \E role : Retrieval!Rendered(m, role, row[m].status, TRUE) \in served'
    BY <1>1, <2>3 DEF Retrieval!Always
  <2>5. \A role : Retrieval!Rendered(m, role, row[m].status, TRUE).id = m
    BY DEF Retrieval!Rendered
  <2> QED
    BY <2>4, <2>5
<1>2. ASSUME Retrieval!Place \/ Retrieval!Seal PROVE BaselineInv'
  <2>1. /\ stage = "place" /\ UNCHANGED <<request, row, late>>
        /\ served \subseteq served'
    BY <1>2 DEF Retrieval!Place, Retrieval!Seal
  <2> QED
    BY <2>1 DEF BaselineInv, Owed
<1>3. ASSUME NEW old \in Known, NEW new \in Known,
             NEW now \in {Retrieval!Present, Retrieval!Present + 1},
             Retrieval!Replace(old, new, now)
      PROVE  BaselineInv'
  <2>0. UNCHANGED <<stage, request, served>>
    BY <1>3 DEF Retrieval!Replace
  <2>1. /\ late \subseteq late' /\ KeyOf[old] = KeyOf[new]
        /\ \A m \in Known \ {old, new} : row'[m] = row[m]
        /\ row[old] # NULL /\ row[old].status = "active"
        /\ row'[old] # NULL => row'[old].status = "superseded"
        /\ row'[new].tier = row[old].tier
    BY <1>3, ReplaceHolds DEF PackInv
  <2>2. ASSUME NEW m \in Known, Owed(m)'
        PROVE  \E n \in Known : Owed(n) /\ KeyOf[n] = KeyOf[m]
    <3>1. m # old
      BY <2>1, <2>2 DEF Owed
    <3>2. CASE m = new
      BY <2>1, <2>2, <3>2 DEF Owed
    <3>3. CASE m # new
      BY <2>1, <2>2, <3>1, <3>3 DEF Owed
    <3> QED
      BY <3>2, <3>3
  <2> QED
    BY <2>0, <2>2 DEF BaselineInv
<1>4. ASSUME Retrieval!Gate PROVE BaselineInv'
  BY <1>4 DEF Retrieval!Gate, BaselineInv
<1>5. ASSUME NEW req, Retrieval!Ask(req) PROVE BaselineInv'
  BY <1>5 DEF Retrieval!Ask, BaselineInv
<1>6. ASSUME \/ Retrieval!Search \/ Retrieval!Rank \/ Retrieval!Select
             \/ Retrieval!NothingFound \/ Retrieval!Answered
      PROVE  BaselineInv'
  <2>1. stage' \notin {"place", "done"}
    BY <1>6 DEF Retrieval!Search, Retrieval!Rank, Retrieval!Select,
       Retrieval!NothingFound, Retrieval!Answered
  <2> QED
    BY <2>1 DEF BaselineInv
<1>7. CASE UNCHANGED Retrieval!vars
  BY <1>7 DEF Retrieval!vars, BaselineInv, Owed
<1> QED
  BY <1>1, <1>2, <1>3, <1>4, <1>5, <1>6, <1>7 DEF Retrieval!Next

\* A reviewed constraint is in every pack, in one version or another, whatever
\* the ranking found and whoever was replacing it meanwhile.
THEOREM ConstraintsAreServed == RetrievalSpec => []BaselineIsServed
<1>1. Retrieval!Init => BaselineInv
  BY DEF Retrieval!Init, Retrieval!Blank, BaselineInv
<1>2. BaselineInv => Retrieval!BaselineIsServed
  BY DEF BaselineInv, Owed, Retrieval!BaselineIsServed, Retrieval!PackDone
<1> QED
  BY <1>1, <1>2, PackInvariance, BaselineNext, PTL DEF RetrievalSpec, BaselineIsServed
-----------------------------------------------------------------------------
(***************************************************************************)
(* Retrieval: a pack accounts for every candidate.                         *)
(***************************************************************************)
IdsOf(items) == {i.id : i \in items}

\* Where the candidates are, stage by stage.
CandidatesAreSomewhere ==
    LET A == Retrieval!ToSet(arrived)
        K == Retrieval!ToSet(kept)
    IN  /\ stage = "dedup" => A \subseteq pool \cup K \cup IdsOf(dropped)
        /\ stage = "gate" => A \subseteq K \cup IdsOf(dropped)
        /\ stage = "always" => A \subseteq evidence \cup IdsOf(dropped) /\ served = {}
        /\ stage = "place" =>
                /\ A \subseteq evidence \cup IdsOf(served) \cup IdsOf(dropped)
                /\ evidence \cap IdsOf(served) = {}
        /\ stage = "done" =>
                /\ event.dropped = dropped /\ event.returned = IdsOf(served)
                /\ A \subseteq IdsOf(served) \cup IdsOf(dropped)

KeptAreApart ==
    \A m, n \in Retrieval!KeptSet : m # n => Retrieval!Alike(m, n) < Retrieval!Duplicate

DropIsTrue(d) ==
    /\ d.id \in Known
    /\ d.reason \in {"near-duplicate", "no evidence", "budget"}
    /\ d.reason = "near-duplicate" =>
            d.by \in Retrieval!KeptSet /\ Retrieval!Alike(d.id, d.by) >= Retrieval!Duplicate
    /\ d.reason = "no evidence" => ~Retrieval!IsEvidence(d.id)
    /\ d.reason = "budget" =>
            ~Retrieval!Fits(d.id) /\ d.id \notin IdsOf(served) /\ d.id \notin evidence

DropsAreTrue ==
    /\ \A d \in dropped : DropIsTrue(d)
    /\ stage \in {"dedup", "gate"} => \A d \in dropped : d.reason = "near-duplicate"
    /\ stage = "always" => \A d \in dropped : d.reason # "budget"

SectionsFit ==
    \A i \in served : i.id \in Known /\
        (i.role = "evidence" => used[SectionOf[i.id]] <= Cap[SectionOf[i.id]])

UsedIsCounted == used \in [Retrieval!Section -> Nat]

ExplainInv ==
    stage \notin Early /\ request.tool = "context" =>
        CandidatesAreSomewhere /\ KeptAreApart /\ DropsAreTrue /\ SectionsFit

LEMMA LeastOf ==
    ASSUME NEW T, T \subseteq Nat, T # {}
    PROVE  \E x \in T : \A y \in T : x <= y
<1> DEFINE R == OpToRel(<, Nat)
<1>1. IsWellFoundedOn(R, Nat)
  BY NatLessThanWellFounded
<1> HIDE DEF R
<1>2. PICK x \in T : \A y \in T : ~(<<y, x>> \in R)
  BY <1>1, WFMin
<1>3. \A y \in T : ~(y < x)
  BY <1>2 DEF R, OpToRel
<1> QED
  BY <1>3

LEMMA AlikeIsMutual ==
    ASSUME NEW m \in Known, NEW n \in Known
    PROVE  Retrieval!Alike(m, n) = Retrieval!Alike(n, m) /\ Retrieval!Alike(m, n) \in Int
BY RetrievalConstants DEF Retrieval!Alike

\* Evidence depends on what was kept and on the request.
LEMMA EvidenceStays ==
    ASSUME UNCHANGED <<kept, request>>, NEW m
    PROVE  Retrieval!IsEvidence(m)' <=> Retrieval!IsEvidence(m)
BY DEF Retrieval!IsEvidence, Retrieval!EvidenceFor, Retrieval!Direct,
   Retrieval!UnknownMarkers, Retrieval!KeptSet

LEMMA CostIsCounted ==
    ASSUME NEW ms, ms \subseteq Known
    PROVE  Retrieval!TotalCost(ms) \in Nat
<1> DEFINE f == [m \in ms |-> {m} \X (1..Cost[m])]
           T == {{m} \X (1..Cost[m]) : m \in ms}
<1>1. IsFiniteSet(ms)
  BY RetrievalConstants, PartIsSmaller
<1>2. f \in Surjection(ms, T)
  BY DEF Surjection
<1>3. IsFiniteSet(T)
  BY <1>1, <1>2, FS_Surjection
<1>4. ASSUME NEW m \in ms PROVE IsFiniteSet({m} \X (1..Cost[m]))
  <2>1. IsFiniteSet(1..Cost[m])
    BY RetrievalConstants, FS_Interval
  <2> QED
    BY <2>1, FS_Singleton, FS_Product
<1>5. IsFiniteSet(UNION T)
  BY <1>3, <1>4, FS_UNION
<1>6. Cardinality(UNION T) \in Nat
  BY <1>5, FS_CardinalityType
<1>7. Retrieval!TotalCost(ms) = Cardinality(UNION T)
  BY SameCount DEF Retrieval!TotalCost
<1> QED
  BY <1>6, <1>7

\* The pipeline's sets, for the steps below.
LEMMA StageFacts ==
    ASSUME PackInv, stage \notin Early
    PROVE  /\ Retrieval!KeptSet \subseteq Retrieval!ToSet(arrived)
           /\ Retrieval!ToSet(arrived) \subseteq Known
           /\ pool \subseteq Retrieval!ToSet(arrived)
           /\ evidence \subseteq Retrieval!KeptSet
           /\ kept \in Seq(Retrieval!ToSet(arrived))
           /\ DOMAIN kept = 1..Len(kept) /\ Len(kept) \in Nat
           /\ stage \in {"dedup", "gate"} => served = {} /\ evidence = {}
BY SeqSet DEF PackInv, StagesInv, ArrivalInv, Early, Retrieval!KeptSet

LEMMA ExplainRank ==
    ASSUME PackInv, Retrieval!Rank
    PROVE  ExplainInv'
<1> SUFFICES ASSUME request.tool = "context" PROVE ExplainInv'
  BY DEF Retrieval!Rank, ExplainInv
<1> DEFINE A == Retrieval!ToSet(arrived)
<1>1. /\ stage = "rank" /\ stage' = "dedup" /\ kept' = kept
      /\ ranked' = Retrieval!Ranking(arrived, Retrieval!Seen(request, arrived))
      /\ pool' = Retrieval!ToSet(ranked')
      /\ UNCHANGED <<request, arrived, served, dropped>>
  BY DEF Retrieval!Rank
<1>2. kept = <<>> /\ served = {} /\ dropped = {} /\ A \subseteq Known /\ Enumerates(arrived, A)
  BY <1>1 DEF PackInv, StagesInv, ArrivalInv, Early
<1>3. pool' = A
  BY <1>1, <1>2, RankedEnumerates, EnumeratedSet
<1>4. Retrieval!ToSet(kept') = {}
  BY <1>1, <1>2 DEF Retrieval!ToSet
<1>5. CandidatesAreSomewhere' /\ KeptAreApart'
  BY <1>1, <1>3, <1>4 DEF CandidatesAreSomewhere, KeptAreApart, Retrieval!KeptSet
<1>6. DropsAreTrue' /\ SectionsFit'
  BY <1>1, <1>2 DEF DropsAreTrue, SectionsFit
<1> QED
  BY <1>5, <1>6 DEF ExplainInv

LEMMA ExplainSelect ==
    ASSUME PackInv, ExplainInv, Retrieval!Select
    PROVE  ExplainInv'
<1> SUFFICES ASSUME request.tool = "context" PROVE ExplainInv'
  BY DEF Retrieval!Select, ExplainInv
<1> DEFINE A == Retrieval!ToSet(arrived)
           K == Retrieval!ToSet(kept)
<1>1. PICK m \in pool :
        /\ pool' = pool \ {m}
        /\ LET twins == Retrieval!Collapses(m)
           IN  IF twins = {}
               THEN kept' = Append(kept, m) /\ UNCHANGED dropped
               ELSE /\ dropped' = dropped \cup
                        {[id |-> m, reason |-> "near-duplicate",
                          by |-> kept[CHOOSE k \in twins : \A j \in twins : k <= j]]}
                    /\ UNCHANGED kept
  BY DEF Retrieval!Select
<1>2. /\ stage = "dedup" /\ stage' = (IF pool' = {} THEN "gate" ELSE "dedup")
      /\ UNCHANGED <<request, arrived, served, evidence>>
  BY DEF Retrieval!Select
<1>3. /\ CandidatesAreSomewhere /\ KeptAreApart /\ DropsAreTrue
      /\ served = {} /\ evidence = {}
      /\ A \subseteq pool \cup K \cup IdsOf(dropped)
      /\ pool \subseteq A /\ A \subseteq Known /\ K \subseteq A /\ kept \in Seq(A)
      /\ DOMAIN kept = 1..Len(kept) /\ Len(kept) \in Nat
  BY <1>2, StageFacts DEF ExplainInv, Early, CandidatesAreSomewhere, Retrieval!KeptSet
<1>4. SectionsFit'
  BY <1>2, <1>3 DEF SectionsFit
<1>5. ASSUME NEW n, NEW o PROVE Retrieval!Alike(n, o)' = Retrieval!Alike(n, o)
  BY <1>2 DEF Retrieval!Alike
<1>6. ASSUME NEW d \in dropped PROVE d.reason = "near-duplicate" /\ DropIsTrue(d)
  BY <1>2, <1>3 DEF DropsAreTrue
<1>7. CASE Retrieval!Collapses(m) = {}
  <2>1. kept' = Append(kept, m) /\ dropped' = dropped
    BY <1>1, <1>7
  <2>2. Retrieval!ToSet(kept') = K \cup {m}
    <3>1. m \in A /\ kept \in Seq(A)
      BY <1>1, <1>3
    <3>2. Retrieval!ToSet(Append(kept, m)) = Retrieval!ToSet(kept) \cup {m}
      BY <3>1, AppendIsSeq
    <3> QED
      BY <2>1, <3>2
  <2>3. \A n \in K : Retrieval!Alike(m, n) < Retrieval!Duplicate
    <3> SUFFICES ASSUME NEW n \in K PROVE Retrieval!Alike(m, n) < Retrieval!Duplicate
      OBVIOUS
    <3>1. PICK k \in 1..Len(kept) : kept[k] = n
      BY <1>3 DEF Retrieval!ToSet
    <3>2. ~(Retrieval!Alike(m, kept[k]) >= Retrieval!Duplicate)
      BY <1>7 DEF Retrieval!Collapses
    <3>3. Retrieval!Alike(m, n) \in Int
      BY <1>1, <1>3, AlikeIsMutual
    <3> QED
      BY <3>1, <3>2, <3>3 DEF Retrieval!Duplicate
  <2>4. CandidatesAreSomewhere'
    BY <1>1, <1>2, <1>3, <2>1, <2>2 DEF CandidatesAreSomewhere
  <2>5. KeptAreApart'
    <3> SUFFICES ASSUME NEW n \in K \cup {m}, NEW o \in K \cup {m}, n # o
                 PROVE  Retrieval!Alike(n, o) < Retrieval!Duplicate
      BY <1>5, <2>2 DEF KeptAreApart, Retrieval!KeptSet, Retrieval!Duplicate
    <3>1. CASE n \in K /\ o \in K
      BY <1>3, <3>1 DEF KeptAreApart, Retrieval!KeptSet
    <3>2. CASE n = m /\ o \in K
      BY <2>3, <3>2
    <3>3. CASE o = m /\ n \in K
      BY <1>1, <1>3, <2>3, <3>3, AlikeIsMutual
    <3> QED
      BY <3>1, <3>2, <3>3
  <2>6. DropsAreTrue'
    BY <1>2, <1>5, <1>6, <2>1, <2>2
       DEF DropsAreTrue, DropIsTrue, Retrieval!KeptSet, Retrieval!Duplicate
  <2> QED
    BY <1>4, <2>4, <2>5, <2>6 DEF ExplainInv
<1>8. CASE Retrieval!Collapses(m) # {}
  <2> DEFINE twins == Retrieval!Collapses(m)
             first == CHOOSE k \in twins : \A j \in twins : k <= j
             new == [id |-> m, reason |-> "near-duplicate", by |-> kept[first]]
  <2>1. dropped' = dropped \cup {new} /\ kept' = kept
    BY <1>1, <1>8
  <2>2. twins \subseteq Nat /\ twins \subseteq 1..Len(kept)
    BY <1>3 DEF Retrieval!Collapses
  <2>3. \E k \in twins : \A j \in twins : k <= j
    BY <1>8, <2>2, LeastOf
  <2>4. first \in twins
    BY <2>3
  <2>5. kept[first] \in K /\ Retrieval!Alike(m, kept[first]) >= Retrieval!Duplicate
    BY <1>3, <2>2, <2>4 DEF Retrieval!Collapses, Retrieval!ToSet
  <2>6. new.id = m /\ new.reason = "near-duplicate" /\ new.by = kept[first]
    OBVIOUS
  <2> HIDE DEF twins, first, new
  <2>7. IdsOf(dropped') = IdsOf(dropped) \cup {m}
    BY <2>1, <2>6 DEF IdsOf
  <2>8. CandidatesAreSomewhere'
    BY <1>1, <1>2, <1>3, <2>1, <2>7 DEF CandidatesAreSomewhere
  <2>9. KeptAreApart'
    BY <1>3, <1>5, <2>1 DEF KeptAreApart, Retrieval!KeptSet, Retrieval!Duplicate
  <2>10. DropIsTrue(new) /\ \A d \in dropped' : d.reason = "near-duplicate"
    BY <1>1, <1>3, <1>6, <2>1, <2>5, <2>6 DEF DropIsTrue, Retrieval!KeptSet
  <2>11. ASSUME NEW d, DropIsTrue(d), d.reason = "near-duplicate"
         PROVE  DropIsTrue(d)'
    BY <1>5, <2>1, <2>11 DEF DropIsTrue, Retrieval!KeptSet, Retrieval!Duplicate
  <2>12. DropsAreTrue'
    BY <1>2, <1>6, <2>1, <2>10, <2>11 DEF DropsAreTrue
  <2> QED
    BY <1>4, <2>8, <2>9, <2>12 DEF ExplainInv
<1> QED
  BY <1>7, <1>8

LEMMA ExplainGate ==
    ASSUME PackInv, ExplainInv, Retrieval!Gate
    PROVE  ExplainInv'
<1> SUFFICES ASSUME request.tool = "context" PROVE ExplainInv'
  BY DEF Retrieval!Gate, ExplainInv
<1> DEFINE A == Retrieval!ToSet(arrived)
           K == Retrieval!ToSet(kept)
<1>1. /\ stage = "gate" /\ stage' = "always"
      /\ evidence' = {m \in K : Retrieval!IsEvidence(m)}
      /\ dropped' = dropped \cup Retrieval!Unsupported
      /\ UNCHANGED <<request, arrived, kept, served, used>>
  BY DEF Retrieval!Gate, Retrieval!KeptSet
<1>2. /\ CandidatesAreSomewhere /\ KeptAreApart /\ DropsAreTrue
      /\ served = {} /\ A \subseteq K \cup IdsOf(dropped)
      /\ K \subseteq A /\ A \subseteq Known
  BY <1>1, StageFacts DEF ExplainInv, Early, CandidatesAreSomewhere, Retrieval!KeptSet
<1>3. ASSUME NEW d \in Retrieval!Unsupported
      PROVE  d.id \in K /\ ~Retrieval!IsEvidence(d.id) /\ d.reason = "no evidence"
  <2>1. PICK m \in {n \in K : ~Retrieval!IsEvidence(n)} :
            d = [id |-> m, reason |-> "no evidence", by |-> NULL]
    BY DEF Retrieval!Unsupported, Retrieval!KeptSet
  <2>2. d.id = m /\ d.reason = "no evidence"
    BY <2>1
  <2> QED
    BY <2>1, <2>2
<1>4. ASSUME NEW m \in K, ~Retrieval!IsEvidence(m)
      PROVE  m \in IdsOf(Retrieval!Unsupported)
  <2> DEFINE d == [id |-> m, reason |-> "no evidence", by |-> NULL]
  <2>1. d \in Retrieval!Unsupported
    BY <1>4 DEF Retrieval!Unsupported, Retrieval!KeptSet
  <2>2. d.id = m
    OBVIOUS
  <2> QED
    BY <2>1, <2>2 DEF IdsOf
<1>5. IdsOf(dropped') = IdsOf(dropped) \cup IdsOf(Retrieval!Unsupported)
  BY <1>1 DEF IdsOf
<1>6. CandidatesAreSomewhere'
  BY <1>1, <1>2, <1>4, <1>5 DEF CandidatesAreSomewhere
<1>7. ASSUME NEW n, NEW o PROVE Retrieval!Alike(n, o)' = Retrieval!Alike(n, o)
  BY <1>1 DEF Retrieval!Alike
<1>8. KeptAreApart'
  BY <1>1, <1>2, <1>7 DEF KeptAreApart, Retrieval!KeptSet, Retrieval!Duplicate
<1>9. ASSUME NEW m PROVE Retrieval!IsEvidence(m)' <=> Retrieval!IsEvidence(m)
  BY <1>1, EvidenceStays
<1>10. ASSUME NEW d \in dropped
       PROVE  DropIsTrue(d)' /\ d.reason = "near-duplicate"
  <2>1. DropIsTrue(d) /\ d.reason = "near-duplicate"
    BY <1>1, <1>2 DEF DropsAreTrue
  <2> QED
    BY <1>1, <1>7, <2>1 DEF DropIsTrue, Retrieval!KeptSet, Retrieval!Duplicate
<1>11. ASSUME NEW d \in Retrieval!Unsupported
       PROVE  DropIsTrue(d)' /\ d.reason # "budget"
  BY <1>2, <1>3, <1>9 DEF DropIsTrue
<1>12. DropsAreTrue'
  BY <1>1, <1>10, <1>11 DEF DropsAreTrue
<1>13. SectionsFit'
  BY <1>1, <1>2 DEF SectionsFit
<1> QED
  BY <1>6, <1>8, <1>12, <1>13 DEF ExplainInv

LEMMA ExplainAlways ==
    ASSUME PackInv, ExplainInv, Retrieval!Always, request.tool = "context"
    PROVE  ExplainInv'
<1> DEFINE A == Retrieval!ToSet(arrived)
           base == Retrieval!AlwaysIncluded
           role(m) == IF m \in evidence THEN "baseline_evidence" ELSE "baseline"
           item(m) == Retrieval!Rendered(m, role(m), row[m].status, TRUE)
<1>0. /\ stage = "always" /\ stage' = "place"
      /\ served' = {item(m) : m \in base}
      /\ evidence' = evidence \ base
      /\ UNCHANGED <<request, arrived, kept, dropped>>
  BY DEF Retrieval!Always
<1>a. ASSUME NEW m PROVE item(m).id = m /\ item(m).role \in {"baseline_evidence", "baseline"}
  BY DEF Retrieval!Rendered
<1> HIDE DEF item
<1>1. /\ stage = "always" /\ stage' = "place"
      /\ \A i \in served' : i.id \in base /\ i.role \in {"baseline_evidence", "baseline"}
      /\ \A m \in base : \E i \in served' : i.id = m
      /\ evidence' = evidence \ base
      /\ UNCHANGED <<request, arrived, kept, dropped>>
  BY <1>0, <1>a
<1>2. /\ CandidatesAreSomewhere /\ KeptAreApart /\ DropsAreTrue
      /\ A \subseteq evidence \cup IdsOf(dropped) /\ base \subseteq Known
  BY <1>1 DEF ExplainInv, Early, CandidatesAreSomewhere, Retrieval!AlwaysIncluded
<1>3. IdsOf(served') = base
  BY <1>1 DEF IdsOf
<1>4. CandidatesAreSomewhere'
  BY <1>1, <1>2, <1>3 DEF CandidatesAreSomewhere
<1>5. ASSUME NEW n, NEW o PROVE Retrieval!Alike(n, o)' = Retrieval!Alike(n, o)
  BY <1>1 DEF Retrieval!Alike
<1>6. KeptAreApart'
  BY <1>1, <1>2, <1>5 DEF KeptAreApart, Retrieval!KeptSet, Retrieval!Duplicate
<1>7. ASSUME NEW m PROVE Retrieval!IsEvidence(m)' <=> Retrieval!IsEvidence(m)
  BY <1>1, EvidenceStays
<1>8. ASSUME NEW d \in dropped PROVE DropIsTrue(d)'
  <2>1. DropIsTrue(d) /\ d.reason # "budget"
    BY <1>1, <1>2 DEF DropsAreTrue
  <2> QED
    BY <1>1, <1>5, <1>7, <2>1 DEF DropIsTrue, Retrieval!KeptSet, Retrieval!Duplicate
<1>9. DropsAreTrue' /\ SectionsFit'
  BY <1>1, <1>2, <1>8 DEF DropsAreTrue, SectionsFit
<1> QED
  BY <1>4, <1>6, <1>9 DEF ExplainInv

\* One item of evidence that fits.
LEMMA ExplainServing ==
    ASSUME PackInv, ExplainInv, UsedIsCounted, stage = "place", request.tool = "context",
           NEW m \in evidence, Retrieval!Fits(m), NEW item, item.id = m,
           served' = served \cup {item},
           used' = [used EXCEPT ![SectionOf[m]] = @ + Cost[m]],
           evidence' = evidence \ {m},
           UNCHANGED <<stage, request, arrived, kept, dropped>>
    PROVE  ExplainInv'
<1> DEFINE A == Retrieval!ToSet(arrived)
<1>1. /\ CandidatesAreSomewhere /\ KeptAreApart /\ DropsAreTrue /\ SectionsFit
      /\ A \subseteq evidence \cup IdsOf(served) \cup IdsOf(dropped)
      /\ evidence \cap IdsOf(served) = {} /\ m \in Known
  BY StageFacts DEF ExplainInv, Early, CandidatesAreSomewhere
<1>2. IdsOf(served') = IdsOf(served) \cup {m}
  BY DEF IdsOf
<1>3. CandidatesAreSomewhere'
  BY <1>1, <1>2 DEF CandidatesAreSomewhere
<1>4. ASSUME NEW n, NEW o PROVE Retrieval!Alike(n, o)' = Retrieval!Alike(n, o)
  BY DEF Retrieval!Alike
<1>5. KeptAreApart'
  BY <1>1, <1>4 DEF KeptAreApart, Retrieval!KeptSet, Retrieval!Duplicate
<1>6. ASSUME NEW n PROVE Retrieval!IsEvidence(n)' <=> Retrieval!IsEvidence(n)
  BY EvidenceStays
<1>7. /\ \A n \in Known : SectionOf[n] \in Retrieval!Section /\ Cost[n] \in Nat
      /\ \A x \in Retrieval!Section : used[x] \in Nat /\ Cap[x] \in Nat
      /\ DOMAIN used = Retrieval!Section
  BY RetrievalConstants DEF UsedIsCounted
<1>8. \A x \in Retrieval!Section :
        used'[x] = IF x = SectionOf[m] THEN used[x] + Cost[m] ELSE used[x]
  BY <1>7
<1>9. used[SectionOf[m]] + Cost[m] <= Cap[SectionOf[m]]
  BY DEF Retrieval!Fits
<1>10. ASSUME NEW n \in Known, ~Retrieval!Fits(n) PROVE ~Retrieval!Fits(n)'
  <2> DEFINE x == SectionOf[n]
  <2>1. x \in Retrieval!Section /\ Cost[n] \in Nat /\ Cost[m] \in Nat
    BY <1>1, <1>7
  <2>2. used[x] \in Nat /\ Cap[x] \in Nat
    BY <1>7, <2>1
  <2>3. used'[x] \in Nat /\ used'[x] >= used[x]
    BY <1>8, <2>1, <2>2
  <2>4. ~(used[x] + Cost[n] <= Cap[x])
    BY <1>10 DEF Retrieval!Fits
  <2> HIDE DEF x
  <2>5. ~(used'[x] + Cost[n] <= Cap[x])
    BY <2>1, <2>2, <2>3, <2>4
  <2> QED
    BY <2>5 DEF Retrieval!Fits, x
<1>11. ASSUME NEW d \in dropped PROVE DropIsTrue(d)'
  <2>1. DropIsTrue(d)
    BY <1>1 DEF DropsAreTrue
  <2>2. /\ d.id \in Known /\ d.reason \in {"near-duplicate", "no evidence", "budget"}
        /\ d.reason = "near-duplicate" =>
                d.by \in Retrieval!KeptSet' /\ Retrieval!Alike(d.id, d.by)' >= Retrieval!Duplicate
        /\ d.reason = "no evidence" => ~Retrieval!IsEvidence(d.id)'
    BY <1>4, <1>6, <2>1 DEF DropIsTrue, Retrieval!KeptSet
  <2>3. d.reason = "budget" =>
            ~Retrieval!Fits(d.id)' /\ d.id \notin IdsOf(served') /\ d.id \notin evidence'
    BY <1>2, <1>10, <2>1 DEF DropIsTrue
  <2> QED
    BY <2>2, <2>3 DEF DropIsTrue, Retrieval!Duplicate
<1>12. DropsAreTrue'
  BY <1>11 DEF DropsAreTrue
<1>13. ASSUME NEW i \in served'
       PROVE  /\ i.id \in Known
              /\ i.role = "evidence" => used'[SectionOf[i.id]] <= Cap[SectionOf[i.id]]
  <2>1. CASE i = item
    BY <1>1, <1>7, <1>8, <1>9, <2>1
  <2>2. CASE i \in served
    <3>1. /\ i.id \in Known
          /\ i.role = "evidence" => used[SectionOf[i.id]] <= Cap[SectionOf[i.id]]
      BY <1>1, <2>2 DEF SectionsFit
    <3> QED
      BY <1>7, <1>8, <1>9, <3>1
  <2> QED
    BY <2>1, <2>2
<1>14. SectionsFit'
  BY <1>13 DEF SectionsFit
<1> QED
  BY <1>3, <1>5, <1>12, <1>14 DEF ExplainInv

\* One item of evidence that does not.
LEMMA ExplainDropping ==
    ASSUME PackInv, ExplainInv, stage = "place", request.tool = "context",
           NEW m \in evidence, ~Retrieval!Fits(m),
           dropped' = dropped \cup {[id |-> m, reason |-> "budget", by |-> NULL]},
           evidence' = evidence \ {m},
           UNCHANGED <<stage, request, arrived, kept, served, used>>
    PROVE  ExplainInv'
<1> DEFINE A == Retrieval!ToSet(arrived)
           new == [id |-> m, reason |-> "budget", by |-> NULL]
<1>1. /\ CandidatesAreSomewhere /\ KeptAreApart /\ DropsAreTrue /\ SectionsFit
      /\ A \subseteq evidence \cup IdsOf(served) \cup IdsOf(dropped)
      /\ evidence \cap IdsOf(served) = {} /\ m \in Known
  BY StageFacts DEF ExplainInv, Early, CandidatesAreSomewhere
<1>2. new.id = m /\ new.reason = "budget" /\ dropped' = dropped \cup {new}
  OBVIOUS
<1> HIDE DEF new
<1>3. IdsOf(dropped') = IdsOf(dropped) \cup {m}
  BY <1>2 DEF IdsOf
<1>4. CandidatesAreSomewhere'
  BY <1>1, <1>3 DEF CandidatesAreSomewhere
<1>5. ASSUME NEW n, NEW o PROVE Retrieval!Alike(n, o)' = Retrieval!Alike(n, o)
  BY DEF Retrieval!Alike
<1>6. KeptAreApart'
  BY <1>1, <1>5 DEF KeptAreApart, Retrieval!KeptSet, Retrieval!Duplicate
<1>7. ASSUME NEW n PROVE Retrieval!IsEvidence(n)' <=> Retrieval!IsEvidence(n)
  BY EvidenceStays
<1>8. ASSUME NEW n PROVE Retrieval!Fits(n)' <=> Retrieval!Fits(n)
  BY DEF Retrieval!Fits
<1>9. DropIsTrue(new)'
  <2>1. m \notin IdsOf(served) /\ m \notin evidence'
    BY <1>1
  <2> QED
    BY <1>1, <1>2, <1>8, <2>1 DEF DropIsTrue
<1>10. ASSUME NEW d, DropIsTrue(d) PROVE DropIsTrue(d)'
  BY <1>5, <1>7, <1>8, <1>10 DEF DropIsTrue, Retrieval!KeptSet, Retrieval!Duplicate
<1>11. DropsAreTrue'
  BY <1>1, <1>2, <1>9, <1>10 DEF DropsAreTrue
<1>12. SectionsFit'
  BY <1>1 DEF SectionsFit
<1> QED
  BY <1>4, <1>6, <1>11, <1>12 DEF ExplainInv

\* Steps that leave the request's data alone, or only seal it.
LEMMA ExplainKeeps ==
    ASSUME PackInv, ExplainInv, UNCHANGED <<request, arrived, kept, evidence, served, used, dropped>>,
           \/ UNCHANGED <<stage, pool, event>>
           \/ stage = "dedup" /\ pool = {} /\ stage' = "gate"
           \/ /\ stage = "place" /\ evidence = {} /\ stage' = "done"
              /\ event'.dropped = dropped /\ event'.returned = IdsOf(served)
    PROVE  ExplainInv'
<1> SUFFICES ASSUME stage \notin Early, request.tool = "context" PROVE ExplainInv'
  BY DEF ExplainInv, Early
<1>1. CandidatesAreSomewhere /\ KeptAreApart /\ DropsAreTrue /\ SectionsFit
  BY DEF ExplainInv
<1>2. CandidatesAreSomewhere'
  BY <1>1 DEF CandidatesAreSomewhere
<1>3. ASSUME NEW n, NEW o PROVE Retrieval!Alike(n, o)' = Retrieval!Alike(n, o)
  BY DEF Retrieval!Alike
<1>4. KeptAreApart'
  BY <1>1, <1>3 DEF KeptAreApart, Retrieval!KeptSet, Retrieval!Duplicate
<1>5. ASSUME NEW n PROVE Retrieval!IsEvidence(n)' <=> Retrieval!IsEvidence(n)
  BY EvidenceStays
<1>6. ASSUME NEW d, DropIsTrue(d) PROVE DropIsTrue(d)'
  BY <1>3, <1>5, <1>6 DEF DropIsTrue, Retrieval!KeptSet, Retrieval!Duplicate, Retrieval!Fits
<1>7. DropsAreTrue' /\ SectionsFit'
  BY <1>1, <1>6 DEF DropsAreTrue, SectionsFit
<1> QED
  BY <1>2, <1>4, <1>7 DEF ExplainInv

LEMMA UsedNext ==
    ASSUME PackInv, UsedIsCounted, [Retrieval!Next]_Retrieval!vars
    PROVE  UsedIsCounted'
<1>1. ASSUME Retrieval!Always PROVE UsedIsCounted'
  <2>1. Retrieval!TotalCost(Retrieval!AlwaysIncluded) \in Nat
    BY CostIsCounted DEF Retrieval!AlwaysIncluded
  <2> QED
    BY <1>1, <2>1 DEF Retrieval!Always, UsedIsCounted
<1>2. ASSUME Retrieval!Place, used' # used PROVE UsedIsCounted'
  <2>1. PICK m \in evidence : used' = [used EXCEPT ![SectionOf[m]] = @ + Cost[m]]
    BY <1>2 DEF Retrieval!Place
  <2>2. stage \notin Early
    BY <1>2 DEF Retrieval!Place, Early
  <2>3. SectionOf[m] \in Retrieval!Section /\ Cost[m] \in Nat
    BY <2>2, StageFacts, RetrievalConstants
  <2> QED
    BY <2>1, <2>3 DEF UsedIsCounted
<1>3. ASSUME Retrieval!Answered PROVE UsedIsCounted'
  BY <1>3 DEF Retrieval!Answered, UsedIsCounted
<1>4. CASE used' = used
  BY <1>4 DEF UsedIsCounted
<1> QED
  BY <1>1, <1>2, <1>3, <1>4 DEF Retrieval!Next, Retrieval!vars, Retrieval!Ask, Retrieval!Search,
     Retrieval!Rank, Retrieval!Select, Retrieval!NothingFound, Retrieval!Gate,
     Retrieval!Place, Retrieval!Seal, Retrieval!Replace

LEMMA ExplainNext ==
    ASSUME PackInv, UsedIsCounted, ExplainInv, [Retrieval!Next]_Retrieval!vars
    PROVE  ExplainInv'
<1>1. ASSUME Retrieval!Rank \/ Retrieval!Select \/ Retrieval!Gate PROVE ExplainInv'
  BY <1>1, ExplainRank, ExplainSelect, ExplainGate
<1>2. ASSUME Retrieval!Always PROVE ExplainInv'
  <2>1. CASE request.tool = "context"
    BY <1>2, <2>1, ExplainAlways
  <2>2. CASE request.tool # "context"
    BY <1>2, <2>2 DEF Retrieval!Always, ExplainInv
  <2> QED
    BY <2>1, <2>2
<1>3. ASSUME Retrieval!Place PROVE ExplainInv'
  <2>1. stage = "place" /\ UNCHANGED <<stage, request, arrived, kept>>
    BY <1>3 DEF Retrieval!Place
  <2>2. CASE request.tool # "context"
    BY <2>1, <2>2 DEF ExplainInv
  <2>3. CASE request.tool = "context"
    <3>1. PICK m \in evidence :
            /\ IF Retrieval!Fits(m)
               THEN /\ served' = served \cup
                        {Retrieval!Rendered(m, "evidence", was[m], ~request.degraded)}
                    /\ used' = [used EXCEPT ![SectionOf[m]] = @ + Cost[m]]
                    /\ UNCHANGED dropped
               ELSE /\ dropped' = dropped \cup
                        {[id |-> m, reason |-> "budget", by |-> NULL]}
                    /\ UNCHANGED <<served, used>>
            /\ evidence' = evidence \ {m}
      BY <1>3 DEF Retrieval!Place
    <3>2. Retrieval!Rendered(m, "evidence", was[m], ~request.degraded).id = m
      BY DEF Retrieval!Rendered
    <3>3. CASE Retrieval!Fits(m)
      BY <2>1, <2>3, <3>1, <3>2, <3>3, ExplainServing
    <3>4. CASE ~Retrieval!Fits(m)
      BY <2>1, <2>3, <3>1, <3>4, ExplainDropping
    <3> QED
      BY <3>3, <3>4
  <2> QED
    BY <2>2, <2>3
<1>4. ASSUME Retrieval!Seal PROVE ExplainInv'
  <2>1. /\ stage = "place" /\ evidence = {} /\ stage' = "done"
        /\ event' = Retrieval!Event(served)
        /\ UNCHANGED <<request, arrived, kept, evidence, served, used, dropped>>
    BY <1>4 DEF Retrieval!Seal
  <2>2. event'.dropped = dropped /\ event'.returned = IdsOf(served)
    BY <2>1 DEF Retrieval!Event, IdsOf
  <2> QED
    BY <2>1, <2>2, ExplainKeeps
<1>5. ASSUME Retrieval!NothingFound PROVE ExplainInv'
  <2>1. /\ stage = "dedup" /\ pool = {} /\ stage' = "gate"
        /\ UNCHANGED <<request, arrived, kept, evidence, served, used, dropped>>
    BY <1>5 DEF Retrieval!NothingFound
  <2> QED
    BY <2>1, ExplainKeeps
<1>6. ASSUME NEW old, NEW new, NEW now, Retrieval!Replace(old, new, now) PROVE ExplainInv'
  <2>1. UNCHANGED <<stage, request, arrived, pool, kept, evidence, served, used, dropped, event>>
    BY <1>6 DEF Retrieval!Replace
  <2> QED
    BY <2>1, ExplainKeeps
<1>7. ASSUME NEW req, Retrieval!Ask(req) \/ Retrieval!Search \/ Retrieval!Answered
      PROVE  ExplainInv'
  <2>1. stage' \in Early
    BY <1>7 DEF Retrieval!Ask, Retrieval!Search, Retrieval!Answered, Early
  <2> QED
    BY <2>1 DEF ExplainInv
<1>8. CASE UNCHANGED Retrieval!vars
  <2>1. UNCHANGED <<stage, request, arrived, pool, kept, evidence, served, used, dropped, event>>
    BY <1>8 DEF Retrieval!vars
  <2> QED
    BY <2>1, ExplainKeeps
<1> QED
  BY <1>1, <1>2, <1>3, <1>4, <1>5, <1>6, <1>7, <1>8 DEF Retrieval!Next

\* The stored event has every candidate among what was returned or what was
\* left out, each for a reason that is true of the finished pack; near-duplicates
\* name what they are duplicates of, and sections keep to their caps.
THEOREM DropsAreAccountedFor == RetrievalSpec => []DropsAreExplained
<1>1. Retrieval!Init => UsedIsCounted /\ ExplainInv
  BY DEF Retrieval!Init, Retrieval!Blank, UsedIsCounted, ExplainInv, Early
<1>2. ExplainInv => Retrieval!DropsAreExplained
  <2> SUFFICES ASSUME ExplainInv, Retrieval!PackDone PROVE Retrieval!DropsAreExplained
    BY DEF Retrieval!DropsAreExplained
  <2>1. CandidatesAreSomewhere /\ KeptAreApart /\ DropsAreTrue /\ SectionsFit /\ stage = "done"
    BY DEF ExplainInv, Early, Retrieval!PackDone
  <2>2. /\ event.dropped = dropped /\ event.returned = IdsOf(served)
        /\ Retrieval!ToSet(arrived) \subseteq event.returned \cup {d.id : d \in event.dropped}
    BY <2>1 DEF CandidatesAreSomewhere, IdsOf
  <2>3. \A d \in event.dropped : DropIsTrue(d)
    BY <2>1, <2>2 DEF DropsAreTrue
  <2> QED
    BY <2>1, <2>2, <2>3
       DEF DropIsTrue, KeptAreApart, SectionsFit, Retrieval!DropsAreExplained
<1> QED
  BY <1>1, <1>2, PackInvariance, UsedNext, ExplainNext, PTL
     DEF RetrievalSpec, DropsAreExplained

-----------------------------------------------------------------------------
(***************************************************************************)
(* Types of the parts, and the parts side by side.                         *)
(***************************************************************************)
\* A finite set of numbers that is not empty has a greatest one.
LEMMA GreatestOf ==
    ASSUME NEW T, T \subseteq Nat, IsFiniteSet(T), T # {}
    PROVE  \E x \in T : \A y \in T : y <= x
<1> DEFINE above(x) == {y \in T : x < y}
           tails == {above(x) : x \in T}
           R == StrictSubsetOrdering(T)
<1>1. IsWellFoundedOn(R, FiniteSubsetsOf(T))
  BY FS_StrictSubsetOrderingWellFounded
<1>2. tails \subseteq FiniteSubsetsOf(T) /\ tails # {}
  <2>1. FiniteSubsetsOf(T) = SUBSET T
    BY FS_FiniteSubsetsOfFinite
  <2>2. ASSUME NEW U \in tails PROVE U \in SUBSET T
    <3>1. PICK x \in T : U = above(x)
      BY <2>2
    <3> QED
      BY <3>1
  <2>3. tails # {}
    <3>1. PICK x : x \in T
      OBVIOUS
    <3>2. above(x) \in tails
      BY <3>1
    <3> QED
      BY <3>2
  <2> HIDE DEF tails
  <2> QED
    BY <2>1, <2>2, <2>3
<1>3. PICK U \in tails : \A V \in tails : ~(<<V, U>> \in R)
  <2> HIDE DEF R, tails
  <2> QED
    BY <1>1, <1>2, WFMin
<1>4. PICK x \in T : U = above(x)
  BY <1>3
<1>5. ASSUME NEW y \in T, x < y PROVE FALSE
  <2>0. x \in Nat /\ y \in Nat
    OBVIOUS
  <2>1. /\ \A z \in above(y) : z \in above(x)
        /\ y \in above(x) /\ y \notin above(y)
    <3>1. ASSUME NEW z \in T, y < z PROVE x < z
      <4>1. z \in Nat
        OBVIOUS
      <4> QED
        BY <1>5, <2>0, <3>1, <4>1
    <3>2. ~(y < y)
      BY <2>0
    <3> QED
      BY <1>5, <3>1, <3>2
  <2>2. <<above(y), above(x)>> \in R
    BY <2>1 DEF StrictSubsetOrdering
  <2> QED
    BY <1>3, <1>4, <2>2
<1> QED
  BY <1>5

ConfirmationTypes ==
    /\ Confirmation!TypeOK
    /\ minute \in Nat

LEMMA ConfirmationConstants ==
    /\ AnswerTime \in Nat /\ MaxMinute \in Nat /\ IsFiniteSet(Replica)
    /\ Calls \subseteq [op : {"assert", "retract", "supersede"},
                        type : {"observation", "decision"},
                        ref : Ref, evidence : Evidence]
<1>1. IsFiniteSet(Replica) <=> Confirmation!IsFiniteSet(Replica)
  BY Zenon DEF Confirmation!IsFiniteSet, IsFiniteSet
<1> QED
  BY <1>1, ServingAssumption DEF ServingAssumption, Confirmation!ConfirmationAssumption

LEMMA ConfirmationTypesInit == Confirmation!Init => ConfirmationTypes
<1> SUFFICES ASSUME Confirmation!Init PROVE ConfirmationTypes
  OBVIOUS
<1>1. \A S : Confirmation!Cardinality(S) = Cardinality(S)
  BY Zenon DEF Confirmation!Cardinality, Cardinality
<1>2. PICK f : f \in Bijection(1..Cardinality(Replica), Replica)
  BY ConfirmationConstants, FS_CardinalityType DEF ExistsBijection
<1>3. ExistsBijection(Replica, 1..Cardinality(Replica))
  BY <1>2, Fun_ExistsBijSymmetric DEF ExistsBijection
<1>4. PICK g \in [Replica -> 1..Cardinality(Replica)] :
          \A p, q \in Replica : g[p] = g[q] => p = q
  BY <1>3 DEF ExistsBijection, Bijection, Injection, IsInjective
<1>5. /\ secret \in [Replica -> 1..Confirmation!Cardinality(Replica)]
      /\ \A p, q \in Replica : secret[p] = secret[q] => p = q
  BY <1>1, <1>4 DEF Confirmation!Init
<1>6. secret \in [Replica -> Nat]
  BY <1>5
<1>7. minute = 0 /\ questions = {} /\ confirmed = {} /\ posted = {} /\ done = NULL
      /\ status = [m \in Ref |-> "active"]
  BY DEF Confirmation!Init
<1> QED
  BY <1>6, <1>7, ConfirmationConstants
     DEF ConfirmationTypes, Confirmation!TypeOK, Confirmation!Time

LEMMA ConfirmationTypesNext ==
    ASSUME ConfirmationTypes, [Confirmation!Next]_Confirmation!vars
    PROVE  ConfirmationTypes'
<1>1. ASSUME NEW p \in Replica, NEW c \in Calls,
             NEW token \in Confirmation!Tokens \cup {NULL}, Confirmation!AskFirst(p, c, token)
      PROVE  ConfirmationTypes'
  <2>1. /\ questions' = questions \cup {Confirmation!Question(p, c)}
        /\ UNCHANGED <<minute, secret, confirmed, status, posted, done>>
    BY <1>1 DEF Confirmation!AskFirst
  <2>2. Confirmation!Canonical(c) \in Confirmation!Operation
    BY ConfirmationConstants DEF Confirmation!Canonical, Confirmation!Operation
  <2>3. Confirmation!Signed(p, minute + AnswerTime, c) \in Confirmation!Mac
    BY <2>2, ConfirmationConstants
       DEF Confirmation!Signed, Confirmation!Mac, ConfirmationTypes, Confirmation!TypeOK
  <2>4. Confirmation!Question(p, c) \in
            [token : Confirmation!Token, call : Calls, at : Confirmation!Time]
    BY <2>3, ConfirmationConstants
       DEF Confirmation!Question, Confirmation!Token, ConfirmationTypes, Confirmation!TypeOK
  <2> QED
    BY <2>1, <2>4 DEF ConfirmationTypes, Confirmation!TypeOK
<1>2. ASSUME NEW p \in Replica, NEW c \in Calls,
             NEW token \in Confirmation!Tokens \cup {NULL}, Confirmation!Dispatch(p, c, token)
      PROVE  ConfirmationTypes'
  <2>1. /\ posted' = posted \cup {[type |-> c.type, tier |-> "inferred",
                                   status |-> "quarantined"]} \/ posted' = posted
        /\ done' = [call |-> c, at |-> minute, by |-> secret[p]] \/ done' = done
        /\ UNCHANGED <<minute, secret, questions, confirmed, status>>
    BY <1>2 DEF Confirmation!Dispatch
  <2>2. c.type \in {"observation", "decision"} /\ secret[p] \in Nat
    BY ConfirmationConstants DEF ConfirmationTypes, Confirmation!TypeOK
  <2>3. posted' \subseteq [type : {"observation", "decision"}, tier : {"inferred"},
                           status : {"quarantined"}]
    BY <2>1, <2>2 DEF ConfirmationTypes, Confirmation!TypeOK
  <2>4. done' \in [call : Calls, at : Confirmation!Time, by : Nat] \cup {NULL}
    BY <2>1, <2>2 DEF ConfirmationTypes, Confirmation!TypeOK
  <2> QED
    BY <2>1, <2>3, <2>4 DEF ConfirmationTypes, Confirmation!TypeOK
<1>3. ASSUME NEW q \in questions, Confirmation!Confirm(q) PROVE ConfirmationTypes'
  BY <1>3 DEF Confirmation!Confirm, ConfirmationTypes, Confirmation!TypeOK
<1>4. ASSUME NEW p \in Replica, Confirmation!Restart(p) PROVE ConfirmationTypes'
  <2> DEFINE S == {secret[r] : r \in Replica}
  <2>1. secret \in [Replica -> Nat]
    BY DEF ConfirmationTypes, Confirmation!TypeOK
  <2>2. secret \in Surjection(Replica, S)
    BY <2>1 DEF Surjection
  <2>3. IsFiniteSet(S) /\ S \subseteq Nat /\ S # {}
    BY <2>1, <2>2, ConfirmationConstants, FS_Surjection
  <2>4. \E n \in S : \A y \in S : y <= n
    <3> HIDE DEF S
    <3> QED
      BY <2>3, GreatestOf
  <2>5. \E n \in S : \A r \in Replica : secret[r] <= n
    BY <2>4
  <2>6. Confirmation!Highest \in Nat
    BY <2>3, <2>5 DEF Confirmation!Highest
  <2>7. secret' \in [Replica -> Nat]
    BY <1>4, <2>1, <2>6 DEF Confirmation!Restart
  <2> QED
    BY <1>4, <2>7 DEF Confirmation!Restart, ConfirmationTypes, Confirmation!TypeOK
<1>5. ASSUME Confirmation!Tick PROVE ConfirmationTypes'
  <2>1. minute' \in Nat /\ minute' \in Confirmation!Time
    BY <1>5, ConfirmationConstants
       DEF Confirmation!Tick, ConfirmationTypes, Confirmation!TypeOK, Confirmation!Time
  <2> QED
    BY <1>5, <2>1 DEF Confirmation!Tick, ConfirmationTypes, Confirmation!TypeOK
<1>6. CASE UNCHANGED Confirmation!vars
  BY <1>6 DEF Confirmation!vars, ConfirmationTypes, Confirmation!TypeOK
<1> QED
  BY <1>1, <1>2, <1>3, <1>4, <1>5, <1>6 DEF Confirmation!Next

\* Every variable of the confirmation gateway keeps its type.
THEOREM ConfirmationTypeCorrect == ConfirmationSpec => []Confirmation!TypeOK
<1>1. ConfirmationTypes => Confirmation!TypeOK
  BY DEF ConfirmationTypes
<1> QED
  BY <1>1, ConfirmationTypesInit, ConfirmationTypesNext, PTL DEF ConfirmationSpec

\* The module's key cache is one that was made.
AuthTypes ==
    /\ Auth!TypeOK
    /\ current # NULL => cache[current] \in Auth!Cache

LEMMA AuthBounds ==
    /\ CacheTime \in Nat /\ MinRefresh \in Nat \ {0} /\ MaxTurn \in Nat
    /\ MaxRefreshes \in Nat /\ MaxDenials \in Nat
    /\ Kid # {} /\ NULL \notin Thread
    /\ Auth!Start \in Nat /\ Auth!Time \subseteq Nat /\ 0 \in Auth!Time
<1>1. /\ CacheTime \in Nat /\ MinRefresh \in Nat \ {0} /\ MaxTurn \in Nat
      /\ MaxRefreshes \in Nat /\ MaxDenials \in Nat /\ Kid # {} /\ NULL \notin Thread
  BY ServingAssumption DEF ServingAssumption, Auth!AuthAssumption
<1> QED
  BY <1>1 DEF Auth!Start, Auth!Time

LEMMA IdleIsAStage ==
    /\ Auth!Idle \in Auth!Verification
    /\ [Auth!Idle EXCEPT !.stage = "discover"] \in Auth!Verification
    /\ [Auth!Idle EXCEPT !.stage = "resolve"] \in Auth!Verification
BY AuthBounds DEF Auth!Idle, Auth!Verification

LEMMA AuthTypesInit == Auth!Init => AuthTypes
<1> SUFFICES ASSUME Auth!Init PROVE AuthTypes
  OBVIOUS
<1>1. clock \in Auth!Time
  BY AuthBounds DEF Auth!Init, Auth!Time
<1>2. published \subseteq Kid /\ lastSeen \in [Kid -> Auth!Time \cup {NULL}]
  BY <1>1, AuthBounds DEF Auth!Init
<1>3. thread \in [Thread -> Auth!Verification]
  BY IdleIsAStage DEF Auth!Init
<1> QED
  BY <1>1, <1>2, <1>3 DEF Auth!Init, AuthTypes, Auth!TypeOK

\* What a thread's turn under the lock makes of a cache is a cache.
LEMMA LookedIsACache ==
    ASSUME clock \in Auth!Time, published \subseteq Kid, NEW c \in Auth!Cache, NEW kid,
           Auth!Asks(c, kid) => c.refresh.n < MaxRefreshes
    PROVE  Auth!Looked(c, kid) \in Auth!Cache
<1> DEFINE new == Auth!Looked(c, kid)
<1>1. /\ c.keys \subseteq Kid /\ c.fetched \in Auth!Time /\ c.lastAttempt \in Auth!Time
      /\ c.refresh.n \in 0..MaxRefreshes /\ c.refresh.at \in Auth!Time
      /\ c.refresh \in [n : 0..MaxRefreshes, at : Auth!Time]
  BY DEF Auth!Cache
<1>2. new = [keys |-> new.keys, fetched |-> new.fetched, lastAttempt |-> new.lastAttempt,
             refresh |-> new.refresh]
  BY DEF Auth!Looked
<1>3. new.keys \subseteq Kid
  BY <1>1 DEF Auth!Looked, Auth!Refreshed
<1>4. new.fetched \in Auth!Time /\ new.lastAttempt \in Auth!Time
  BY <1>1 DEF Auth!Looked, Auth!Attempt
<1>5. new.refresh \in [n : 0..MaxRefreshes, at : Auth!Time]
  <2>1. CASE Auth!Asks(c, kid)
    <3>1. new.refresh = [n |-> c.refresh.n + 1, at |-> clock]
      BY <2>1 DEF Auth!Looked
    <3>2. c.refresh.n + 1 \in 0..MaxRefreshes
      BY <1>1, <2>1, AuthBounds
    <3> QED
      BY <3>1, <3>2
  <2>2. CASE ~Auth!Asks(c, kid)
    BY <1>1, <2>2 DEF Auth!Looked
  <2> QED
    BY <2>1, <2>2
<1>6. \A ks \in SUBSET Kid, f, l \in Auth!Time, r \in [n : 0..MaxRefreshes, at : Auth!Time] :
          [keys |-> ks, fetched |-> f, lastAttempt |-> l, refresh |-> r] \in Auth!Cache
  BY DEF Auth!Cache
<1>7. [keys |-> new.keys, fetched |-> new.fetched, lastAttempt |-> new.lastAttempt,
       refresh |-> new.refresh] \in Auth!Cache
  <2> HIDE DEF new
  <2> QED
    BY <1>3, <1>4, <1>5, <1>6
<1> QED
  BY <1>2, <1>7

LEMMA AuthTypesNext ==
    ASSUME AuthTypes, [Auth!Next]_Auth!vars
    PROVE  AuthTypes'
<1> DEFINE turns == thread \in [Thread -> Auth!Verification]
<1>0. /\ Auth!TypeOK /\ turns
      /\ current # NULL => current \in Thread /\ cache[current] \in Auth!Cache
  BY DEF AuthTypes, Auth!TypeOK
<1>1. ASSUME NEW th \in Thread, NEW kid \in Kid, Auth!KeyFor(th, kid) PROVE AuthTypes'
  <2>1. /\ current \in Thread /\ cache[current] \in Auth!Cache
        /\ Auth!Asks(cache[current], kid) => cache[current].refresh.n < MaxRefreshes
        /\ cache' = [cache EXCEPT ![current] = Auth!Looked(cache[current], kid)]
        /\ current' = current
    BY <1>0, <1>1 DEF Auth!KeyFor
  <2>2. clock \in Auth!Time /\ published \subseteq Kid
    BY <1>0 DEF Auth!TypeOK
  <2>3. Auth!Looked(cache[current], kid) \in Auth!Cache
    BY <2>1, <2>2, LookedIsACache
  <2>4. cache' \in [Thread -> Auth!Cache \cup {NULL}] /\ cache'[current'] \in Auth!Cache
    BY <1>0, <2>1, <2>3 DEF Auth!TypeOK
  <2>5. [stage |-> "lookup", kid |-> kid, now |-> clock, cache |-> current] \in Auth!Verification
    BY <2>1, <2>2 DEF Auth!Verification
  <2>6. thread' \in [Thread -> Auth!Verification]
    BY <1>0, <1>1, <2>5 DEF Auth!KeyFor, Auth!Set
  <2>7. UNCHANGED <<clock, published, lastSeen, reachable, current, audit, denials>>
    BY <1>1 DEF Auth!KeyFor
  <2> QED
    BY <1>0, <2>4, <2>6, <2>7 DEF AuthTypes, Auth!TypeOK
<1>2. ASSUME NEW th \in Thread, Auth!Discovered(th) PROVE AuthTypes'
  <2>1. thread' \in [Thread -> Auth!Verification]
    BY <1>0, <1>2, IdleIsAStage DEF Auth!Discovered, Auth!Set
  <2>2. UNCHANGED <<clock, published, lastSeen, reachable, audit, denials>>
    BY <1>2 DEF Auth!Discovered
  <2>3. Auth!Empty \in Auth!Cache
    BY AuthBounds DEF Auth!Empty, Auth!Cache
  <2>4. \A o \in Thread : Auth!Kept(o) \in Auth!Cache \cup {NULL}
    BY <1>0 DEF Auth!Kept, Auth!TypeOK
  <2>5. /\ cache' \in [Thread -> Auth!Cache \cup {NULL}] /\ current' \in Thread \cup {NULL}
        /\ current' # NULL => cache'[current'] \in Auth!Cache
    <3>1. CASE reachable
      BY <1>2, <2>3, <2>4, <3>1 DEF Auth!Discovered
    <3>2. CASE ~reachable
      BY <1>0, <1>2, <3>2 DEF Auth!Discovered, Auth!cacheVars, Auth!TypeOK
    <3> QED
      BY <3>1, <3>2
  <2> QED
    BY <1>0, <2>1, <2>2, <2>5 DEF AuthTypes, Auth!TypeOK
<1>3. ASSUME NEW th \in Thread, Auth!Discover(th) \/ Auth!Lookup(th) PROVE AuthTypes'
  <2>1. PICK r \in Auth!Verification : thread' = [thread EXCEPT ![th] = r]
    BY <1>3, IdleIsAStage DEF Auth!Discover, Auth!Lookup, Auth!Set
  <2>2. UNCHANGED <<clock, published, lastSeen, reachable, cache, current, audit, denials>>
    BY <1>3 DEF Auth!Discover, Auth!Lookup, Auth!cacheVars
  <2> QED
    BY <1>0, <2>1, <2>2 DEF AuthTypes, Auth!TypeOK
<1>4. ASSUME NEW th \in Thread, NEW claim \in Registered \cup {Unknown, NULL},
             Auth!Resolve(th, claim) \/ Auth!Deny(th, claim)
      PROVE  AuthTypes'
  <2>1. thread' = [thread EXCEPT ![th] = Auth!Idle]
    BY <1>4 DEF Auth!Resolve, Auth!Deny, Auth!Set
  <2>2. /\ UNCHANGED <<clock, published, lastSeen, reachable, cache, current>>
        /\ audit' = audit /\ denials' \in {denials, denials + 1}
    BY <1>4 DEF Auth!Resolve, Auth!Deny, Auth!AuditAfterRollback, Auth!cacheVars
  <2> QED
    BY <1>0, <2>1, <2>2, IdleIsAStage DEF AuthTypes, Auth!TypeOK
<1>5. ASSUME NEW ks \in SUBSET Kid, Auth!Publish(ks) PROVE AuthTypes'
  <2>1. lastSeen' \in [Kid -> Auth!Time \cup {NULL}] /\ published' \subseteq Kid
    BY <1>0, <1>5 DEF Auth!Publish, Auth!TypeOK
  <2> QED
    BY <1>0, <1>5, <2>1 DEF Auth!Publish, Auth!cacheVars, AuthTypes, Auth!TypeOK
<1>6. ASSUME Auth!Outage PROVE AuthTypes'
  BY <1>0, <1>6 DEF Auth!Outage, Auth!cacheVars, AuthTypes, Auth!TypeOK
<1>7. ASSUME Auth!Tick PROVE AuthTypes'
  <2>1. clock + 1 \in Auth!Time
    BY <1>0, <1>7, AuthBounds DEF Auth!Tick, Auth!TypeOK, Auth!Time
  <2>2. clock' \in Auth!Time /\ lastSeen' \in [Kid -> Auth!Time \cup {NULL}]
    BY <1>0, <1>7, <2>1 DEF Auth!Tick, Auth!TypeOK
  <2> QED
    BY <1>0, <1>7, <2>2 DEF Auth!Tick, Auth!cacheVars, AuthTypes, Auth!TypeOK
<1>8. CASE UNCHANGED Auth!vars
  BY <1>0, <1>8 DEF Auth!vars, Auth!cacheVars, AuthTypes, Auth!TypeOK
<1> QED
  BY <1>1, <1>2, <1>3, <1>4, <1>5, <1>6, <1>7, <1>8 DEF Auth!Next, Auth!StaleFetchFails

\* Every variable of the key caches keeps its type.
THEOREM AuthTypeCorrect == AuthSpec => []Auth!TypeOK
<1>1. AuthTypes => Auth!TypeOK
  BY DEF AuthTypes
<1> QED
  BY <1>1, AuthTypesInit, AuthTypesNext, PTL DEF AuthSpec

\* Of a retrieval, what the pipeline's invariants do not already type.
ReadTypes ==
    /\ row = [m \in Known |-> row[m]]
    /\ was \in [Known -> Retrieval!Status \cup {NULL}]
    /\ arrived \in Seq(Known) /\ ranked \in Seq(Known)
    /\ late \subseteq {KeyOf[m] : m \in Known}
    /\ stage \notin {"idle", "search"} =>
            \A m \in Retrieval!ToSet(arrived) : was[m] \in Retrieval!Status

StageTypes ==
    /\ stage \in {"idle", "search", "rank", "dedup", "gate", "always", "place", "done"}
    /\ request \in Retrieval!Request \cup {NULL}
    /\ verdict \in Retrieval!Verdict \cup {NULL}
    /\ stage \in {"always", "place"} => verdict \in Retrieval!Verdict

Drops == [id : Known, reason : Retrieval!Reason, by : Known \cup {NULL}]

HandedTypes ==
    /\ served \subseteq Retrieval!Item
    /\ dropped \subseteq Drops
    /\ event = NULL \/ (event.returned \subseteq Known /\ event.dropped \subseteq dropped)

RetrievalTypes == ReadTypes /\ StageTypes /\ HandedTypes

LEMMA PackTypes ==
    ASSUME PackInv, ReadTypes
    PROVE  /\ kept \in Seq(Known) /\ pool \subseteq Known /\ evidence \subseteq Known
           /\ row \in [Known -> Retrieval!Row \cup {NULL}]
           /\ Retrieval!KeptSet \subseteq Known
           /\ stage \notin Early => Retrieval!KeptSet \subseteq Retrieval!ToSet(arrived)
<1> DEFINE A == Retrieval!ToSet(arrived)
<1>1. A \subseteq Known
  BY SeqSet DEF ReadTypes
<1>2. kept \in Seq(Known) /\ pool \subseteq Known
  <2>1. CASE stage \in Early
    BY <2>1 DEF PackInv, StagesInv
  <2>2. CASE stage \notin Early
    <3>1. kept \in Seq(A) /\ pool \subseteq A
      BY <2>2 DEF PackInv, StagesInv
    <3> HIDE DEF A
    <3> QED
      BY <1>1, <3>1
  <2> QED
    BY <2>1, <2>2
<1>3. Retrieval!KeptSet \subseteq Known /\ evidence \subseteq Retrieval!KeptSet
  BY <1>2, SeqSet DEF PackInv, StagesInv, Retrieval!KeptSet
<1>4. row \in [Known -> Retrieval!Row \cup {NULL}]
  <2>1. \A m \in Known : row[m] \in Retrieval!Row \cup {NULL}
    BY DEF PackInv, RowsHold, RowHolds
  <2> QED
    BY <2>1 DEF ReadTypes
<1>5. stage \notin Early => Retrieval!KeptSet \subseteq A
  BY SeqSet DEF PackInv, StagesInv, Retrieval!KeptSet
<1> QED
  BY <1>2, <1>3, <1>4, <1>5

LEMMA RenderedIsAnItem ==
    ASSUME NEW m \in Known, NEW role \in {"baseline", "baseline_evidence", "evidence"},
           NEW status_ \in Retrieval!Status, NEW told \in BOOLEAN
    PROVE  Retrieval!Rendered(m, role, status_, told) \in Retrieval!Item
<1>1. /\ (told /\ status_ \in {"superseded", "archived"}) \in BOOLEAN
      /\ (told /\ status_ = "quarantined") \in BOOLEAN
  OBVIOUS
<1> QED
  BY <1>1 DEF Retrieval!Rendered, Retrieval!Item

LEMMA ReadTypesNext ==
    ASSUME PackInv, ReadTypes, [Retrieval!Next]_Retrieval!vars
    PROVE  ReadTypes'
<1>1. ASSUME Retrieval!Search PROVE ReadTypes'
  <2>1. /\ arrived' \in Retrieval!SetToSeqs(Retrieval!Candidates(request))
        /\ was' = [m \in Known |-> IF row[m] = NULL THEN NULL ELSE row[m].status]
        /\ UNCHANGED <<row, late, ranked>>
    BY <1>1 DEF Retrieval!Search
  <2>2. /\ arrived' \in Seq(Retrieval!Candidates(request))
        /\ Retrieval!ToSet(arrived') = Retrieval!Candidates(request)
    BY <2>1, CandidatesAreKnown, ArrivalsEnumerate DEF Enumerates
  <2>3. Retrieval!Candidates(request) \subseteq Known
    BY CandidatesAreKnown
  <2>4. arrived' \in Seq(Known)
    BY <2>2, <2>3
  <2>5. \A m \in Known : row[m] # NULL => row[m].status \in Retrieval!Status
    BY DEF PackInv, RowsHold, RowHolds, Retrieval!Row
  <2>6. \A m \in Retrieval!Candidates(request) : row[m] # NULL
    BY DEF Retrieval!Candidates, Retrieval!LexicalOnly, Retrieval!Hybrid, Retrieval!ValidAt
  <2>7. was' \in [Known -> Retrieval!Status \cup {NULL}]
    BY <2>1, <2>5
  <2>8. \A m \in Retrieval!ToSet(arrived') : was'[m] \in Retrieval!Status
    BY <2>1, <2>2, <2>3, <2>5, <2>6
  <2> QED
    BY <2>1, <2>4, <2>7, <2>8 DEF ReadTypes
<1>2. ASSUME Retrieval!Rank PROVE ReadTypes'
  <2>1. /\ stage = "rank"
        /\ ranked' = Retrieval!Ranking(arrived, Retrieval!Seen(request, arrived))
        /\ UNCHANGED <<arrived, was, late, row>>
    BY <1>2 DEF Retrieval!Rank
  <2>2. /\ Retrieval!ToSet(arrived) \subseteq Known
        /\ Enumerates(arrived, Retrieval!ToSet(arrived))
    BY <2>1 DEF PackInv, ArrivalInv
  <2>3. ranked' \in Seq(Retrieval!ToSet(arrived))
    BY <2>1, <2>2, RankedEnumerates DEF Enumerates
  <2>4. ranked' \in Seq(Known)
    BY <2>2, <2>3
  <2> QED
    BY <2>1, <2>4 DEF ReadTypes
<1>3. ASSUME Retrieval!Answered PROVE ReadTypes'
  <2>1. row' \in [Known -> Retrieval!Row \cup {NULL}]
    BY <1>3, RetrievalConstants DEF Retrieval!Answered
  <2> QED
    BY <1>3, <2>1 DEF Retrieval!Answered, ReadTypes
<1>4. ASSUME NEW old \in Known, NEW new, NEW now, Retrieval!Replace(old, new, now)
      PROVE  ReadTypes'
  <2>1. late' \subseteq late \cup {KeyOf[old]} /\ UNCHANGED <<stage, arrived, ranked, was>>
    BY <1>4 DEF Retrieval!Replace
  <2>2. row' = [m \in Known |-> row'[m]]
    <3>1. DOMAIN row = Known
      BY DEF PackInv, RowsHold
    <3> QED
      BY <1>4, <3>1 DEF Retrieval!Replace
  <2> QED
    BY <2>1, <2>2 DEF ReadTypes
<1>5. ASSUME NEW req, Retrieval!Ask(req) PROVE ReadTypes'
  BY <1>5 DEF Retrieval!Ask, ReadTypes
<1>6. ASSUME \/ Retrieval!Select \/ Retrieval!NothingFound \/ Retrieval!Gate
             \/ Retrieval!Always \/ Retrieval!Place \/ Retrieval!Seal
      PROVE  ReadTypes'
  <2>1. stage \notin {"idle", "search"} /\ UNCHANGED <<arrived, ranked, was, late, row>>
    BY <1>6, RankingStays DEF PackInv
  <2> QED
    BY <2>1 DEF ReadTypes
<1>7. CASE UNCHANGED Retrieval!vars
  BY <1>7 DEF Retrieval!vars, ReadTypes
<1> QED
  BY <1>1, <1>2, <1>3, <1>4, <1>5, <1>6, <1>7 DEF Retrieval!Next

LEMMA StageTypesNext ==
    ASSUME StageTypes, [Retrieval!Next]_Retrieval!vars
    PROVE  StageTypes'
<1>1. ASSUME Retrieval!Gate PROVE StageTypes'
  <2>1. Retrieval!GateVerdict \in Retrieval!Verdict
    <3>1. \A m : Retrieval!EvidenceFor(m) \subseteq Clause
      BY ServingAssumption
         DEF ServingAssumption, Retrieval!RetrievalAssumption, Retrieval!EvidenceFor
    <3>2. UNION {Retrieval!EvidenceFor(m) : m \in Retrieval!KeptSet} \subseteq Clause
      BY <3>1
    <3> HIDE DEF Retrieval!EvidenceFor
    <3> QED
      BY <3>2 DEF Retrieval!GateVerdict, Retrieval!Verdict
  <2>2. verdict' = Retrieval!GateVerdict /\ stage' \in {"always", "done"} /\ request' = request
    BY <1>1 DEF Retrieval!Gate
  <2> QED
    BY <2>1, <2>2 DEF StageTypes
<1>2. ASSUME Retrieval!Seal PROVE StageTypes'
  <2>1. verdict \in Retrieval!Verdict /\ stage' = "done" /\ request' = request
    BY <1>2 DEF Retrieval!Seal, StageTypes
  <2>2. [verdict EXCEPT !.status = "evidence_not_included"] \in Retrieval!Verdict
    BY <2>1 DEF Retrieval!Verdict
  <2>3. verdict' \in Retrieval!Verdict
    BY <1>2, <2>1, <2>2 DEF Retrieval!Seal
  <2> QED
    BY <2>1, <2>3 DEF StageTypes
<1>3. ASSUME NEW req \in Retrieval!Request, Retrieval!Ask(req) PROVE StageTypes'
  BY <1>3 DEF Retrieval!Ask, StageTypes
<1>4. ASSUME \/ Retrieval!Search \/ Retrieval!Rank \/ Retrieval!Select
             \/ Retrieval!NothingFound
      PROVE  StageTypes'
  BY <1>4 DEF Retrieval!Search, Retrieval!Rank, Retrieval!Select, Retrieval!NothingFound,
     StageTypes
<1>5. ASSUME \/ Retrieval!Always \/ Retrieval!Place \/ Retrieval!Answered
             \/ \E old, new, now : Retrieval!Replace(old, new, now)
      PROVE  StageTypes'
  BY <1>5 DEF Retrieval!Always, Retrieval!Place, Retrieval!Answered, Retrieval!Replace,
     StageTypes
<1>6. CASE UNCHANGED Retrieval!vars
  BY <1>6 DEF Retrieval!vars, StageTypes
<1> QED
  BY <1>1, <1>2, <1>3, <1>4, <1>5, <1>6 DEF Retrieval!Next

LEMMA HandedTypesNext ==
    ASSUME PackInv, ReadTypes, StageTypes, HandedTypes, [Retrieval!Next]_Retrieval!vars
    PROVE  HandedTypes'
<1>0. /\ kept \in Seq(Known) /\ pool \subseteq Known /\ evidence \subseteq Known
      /\ row \in [Known -> Retrieval!Row \cup {NULL}] /\ Retrieval!KeptSet \subseteq Known
      /\ stage \notin Early =>
            \A m \in Retrieval!KeptSet : was[m] \in Retrieval!Status
  BY PackTypes DEF ReadTypes, Early
<1> DEFINE drop(m, reason, by) == [id |-> m, reason |-> reason, by |-> by]
<1>a. \A m \in Known, reason \in Retrieval!Reason, by \in Known \cup {NULL} :
          drop(m, reason, by) \in Drops
  BY DEF Drops
<1>1. ASSUME Retrieval!Select PROVE HandedTypes'
  <2>1. PICK m \in pool :
            \/ dropped' = dropped
            \/ /\ Retrieval!Collapses(m) # {}
               /\ dropped' = dropped \cup
                    {[id |-> m, reason |-> "near-duplicate",
                      by |-> kept[CHOOSE k \in Retrieval!Collapses(m) :
                                    \A j \in Retrieval!Collapses(m) : k <= j]]}
    BY <1>1 DEF Retrieval!Select
  <2>2. UNCHANGED <<served, event>>
    BY <1>1 DEF Retrieval!Select
  <2>3. ASSUME Retrieval!Collapses(m) # {}
        PROVE  kept[CHOOSE k \in Retrieval!Collapses(m) :
                        \A j \in Retrieval!Collapses(m) : k <= j] \in Known
    <3>1. Retrieval!Collapses(m) \subseteq 1..Len(kept) /\ Len(kept) \in Nat
      BY <1>0 DEF Retrieval!Collapses
    <3>2. \E k \in Retrieval!Collapses(m) : \A j \in Retrieval!Collapses(m) : k <= j
      <4>1. Retrieval!Collapses(m) \subseteq Nat
        BY <3>1
      <4> QED
        BY <2>3, <4>1, LeastOf
    <3>3. (CHOOSE k \in Retrieval!Collapses(m) : \A j \in Retrieval!Collapses(m) : k <= j)
                \in 1..Len(kept)
      BY <3>1, <3>2
    <3> QED
      BY <1>0, <3>3
  <2>4. dropped' \subseteq Drops /\ dropped \subseteq dropped'
    <3>1. CASE dropped' = dropped
      BY <3>1 DEF HandedTypes
    <3>2. CASE dropped' # dropped
      <4> DEFINE twin == kept[CHOOSE k \in Retrieval!Collapses(m) :
                                \A j \in Retrieval!Collapses(m) : k <= j]
      <4>1. dropped' = dropped \cup {drop(m, "near-duplicate", twin)} /\ twin \in Known
        BY <2>1, <2>3, <3>2
      <4>2. m \in Known /\ "near-duplicate" \in Retrieval!Reason
        BY <1>0 DEF Retrieval!Reason
      <4> HIDE DEF drop, twin
      <4>3. drop(m, "near-duplicate", twin) \in Drops
        BY <1>a, <4>1, <4>2
      <4> QED
        BY <4>1, <4>3 DEF HandedTypes
    <3> QED
      BY <3>1, <3>2
  <2> QED
    BY <2>2, <2>4 DEF HandedTypes
<1>2. ASSUME Retrieval!Gate PROVE HandedTypes'
  <2>1. stage \notin Early /\ event' = event
    BY <1>2 DEF Retrieval!Gate, Early
  <2>2. Retrieval!Unsupported \subseteq Drops
    <3>1. ASSUME NEW d \in Retrieval!Unsupported PROVE d \in Drops
      <4>1. PICK m \in Retrieval!KeptSet : d = drop(m, "no evidence", NULL)
        BY <3>1 DEF Retrieval!Unsupported
      <4>2. m \in Known /\ "no evidence" \in Retrieval!Reason
        BY <1>0 DEF Retrieval!Reason
      <4> HIDE DEF drop
      <4> QED
        BY <1>a, <4>1, <4>2
    <3> QED
      BY <3>1
  <2>3. dropped' \subseteq Drops /\ dropped \subseteq dropped'
    BY <1>2, <2>2 DEF Retrieval!Gate, HandedTypes
  <2>4. CASE served' = served
    BY <2>1, <2>3, <2>4 DEF HandedTypes
  <2>5. CASE served' = {Retrieval!Rendered(m, "evidence", was[m], ~request.degraded) :
                            m \in evidence'}
    <3>1. evidence' \subseteq Retrieval!KeptSet
      BY <1>2 DEF Retrieval!Gate
    <3>2. \A m \in evidence' :
              Retrieval!Rendered(m, "evidence", was[m], ~request.degraded) \in Retrieval!Item
      BY <1>0, <2>1, <3>1, RenderedIsAnItem
    <3> QED
      BY <2>1, <2>3, <2>5, <3>2 DEF HandedTypes
  <2> QED
    BY <1>2, <2>4, <2>5 DEF Retrieval!Gate
<1>3. ASSUME Retrieval!Always PROVE HandedTypes'
  <2>1. UNCHANGED <<dropped, event>>
    BY <1>3 DEF Retrieval!Always
  <2>2. \A m \in Retrieval!AlwaysIncluded : m \in Known /\ row[m].status \in Retrieval!Status
    BY <1>0 DEF Retrieval!AlwaysIncluded, Retrieval!ValidAt, Retrieval!Row
  <2>3. \A m \in Retrieval!AlwaysIncluded :
            Retrieval!Rendered(m, IF m \in evidence THEN "baseline_evidence" ELSE "baseline",
                               row[m].status, TRUE) \in Retrieval!Item
    BY <2>2, RenderedIsAnItem
  <2>4. served' \subseteq Retrieval!Item
    BY <1>3, <2>3 DEF Retrieval!Always
  <2> QED
    BY <2>1, <2>4 DEF HandedTypes
<1>4. ASSUME Retrieval!Place PROVE HandedTypes'
  <2>1. stage \notin Early /\ event' = event /\ evidence \subseteq Retrieval!KeptSet
    BY <1>4, StageFacts DEF Retrieval!Place, Early
  <2>2. PICK m \in evidence :
            /\ served' \subseteq served \cup
                    {Retrieval!Rendered(m, "evidence", was[m], ~request.degraded)}
            /\ dropped' \in {dropped, dropped \cup
                    {[id |-> m, reason |-> "budget", by |-> NULL]}}
    BY <1>4 DEF Retrieval!Place
  <2>3. Retrieval!Rendered(m, "evidence", was[m], ~request.degraded) \in Retrieval!Item
    BY <1>0, <2>1, <2>2, RenderedIsAnItem
  <2>4. [id |-> m, reason |-> "budget", by |-> NULL] \in Drops
    BY <1>0, <2>2 DEF Drops, Retrieval!Reason
  <2> QED
    BY <2>1, <2>2, <2>3, <2>4 DEF HandedTypes
<1>5. ASSUME Retrieval!Seal PROVE HandedTypes'
  <2>1. event' = Retrieval!Event(served) /\ UNCHANGED <<served, dropped>>
    BY <1>5 DEF Retrieval!Seal
  <2>2. /\ event'.returned = {i.id : i \in served} /\ event'.dropped = dropped
    BY <2>1 DEF Retrieval!Event
  <2>3. \A i \in served : i.id \in Known
    BY DEF HandedTypes, Retrieval!Item
  <2> QED
    BY <2>1, <2>2, <2>3 DEF HandedTypes
<1>6. ASSUME Retrieval!Answered PROVE HandedTypes'
  BY <1>6 DEF Retrieval!Answered, HandedTypes
<1>7. CASE UNCHANGED <<served, dropped, event>>
  BY <1>7 DEF HandedTypes
<1> QED
  BY <1>1, <1>2, <1>3, <1>4, <1>5, <1>6, <1>7 DEF Retrieval!Next, Retrieval!vars,
     Retrieval!Ask, Retrieval!Search, Retrieval!Rank, Retrieval!NothingFound, Retrieval!Replace

\* Every variable of a retrieval keeps its type.
THEOREM RetrievalTypeCorrect == RetrievalSpec => []Retrieval!TypeOK
<1>1. Retrieval!Init => RetrievalTypes /\ UsedIsCounted
  BY RetrievalConstants DEF Retrieval!Init, Retrieval!Blank, RetrievalTypes, ReadTypes, StageTypes, HandedTypes,
     UsedIsCounted
<1>2. PackInv /\ RetrievalTypes /\ [Retrieval!Next]_Retrieval!vars => RetrievalTypes'
  BY ReadTypesNext, StageTypesNext, HandedTypesNext DEF RetrievalTypes
<1>3. PackInv /\ RetrievalTypes /\ UsedIsCounted => Retrieval!TypeOK
  <2> SUFFICES ASSUME PackInv, RetrievalTypes, UsedIsCounted PROVE Retrieval!TypeOK
    OBVIOUS
  <2>1. /\ kept \in Seq(Known) /\ pool \subseteq Known /\ evidence \subseteq Known
        /\ row \in [Known -> Retrieval!Row \cup {NULL}]
    BY PackTypes DEF RetrievalTypes, ReadTypes
  <2>2. \A s \in {arrived, ranked, kept} : s \in Seq(Known)
    BY <2>1 DEF RetrievalTypes, ReadTypes
  <2> QED
    BY <2>1, <2>2 DEF RetrievalTypes, ReadTypes, StageTypes, HandedTypes, Drops,
       UsedIsCounted, Retrieval!TypeOK
<1> QED
  BY <1>1, <1>2, <1>3, PackInvariance, UsedNext, PTL DEF RetrievalSpec

-----------------------------------------------------------------------------
(***************************************************************************)
(* The parts side by side.                                                 *)
(***************************************************************************)
servingVars == <<scene, accessVars, retrievalVars, admissionVars, confirmationVars, authVars>>

\* What one part does leaves the others as they are, so that a behaviour of
\* the whole is a behaviour of each.
LEMMA StepIsOfAPart ==
    ASSUME [ServingNext]_servingVars
    PROVE  /\ [Next]_vars /\ [Retrieval!Next]_Retrieval!vars
           /\ [Admission!Next]_Admission!vars /\ [Confirmation!Next]_Confirmation!vars
           /\ [Auth!Next]_Auth!vars /\ scene' = scene
<1>1. /\ UNCHANGED accessVars => UNCHANGED vars
      /\ UNCHANGED retrievalVars => UNCHANGED Retrieval!vars
      /\ UNCHANGED admissionVars => UNCHANGED Admission!vars
      /\ UNCHANGED confirmationVars => UNCHANGED Confirmation!vars
      /\ UNCHANGED authVars => UNCHANGED Auth!vars
  <2>1. UNCHANGED accessVars => UNCHANGED vars
    BY DEF accessVars, vars, session, tables
  <2>2. UNCHANGED retrievalVars => UNCHANGED Retrieval!vars
    BY DEF retrievalVars, Retrieval!vars
  <2>3. UNCHANGED admissionVars => UNCHANGED Admission!vars
    BY DEF admissionVars, Admission!vars
  <2>4. UNCHANGED confirmationVars => UNCHANGED Confirmation!vars
    BY DEF confirmationVars, Confirmation!vars
  <2>5. UNCHANGED authVars => UNCHANGED Auth!vars
    BY DEF authVars, Auth!vars, Auth!cacheVars
  <2> QED
    BY <2>1, <2>2, <2>3, <2>4, <2>5
<1>2. CASE UNCHANGED servingVars
  BY <1>1, <1>2 DEF servingVars
<1>3. CASE ServingNext
  BY Zenon, <1>1, <1>3 DEF ServingNext
<1> QED
  BY <1>2, <1>3

LEMMA ServingIsEach ==
    ServingSpec => /\ Spec /\ RetrievalSpec /\ AdmissionSpec /\ ConfirmationSpec /\ AuthSpec
                   /\ [](scene \in Scenes)
<1>1. ServingInit => /\ Init /\ Retrieval!Init /\ Admission!Init /\ Confirmation!Init
                     /\ Auth!Init /\ scene \in Scenes
  BY DEF ServingInit
<1>2. [ServingNext]_servingVars =>
        /\ [Next]_vars /\ [Retrieval!Next]_Retrieval!vars
        /\ [Admission!Next]_Admission!vars /\ [Confirmation!Next]_Confirmation!vars
        /\ [Auth!Next]_Auth!vars /\ scene' = scene
  BY StepIsOfAPart
<1>3. scene \in Scenes /\ scene' = scene => (scene \in Scenes)'
  OBVIOUS
<1>4. ServingSpec <=> ServingInit /\ [][ServingNext]_servingVars
  BY DEF ServingSpec, servingVars
<1> QED
  BY <1>1, <1>2, <1>3, <1>4, PTL
     DEF Spec, RetrievalSpec, AdmissionSpec, ConfirmationSpec, AuthSpec

\* The part that moves keeps its types.
THEOREM ServingTypeCorrect == ServingSpec => []ServingTypeOK
<1>1. ASSUME scene \in Scenes, TypeOK, Retrieval!TypeOK, Admission!TypeOK,
             Confirmation!TypeOK, Auth!TypeOK
      PROVE  ServingTypeOK
  BY <1>1, ServingAssumption DEF ServingAssumption, ServingTypeOK
<1>2. AccessAssumption
  BY ServingAssumption DEF ServingAssumption
<1>3. Spec => []TypeOK
  BY <1>2, AccessTypeCorrect
<1> QED
  BY <1>1, <1>3, ServingIsEach, RetrievalTypeCorrect, AdmissionTypeCorrect,
     ConfirmationTypeCorrect, AuthTypeCorrect, PTL

\* All that the parts promise holds of a request that goes through them all.
THEOREM RequestsAreServedRight ==
    ServingSpec =>
        /\ [](ReadsStayInScope /\ WindowIsFair /\ QuotaOvershootIsBounded /\ TrustIsAskedFor)
        /\ [](DropsAreExplained /\ RankingIsReproducible /\ HistoryIsMarked /\ BaselineIsServed)
        /\ KeyCacheIsSound
<1>1. AccessAssumption
  BY ServingAssumption DEF ServingAssumption
<1>2. Spec => []ReadsStayInScope
  BY <1>1, ReadsAreScoped
<1> QED
  BY <1>2, ServingIsEach, TheLimiterIsFair, OvershootIsBounded, PeopleAreAskedFirst,
     DropsAreAccountedFor, RankingsAreReproducible, ReadersAreTold, ConstraintsAreServed,
     KeysAreSound, PTL
===============================================================================
