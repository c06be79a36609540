------------------------- MODULE MemoryStoreProofs -------------------------
(***************************************************************************)
(* Proofs about MemoryStore, alone and with Consolidation beside it, for   *)
(* every set of texts, keys, sources, files and trees and every bound.     *)
(***************************************************************************)
EXTENDS Consolidation, SequenceTheorems, WellFoundedInduction, TLAPS

-----------------------------------------------------------------------------
(***************************************************************************)
(* The inductive invariant.                                                *)
(***************************************************************************)
\* What is true of each row by itself at time now.
RowInv(r, now) ==
    /\ r.lower <= now
    /\ ~Open(r) => r.lower < r.upper /\ r.upper <= now
    /\ r.status \in {"active", "quarantined"} => Open(r)
    /\ r.status = "archived" => ~Open(r)
    /\ r.review = NULL => r.tier = BirthTier(r.content, r.source)
    /\ r.review # NULL => /\ r.review = BirthTier(r.content, r.source)
                          /\ r.review \in QuarantineTiers
                          /\ r.tier \in Promotable \cup {r.review}
    /\ r.status = "active" => r.tier \notin QuarantineTiers
    /\ r.status = "quarantined" => r.tier \in QuarantineTiers
    /\ r.status = "quarantined" => r.review = NULL
    /\ r.key \in Key \/ r.key = <<r.source, r.content>>

ContentUnique(t) ==
    \A i, j \in 1..Len(t) : t[i].content = t[j].content => i = j

Contiguous(t) ==
    \A i \in 1..Len(t) : \A j \in t[i].replaces :
        /\ j \in 1..Len(t)
        /\ j < i
        /\ t[j].key = t[i].key
        /\ t[j].upper = t[i].lower

TableInv(t, now) ==
    /\ t \in Seq(Row)
    /\ \A i \in 1..Len(t) : RowInv(t[i], now)
    /\ TemporalUniq(t)
    /\ ContentUnique(t)
    /\ Contiguous(t)

\* While a pass runs, the rows it wrote are under keys it has seen, so that it
\* never closes a row it opened itself.
PassInv ==
    pass # NULL =>
        /\ TableInv(pass.work, clock)
        /\ pass.next >= 1
        /\ pass.seen \subseteq {Files[m] : m \in 1..(pass.next - 1)}
        /\ \A i \in 1..Len(pass.work) :
                pass.work[i].lower < clock \/ pass.work[i].key \in pass.seen

IInv == TypeOK /\ TableInv(mem, clock) /\ PassInv /\ NeverRefused
-----------------------------------------------------------------------------
(***************************************************************************)
(* Lemmas about tables.                                                    *)
(***************************************************************************)
LEMMA NullIsNoTier == NULL \notin Tier /\ NULL \notin Nat
BY NullAssumption DEF Tier

\* A function on 1..n is a sequence of length n.
LEMMA FunctionIsSeq ==
    ASSUME NEW S, NEW n \in Nat, NEW f \in [1..n -> S]
    PROVE  f \in Seq(S) /\ Len(f) = n
<1>1. f \in Seq(S)
  BY SeqDef
<1> QED
  BY <1>1

LEMMA BirthTierType ==
    ASSUME NEW content \in Content, NEW source \in Source
    PROVE  BirthTier(content, source) \in Tier
BY DEF BirthTier, TierOf, Tier

\* A table that is sound at one time is sound later.
LEMMA LaterInv ==
    ASSUME NEW t, NEW now \in Nat, NEW later \in Nat, now <= later,
           TableInv(t, now)
    PROVE  TableInv(t, later)
<1>1. t \in Seq(Row)
  BY DEF TableInv
<1>2. ASSUME NEW i \in 1..Len(t) PROVE RowInv(t[i], later)
  <2>1. RowInv(t[i], now) /\ t[i] \in Row
    BY <1>1 DEF TableInv
  <2>2. t[i].lower \in Nat /\ t[i].upper \in Nat \cup {NULL}
    BY <2>1 DEF Row
  <2> QED
    BY <2>1, <2>2 DEF RowInv, Open
<1> QED
  BY <1>1, <1>2 DEF TableInv

\* An update that keeps keys, texts, lower bounds and edges, and touches the
\* upper bound of open rows only, keeps a table sound if the rows are.
LEMMA PointwiseInv ==
    ASSUME NEW t, NEW u, NEW now \in Nat,
           TableInv(t, now),
           u \in Seq(Row),
           Len(u) = Len(t),
           \A i \in 1..Len(t) :
                /\ RowInv(u[i], now)
                /\ u[i].key = t[i].key
                /\ u[i].content = t[i].content
                /\ u[i].lower = t[i].lower
                /\ u[i].replaces = t[i].replaces
                /\ u[i].upper = t[i].upper \/ Open(t[i])
    PROVE  TableInv(u, now)
<1>1. TemporalUniq(u)
  <2> SUFFICES ASSUME NEW i \in 1..Len(u), NEW j \in 1..Len(u),
                      i # j, u[i].key = u[j].key, Overlap(u[i], u[j])
               PROVE  FALSE
    BY DEF TemporalUniq
  <2>1. Overlap(t[i], t[j])
    BY DEF Overlap, Open
  <2> QED
    BY <2>1 DEF TableInv, TemporalUniq
<1>2. ContentUnique(u)
  BY DEF TableInv, ContentUnique
<1>3. Contiguous(u)
  <2> SUFFICES ASSUME NEW i \in 1..Len(u), NEW j \in u[i].replaces
               PROVE  /\ j \in 1..Len(u)
                      /\ j < i
                      /\ u[j].key = u[i].key
                      /\ u[j].upper = u[i].lower
    BY DEF Contiguous
  <2>1. /\ j \in 1..Len(t)
        /\ j < i
        /\ t[j].key = t[i].key
        /\ t[j].upper = t[i].lower
    BY DEF TableInv, Contiguous
  <2>2. t[i] \in Row
    BY DEF TableInv
  <2>3. t[i].lower \in Nat
    BY <2>2 DEF Row
  <2>4. ~Open(t[j])
    BY <2>1, <2>3, NullAssumption DEF Open
  <2> QED
    BY <2>1, <2>4
<1> QED
  BY <1>1, <1>2, <1>3 DEF TableInv

\* The console's archive and the undo may move the upper bound of a closed row,
\* to now or to infinity.  If the database accepts the result, that row has no
\* successor: the successor begins where the row ended and would overlap it.
LEMMA GuardedInv ==
    ASSUME NEW t, NEW u, NEW now \in Nat,
           TableInv(t, now),
           u \in Seq(Row),
           Len(u) = Len(t),
           Admissible(u),
           \A i \in 1..Len(t) :
                /\ RowInv(u[i], now)
                /\ u[i].key = t[i].key
                /\ u[i].content = t[i].content
                /\ u[i].lower = t[i].lower
                /\ u[i].replaces = t[i].replaces
                /\ u[i].upper = t[i].upper \/ Open(u[i]) \/ u[i].upper = now
                /\ ~Open(t[i]) => t[i].upper < now
    PROVE  TableInv(u, now)
<1>1. ContentUnique(u)
  BY DEF TableInv, ContentUnique
<1>2. Contiguous(u)
  <2> SUFFICES ASSUME NEW i \in 1..Len(u), NEW j \in u[i].replaces
               PROVE  /\ j \in 1..Len(u)
                      /\ j < i
                      /\ u[j].key = u[i].key
                      /\ u[j].upper = u[i].lower
    BY DEF Contiguous
  <2>1. /\ j \in 1..Len(t)
        /\ j < i
        /\ t[j].key = t[i].key
        /\ t[j].upper = t[i].lower
    BY DEF TableInv, Contiguous
  <2>2. /\ t[i] \in Row /\ t[j] \in Row
        /\ u[i] \in Row /\ u[j] \in Row
    BY <2>1 DEF TableInv
  <2>3. /\ t[i].lower \in Nat /\ t[j].lower \in Nat
        /\ u[i].lower \in Nat /\ u[i].upper \in Nat \cup {NULL}
        /\ u[j].lower \in Nat /\ u[j].upper \in Nat \cup {NULL}
    BY <2>2 DEF Row
  <2>4. /\ ~Open(t[j])
        /\ t[j].lower < t[j].upper
        /\ t[j].upper < now
    BY <2>1, <2>3, NullAssumption DEF Open, TableInv, RowInv
  <2>5. ~Open(u[i]) => u[i].lower < u[i].upper
    BY DEF RowInv
  <2>6. ASSUME u[j].upper # t[j].upper PROVE FALSE
    <3>1. Open(u[j]) \/ u[j].upper = now
      BY <2>1, <2>6
    <3>2. Open(u[j]) \/ u[i].lower < u[j].upper
      BY <2>1, <2>3, <2>4, <3>1 DEF Open
    <3>3. Open(u[i]) \/ u[j].lower < u[i].upper
      BY <2>1, <2>3, <2>4, <2>5 DEF Open
    <3>4. Overlap(u[j], u[i])
      BY <3>2, <3>3 DEF Overlap
    <3> QED
      BY <2>1, <2>3, <3>4 DEF Admissible, TemporalUniq
  <2> QED
    BY <2>1, <2>6
<1> QED
  BY <1>1, <1>2 DEF TableInv, Admissible
-----------------------------------------------------------------------------
(***************************************************************************)
(* write_memory keeps a table sound, and so within its constraints.        *)
(***************************************************************************)
LEMMA SoundIsAdmissible ==
    ASSUME NEW t, NEW now, TableInv(t, now)
    PROVE  Admissible(t)
BY DEF TableInv, Admissible, QuarantineTierConsistency, RowInv

\* Two open rows of a key would overlap, so a key has at most one.
LEMMA OneOpenRow ==
    ASSUME NEW t, NEW now \in Nat, TableInv(t, now), NEW key,
           NEW i \in OpenRows(t, key), NEW j \in OpenRows(t, key)
    PROVE  i = j
BY DEF OpenRows, TableInv, TemporalUniq, Overlap

LEMMA PriorIsOpenRows ==
    ASSUME NEW t, NEW now \in Nat, TableInv(t, now), NEW key
    PROVE  Prior(t, key) = OpenRows(t, key)
<1>1. \A i, j \in OpenRows(t, key) : i = j
  BY OneOpenRow
<1>2. OpenRows(t, key) \subseteq Nat
  BY DEF OpenRows, TableInv
<1> QED
  BY <1>1, <1>2 DEF Prior

LEMMA RefoundInv ==
    ASSUME NEW t, NEW now \in Nat, TableInv(t, now),
           NEW i \in 1..Len(t), NEW retired \in BOOLEAN
    PROVE  /\ TableInv(Refound(t, i, retired), now)
           /\ Len(Refound(t, i, retired)) = Len(t)
           /\ \A k \in 1..Len(t) :
                /\ Refound(t, i, retired)[k].key = t[k].key
                /\ Refound(t, i, retired)[k].lower = t[k].lower
<1> DEFINE u == Refound(t, i, retired)
<1>1. t \in Seq(Row)
  BY DEF TableInv
<1>2. CASE u = t
  BY <1>2
<1>3. CASE u = [t EXCEPT ![i].status = "superseded"] /\ t[i].status # "quarantined"
  <2>1. u \in Seq(Row) /\ Len(u) = Len(t)
    <3>1. t[i] \in Row
      BY <1>1
    <3>2. [t[i] EXCEPT !.status = "superseded"] \in Row
      BY <3>1 DEF Row, Status
    <3>3. u = [t EXCEPT ![i] = [t[i] EXCEPT !.status = "superseded"]]
      BY <1>3
    <3> QED
      BY <1>1, <3>2, <3>3, ExceptSeq
  <2>2. ASSUME NEW k \in 1..Len(t)
        PROVE  /\ RowInv(u[k], now)
               /\ u[k].key = t[k].key
               /\ u[k].content = t[k].content
               /\ u[k].lower = t[k].lower
               /\ u[k].replaces = t[k].replaces
               /\ u[k].upper = t[k].upper
    <3>1. t[k] \in Row /\ RowInv(t[k], now)
      BY <1>1 DEF TableInv
    <3>2. CASE k # i
      BY <1>1, <1>3, <3>1, <3>2
    <3>3. CASE k = i
      <4>1. u[k] = [t[k] EXCEPT !.status = "superseded"]
        BY <1>1, <1>3, <3>3
      <4> QED
        BY <3>1, <4>1 DEF Row, RowInv, Open
    <3> QED
      BY <3>2, <3>3
  <2>3. TableInv(u, now)
    BY <2>1, <2>2, PointwiseInv
  <2> QED
    BY <2>1, <2>2, <2>3
<1> QED
  BY <1>2, <1>3 DEF Refound

\* Closing the prior version leaves a sound table of the same rows in which
\* the key has no open row left.
LEMMA ClosePriorInv ==
    ASSUME NEW t, NEW now \in Nat, TableInv(t, now),
           NEW key \in Key \cup {NULL},
           \A i \in 1..Len(t) : t[i].key = key => t[i].lower < now
    PROVE  /\ TableInv(ClosePrior(t, key, now), now)
           /\ Len(ClosePrior(t, key, now)) = Len(t)
           /\ \A i \in 1..Len(t) :
                /\ ClosePrior(t, key, now)[i].key = t[i].key
                /\ ClosePrior(t, key, now)[i].content = t[i].content
                /\ ClosePrior(t, key, now)[i].lower = t[i].lower
                /\ key # NULL /\ t[i].key = key =>
                        ~Open(ClosePrior(t, key, now)[i])
                /\ key # NULL /\ i \in Prior(t, key) =>
                        ClosePrior(t, key, now)[i].upper = now
<1> DEFINE u == ClosePrior(t, key, now)
<1>1. t \in Seq(Row)
  BY DEF TableInv
<1>2. CASE key = NULL
  BY <1>2 DEF ClosePrior
<1>3. CASE key # NULL
  <2>1. u = [i \in 1..Len(t) |->
                IF i \in Prior(t, key)
                THEN [t[i] EXCEPT !.upper = now, !.status = "superseded"]
                ELSE t[i]]
    BY <1>3 DEF ClosePrior
  <2>2. ASSUME NEW i \in 1..Len(t)
        PROVE  /\ u[i] \in Row
               /\ RowInv(u[i], now)
               /\ u[i].key = t[i].key
               /\ u[i].content = t[i].content
               /\ u[i].lower = t[i].lower
               /\ u[i].replaces = t[i].replaces
               /\ u[i].upper = t[i].upper \/ Open(t[i])
               /\ t[i].key = key => ~Open(u[i])
               /\ i \in Prior(t, key) => u[i].upper = now
    <3>1. t[i] \in Row /\ RowInv(t[i], now)
      BY <1>1 DEF TableInv
    <3>2. CASE i \in Prior(t, key)
      <4>1. u[i] = [t[i] EXCEPT !.upper = now, !.status = "superseded"]
        BY <2>1, <3>2
      <4>2. t[i].key = key /\ Open(t[i]) /\ t[i].lower < now
        BY <3>2 DEF Prior, OpenRows
      <4>5. u[i] \in Row
        BY <3>1, <4>1 DEF Row, Status
      <4>3. u[i] \in Row /\ ~Open(u[i])
        <5>1. u[i].upper = now
          BY <3>1, <4>1 DEF Row
        <5> QED
          BY <4>5, <5>1, NullAssumption DEF Open
      <4>4. RowInv(u[i], now)
        BY <3>1, <4>1, <4>2 DEF RowInv, Open, Row
      <4> QED
        BY <3>1, <4>1, <4>2, <4>3, <4>4 DEF Row
    <3>3. CASE i \notin Prior(t, key)
      <4>1. u[i] = t[i]
        BY <2>1, <3>3
      <4>2. ~(t[i].key = key /\ Open(t[i]))
        BY <3>3, PriorIsOpenRows DEF OpenRows
      <4> QED
        BY <3>1, <3>3, <4>1, <4>2
    <3> QED
      BY <3>2, <3>3
  <2>3. Len(t) \in Nat
    BY <1>1
  <2>4. u \in Seq(Row) /\ Len(u) = Len(t)
    <3>1. u \in [1..Len(t) -> Row]
      BY <2>1, <2>2
    <3> QED
      BY <2>3, <3>1, FunctionIsSeq
  <2>5. TableInv(u, now)
    BY <2>2, <2>4, PointwiseInv
  <2> QED
    BY <2>2, <2>4, <2>5
<1> QED
  BY <1>2, <1>3

LEMMA NewRowInv ==
    ASSUME NEW t, NEW now \in Nat, TableInv(t, now),
           NEW source \in Source, NEW content \in Content,
           NEW key \in Key \cup {NULL},
           NEW retired \in BOOLEAN, NEW episodic \in BOOLEAN
    PROVE  LET r == NewRow(t, source, content, key, retired, episodic, now)
           IN  /\ r \in Row
               /\ RowInv(r, now)
               /\ Open(r)
               /\ r.key = KeyFor(key, source, content)
               /\ r.content = content
               /\ r.lower = now
               /\ r.replaces = IF key = NULL THEN {} ELSE Prior(t, key)
<1> DEFINE r == NewRow(t, source, content, key, retired, episodic, now)
<1>1. KeyFor(key, source, content) \in RowKey
  BY DEF KeyFor, RowKey
<1>2. BirthTier(content, source) \in Tier
  BY BirthTierType
<1>3. Prior(t, key) \subseteq Nat
  BY DEF Prior, OpenRows, TableInv
<1>4. r \in Row
  BY <1>1, <1>2, <1>3 DEF NewRow, Row, Status
<1>5. RowInv(r, now)
  <2>1. /\ r.lower = now /\ r.upper = NULL /\ r.review = NULL
        /\ r.content = content /\ r.source = source
        /\ r.tier = BirthTier(content, source)
        /\ r.key = KeyFor(key, source, content)
        /\ r.status = IF Quarantined(content, source) THEN "quarantined"
                      ELSE IF retired THEN "superseded" ELSE "active"
    BY DEF NewRow
  <2>2. Quarantined(content, source) <=> BirthTier(content, source) \in QuarantineTiers
    BY DEF Quarantined, BirthTier, QuarantineTiers
  <2>3. r.key \in Key \/ r.key = <<r.source, r.content>>
    BY <2>1 DEF KeyFor
  <2> HIDE DEF r
  <2> QED
    BY <2>1, <2>2, <2>3 DEF RowInv, Open
<1> QED
  BY <1>4, <1>5 DEF NewRow, Open

LEMMA InsertedInv ==
    ASSUME NEW t, NEW now \in Nat, TableInv(t, now),
           NEW source \in Source, NEW content \in Content,
           NEW key \in Key \cup {NULL},
           NEW retired \in BOOLEAN, NEW episodic \in BOOLEAN,
           Holding(t, content) = {},
           \A i \in 1..Len(t) : t[i].key = key => t[i].lower < now,
           NEW w,
           w = Inserted(t, source, content, key, retired, episodic, now)
    PROVE  /\ TableInv(w, now)
           /\ Len(w) = Len(t) + 1
           /\ \A i \in 1..Len(t) :
                w[i].key = t[i].key /\ w[i].lower = t[i].lower
           /\ w[Len(t) + 1].key = KeyFor(key, source, content)
<1> DEFINE n == Len(t)
           u == ClosePrior(t, key, now)
           r == NewRow(t, source, content, key, retired, episodic, now)
<1>1. t \in Seq(Row) /\ n \in Nat
  BY DEF TableInv
<1>2. /\ TableInv(u, now)
      /\ Len(u) = n
      /\ \A i \in 1..n :
            /\ u[i].key = t[i].key
            /\ u[i].content = t[i].content
            /\ u[i].lower = t[i].lower
            /\ key # NULL /\ t[i].key = key => ~Open(u[i])
            /\ key # NULL /\ i \in Prior(t, key) => u[i].upper = now
  BY ClosePriorInv
<1>3. /\ r \in Row
      /\ RowInv(r, now)
      /\ Open(r)
      /\ r.key = KeyFor(key, source, content)
      /\ r.content = content
      /\ r.lower = now
      /\ r.replaces = IF key = NULL THEN {} ELSE Prior(t, key)
  BY NewRowInv
<1>4. u \in Seq(Row)
  BY <1>2 DEF TableInv
<1> HIDE DEF u, r
<1>5. w = Append(u, r)
  BY DEF u, r, Inserted
<1>6. /\ w \in Seq(Row)
      /\ Len(w) = n + 1
      /\ \A i \in 1..n : w[i] = u[i]
      /\ w[n + 1] = r
  BY <1>2, <1>3, <1>4, <1>5, AppendProperties
<1> HIDE DEF n
<1>7. \A i \in 1..(n + 1) : i \in 1..n \/ i = n + 1
  BY <1>1
<1>8. ASSUME NEW i \in 1..Len(w) PROVE RowInv(w[i], now)
  <2>1. \A k \in 1..n : RowInv(u[k], now)
    BY <1>2 DEF TableInv
  <2> QED
    BY <1>3, <1>6, <1>7, <2>1
<1>9. ASSUME NEW k \in 1..n, u[k].key = r.key
      PROVE  ~Overlap(u[k], r)
  <2>1. t[k].key = KeyFor(key, source, content)
    BY <1>2, <1>3, <1>9
  <2>2. t[k].content # content
    BY DEF Holding, n
  <2>3. key # NULL
    <3>1. RowInv(t[k], now)
      BY DEF TableInv, n
    <3>2. CASE t[k].key = <<t[k].source, t[k].content>>
      BY <2>1, <2>2, <3>2 DEF KeyFor
    <3>3. CASE t[k].key \in Key
      BY <2>1, <3>3, KeyAssumption DEF KeyFor
    <3> QED
      BY <3>1, <3>2, <3>3 DEF RowInv
  <2>4. ~Open(u[k])
    BY <1>2, <2>1, <2>3 DEF KeyFor
  <2>5. RowInv(u[k], now) /\ u[k] \in Row
    BY <1>2, <1>4 DEF TableInv
  <2>6. u[k].upper \in Nat /\ u[k].upper <= now
    BY <2>4, <2>5 DEF RowInv, Row, Open
  <2> QED
    BY <1>3, <2>4, <2>6 DEF Overlap
<1>10. TemporalUniq(w)
  <2> SUFFICES ASSUME NEW i \in 1..Len(w), NEW j \in 1..Len(w),
                      i # j, w[i].key = w[j].key
               PROVE  ~Overlap(w[i], w[j])
    BY DEF TemporalUniq
  <2>1. CASE i \in 1..n /\ j \in 1..n
    BY <1>2, <1>6, <2>1 DEF TableInv, TemporalUniq
  <2>2. CASE i \in 1..n /\ j = n + 1
    BY <1>6, <1>9, <2>2
  <2>3. CASE i = n + 1 /\ j \in 1..n
    <3>1. ~Overlap(w[j], w[i])
      BY <1>6, <1>9, <2>3
    <3> QED
      BY <3>1 DEF Overlap
  <2> QED
    BY <1>6, <1>7, <2>1, <2>2, <2>3
<1>11. ContentUnique(w)
  <2>1. \A k \in 1..n : u[k].content # r.content
    BY <1>2, <1>3 DEF Holding, n
  <2>2. ContentUnique(u)
    BY <1>2 DEF TableInv
  <2> QED
    BY <1>2, <1>6, <1>7, <2>1, <2>2 DEF ContentUnique
<1>12. Contiguous(w)
  <2> SUFFICES ASSUME NEW i \in 1..Len(w), NEW j \in w[i].replaces
               PROVE  /\ j \in 1..Len(w)
                      /\ j < i
                      /\ w[j].key = w[i].key
                      /\ w[j].upper = w[i].lower
    BY DEF Contiguous
  <2>1. CASE i \in 1..n
    <3>1. /\ j \in 1..n
          /\ j < i
          /\ u[j].key = u[i].key
          /\ u[j].upper = u[i].lower
      BY <1>2, <1>6, <2>1 DEF TableInv, Contiguous
    <3> QED
      BY <1>1, <1>6, <2>1, <3>1
  <2>2. CASE i = n + 1
    <3>1. key # NULL /\ j \in Prior(t, key)
      BY <1>3, <1>6, <2>2
    <3>2. j \in 1..n /\ t[j].key = key
      BY <3>1 DEF Prior, OpenRows, n
    <3> QED
      BY <1>1, <1>2, <1>3, <1>6, <2>2, <3>1, <3>2 DEF KeyFor
  <2> QED
    BY <1>6, <1>7, <2>1, <2>2
<1>13. TableInv(w, now)
  BY <1>6, <1>8, <1>10, <1>11, <1>12 DEF TableInv
<1> QED
  BY <1>2, <1>3, <1>6, <1>13 DEF n

\* w has the rows of t under their keys and perhaps new ones under key k.
Grown(t, w, k) ==
    \A i \in 1..Len(w) :
        \/ /\ i \in 1..Len(t)
           /\ w[i].key = t[i].key
           /\ w[i].lower = t[i].lower
        \/ w[i].key = k

\* The two ways a write can go, together.
LEMMA WrittenInv ==
    ASSUME NEW t, NEW now \in Nat, TableInv(t, now),
           NEW source \in Source, NEW content \in Content,
           NEW key \in Key \cup {NULL},
           NEW retired \in BOOLEAN, NEW episodic \in BOOLEAN,
           \A i \in 1..Len(t) : t[i].key = key => t[i].lower < now,
           NEW w \in Written(t, source, content, key, retired, episodic, now)
    PROVE  /\ TableInv(w, now)
           /\ Grown(t, w, KeyFor(key, source, content))
<1>1. t \in Seq(Row) /\ Len(t) \in Nat
  BY DEF TableInv
<1>2. CASE Holding(t, content) # {}
  <2>1. PICK i \in Holding(t, content) : w = Refound(t, i, retired)
    BY <1>2 DEF Written
  <2>2. i \in 1..Len(t)
    BY DEF Holding
  <2>3. /\ TableInv(w, now)
        /\ Len(w) = Len(t)
        /\ \A k \in 1..Len(t) :
                w[k].key = t[k].key /\ w[k].lower = t[k].lower
    BY <2>1, <2>2, RefoundInv
  <2> QED
    BY <2>3 DEF Grown
<1>3. CASE Holding(t, content) = {}
  <2>1. w = Inserted(t, source, content, key, retired, episodic, now)
    BY <1>3 DEF Written
  <2>2. /\ TableInv(w, now)
        /\ Len(w) = Len(t) + 1
        /\ \A i \in 1..Len(t) :
                w[i].key = t[i].key /\ w[i].lower = t[i].lower
        /\ w[Len(t) + 1].key = KeyFor(key, source, content)
    BY <1>3, <2>1, InsertedInv
  <2> QED
    BY <1>1, <2>2 DEF Grown
<1> QED
  BY <1>2, <1>3
-----------------------------------------------------------------------------
(***************************************************************************)
(* Every step keeps the invariant.                                         *)
(***************************************************************************)
LEMMA InitInv == Init => IInv
<1> SUFFICES ASSUME Init PROVE IInv
  OBVIOUS
<1>1. mem \in Seq(Row) /\ Len(mem) = 0
  BY DEF Init
<1>2. TypeOK
  BY <1>1 DEF TypeOK, Init
<1>3. TableInv(mem, clock)
  BY <1>1 DEF TableInv, TemporalUniq, ContentUnique, Contiguous
<1> QED
  BY <1>2, <1>3 DEF IInv, PassInv, NeverRefused, Init, Committed

\* A transaction that leaves a sound table commits it; one that may not is
\* refused, and that is in order for the console's own actions only.
LEMMA AttemptInv ==
    ASSUME IInv, Begin, UNCHANGED pass,
           NEW op \in Op, NEW t, Attempt(op, t),
           Admissible(t) => TableInv(t, clock'),
           Admissible(t) \/ op \in {"undo", "archive"}
    PROVE  IInv'
<1>1. clock \in Nat /\ clock' \in Nat /\ clock <= clock'
  BY DEF IInv, TypeOK, Begin
<1>2. TableInv(mem', clock')
  <2>1. CASE Admissible(t)
    BY <2>1 DEF Attempt
  <2>2. CASE ~Admissible(t)
    <3>1. TableInv(mem, clock')
      BY <1>1, LaterInv DEF IInv
    <3> QED
      BY <2>2, <3>1 DEF Attempt
  <2> QED
    BY <2>1, <2>2
<1>3. pass' = NULL
  BY DEF Begin, Idle
<1>4. TypeOK'
  BY <1>1, <1>2, <1>3 DEF TypeOK, Attempt, TableInv
<1>5. NeverRefused'
  BY DEF NeverRefused, Attempt, Committed, RefusedBy
<1> QED
  BY <1>2, <1>3, <1>4, <1>5 DEF IInv, PassInv

\* What every transaction of one statement finds when it begins.
LEMMA BeginInv ==
    ASSUME IInv, Begin
    PROVE  /\ clock \in Nat /\ clock' \in Nat /\ clock' = clock + 1
           /\ mem \in Seq(Row) /\ Len(mem) \in Nat
           /\ TableInv(mem, clock) /\ TableInv(mem, clock')
           /\ \A i \in 1..Len(mem) :
                /\ mem[i] \in Row
                /\ RowInv(mem[i], clock) /\ RowInv(mem[i], clock')
                /\ mem[i].lower < clock'
                /\ ~Open(mem[i]) => mem[i].upper < clock'
<1>1. /\ clock \in Nat /\ clock' \in Nat /\ clock' = clock + 1
      /\ mem \in Seq(Row) /\ Len(mem) \in Nat
  BY DEF IInv, TypeOK, Begin
<1>2. TableInv(mem, clock) /\ TableInv(mem, clock')
  BY <1>1, LaterInv DEF IInv
<1>3. ASSUME NEW i \in 1..Len(mem)
      PROVE  /\ mem[i] \in Row
             /\ RowInv(mem[i], clock) /\ RowInv(mem[i], clock')
             /\ mem[i].lower < clock'
             /\ ~Open(mem[i]) => mem[i].upper < clock'
  <2>1. /\ mem[i] \in Row
        /\ RowInv(mem[i], clock) /\ RowInv(mem[i], clock')
    BY <1>1, <1>2 DEF TableInv
  <2>2. mem[i].lower \in Nat /\ mem[i].upper \in Nat \cup {NULL}
    BY <2>1 DEF Row
  <2> QED
    BY <1>1, <2>1, <2>2 DEF RowInv, Open
<1> QED
  BY <1>1, <1>2, <1>3

LEMMA WriteMemoryInv ==
    ASSUME IInv, NEW source \in ApiSource, NEW content \in Content,
           NEW key \in Key \cup {NULL}, WriteMemory(source, content, key)
    PROVE  IInv'
<1>1. Begin /\ UNCHANGED pass
  BY DEF WriteMemory
<1>2. PICK t \in Written(mem, source, content, key, FALSE,
                         content \in Episodic, clock + 1) :
            Attempt("write", t)
  BY DEF WriteMemory
<1>3. source \in Source
  BY StoreAssumption
<1>4. TableInv(mem, clock') /\ clock' \in Nat /\ clock' = clock + 1
  BY <1>1, BeginInv
<1>5. \A i \in 1..Len(mem) : mem[i].key = key => mem[i].lower < clock'
  BY <1>1, BeginInv
<1>6. t \in Written(mem, source, content, key, FALSE,
                    content \in Episodic, clock')
  BY <1>2, <1>4
<1>7. (content \in Episodic) \in BOOLEAN /\ FALSE \in BOOLEAN
  OBVIOUS
<1>8. TableInv(t, clock')
  BY <1>3, <1>4, <1>5, <1>6, <1>7, WrittenInv
<1>9. Admissible(t)
  BY <1>8, SoundIsAdmissible
<1> QED
  BY <1>1, <1>2, <1>8, <1>9, AttemptInv DEF Op

LEMMA BeginPassInv ==
    ASSUME IInv, NEW tree \in Trees, BeginPass(tree)
    PROVE  IInv'
<1>1. Begin /\ UNCHANGED <<mem, call>>
  BY DEF BeginPass
<1>2. pass' = [tree |-> tree, next |-> 1, seen |-> {}, work |-> mem]
  BY DEF BeginPass
<1>3. /\ clock' \in Nat
      /\ mem \in Seq(Row)
      /\ TableInv(mem, clock')
      /\ \A i \in 1..Len(mem) : mem[i].lower < clock'
  BY <1>1, BeginInv
<1>4. pass' \in Pass
  BY <1>2, <1>3, TreesAssumption DEF Pass
<1>5. TypeOK'
  BY <1>1, <1>3, <1>4 DEF IInv, TypeOK
<1>6. PassInv'
  BY <1>2, <1>3 DEF PassInv
<1> QED
  BY <1>1, <1>3, <1>5, <1>6 DEF IInv, NeverRefused

\* A running pass, unfolded.
LEMMA RunningPass ==
    ASSUME IInv, ~Idle
    PROVE  /\ pass \in Pass
           /\ clock \in Nat
           /\ TableInv(pass.work, clock)
           /\ pass.work \in Seq(Row) /\ Len(pass.work) \in Nat
           /\ pass.next \in Nat /\ pass.next >= 1
           /\ pass.seen \subseteq {Files[m] : m \in 1..(pass.next - 1)}
           /\ \A i \in 1..Len(pass.work) :
                pass.work[i].lower < clock \/ pass.work[i].key \in pass.seen
BY DEF IInv, TypeOK, PassInv, TableInv, Idle, Pass

LEMMA SkipFileInv ==
    ASSUME IInv, SkipFile
    PROVE  IInv'
<1>1. /\ ~Idle
      /\ pass' = [pass EXCEPT !.next = @ + 1]
      /\ UNCHANGED <<mem, clock, call>>
  BY DEF SkipFile
<1>2. pass \in Pass /\ PassInv
  BY <1>1, RunningPass DEF IInv
<1>3. /\ pass' \in Pass
      /\ pass'.next = pass.next + 1
      /\ pass'.seen = pass.seen
      /\ pass'.work = pass.work
  BY <1>1, <1>2 DEF Pass
<1>4. pass.next \in Nat
  BY <1>2 DEF Pass
<1>5. PassInv'
  <2>1. pass # NULL
    BY <1>1 DEF Idle
  <2>2. {Files[m] : m \in 1..(pass.next - 1)}
            \subseteq {Files[m] : m \in 1..(pass'.next - 1)}
    BY <1>3, <1>4
  <2> QED
    BY <1>1, <1>2, <1>3, <1>4, <2>1, <2>2 DEF PassInv
<1> QED
  BY <1>1, <1>3, <1>5 DEF IInv, TypeOK, NeverRefused

LEMMA AbortPassInv ==
    ASSUME IInv, AbortPass
    PROVE  IInv'
BY DEF IInv, AbortPass, TypeOK, PassInv, NeverRefused, RolledBack

\* A file written by a pass keeps the pass's table sound; a row it adds is
\* under the file's key.
LEMMA FileWriteInv ==
    ASSUME NEW t, NEW now \in Nat, TableInv(t, now),
           NEW content \in Content, NEW key \in Key, NEW retired \in BOOLEAN,
           \A i \in 1..Len(t) : t[i].key = key => t[i].lower < now,
           NEW w \in Written(t, "git", content, key, retired, FALSE, now)
    PROVE  TableInv(w, now) /\ Grown(t, w, key)
<1>1. key # NULL
  BY NullAssumption
<1>2. KeyFor(key, "git", content) = key
  BY <1>1 DEF KeyFor
<1>3. "git" \in Source /\ FALSE \in BOOLEAN /\ key \in Key \cup {NULL}
  BY StoreAssumption
<1> QED
  BY <1>2, <1>3, WrittenInv

LEMMA IngestFileInv ==
    ASSUME IInv, IngestFile
    PROVE  IInv'
<1> DEFINE key == Files[pass.next]
           file == pass.tree[key]
<1>1. /\ ~Idle
      /\ pass.next <= Len(Files)
      /\ file # NULL
      /\ UNCHANGED <<mem, clock>>
  BY DEF IngestFile
<1>2. /\ pass \in Pass
      /\ clock \in Nat
      /\ TableInv(pass.work, clock)
      /\ Len(pass.work) \in Nat
      /\ pass.next \in Nat /\ pass.next >= 1
      /\ pass.seen \subseteq {Files[m] : m \in 1..(pass.next - 1)}
      /\ \A i \in 1..Len(pass.work) :
            pass.work[i].lower < clock \/ pass.work[i].key \in pass.seen
  BY <1>1, RunningPass
<1>3. /\ Len(Files) \in Nat
      /\ pass.next \in 1..Len(Files)
      /\ \A m \in 1..Len(Files) : Files[m] = key => m = pass.next
  BY <1>1, <1>2, StoreAssumption
<1>4. key \in FileKeys /\ key \in Key
  BY <1>3, StoreAssumption DEF FileKeys
<1>5. file.content \in Content /\ file.retired \in BOOLEAN
  <2>1. pass.tree \in [FileKeys -> FileState]
    BY <1>2 DEF Pass, Tree
  <2>2. file \in [content : Content, retired : BOOLEAN]
    BY <1>1, <1>4, <2>1 DEF FileState
  <2> QED
    BY <2>2
<1> HIDE DEF key, file
<1>6. PICK t \in Written(pass.work, "git", file.content, key, file.retired,
                         FALSE, clock) :
            IF Admissible(t)
            THEN /\ pass' = [pass EXCEPT !.next = @ + 1,
                                         !.seen = @ \cup {key},
                                         !.work = t]
                 /\ UNCHANGED call
            ELSE /\ pass' = NULL
                 /\ call' = RefusedBy("ingest")
  BY DEF IngestFile, key, file
<1>7. key \notin pass.seen
  BY <1>2, <1>3
<1>8. \A i \in 1..Len(pass.work) :
            pass.work[i].key = key => pass.work[i].lower < clock
  BY <1>2, <1>7
<1>9. TableInv(t, clock) /\ Grown(pass.work, t, key)
  BY <1>2, <1>4, <1>5, <1>6, <1>8, FileWriteInv
<1>10. /\ pass' = [pass EXCEPT !.next = @ + 1,
                               !.seen = @ \cup {key},
                               !.work = t]
       /\ UNCHANGED call
  BY <1>6, <1>9, SoundIsAdmissible
<1>11. /\ pass'.next = pass.next + 1
       /\ pass'.seen = pass.seen \cup {key}
       /\ pass'.work = t
       /\ pass'.tree = pass.tree
       /\ pass' \in Pass
  <2>1. t \in Seq(Row)
    BY <1>9 DEF TableInv
  <2>2. pass \in [tree : Tree, next : Nat, seen : SUBSET Key, work : Seq(Row)]
    BY <1>2 DEF Pass
  <2>3. pass' \in [tree : Tree, next : Nat, seen : SUBSET Key, work : Seq(Row)]
    <3>1. pass' = [tree |-> pass.tree, next |-> pass.next + 1,
                   seen |-> pass.seen \cup {key}, work |-> t]
      BY <1>10, <2>2
    <3>2. /\ pass.tree \in Tree /\ pass.next + 1 \in Nat
          /\ pass.seen \cup {key} \subseteq Key
      BY <1>2, <1>4, <2>2
    <3> QED
      BY <2>1, <3>1, <3>2
  <2> QED
    BY <1>10, <2>2, <2>3 DEF Pass
<1>12. PassInv'
  <2>1. \A i \in 1..Len(t) : t[i].lower < clock \/ t[i].key \in pass'.seen
    BY <1>2, <1>9, <1>11 DEF Grown
  <2>2. pass'.seen \subseteq {Files[m] : m \in 1..(pass'.next - 1)}
    <3>1. pass'.next - 1 = pass.next
      BY <1>2, <1>11
    <3>2. key \in {Files[m] : m \in 1..pass.next}
      BY <1>2 DEF key
    <3>3. {Files[m] : m \in 1..(pass.next - 1)}
                \subseteq {Files[m] : m \in 1..pass.next}
      BY <1>2
    <3> QED
      BY <1>2, <1>11, <3>1, <3>2, <3>3
  <2>3. TableInv(pass'.work, clock') /\ pass'.next >= 1
    BY <1>1, <1>2, <1>9, <1>11
  <2>4. \A i \in 1..Len(pass'.work) :
            pass'.work[i].lower < clock' \/ pass'.work[i].key \in pass'.seen
    BY <1>1, <1>11, <2>1
  <2> QED
    BY <2>2, <2>3, <2>4 DEF PassInv
<1> QED
  BY <1>1, <1>10, <1>11, <1>12 DEF IInv, TypeOK, NeverRefused

LEMMA FinishPassInv ==
    ASSUME IInv, FinishPass
    PROVE  IInv'
<1> DEFINE t == pass.work
           u == ArchiveMissing(t, pass.seen, clock)
<1>1. /\ ~Idle
      /\ Attempt("ingest", u)
      /\ pass' = NULL
      /\ UNCHANGED clock
  BY DEF FinishPass
<1>2. /\ clock \in Nat
      /\ TableInv(t, clock)
      /\ t \in Seq(Row) /\ Len(t) \in Nat
      /\ \A i \in 1..Len(t) : t[i].lower < clock \/ t[i].key \in pass.seen
  BY <1>1, RunningPass
<1>3. u = [i \in 1..Len(t) |->
            IF i \in Gone(t, pass.seen) /\ Open(t[i])
            THEN [t[i] EXCEPT !.status = "archived", !.upper = clock]
            ELSE t[i]]
  BY DEF ArchiveMissing
<1> HIDE DEF t, u
<1>4. ASSUME NEW i \in 1..Len(t)
      PROVE  /\ u[i] \in Row
             /\ RowInv(u[i], clock)
             /\ u[i].key = t[i].key
             /\ u[i].content = t[i].content
             /\ u[i].lower = t[i].lower
             /\ u[i].replaces = t[i].replaces
             /\ u[i].upper = t[i].upper \/ Open(t[i])
  <2>1. t[i] \in Row /\ RowInv(t[i], clock)
    BY <1>2 DEF TableInv
  <2>2. CASE i \in Gone(t, pass.seen) /\ Open(t[i])
    <3>1. u[i] = [t[i] EXCEPT !.status = "archived", !.upper = clock]
      BY <1>3, <2>2
    <3>2. t[i].lower < clock
      BY <1>2, <2>2 DEF Gone
    <3>3. u[i] \in Row
      BY <1>2, <2>1, <3>1 DEF Row, Status
    <3>4. /\ u[i].status = "archived" /\ u[i].upper = clock
          /\ u[i].key = t[i].key /\ u[i].content = t[i].content
          /\ u[i].source = t[i].source /\ u[i].tier = t[i].tier
          /\ u[i].lower = t[i].lower /\ u[i].replaces = t[i].replaces
          /\ u[i].review = t[i].review
      BY <2>1, <3>1 DEF Row
    <3>5. clock # NULL
      BY <1>2, NullAssumption
    <3>6. RowInv(u[i], clock)
      BY <1>2, <2>1, <3>2, <3>4, <3>5 DEF RowInv, Open
    <3> QED
      BY <2>2, <3>3, <3>4, <3>6
  <2>3. CASE ~(i \in Gone(t, pass.seen) /\ Open(t[i]))
    BY <1>3, <2>1, <2>3
  <2> QED
    BY <2>2, <2>3
<1>5. u \in Seq(Row) /\ Len(u) = Len(t)
  <2>1. u \in [1..Len(t) -> Row]
    BY <1>3, <1>4
  <2> QED
    BY <1>2, <2>1, FunctionIsSeq
<1>6. TableInv(u, clock)
  BY <1>2, <1>4, <1>5, PointwiseInv
<1>7. mem' = u /\ call' = Committed
  BY <1>1, <1>6, SoundIsAdmissible DEF Attempt
<1> QED
  BY <1>1, <1>2, <1>5, <1>6, <1>7
  DEF IInv, TypeOK, PassInv, NeverRefused, Committed

LEMMA PromoteInv ==
    ASSUME IInv, NEW i \in Rows, NEW tier \in Tier, Promote(i, tier)
    PROVE  IInv'
<1> DEFINE r == [mem[i] EXCEPT !.tier = tier, !.status = "active",
                               !.review = mem[i].tier]
           u == [mem EXCEPT ![i].tier = tier, ![i].status = "active",
                            ![i].review = mem[i].tier]
<1>1. /\ Begin /\ UNCHANGED pass
      /\ mem[i].status = "quarantined"
      /\ tier \in Promotable
      /\ Attempt("promote", u)
  BY DEF Promote
<1>2. /\ clock' \in Nat /\ mem \in Seq(Row) /\ TableInv(mem, clock')
      /\ \A k \in 1..Len(mem) : mem[k] \in Row /\ RowInv(mem[k], clock')
  BY <1>1, BeginInv
<1>3. i \in 1..Len(mem)
  BY DEF Rows
<1>4. u = [mem EXCEPT ![i] = r]
  BY <1>2, <1>3
<1>5. mem[i] \in Row /\ RowInv(mem[i], clock')
  BY <1>2, <1>3
<1>6. r \in Row
  BY <1>5 DEF Row, Status
<1>7. /\ r.key = mem[i].key /\ r.content = mem[i].content
      /\ r.source = mem[i].source /\ r.lower = mem[i].lower
      /\ r.upper = mem[i].upper /\ r.replaces = mem[i].replaces
      /\ r.tier = tier /\ r.status = "active" /\ r.review = mem[i].tier
  BY <1>5 DEF Row
<1> HIDE DEF r, u
<1>8. RowInv(r, clock')
  <2>1. mem[i].review = NULL /\ mem[i].tier \in QuarantineTiers
    BY <1>1, <1>5 DEF RowInv
  <2>2. mem[i].tier # NULL /\ tier \notin QuarantineTiers
    BY <1>1, <1>5, NullIsNoTier DEF Row, Promotable, QuarantineTiers
  <2> QED
    BY <1>1, <1>5, <1>7, <2>1, <2>2 DEF RowInv, Open
<1>9. TableInv(u, clock')
  <2>1. /\ u \in Seq(Row)
        /\ Len(u) = Len(mem)
        /\ \A k \in 1..Len(mem) : u[k] = IF k = i THEN r ELSE mem[k]
    BY <1>2, <1>3, <1>4, <1>6, ExceptSeq
  <2> QED
    BY <1>2, <1>7, <1>8, <2>1, PointwiseInv
<1> QED
  BY <1>1, <1>9, SoundIsAdmissible, AttemptInv DEF Op

LEMMA RejectInv ==
    ASSUME IInv, NEW i \in Rows, Reject(i)
    PROVE  IInv'
<1> DEFINE r == [mem[i] EXCEPT !.status = "archived", !.upper = clock + 1,
                               !.review = mem[i].tier]
           u == [Archived(mem, i, clock + 1) EXCEPT ![i].review = mem[i].tier]
<1>1. /\ Begin /\ UNCHANGED pass
      /\ mem[i].status = "quarantined"
      /\ Attempt("reject", u)
  BY DEF Reject
<1>2. /\ clock' \in Nat /\ clock' = clock + 1
      /\ mem \in Seq(Row) /\ TableInv(mem, clock')
      /\ \A k \in 1..Len(mem) :
            /\ mem[k] \in Row /\ RowInv(mem[k], clock')
            /\ mem[k].lower < clock'
  BY <1>1, BeginInv
<1>3. i \in 1..Len(mem)
  BY DEF Rows
<1>4. u = [mem EXCEPT ![i] = r]
  BY <1>2, <1>3 DEF Archived
<1>5. mem[i] \in Row /\ RowInv(mem[i], clock') /\ mem[i].lower < clock'
  BY <1>2, <1>3
<1>6. r \in Row
  BY <1>2, <1>5 DEF Row, Status
<1>7. /\ r.key = mem[i].key /\ r.content = mem[i].content
      /\ r.source = mem[i].source /\ r.lower = mem[i].lower
      /\ r.tier = mem[i].tier /\ r.replaces = mem[i].replaces
      /\ r.upper = clock' /\ r.status = "archived" /\ r.review = mem[i].tier
  BY <1>2, <1>5 DEF Row
<1> HIDE DEF r, u
<1>8. RowInv(r, clock') /\ Open(mem[i])
  <2>1. /\ mem[i].review = NULL /\ mem[i].tier \in QuarantineTiers
        /\ Open(mem[i])
    BY <1>1, <1>5 DEF RowInv
  <2>2. mem[i].tier # NULL /\ clock' # NULL
    BY <1>2, <1>5, NullIsNoTier DEF Row
  <2> QED
    BY <1>1, <1>2, <1>5, <1>7, <2>1, <2>2 DEF RowInv, Open
<1>9. TableInv(u, clock')
  <2>1. /\ u \in Seq(Row)
        /\ Len(u) = Len(mem)
        /\ \A k \in 1..Len(mem) : u[k] = IF k = i THEN r ELSE mem[k]
    BY <1>2, <1>3, <1>4, <1>6, ExceptSeq
  <2> QED
    BY <1>2, <1>7, <1>8, <2>1, PointwiseInv
<1> QED
  BY <1>1, <1>9, SoundIsAdmissible, AttemptInv DEF Op

LEMMA UndoInv ==
    ASSUME IInv, NEW i \in Rows, Undo(i)
    PROVE  IInv'
<1> DEFINE r == [mem[i] EXCEPT !.status = "quarantined", !.tier = mem[i].review,
                               !.upper = NULL, !.review = NULL]
           u == [mem EXCEPT ![i].status = "quarantined",
                            ![i].tier = mem[i].review,
                            ![i].upper = NULL,
                            ![i].review = NULL]
<1>1. /\ Begin /\ UNCHANGED pass
      /\ mem[i].review # NULL
      /\ Attempt("undo", u)
  BY DEF Undo
<1>2. /\ clock' \in Nat
      /\ mem \in Seq(Row) /\ TableInv(mem, clock')
      /\ \A k \in 1..Len(mem) :
            /\ mem[k] \in Row /\ RowInv(mem[k], clock')
            /\ ~Open(mem[k]) => mem[k].upper < clock'
  BY <1>1, BeginInv
<1>3. i \in 1..Len(mem)
  BY DEF Rows
<1>4. mem[i] \in Row /\ RowInv(mem[i], clock')
  BY <1>2, <1>3
<1>5. u = [mem EXCEPT ![i] = r]
  BY <1>2, <1>3
<1>6. r \in Row
  BY <1>1, <1>4 DEF Row, Status
<1>7. /\ r.key = mem[i].key /\ r.content = mem[i].content
      /\ r.source = mem[i].source /\ r.lower = mem[i].lower
      /\ r.replaces = mem[i].replaces /\ r.upper = NULL
      /\ r.tier = mem[i].review /\ r.status = "quarantined" /\ r.review = NULL
  BY <1>4 DEF Row
<1> HIDE DEF r, u
<1>8. RowInv(r, clock') /\ Open(r)
  BY <1>1, <1>4, <1>7 DEF RowInv, Open
<1>9. ASSUME Admissible(u) PROVE TableInv(u, clock')
  <2>1. /\ u \in Seq(Row)
        /\ Len(u) = Len(mem)
        /\ \A k \in 1..Len(mem) : u[k] = IF k = i THEN r ELSE mem[k]
    BY <1>2, <1>3, <1>5, <1>6, ExceptSeq
  <2> QED
    BY <1>2, <1>7, <1>8, <1>9, <2>1, GuardedInv
<1> QED
  BY <1>1, <1>9, AttemptInv DEF Op

ArchivedAt(row, now) == [row EXCEPT !.status = "archived", !.upper = now]

\* Archiving a row now, whatever it was, leaves it sound by itself.
LEMMA ArchivedRow ==
    ASSUME NEW now \in Nat, NEW row \in Row, RowInv(row, now), row.lower < now
    PROVE  /\ ArchivedAt(row, now) \in Row
           /\ RowInv(ArchivedAt(row, now), now)
           /\ ArchivedAt(row, now).key = row.key
           /\ ArchivedAt(row, now).content = row.content
           /\ ArchivedAt(row, now).lower = row.lower
           /\ ArchivedAt(row, now).replaces = row.replaces
           /\ ArchivedAt(row, now).upper = now
<1> DEFINE r == ArchivedAt(row, now)
<1>1. r \in Row
  BY DEF ArchivedAt, Row, Status
<1>2. /\ r.key = row.key /\ r.content = row.content
      /\ r.source = row.source /\ r.tier = row.tier
      /\ r.lower = row.lower /\ r.replaces = row.replaces
      /\ r.review = row.review /\ r.status = "archived" /\ r.upper = now
  BY DEF ArchivedAt, Row
<1> HIDE DEF r
<1>3. now # NULL
  BY NullAssumption
<1>4. RowInv(r, now)
  BY <1>2, <1>3 DEF RowInv, Open
<1> QED
  BY <1>1, <1>2, <1>4 DEF r

LEMMA ConsoleArchiveInv ==
    ASSUME IInv, NEW refs \in SUBSET Rows, ConsoleArchive(refs)
    PROVE  IInv'
<1> DEFINE u == [k \in 1..Len(mem) |->
                    IF k \in refs /\ mem[k].status # "archived"
                    THEN [mem[k] EXCEPT !.status = "archived",
                                        !.upper = clock + 1]
                    ELSE mem[k]]
<1>1. Begin /\ UNCHANGED pass /\ Attempt("archive", u)
  BY DEF ConsoleArchive
<1>2. /\ clock' \in Nat /\ clock' = clock + 1
      /\ mem \in Seq(Row) /\ Len(mem) \in Nat /\ TableInv(mem, clock')
      /\ \A k \in 1..Len(mem) :
            /\ mem[k] \in Row /\ RowInv(mem[k], clock')
            /\ mem[k].lower < clock'
            /\ ~Open(mem[k]) => mem[k].upper < clock'
  BY <1>1, BeginInv
<1>3. u = [k \in 1..Len(mem) |->
            IF k \in refs /\ mem[k].status # "archived"
            THEN [mem[k] EXCEPT !.status = "archived", !.upper = clock']
            ELSE mem[k]]
  BY <1>2
<1> HIDE DEF u
<1>4. ASSUME NEW k \in 1..Len(mem)
      PROVE  /\ u[k] \in Row
             /\ RowInv(u[k], clock')
             /\ u[k].key = mem[k].key
             /\ u[k].content = mem[k].content
             /\ u[k].lower = mem[k].lower
             /\ u[k].replaces = mem[k].replaces
             /\ u[k].upper = mem[k].upper \/ u[k].upper = clock'
  <2>1. CASE k \in refs /\ mem[k].status # "archived"
    <3>1. u[k] = ArchivedAt(mem[k], clock')
      BY <1>3, <2>1 DEF ArchivedAt
    <3>2. /\ mem[k] \in Row /\ RowInv(mem[k], clock')
          /\ mem[k].lower < clock'
      BY <1>2
    <3> QED
      BY <1>2, <3>1, <3>2, ArchivedRow
  <2>2. CASE ~(k \in refs /\ mem[k].status # "archived")
    BY <1>2, <1>3, <2>2
  <2> QED
    BY <2>1, <2>2
<1>5. u \in Seq(Row) /\ Len(u) = Len(mem)
  <2>1. u \in [1..Len(mem) -> Row]
    BY <1>3, <1>4
  <2> QED
    BY <1>2, <2>1, FunctionIsSeq
<1>6. ASSUME Admissible(u) PROVE TableInv(u, clock')
  BY <1>2, <1>4, <1>5, <1>6, GuardedInv
<1> QED
  BY <1>1, <1>6, AttemptInv DEF Op

LEMMA DecayInv ==
    ASSUME IInv, NEW stale \in SUBSET Rows, Decay(stale)
    PROVE  IInv'
<1> DEFINE u == [k \in 1..Len(mem) |->
                    IF k \in Decayable(mem, stale)
                    THEN [mem[k] EXCEPT !.status = "archived",
                                        !.upper = clock + 1]
                    ELSE mem[k]]
<1>1. Begin /\ UNCHANGED pass /\ Attempt("decay", u)
  BY DEF Decay
<1>2. /\ clock' \in Nat /\ clock' = clock + 1
      /\ mem \in Seq(Row) /\ Len(mem) \in Nat /\ TableInv(mem, clock')
      /\ \A k \in 1..Len(mem) :
            /\ mem[k] \in Row /\ RowInv(mem[k], clock')
            /\ mem[k].lower < clock'
  BY <1>1, BeginInv
<1>3. u = [k \in 1..Len(mem) |->
            IF k \in Decayable(mem, stale)
            THEN [mem[k] EXCEPT !.status = "archived", !.upper = clock']
            ELSE mem[k]]
  BY <1>2
<1> HIDE DEF u
<1>4. ASSUME NEW k \in 1..Len(mem)
      PROVE  /\ u[k] \in Row
             /\ RowInv(u[k], clock')
             /\ u[k].key = mem[k].key
             /\ u[k].content = mem[k].content
             /\ u[k].lower = mem[k].lower
             /\ u[k].replaces = mem[k].replaces
             /\ u[k].upper = mem[k].upper \/ Open(mem[k])
  <2>1. CASE k \in Decayable(mem, stale)
    <3>1. u[k] = ArchivedAt(mem[k], clock')
      BY <1>3, <2>1 DEF ArchivedAt
    <3>2. /\ mem[k] \in Row /\ RowInv(mem[k], clock')
          /\ mem[k].lower < clock' /\ Open(mem[k])
      BY <1>2, <2>1 DEF Decayable
    <3> QED
      BY <1>2, <3>1, <3>2, ArchivedRow
  <2>2. CASE k \notin Decayable(mem, stale)
    BY <1>2, <1>3, <2>2
  <2> QED
    BY <2>1, <2>2
<1>5. u \in Seq(Row) /\ Len(u) = Len(mem)
  <2>1. u \in [1..Len(mem) -> Row]
    BY <1>3, <1>4
  <2> QED
    BY <1>2, <2>1, FunctionIsSeq
<1>6. TableInv(u, clock')
  BY <1>2, <1>4, <1>5, PointwiseInv
<1> QED
  BY <1>1, <1>6, SoundIsAdmissible, AttemptInv DEF Op

LEMMA NextInv == IInv /\ [Next]_vars => IInv'
<1> SUFFICES ASSUME IInv, [Next]_vars PROVE IInv'
  OBVIOUS
<1>1. ASSUME NEW source \in ApiSource, NEW content \in Content,
             NEW key \in Key \cup {NULL}, WriteMemory(source, content, key)
      PROVE  IInv'
  BY <1>1, WriteMemoryInv
<1>2. ASSUME NEW tree \in Trees, BeginPass(tree) PROVE IInv'
  BY <1>2, BeginPassInv
<1>3. ASSUME NEW i \in Rows, NEW tier \in Tier, Promote(i, tier) PROVE IInv'
  BY <1>3, PromoteInv
<1>4. ASSUME NEW i \in Rows, Reject(i) PROVE IInv'
  BY <1>4, RejectInv
<1>5. ASSUME NEW i \in Rows, Undo(i) PROVE IInv'
  BY <1>5, UndoInv
<1>6. ASSUME NEW refs \in SUBSET Rows, ConsoleArchive(refs) PROVE IInv'
  BY <1>6, ConsoleArchiveInv
<1>7. ASSUME NEW stale \in SUBSET Rows, Decay(stale) PROVE IInv'
  BY <1>7, DecayInv
<1>8. CASE UNCHANGED vars
  BY <1>8 DEF vars, IInv, TypeOK, PassInv, NeverRefused
<1> QED
  BY <1>1, <1>2, <1>3, <1>4, <1>5, <1>6, <1>7, <1>8,
     SkipFileInv, IngestFileInv, FinishPassInv, AbortPassInv DEF Next
-----------------------------------------------------------------------------
(***************************************************************************)
(* Theorems.                                                               *)
(***************************************************************************)
\* The inductive invariant: every reachable table is sound at the present
\* time, and so is the copy a running ingestion pass works on.
THEOREM Invariance == Spec => []IInv
<1>1. Init => IInv
  BY InitInv
<1>2. IInv /\ [Next]_vars => IInv'
  BY NextInv
<1> QED
  BY <1>1, <1>2, PTL DEF Spec

\* Every reachable state has the types the columns of mem.memories declare.
THEOREM TypeCorrect == Spec => []TypeOK
<1>1. IInv => TypeOK
  BY DEF IInv
<1> QED
  BY <1>1, Invariance, PTL

\* However many writes, passes, reviews, sweeps and rollbacks came before, a
\* write, a pass, a promotion, a rejection or a sweep never meets a constraint
\* of the table: write_memory closes the one open row of its key and the new
\* row starts where that one ends.
THEOREM WritesAreNeverRefused == Spec => []NeverRefused
<1>1. IInv => NeverRefused
  BY DEF IInv
<1> QED
  BY <1>1, Invariance, PTL

\* Served and quarantined rows are open, archived rows are closed, and no
\* closed validity is empty or in the future.
THEOREM StatusAndValidityAgree == Spec => []StatusMatchesValidity
<1>1. IInv => StatusMatchesValidity
  BY DEF IInv, TableInv, RowInv, StatusMatchesValidity, Rows
<1> QED
  BY <1>1, Invariance, PTL

\* No sequence of writes, reviews and undos gives a row a tier that neither
\* its source nor a recorded review gives it, or serves a quarantine tier.
THEOREM NoUnearnedTrust == Spec => []TrustIsEarned
<1>1. IInv => TrustIsEarned
  <2> SUFFICES ASSUME IInv, NEW i \in Rows
               PROVE  LET row   == mem[i]
                          birth == BirthTier(row.content, row.source)
                      IN  /\ row.review = NULL => row.tier = birth
                          /\ row.review # NULL =>
                                /\ row.review = birth
                                /\ birth \in QuarantineTiers
                                /\ row.tier \in Promotable \cup {birth}
                          /\ row.status = "active" =>
                                row.tier \notin QuarantineTiers
    BY DEF TrustIsEarned
  <2>1. RowInv(mem[i], clock)
    BY DEF IInv, TableInv, Rows
  <2> QED
    BY <2>1 DEF RowInv
<1> QED
  BY <1>1, Invariance, PTL

\* A text is stored once, by whatever route it comes and however often.
THEOREM ContentIsStoredOnce == Spec => []OneRowPerContent
<1>1. IInv => OneRowPerContent
  BY DEF IInv, TableInv, ContentUnique, OneRowPerContent, Rows
<1> QED
  BY <1>1, Invariance, PTL

\* The versions of a key follow one another without a gap or an overlap, and
\* no console action or undo moves the instant at which one gave way to the
\* next: the database refuses every such attempt.
THEOREM HistoryHasNoGaps == Spec => []SupersessionIsContiguous
<1>1. IInv => SupersessionIsContiguous
  BY DEF IInv, TableInv, Contiguous, SupersessionIsContiguous, Rows
<1> QED
  BY <1>1, Invariance, PTL
-----------------------------------------------------------------------------
(***************************************************************************)
(* A row keeps its text and its source, whatever happens to it.            *)
(***************************************************************************)
Kept(t, u) ==
    /\ Len(t) <= Len(u)
    /\ \A i \in 1..Len(t) : u[i].content = t[i].content /\ u[i].source = t[i].source

LEMMA KeptTwice ==
    ASSUME NEW t \in Seq(Row), NEW u \in Seq(Row), NEW w \in Seq(Row),
           Kept(t, u), Kept(u, w)
    PROVE  Kept(t, w)
BY DEF Kept

\* A table computed row by row has as many rows as it was computed from.
LEMMA MapLen ==
    ASSUME NEW n \in Nat, NEW u, u = [i \in 1..n |-> u[i]]
    PROVE  Len(u) = n
<1> DEFINE S == {u[i] : i \in 1..n}
<1>1. u \in [1..n -> S]
  OBVIOUS
<1> HIDE DEF S
<1> QED
  BY <1>1, FunctionIsSeq

LEMMA RefoundKeeps ==
    ASSUME NEW t \in Seq(Row), NEW i \in 1..Len(t), NEW retired \in BOOLEAN
    PROVE  /\ Kept(t, Refound(t, i, retired))
           /\ Len(Refound(t, i, retired)) = Len(t)
           /\ \A k \in 1..Len(t) :
                Refound(t, i, retired)[k].status \in {t[k].status, "superseded"}
           /\ retired => Refound(t, i, retired)[i].status # "active"
<1> DEFINE u == Refound(t, i, retired)
           r == [t[i] EXCEPT !.status = "superseded"]
<1>1. CASE retired /\ t[i].status # "quarantined"
  <2>1. u = [t EXCEPT ![i].status = "superseded"]
    BY <1>1 DEF Refound
  <2>2. t[i] \in Row /\ r \in Row
    <3>1. t[i] \in Row
      OBVIOUS
    <3> QED
      BY <3>1 DEF Row, Status
  <2>3. r.content = t[i].content /\ r.source = t[i].source /\ r.status = "superseded"
    BY <2>2 DEF Row
  <2>4. u = [t EXCEPT ![i] = r]
    BY <2>1
  <2> HIDE DEF u, r
  <2>5. /\ Len(u) = Len(t)
        /\ \A k \in 1..Len(t) : u[k] = IF k = i THEN r ELSE t[k]
    BY <2>2, <2>4, ExceptSeq
  <2>6. /\ Kept(t, u)
        /\ \A k \in 1..Len(t) : u[k].status \in {t[k].status, "superseded"}
        /\ u[i].status # "active"
    BY <2>3, <2>5 DEF Kept
  <2> QED
    BY <2>5, <2>6 DEF u
<1>2. CASE ~(retired /\ t[i].status # "quarantined")
  BY <1>2 DEF Refound, Kept
<1> QED
  BY <1>1, <1>2

LEMMA ClosePriorKeeps ==
    ASSUME NEW t \in Seq(Row), NEW key, NEW now
    PROVE  /\ Kept(t, ClosePrior(t, key, now))
           /\ Len(ClosePrior(t, key, now)) = Len(t)
           /\ \A k \in 1..Len(t) :
                ClosePrior(t, key, now)[k].status \in {t[k].status, "superseded"}
<1> DEFINE u == ClosePrior(t, key, now)
<1>1. CASE key = NULL
  BY <1>1 DEF ClosePrior, Kept
<1>2. CASE key # NULL
  <2>1. u = [i \in 1..Len(t) |->
                IF i \in Prior(t, key)
                THEN [t[i] EXCEPT !.upper = now, !.status = "superseded"]
                ELSE t[i]]
    BY <1>2 DEF ClosePrior
  <2> HIDE DEF u
  <2>2. Len(t) \in Nat
    OBVIOUS
  <2>3. Len(u) = Len(t)
    <3>1. u = [i \in 1..Len(t) |-> u[i]]
      BY <2>1
    <3> QED
      BY <2>2, <3>1, MapLen
  <2>4. ASSUME NEW k \in 1..Len(t)
        PROVE  /\ u[k].content = t[k].content
               /\ u[k].source = t[k].source
               /\ u[k].status \in {t[k].status, "superseded"}
    <3>1. t[k] \in Row
      OBVIOUS
    <3> QED
      BY <2>1, <3>1 DEF Row
  <2> QED
    BY <2>2, <2>3, <2>4 DEF Kept, u
<1> QED
  BY <1>1, <1>2

\* What a write of a text does to the texts and the statuses of a table: the
\* rows that were there keep their text and at most lose their place, and a text
\* that its source retires is not served.
Rewritten(t, w, source, content, retired) ==
    /\ Kept(t, w)
    /\ \A i \in 1..Len(t) : w[i].status \in {t[i].status, "superseded"}
    /\ \A i \in 1..Len(w) : i > Len(t) =>
            /\ w[i].content = content
            /\ w[i].source = source
            /\ \A k \in 1..Len(t) : t[k].content # content
    /\ \E i \in 1..Len(w) : w[i].content = content
    /\ retired = TRUE =>
            \A i \in 1..Len(w) : w[i].content = content => w[i].status # "active"

LEMMA WrittenKeeps ==
    ASSUME NEW t, NEW now \in Nat, TableInv(t, now),
           NEW source \in Source, NEW content \in Content,
           NEW key \in Key \cup {NULL},
           NEW retired \in BOOLEAN, NEW episodic \in BOOLEAN,
           NEW w \in Written(t, source, content, key, retired, episodic, now)
    PROVE  Rewritten(t, w, source, content, retired)
<1>1. t \in Seq(Row) /\ Len(t) \in Nat /\ ContentUnique(t)
  BY DEF TableInv
<1>2. CASE Holding(t, content) # {}
  <2>1. PICK i \in Holding(t, content) : w = Refound(t, i, retired)
    BY <1>2 DEF Written
  <2>2. i \in 1..Len(t) /\ t[i].content = content
    BY <2>1 DEF Holding
  <2>3. /\ Kept(t, w) /\ Len(w) = Len(t)
        /\ \A k \in 1..Len(t) : w[k].status \in {t[k].status, "superseded"}
        /\ retired => w[i].status # "active"
    BY <1>1, <2>1, <2>2, RefoundKeeps
  <2>4. ASSUME NEW k \in 1..Len(t), w[k].content = content PROVE k = i
    BY <1>1, <2>2, <2>3, <2>4 DEF Kept, ContentUnique
  <2> QED
    BY <1>1, <2>2, <2>3, <2>4 DEF Rewritten, Kept
<1>3. CASE Holding(t, content) = {}
  <2> DEFINE u == ClosePrior(t, key, now)
             r == NewRow(t, source, content, key, retired, episodic, now)
  <2>1. w = Append(u, r)
    BY <1>3 DEF Written, Inserted
  <2>2. r \in Row
    BY NewRowInv
  <2>3. /\ r.content = content /\ r.source = source
        /\ retired => r.status # "active"
    BY DEF NewRow
  <2>4. /\ Kept(t, u) /\ Len(u) = Len(t)
        /\ \A k \in 1..Len(t) : u[k].status \in {t[k].status, "superseded"}
    BY <1>1, ClosePriorKeeps
  <2>5. u \in Seq(Row)
    <3>1. CASE key = NULL
      BY <1>1, <3>1 DEF ClosePrior
    <3>2. CASE key # NULL
      <4>1. u = [i \in 1..Len(t) |->
                IF i \in Prior(t, key)
                THEN [t[i] EXCEPT !.upper = now, !.status = "superseded"]
                ELSE t[i]]
        BY <3>2 DEF ClosePrior
      <4>2. ASSUME NEW i \in 1..Len(t) PROVE u[i] \in Row
        <5>1. t[i] \in Row
          BY <1>1
        <5>2. [t[i] EXCEPT !.upper = now, !.status = "superseded"] \in Row
          BY <5>1 DEF Row, Status
        <5> QED
          BY <4>1, <5>1, <5>2
      <4>3. u \in [1..Len(t) -> Row]
        BY <4>1, <4>2
      <4> QED
        BY <1>1, <4>3, FunctionIsSeq
    <3> QED
      BY <3>1, <3>2
  <2> HIDE DEF u, r
  <2>6. /\ Len(w) = Len(t) + 1
        /\ \A i \in 1..Len(t) : w[i] = u[i]
        /\ w[Len(t) + 1] = r
    BY <2>1, <2>2, <2>4, <2>5, AppendProperties
  <2>7. Kept(t, w)
    BY <1>1, <2>4, <2>6 DEF Kept
  <2>8. \A i \in 1..Len(w) : i > Len(t) => i = Len(t) + 1
    BY <1>1, <2>6
  <2>9. ASSUME NEW i \in 1..Len(w), w[i].content = content
        PROVE  i = Len(t) + 1
    <3>1. CASE i \in 1..Len(t)
      <4>1. t[i].content = content
        BY <2>7, <2>9, <3>1 DEF Kept
      <4> QED
        BY <1>3, <3>1, <4>1 DEF Holding
    <3> QED
      BY <1>1, <2>6, <3>1
  <2>10. \A k \in 1..Len(t) : t[k].content # content
    BY <1>3 DEF Holding
  <2>11. Len(t) + 1 \in 1..Len(w)
    BY <1>1, <2>6
  <2> QED
    BY <2>3, <2>4, <2>6, <2>7, <2>8, <2>9, <2>10, <2>11 DEF Rewritten
<1> QED
  BY <1>2, <1>3
-----------------------------------------------------------------------------
(***************************************************************************)
(* What a pass withdraws.                                                  *)
(***************************************************************************)
PassKeeps == pass # NULL => Kept(mem, pass.work)

Withdraws(file) == file # NULL /\ file.retired /\ file.content \notin Refused

\* The files a running pass has dealt with: those it has seen are in the tree,
\* and no text they withdraw is served by the table it works on.
PassWithdraws ==
    pass # NULL =>
        /\ \A key \in pass.seen : pass.tree[key] # NULL
        /\ \A m \in 1..(pass.next - 1) :
              Withdraws(pass.tree[Files[m]]) =>
                /\ \E i \in 1..Len(pass.work) :
                        pass.work[i].content = pass.tree[Files[m]].content
                /\ \A i \in 1..Len(pass.work) :
                    pass.work[i].content = pass.tree[Files[m]].content =>
                        pass.work[i].status # "active"

StoreInv == IInv /\ PassKeeps /\ PassWithdraws

\* What every step does with both.
StepKeeps == PassKeeps' /\ PassWithdraws' /\ Kept(mem, mem')

LEMMA KeptSame ==
    ASSUME mem \in Seq(Row), UNCHANGED mem
    PROVE  Kept(mem, mem')
BY DEF Kept

LEMMA KeptAttempt ==
    ASSUME NEW op, NEW t, Attempt(op, t), Kept(mem, t), mem \in Seq(Row)
    PROVE  Kept(mem, mem')
BY DEF Attempt, Kept

LEMMA WriteMemoryKeeps ==
    ASSUME IInv, NEW source \in ApiSource, NEW content \in Content,
           NEW key \in Key \cup {NULL}, WriteMemory(source, content, key)
    PROVE  Kept(mem, mem')
<1>1. Begin
  BY DEF WriteMemory
<1>2. PICK t \in Written(mem, source, content, key, FALSE,
                         content \in Episodic, clock + 1) :
            Attempt("write", t)
  BY DEF WriteMemory
<1>3. source \in Source /\ (content \in Episodic) \in BOOLEAN /\ FALSE \in BOOLEAN
  BY StoreAssumption
<1>4. TableInv(mem, clock + 1) /\ clock + 1 \in Nat /\ mem \in Seq(Row)
  BY <1>1, BeginInv
<1>5. Kept(mem, t)
  BY <1>2, <1>3, <1>4, WrittenKeeps DEF Rewritten
<1> QED
  BY <1>2, <1>4, <1>5, KeptAttempt

LEMMA PromoteKeeps ==
    ASSUME IInv, NEW i \in Rows, NEW tier \in Tier, Promote(i, tier)
    PROVE  Kept(mem, mem')
<1> DEFINE r == [mem[i] EXCEPT !.tier = tier, !.status = "active",
                               !.review = mem[i].tier]
           u == [mem EXCEPT ![i].tier = tier, ![i].status = "active",
                            ![i].review = mem[i].tier]
<1>1. Attempt("promote", u)
  BY DEF Promote
<1>2. mem \in Seq(Row) /\ i \in 1..Len(mem) /\ mem[i] \in Row
  BY DEF IInv, TypeOK, Rows
<1>3. u = [mem EXCEPT ![i] = r]
  BY <1>2
<1>4. r.content = mem[i].content /\ r.source = mem[i].source
  BY <1>2 DEF Row
<1> HIDE DEF r, u
<1>5. Len(u) = Len(mem) /\ \A k \in 1..Len(mem) : u[k] = IF k = i THEN r ELSE mem[k]
  BY <1>2, <1>3
<1>6. Kept(mem, u)
  BY <1>2, <1>4, <1>5 DEF Kept
<1> QED
  BY <1>1, <1>2, <1>6, KeptAttempt

LEMMA RejectKeeps ==
    ASSUME IInv, NEW i \in Rows, Reject(i)
    PROVE  Kept(mem, mem')
<1> DEFINE r == [mem[i] EXCEPT !.status = "archived", !.upper = clock + 1,
                               !.review = mem[i].tier]
           u == [Archived(mem, i, clock + 1) EXCEPT ![i].review = mem[i].tier]
<1>1. Attempt("reject", u)
  BY DEF Reject
<1>2. mem \in Seq(Row) /\ i \in 1..Len(mem) /\ mem[i] \in Row
  BY DEF IInv, TypeOK, Rows
<1>3. u = [mem EXCEPT ![i] = r]
  BY <1>2 DEF Archived
<1>4. r.content = mem[i].content /\ r.source = mem[i].source
  BY <1>2 DEF Row
<1> HIDE DEF r, u
<1>5. Len(u) = Len(mem) /\ \A k \in 1..Len(mem) : u[k] = IF k = i THEN r ELSE mem[k]
  BY <1>2, <1>3
<1>6. Kept(mem, u)
  BY <1>2, <1>4, <1>5 DEF Kept
<1> QED
  BY <1>1, <1>2, <1>6, KeptAttempt

LEMMA UndoKeeps ==
    ASSUME IInv, NEW i \in Rows, Undo(i)
    PROVE  Kept(mem, mem')
<1> DEFINE r == [mem[i] EXCEPT !.status = "quarantined", !.tier = mem[i].review,
                               !.upper = NULL, !.review = NULL]
           u == [mem EXCEPT ![i].status = "quarantined",
                            ![i].tier = mem[i].review,
                            ![i].upper = NULL,
                            ![i].review = NULL]
<1>1. Attempt("undo", u)
  BY DEF Undo
<1>2. mem \in Seq(Row) /\ i \in 1..Len(mem) /\ mem[i] \in Row
  BY DEF IInv, TypeOK, Rows
<1>3. u = [mem EXCEPT ![i] = r]
  BY <1>2
<1>4. r.content = mem[i].content /\ r.source = mem[i].source
  BY <1>2 DEF Row
<1> HIDE DEF r, u
<1>5. Len(u) = Len(mem) /\ \A k \in 1..Len(mem) : u[k] = IF k = i THEN r ELSE mem[k]
  BY <1>2, <1>3
<1>6. Kept(mem, u)
  BY <1>2, <1>4, <1>5 DEF Kept
<1> QED
  BY <1>1, <1>2, <1>6, KeptAttempt

\* The table t with the rows olds archived.
Thinned(t, olds, now) ==
    [k \in 1..Len(t) |->
        IF k \in olds
        THEN [t[k] EXCEPT !.status = "archived", !.upper = now]
        ELSE t[k]]

LEMMA ThinnedKeeps ==
    ASSUME NEW t \in Seq(Row), NEW olds, NEW now
    PROVE  /\ Kept(t, Thinned(t, olds, now))
           /\ Len(Thinned(t, olds, now)) = Len(t)
<1> DEFINE u == Thinned(t, olds, now)
<1>1. Len(t) \in Nat
  OBVIOUS
<1>2. Len(u) = Len(t)
  <2>1. u = [i \in 1..Len(t) |-> u[i]]
    BY DEF Thinned
  <2> HIDE DEF u
  <2> QED
    BY <1>1, <2>1, MapLen
<1>3. ASSUME NEW k \in 1..Len(t)
      PROVE  u[k].content = t[k].content /\ u[k].source = t[k].source
  <2>1. t[k] \in Row
    OBVIOUS
  <2> QED
    BY <2>1 DEF Row, Thinned
<1> HIDE DEF u
<1>4. Kept(t, u)
  BY <1>1, <1>2, <1>3 DEF Kept
<1> QED
  BY <1>2, <1>4 DEF u

LEMMA ConsoleArchiveKeeps ==
    ASSUME IInv, NEW refs \in SUBSET Rows, ConsoleArchive(refs)
    PROVE  Kept(mem, mem')
<1> DEFINE olds == {k \in refs : mem[k].status # "archived"}
           u == [k \in 1..Len(mem) |->
                    IF k \in refs /\ mem[k].status # "archived"
                    THEN [mem[k] EXCEPT !.status = "archived",
                                        !.upper = clock + 1]
                    ELSE mem[k]]
<1>1. Attempt("archive", u)
  BY DEF ConsoleArchive
<1>2. mem \in Seq(Row)
  BY DEF IInv, TypeOK
<1>3. u = Thinned(mem, olds, clock + 1)
  BY DEF Thinned
<1> HIDE DEF u, olds
<1>4. Kept(mem, u)
  BY <1>2, <1>3, ThinnedKeeps
<1> QED
  BY <1>1, <1>2, <1>4, KeptAttempt

LEMMA DecayKeeps ==
    ASSUME IInv, NEW stale \in SUBSET Rows, Decay(stale)
    PROVE  Kept(mem, mem')
<1> DEFINE u == [k \in 1..Len(mem) |->
                    IF k \in Decayable(mem, stale)
                    THEN [mem[k] EXCEPT !.status = "archived",
                                        !.upper = clock + 1]
                    ELSE mem[k]]
<1>1. Attempt("decay", u)
  BY DEF Decay
<1>2. mem \in Seq(Row)
  BY DEF IInv, TypeOK
<1>3. u = Thinned(mem, Decayable(mem, stale), clock + 1)
  BY DEF Thinned
<1> HIDE DEF u
<1>4. Kept(mem, u)
  BY <1>2, <1>3, ThinnedKeeps
<1> QED
  BY <1>1, <1>2, <1>4, KeptAttempt

LEMMA FileWriteKeeps ==
    ASSUME NEW t, NEW now \in Nat, TableInv(t, now),
           NEW content \in Content, NEW key \in Key, NEW retired \in BOOLEAN,
           NEW w \in Written(t, "git", content, key, retired, FALSE, now)
    PROVE  Rewritten(t, w, "git", content, retired)
<1>1. "git" \in Source /\ FALSE \in BOOLEAN /\ key \in Key \cup {NULL}
  BY StoreAssumption
<1> QED
  BY <1>1, WrittenKeeps

\* What a file of a running pass does to the pass and its table.
FileWritten(key, file) ==
    /\ key \in FileKeys /\ file # NULL /\ file.content \notin Refused
    /\ UNCHANGED <<mem, clock>>
    /\ \/ pass' = NULL /\ call' = RefusedBy("ingest")
       \/ /\ pass' \in Pass
          /\ pass'.next = pass.next + 1
          /\ pass'.seen = pass.seen \cup {key}
          /\ pass'.tree = pass.tree
          /\ pass'.work \in Seq(Row)
          /\ Rewritten(pass.work, pass'.work, "git", file.content, file.retired)

LEMMA IngestFileStep ==
    ASSUME IInv, IngestFile,
           NEW key, key = Files[pass.next],
           NEW file, file = pass.tree[key]
    PROVE  FileWritten(key, file)
<1>1. /\ ~Idle
      /\ pass.next <= Len(Files)
      /\ file # NULL
      /\ file.content \notin Refused
      /\ UNCHANGED <<mem, clock>>
  BY DEF IngestFile
<1>2. /\ pass \in Pass
      /\ clock \in Nat
      /\ TableInv(pass.work, clock)
      /\ pass.next \in Nat /\ pass.next >= 1
  BY <1>1, RunningPass
<1>3. key \in FileKeys /\ key \in Key
  BY <1>1, <1>2, StoreAssumption DEF FileKeys
<1> DEFINE content == file.content
           retired == file.retired
<1>4. content \in Content /\ retired \in BOOLEAN
  <2>1. pass.tree \in [FileKeys -> FileState]
    BY <1>2 DEF Pass, Tree
  <2>2. file \in [content : Content, retired : BOOLEAN]
    BY <1>1, <1>3, <2>1 DEF FileState
  <2> QED
    BY <2>2
<1>5. PICK t \in Written(pass.work, "git", content, key, retired, FALSE, clock) :
            IF Admissible(t)
            THEN /\ pass' = [pass EXCEPT !.next = @ + 1,
                                         !.seen = @ \cup {key},
                                         !.work = t]
                 /\ UNCHANGED call
            ELSE /\ pass' = NULL
                 /\ call' = RefusedBy("ingest")
  BY DEF IngestFile
<1> HIDE DEF content, retired
<1>7. Rewritten(pass.work, t, "git", content, retired)
  BY <1>2, <1>3, <1>4, <1>5, FileWriteKeeps
<1>8. CASE ~Admissible(t)
  BY <1>1, <1>3, <1>5, <1>8 DEF FileWritten
<1>9. CASE Admissible(t)
  <2>1. /\ pass'.next = pass.next + 1
        /\ pass'.seen = pass.seen \cup {key}
        /\ pass'.tree = pass.tree
        /\ pass'.work = t
    BY <1>2, <1>5, <1>9 DEF Pass
  <2>2. \A i \in 1..Len(pass.work) : pass.work[i].key = key => pass.work[i].lower < clock
    BY <1>1, <1>2, RunningPass, StoreAssumption
  <2>3. t \in Seq(Row)
    BY <1>2, <1>3, <1>4, <1>5, <2>2, FileWriteInv DEF TableInv
  <2>4. pass' \in Pass
    <3>1. pass' = [tree |-> pass.tree, next |-> pass.next + 1,
                   seen |-> pass.seen \cup {key}, work |-> t]
      BY <1>2, <1>5, <1>9 DEF Pass
    <3>2. pass.tree \in Tree /\ pass.next + 1 \in Nat /\ pass.seen \cup {key} \subseteq Key
      BY <1>2, <1>3 DEF Pass
    <3> QED
      BY <2>3, <3>1, <3>2 DEF Pass
  <2> QED
    BY <1>1, <1>3, <1>7, <2>1, <2>3, <2>4 DEF FileWritten, content, retired
<1> QED
  BY <1>8, <1>9

LEMMA IngestFileKeeps ==
    ASSUME StoreInv, IngestFile
    PROVE  StepKeeps
<1> DEFINE key == Files[pass.next]
           file == pass.tree[key]
<1>1. IInv /\ ~Idle /\ pass # NULL /\ mem \in Seq(Row)
  BY DEF StoreInv, IngestFile, Idle, IInv, TypeOK
<1>2. /\ pass.work \in Seq(Row) /\ Len(pass.work) \in Nat
      /\ pass.next \in Nat /\ pass.next >= 1
  BY <1>1, RunningPass
<1>8. FileWritten(key, file)
  BY <1>1, IngestFileStep
<1>3. key \in FileKeys /\ file # NULL /\ UNCHANGED <<mem, clock>>
  BY <1>8 DEF FileWritten
<1>4. Kept(mem, mem')
  BY <1>1, <1>3, KeptSame
<1>5. CASE pass' = NULL
  BY <1>4, <1>5 DEF PassKeeps, PassWithdraws, StepKeeps
<1>6. CASE pass' # NULL
  <2>1. /\ pass'.next = pass.next + 1
        /\ pass'.seen = pass.seen \cup {key}
        /\ pass'.tree = pass.tree
        /\ pass'.work \in Seq(Row)
        /\ Rewritten(pass.work, pass'.work, "git", file.content, file.retired)
    BY <1>6, <1>8 DEF FileWritten
  <2>2. PassKeeps'
    <3>1. Kept(mem, pass'.work)
      BY <1>1, <1>2, <2>1, KeptTwice DEF StoreInv, PassKeeps, Rewritten
    <3> QED
      BY <1>3, <3>1 DEF PassKeeps
  <2>3. \A k \in pass'.seen : pass'.tree[k] # NULL
    BY <1>1, <1>3, <1>6, <2>1 DEF StoreInv, PassWithdraws
  <2>4. ASSUME NEW m \in 1..(pass'.next - 1), Withdraws(pass'.tree[Files[m]]),
               NEW i \in 1..Len(pass'.work),
               pass'.work[i].content = pass'.tree[Files[m]].content
        PROVE  pass'.work[i].status # "active"
    <3> DEFINE g == pass.tree[Files[m]]
    <3>1. pass'.tree[Files[m]] = g /\ Withdraws(g) /\ pass'.work[i].content = g.content
      BY <1>6, <2>1, <2>4
    <3>2. CASE m = pass.next
      <4>1. file = g /\ g.retired
        BY <3>1, <3>2 DEF Withdraws
      <4>2. file.retired = TRUE
        <5>1. file.retired \in BOOLEAN
          <6>1. pass.tree \in [FileKeys -> FileState]
            BY <1>1, RunningPass DEF Pass, Tree
          <6>2. file \in [content : Content, retired : BOOLEAN]
            BY <1>3, <6>1 DEF FileState
          <6> QED
            BY <6>2
        <5> QED
          BY <4>1, <5>1
      <4> HIDE DEF file, g
      <4> QED
        BY <2>1, <3>1, <4>1, <4>2 DEF Rewritten
    <3>3. CASE m \in 1..(pass.next - 1)
      <4>1. \A k \in 1..Len(pass.work) :
                pass.work[k].content = g.content => pass.work[k].status # "active"
        BY <1>1, <3>1, <3>3 DEF StoreInv, PassWithdraws
      <4>2. CASE i \in 1..Len(pass.work)
        <5>1. pass'.work[i].content = pass.work[i].content
          BY <2>1, <4>2 DEF Kept, Rewritten
        <5>2. pass'.work[i].status \in {pass.work[i].status, "superseded"}
          BY <2>1, <4>2 DEF Rewritten
        <5> HIDE DEF g
        <5> QED
          BY <3>1, <4>1, <4>2, <5>1, <5>2
      <4>3. CASE i \notin 1..Len(pass.work)
        \* An earlier file left its text in the table, so the row the pass just
        \* added has another.
        <5>1. PICK k \in 1..Len(pass.work) : pass.work[k].content = g.content
          BY <1>1, <3>1, <3>3 DEF StoreInv, PassWithdraws
        <5>2. i > Len(pass.work) /\ Len(pass'.work) \in Nat
          BY <1>2, <2>1, <4>3
        <5> HIDE DEF g, file
        <5> QED
          BY <2>1, <3>1, <5>1, <5>2 DEF Rewritten
      <4> QED
        BY <4>2, <4>3
    <3>4. m = pass.next \/ m \in 1..(pass.next - 1)
      BY <1>2, <1>6, <2>1
    <3> QED
      BY <3>2, <3>3, <3>4
  <2>5. ASSUME NEW m \in 1..(pass'.next - 1), Withdraws(pass'.tree[Files[m]])
        PROVE  \E i \in 1..Len(pass'.work) :
                    pass'.work[i].content = pass'.tree[Files[m]].content
    <3> DEFINE g == pass.tree[Files[m]]
    <3>1. pass'.tree[Files[m]] = g /\ Withdraws(g)
      BY <1>6, <2>1, <2>5
    <3>2. CASE m = pass.next
      <4>1. g = file
        BY <3>2
      <4> HIDE DEF g, file
      <4> QED
        BY <2>1, <3>1, <4>1 DEF Rewritten
    <3>3. CASE m \in 1..(pass.next - 1)
      <4>1. PICK k \in 1..Len(pass.work) : pass.work[k].content = g.content
        BY <1>1, <3>1, <3>3 DEF StoreInv, PassWithdraws
      <4>2. k \in 1..Len(pass'.work) /\ pass'.work[k].content = pass.work[k].content
        BY <1>2, <2>1 DEF Kept, Rewritten
      <4> HIDE DEF g
      <4> QED
        BY <3>1, <4>1, <4>2
    <3>4. m = pass.next \/ m \in 1..(pass.next - 1)
      BY <1>2, <1>6, <2>1
    <3> QED
      BY <3>2, <3>3, <3>4
  <2> QED
    BY <1>4, <2>2, <2>3, <2>4, <2>5 DEF PassWithdraws, StepKeeps
<1> QED
  BY <1>5, <1>6

LEMMA SkipFileKeeps ==
    ASSUME StoreInv, SkipFile
    PROVE  StepKeeps
<1>1. /\ IInv /\ ~Idle /\ pass # NULL /\ mem \in Seq(Row)
      /\ pass' = [pass EXCEPT !.next = @ + 1]
      /\ UNCHANGED <<mem, clock, call>>
      /\ pass.next <= Len(Files)
      /\ \/ pass.tree[Files[pass.next]] = NULL
         \/ pass.tree[Files[pass.next]].content \in Refused
  BY DEF StoreInv, SkipFile, Idle, IInv, TypeOK
<1>2. pass \in Pass /\ pass.next \in Nat /\ pass.next >= 1
  BY <1>1, RunningPass
<1>3. /\ pass'.next = pass.next + 1
      /\ pass'.seen = pass.seen
      /\ pass'.work = pass.work
      /\ pass'.tree = pass.tree
  BY <1>1, <1>2 DEF Pass
<1>4. PassKeeps'
  BY <1>1, <1>3 DEF StoreInv, PassKeeps
<1>5. ASSUME NEW m \in 1..(pass'.next - 1), Withdraws(pass'.tree[Files[m]])
      PROVE  m \in 1..(pass.next - 1)
  BY <1>1, <1>2, <1>3, <1>5 DEF Withdraws
<1>6. PassWithdraws'
  BY <1>1, <1>3, <1>5 DEF StoreInv, PassWithdraws
<1>7. Kept(mem, mem')
  BY <1>1, KeptSame
<1> QED
  BY <1>4, <1>6, <1>7 DEF StepKeeps

LEMMA BeginPassKeeps ==
    ASSUME StoreInv, NEW tree \in Trees, BeginPass(tree)
    PROVE  StepKeeps
<1>1. /\ pass' = [tree |-> tree, next |-> 1, seen |-> {}, work |-> mem]
      /\ UNCHANGED mem /\ mem \in Seq(Row)
  BY DEF BeginPass, StoreInv, IInv, TypeOK
<1>2. Kept(mem, mem)
  BY <1>1 DEF Kept
<1>3. pass'.work = mem /\ pass'.next = 1 /\ pass'.seen = {}
  BY <1>1
<1> QED
  BY <1>1, <1>2, <1>3 DEF PassKeeps, PassWithdraws, StepKeeps

LEMMA FinishPassKeeps ==
    ASSUME StoreInv, FinishPass
    PROVE  StepKeeps
<1> DEFINE u == ArchiveMissing(pass.work, pass.seen, clock)
           olds == {i \in Gone(pass.work, pass.seen) : Open(pass.work[i])}
<1>1. IInv /\ ~Idle /\ pass # NULL /\ Attempt("ingest", u) /\ pass' = NULL
      /\ mem \in Seq(Row)
  BY DEF FinishPass, StoreInv, Idle, IInv, TypeOK
<1>2. pass.work \in Seq(Row) /\ Kept(mem, pass.work)
  BY <1>1, RunningPass DEF StoreInv, PassKeeps
<1>3. u = Thinned(pass.work, olds, clock)
  BY DEF ArchiveMissing, Thinned
<1> HIDE DEF u, olds
<1>4. Kept(pass.work, u) /\ Len(u) = Len(pass.work)
  BY <1>2, <1>3, ThinnedKeeps
<1>5. Kept(mem, u)
  BY <1>1, <1>2, <1>4 DEF Kept
<1>6. Kept(mem, mem')
  BY <1>1, <1>5, KeptAttempt
<1> QED
  BY <1>1, <1>6 DEF PassKeeps, PassWithdraws, StepKeeps

\* A transaction of one statement runs beside no pass.
LEMMA NoPass ==
    ASSUME Begin, UNCHANGED pass, Kept(mem, mem')
    PROVE  StepKeeps
BY DEF StepKeeps, Begin, Idle, PassKeeps, PassWithdraws

LEMMA NextKeeps ==
    ASSUME StoreInv, [Next]_vars
    PROVE  StoreInv' /\ Kept(mem, mem')
<1>1. IInv /\ mem \in Seq(Row)
  BY DEF StoreInv, IInv, TypeOK
<1>2. IInv'
  BY <1>1, NextInv
<1>3. ASSUME NEW source \in ApiSource, NEW content \in Content,
             NEW key \in Key \cup {NULL}, WriteMemory(source, content, key)
      PROVE  StepKeeps
  BY <1>1, <1>3, WriteMemoryKeeps, NoPass DEF WriteMemory
<1>4. ASSUME NEW tree \in Trees, BeginPass(tree)
      PROVE  StepKeeps
  BY <1>4, BeginPassKeeps
<1>5. ASSUME NEW i \in Rows, NEW tier \in Tier, Promote(i, tier)
      PROVE  StepKeeps
  BY <1>1, <1>5, PromoteKeeps, NoPass DEF Promote
<1>6. ASSUME NEW i \in Rows, Reject(i)
      PROVE  StepKeeps
  BY <1>1, <1>6, RejectKeeps, NoPass DEF Reject
<1>7. ASSUME NEW i \in Rows, Undo(i)
      PROVE  StepKeeps
  BY <1>1, <1>7, UndoKeeps, NoPass DEF Undo
<1>8. ASSUME NEW refs \in SUBSET Rows, ConsoleArchive(refs)
      PROVE  StepKeeps
  BY <1>1, <1>8, ConsoleArchiveKeeps, NoPass DEF ConsoleArchive
<1>9. ASSUME NEW stale \in SUBSET Rows, Decay(stale)
      PROVE  StepKeeps
  BY <1>1, <1>9, DecayKeeps, NoPass DEF Decay
<1>10. ASSUME AbortPass PROVE StepKeeps
  BY <1>1, <1>10, KeptSame DEF AbortPass, PassKeeps, PassWithdraws, StepKeeps
<1>11. ASSUME UNCHANGED vars PROVE StepKeeps
  BY <1>1, <1>11, KeptSame DEF vars, StoreInv, PassKeeps, PassWithdraws, StepKeeps
<1>12. StepKeeps
  BY <1>3, <1>4, <1>5, <1>6, <1>7, <1>8, <1>9, <1>10, <1>11,
     SkipFileKeeps, IngestFileKeeps, FinishPassKeeps DEF Next
<1> QED
  BY <1>2, <1>12 DEF StoreInv, StepKeeps

LEMMA StoreInvariance == Spec => []StoreInv
<1>1. Init => StoreInv
  BY InitInv DEF Init, StoreInv, PassKeeps, PassWithdraws
<1>2. StoreInv /\ [Next]_vars => StoreInv'
  BY NextKeeps
<1> QED
  BY <1>1, <1>2, PTL DEF Spec

\* What a pass that commits leaves served is in the tree and not withdrawn by it.
THEOREM WithdrawnTextsAreNotServed == Spec => WithdrawnIsNotServed
<1> DEFINE A == PassCommits =>
        \A i \in 1..Len(mem') :
            mem'[i].status = "active" =>
                /\ mem'[i].source = "git" /\ mem'[i].key \in FileKeys
                        => pass.tree[mem'[i].key] # NULL
                /\ \A key \in FileKeys :
                        LET file == pass.tree[key]
                        IN  file # NULL =>
                              \/ ~file.retired
                              \/ file.content \in Refused
                              \/ mem'[i].content # file.content
<1>1. StoreInv /\ [Next]_vars => [A]_vars
  <2> SUFFICES ASSUME StoreInv, [Next]_vars, PassCommits,
                      NEW i \in 1..Len(mem'), mem'[i].status = "active"
               PROVE  /\ mem'[i].source = "git" /\ mem'[i].key \in FileKeys
                              => pass.tree[mem'[i].key] # NULL
                      /\ \A key \in FileKeys :
                            Withdraws(pass.tree[key]) =>
                                mem'[i].content # pass.tree[key].content
    BY DEF Withdraws
  <2> DEFINE t == pass.work
             u == ArchiveMissing(t, pass.seen, clock)
             olds == {k \in Gone(t, pass.seen) : Open(t[k])}
  <2>1. FinishPass
    <3>1. pass # NULL /\ pass' = NULL /\ call' = Committed
      BY DEF PassCommits
    <3>2. ~Begin /\ pass' # pass
      BY <3>1 DEF Begin, Idle
    <3>3. /\ Committed # RolledBack
          /\ Committed # RefusedBy("ingest")
      BY DEF Committed, RolledBack, RefusedBy
    <3>5. ~AbortPass
      BY <3>1, <3>3 DEF AbortPass
    <3>6. ~SkipFile
      <4>1. pass \in Pass
        BY <3>1, RunningPass DEF Idle, StoreInv
      <4>2. SkipFile => pass' \in Pass
        BY <4>1 DEF SkipFile, Pass
      <4> QED
        BY <3>1, <4>2, PassAssumption
    <3>7. ~IngestFile
      <4>1. IngestFile => FileWritten(Files[pass.next], pass.tree[Files[pass.next]])
        BY IngestFileStep DEF StoreInv
      <4> QED
        BY <3>1, <3>3, <4>1, PassAssumption DEF FileWritten
    <3>8. ~UNCHANGED vars
      BY <3>2 DEF vars
    <3> QED
      BY <3>2, <3>5, <3>6, <3>7, <3>8
      DEF Next, WriteMemory, BeginPass, Promote, Reject, Undo, ConsoleArchive, Decay
  <2>2. IInv /\ ~Idle /\ pass # NULL /\ Attempt("ingest", u) /\ call' = Committed
        /\ pass.next > Len(Files)
    BY <2>1 DEF FinishPass, StoreInv, Idle, PassCommits
  <2>3. mem' = u
    BY <2>2 DEF Attempt, Committed, RefusedBy
  <2>4. t \in Seq(Row) /\ TableInv(t, clock) /\ pass.next \in Nat
    BY <2>2, RunningPass
  <2>5. u = Thinned(t, olds, clock)
    BY DEF ArchiveMissing, Thinned
  <2>6. Len(u) = Len(t)
    BY <2>4, <2>5, ThinnedKeeps
  <2>7. i \in 1..Len(t) /\ t[i] \in Row /\ RowInv(t[i], clock)
    BY <2>3, <2>4, <2>6 DEF TableInv
  <2>8. u[i] = t[i] /\ i \notin Gone(t, pass.seen)
    <3>1. u[i] = IF i \in olds
                 THEN [t[i] EXCEPT !.status = "archived", !.upper = clock]
                 ELSE t[i]
      BY <2>5, <2>7 DEF Thinned
    <3>2. i \notin olds
      <4>1. [t[i] EXCEPT !.status = "archived", !.upper = clock].status # "active"
        BY <2>7 DEF Row
      <4> HIDE DEF olds, t
      <4> QED
        BY <2>3, <3>1, <4>1
    <3>3. Open(t[i])
      BY <2>3, <2>7, <3>1, <3>2 DEF RowInv
    <3> QED
      BY <3>1, <3>2, <3>3
  <2>9. ASSUME mem'[i].source = "git", mem'[i].key \in FileKeys
        PROVE  pass.tree[mem'[i].key] # NULL
    <3>1. t[i].key \in pass.seen
      BY <2>3, <2>7, <2>8, <2>9 DEF Gone
    <3> QED
      BY <2>2, <2>3, <2>8, <3>1 DEF StoreInv, PassWithdraws
  <2>10. ASSUME NEW key \in FileKeys, Withdraws(pass.tree[key])
         PROVE  mem'[i].content # pass.tree[key].content
    <3>1. PICK m \in 1..Len(Files) : key = Files[m]
      BY DEF FileKeys
    <3>2. m \in 1..(pass.next - 1)
      BY <2>2, <2>4, StoreAssumption
    <3>3. t[i].content = pass.tree[Files[m]].content => t[i].status # "active"
      BY <2>2, <2>7, <2>10, <3>1, <3>2 DEF StoreInv, PassWithdraws
    <3> QED
      BY <2>3, <2>8, <3>1, <3>3
  <2> QED
    BY <2>9, <2>10
<1> QED
  BY <1>1, StoreInvariance, PTL DEF Spec, WithdrawnIsNotServed
-----------------------------------------------------------------------------
(***************************************************************************)
(* Consolidation beside the operations of the store.                       *)
(***************************************************************************)
\* Rows that hold the text of a summary are consolidation's.
OursAlone(t) ==
    \A i \in 1..Len(t) : t[i].content \in Summaries => t[i].source = SummarySource

\* A candidate the pass has not come to is still what it was when the pass began.
CandidateInv(i) ==
    /\ i \in Rows
    /\ fold.work[i] = mem[i]
    /\ mem[i].status = "active"
    /\ fold.kind = "compaction" => mem[i].source # "consolidation"

\* An edge leads to a row the pass will not touch again, of the trust its kind
\* of pass calls for.
EdgeInv(e) ==
    /\ e[1] \in 1..Len(fold.work)
    /\ e[2] \in Rows
    /\ fold.kind = "dedup" =>
            /\ e[1] \in Rows
            /\ e[1] \notin fold.left
            /\ fold.work[e[1]].status = "active"
            /\ Rank(fold.work[e[1]].tier) >= Rank(mem[e[2]].tier)
    /\ fold.kind = "compaction" =>
            /\ fold.work[e[1]].content \in Summaries
            /\ mem[e[2]].tier \notin QuarantineTiers

RunningFold ==
    /\ pass = NULL
    /\ TableInv(fold.work, clock)
    /\ Kept(mem, fold.work)
    /\ OursAlone(fold.work)
    /\ \A i \in Rows : mem[i].lower < clock
    /\ \A i \in fold.left : CandidateInv(i)
    /\ \A e \in fold.edges : EdgeInv(e)

FoldInv ==
    /\ StoreInv
    /\ FoldTypeOK
    /\ OursAlone(mem)
    /\ fold # NULL => RunningFold

\* A set of numbers that is not empty has a least one.
LEMMA LeastOf ==
    ASSUME NEW T, T \subseteq Nat, T # {}
    PROVE  \E x \in T : \A y \in T : x <= y
<1> DEFINE R == OpToRel(<, Nat)
<1>1. IsWellFoundedOn(R, Nat)
  BY NatLessThanWellFounded
<1> HIDE DEF R
<1>2. PICK x \in T : \A y \in T : ~(<<y, x>> \in R)
  BY <1>1, WFMin
<1>3. \A y \in T : ~(y < x)
  BY <1>2 DEF R, OpToRel
<1> QED
  BY <1>3

LEMMA RankOrder ==
    ASSUME NEW r \in Tier
    PROVE  /\ Rank(r) \in Nat
           /\ r \notin QuarantineTiers => Rank(r) >= 2
           /\ r \in {"untrusted", "observed"} => Rank(r) <= 2
BY DEF Tier, QuarantineTiers, Rank

\* Archiving open rows that began before now keeps a table sound.
LEMMA ThinnedInv ==
    ASSUME NEW t, NEW now \in Nat, TableInv(t, now), NEW olds,
           \A i \in olds : i \in 1..Len(t) => Open(t[i]) /\ t[i].lower < now
    PROVE  TableInv(Thinned(t, olds, now), now)
<1> DEFINE u == Thinned(t, olds, now)
<1>1. t \in Seq(Row) /\ Len(t) \in Nat
  BY DEF TableInv
<1>2. Len(u) = Len(t)
  BY <1>1, ThinnedKeeps
<1>3. ASSUME NEW i \in 1..Len(t)
      PROVE  /\ u[i] \in Row
             /\ RowInv(u[i], now)
             /\ u[i].key = t[i].key
             /\ u[i].content = t[i].content
             /\ u[i].lower = t[i].lower
             /\ u[i].replaces = t[i].replaces
             /\ u[i].upper = t[i].upper \/ Open(t[i])
  <2>1. t[i] \in Row /\ RowInv(t[i], now)
    BY <1>1 DEF TableInv
  <2>2. CASE i \in olds
    <3>1. u[i] = ArchivedAt(t[i], now)
      BY <2>2 DEF Thinned, ArchivedAt
    <3>2. Open(t[i]) /\ t[i].lower < now
      BY <2>2
    <3> HIDE DEF u
    <3> QED
      BY <2>1, <3>1, <3>2, ArchivedRow
  <2>3. CASE i \notin olds
    <3>1. u[i] = t[i]
      BY <2>3 DEF Thinned
    <3> HIDE DEF u
    <3> QED
      BY <2>1, <3>1
  <2> QED
    BY <2>2, <2>3
<1>4. u \in Seq(Row)
  <2>1. u \in [1..Len(t) -> Row]
    <3>1. u = [i \in 1..Len(t) |-> u[i]]
      BY DEF Thinned
    <3> HIDE DEF u
    <3> QED
      BY <1>3, <3>1
  <2> HIDE DEF u
  <2> QED
    BY <1>1, <2>1, FunctionIsSeq
<1> HIDE DEF u
<1>5. TableInv(u, now)
  BY <1>1, <1>2, <1>3, <1>4, PointwiseInv
<1> QED
  BY <1>5 DEF u

\* A running pass, unfolded.
LEMMA RunningFoldFacts ==
    ASSUME FoldInv, fold # NULL
    PROVE  /\ fold \in Fold
           /\ RunningFold
           /\ clock \in Nat /\ mem \in Seq(Row) /\ Len(mem) \in Nat
           /\ fold.work \in Seq(Row) /\ Len(fold.work) \in Nat
           /\ Len(mem) <= Len(fold.work)
           /\ \A i \in fold.left :
                /\ i \in Rows /\ i \in 1..Len(fold.work)
                /\ mem[i] \in Row
                /\ RowInv(mem[i], clock)
                /\ Open(mem[i]) /\ mem[i].lower < clock
                /\ mem[i].tier \in Tier /\ mem[i].tier \notin QuarantineTiers
<1>1. fold \in Fold /\ RunningFold /\ IInv /\ TypeOK
  BY DEF FoldInv, FoldTypeOK, StoreInv, IInv
<1>2. /\ clock \in Nat /\ mem \in Seq(Row) /\ Len(mem) \in Nat
      /\ fold.work \in Seq(Row) /\ Len(fold.work) \in Nat
  BY <1>1 DEF TypeOK, Fold
<1>3. Len(mem) <= Len(fold.work)
  BY <1>1 DEF RunningFold, Kept
<1>4. ASSUME NEW i \in fold.left
      PROVE  /\ i \in Rows /\ i \in 1..Len(fold.work)
             /\ mem[i] \in Row
             /\ RowInv(mem[i], clock)
             /\ Open(mem[i]) /\ mem[i].lower < clock
             /\ mem[i].tier \in Tier /\ mem[i].tier \notin QuarantineTiers
  <2>1. i \in Rows /\ mem[i].status = "active" /\ mem[i].lower < clock
    BY <1>1 DEF RunningFold, CandidateInv
  <2>2. mem[i] \in Row /\ RowInv(mem[i], clock)
    BY <1>1, <1>2, <2>1 DEF IInv, TableInv, Rows
  <2> QED
    BY <1>2, <1>3, <2>1, <2>2 DEF RowInv, Row, Rows
<1> QED
  BY <1>1, <1>2, <1>3, <1>4

\* The step leaves the invariant true and the pass running.
GroupFolded == FoldInv' /\ fold' \in Fold

\* One group folded: whatever the kind of pass, the table stays sound, so that
\* the database has nothing to object to.
LEMMA FoldGroupInv ==
    ASSUME FoldInv, fold # NULL,
           NEW t, TableInv(t, clock), OursAlone(t), Len(t) >= Len(fold.work),
           \A i \in 1..Len(fold.work) : t[i] = fold.work[i],
           NEW group \in SUBSET fold.left, NEW olds \in SUBSET group,
           NEW new \in 1..Len(t), new \notin olds,
           fold.kind = "dedup" =>
                /\ new \in group
                /\ \A i \in olds : Rank(mem[new].tier) >= Rank(mem[i].tier),
           fold.kind = "compaction" => t[new].content \in Summaries,
           FoldGroup(t, group, olds, new),
           UNCHANGED <<mem, clock, pass, folded>>
    PROVE  GroupFolded
<1> DEFINE next == Fold1(t, olds, clock)
           closed == {i \in olds : Open(t[i])}
<1>1. /\ fold \in Fold
      /\ RunningFold
      /\ clock \in Nat /\ mem \in Seq(Row) /\ Len(mem) \in Nat
      /\ fold.work \in Seq(Row) /\ Len(fold.work) \in Nat
      /\ Len(mem) <= Len(fold.work)
      /\ \A i \in fold.left :
            /\ i \in Rows /\ i \in 1..Len(fold.work)
            /\ mem[i] \in Row
            /\ RowInv(mem[i], clock)
            /\ Open(mem[i]) /\ mem[i].lower < clock
            /\ mem[i].tier \in Tier /\ mem[i].tier \notin QuarantineTiers
  BY RunningFoldFacts
<1>2. t \in Seq(Row) /\ Len(t) \in Nat
  BY DEF TableInv
<1>3. ASSUME NEW i \in fold.left
      PROVE  t[i] = mem[i] /\ i \in 1..Len(t)
  BY <1>1, <1>2 DEF RunningFold, CandidateInv
<1>4. next = Thinned(t, closed, clock)
  BY DEF Fold1, Thinned
<1>5. TableInv(next, clock)
  BY <1>1, <1>3, <1>4, ThinnedInv
<1>6. Kept(t, next) /\ Len(next) = Len(t)
  BY <1>2, <1>4, ThinnedKeeps
<1>7. \A i \in 1..Len(t) : i \notin olds => next[i] = t[i]
  BY <1>4 DEF Thinned
<1>8. next \in Seq(Row)
  BY <1>5 DEF TableInv
<1> HIDE DEF next, closed
<1>9. /\ fold' = [fold EXCEPT !.left = @ \ group,
                              !.work = next,
                              !.edges = @ \cup {<<new, i>> : i \in olds}]
      /\ UNCHANGED call
  BY <1>5, SoundIsAdmissible DEF FoldGroup, next
<1>10. /\ fold'.kind = fold.kind
       /\ fold'.left = fold.left \ group
       /\ fold'.work = next
       /\ fold'.edges = fold.edges \cup {<<new, i>> : i \in olds}
  BY <1>1, <1>9 DEF Fold
<1>11. fold' \in Fold
  <2>1. fold' = [kind |-> fold.kind, left |-> fold.left \ group, work |-> next,
                 edges |-> fold.edges \cup {<<new, i>> : i \in olds}]
    BY <1>1, <1>9 DEF Fold
  <2>2. fold.kind \in Kind /\ fold.left \ group \subseteq Nat
    BY <1>1 DEF Fold
  <2>3. fold.edges \cup {<<new, i>> : i \in olds} \subseteq Nat \X Nat
    BY <1>1, <1>2 DEF Fold
  <2> QED
    BY <1>8, <2>1, <2>2, <2>3 DEF Fold
<1>12. StoreInv' /\ FoldTypeOK' /\ OursAlone(mem)'
  BY <1>9, <1>11 DEF FoldInv, StoreInv, IInv, TypeOK, TableInv, PassInv, NeverRefused,
                     PassKeeps, PassWithdraws, FoldTypeOK, OursAlone, Rows
<1>13. Kept(mem, next)
  BY <1>1, <1>2, <1>6 DEF RunningFold, Kept
<1>14. OursAlone(next)
  BY <1>2, <1>6 DEF OursAlone, Kept
<1>15. ASSUME NEW i \in fold'.left PROVE CandidateInv(i)'
  <2>1. i \in fold.left /\ i \notin group
    BY <1>10
  <2>2. next[i] = t[i]
    BY <1>3, <1>7, <2>1
  <2> QED
    BY <1>1, <1>3, <1>10, <2>1, <2>2 DEF RunningFold, CandidateInv, Rows
<1>16. ASSUME NEW e \in fold'.edges PROVE EdgeInv(e)'
  <2>1. CASE e \in fold.edges
    <3>1. EdgeInv(e)
      BY <1>1, <2>1 DEF RunningFold
    <3>2. e[1] \in 1..Len(t) /\ t[e[1]] = fold.work[e[1]] /\ e[1] \in 1..Len(next)
      BY <1>1, <1>2, <1>6, <3>1 DEF EdgeInv
    <3>3. CASE fold.kind = "dedup"
      <4>1. e[1] \notin olds
        BY <3>1, <3>3 DEF EdgeInv
      <4>2. next[e[1]] = fold.work[e[1]]
        BY <1>7, <3>2, <4>1
      <4> QED
        BY <1>10, <3>1, <3>2, <3>3, <4>2 DEF EdgeInv, Rows
    <3>4. CASE fold.kind = "compaction"
      <4>1. next[e[1]].content = fold.work[e[1]].content
        BY <1>6, <3>2 DEF Kept
      <4> QED
        BY <1>10, <3>1, <3>2, <3>4, <4>1 DEF EdgeInv, Rows
    <3> QED
      BY <1>1, <3>3, <3>4 DEF Fold, Kind
  <2>2. CASE e \notin fold.edges
    <3>1. PICK i \in olds : e = <<new, i>>
      BY <1>10, <2>2
    <3>2. e[1] = new /\ e[2] = i /\ i \in fold.left /\ new \in 1..Len(next)
      BY <1>6, <3>1
    <3>3. next[new] = t[new]
      BY <1>7
    <3>4. CASE fold.kind = "dedup"
      <4>1. new \in fold.left /\ t[new] = mem[new]
        BY <1>3, <3>4
      <4>2. mem[new].status = "active" /\ new \in Rows
        BY <1>1, <4>1 DEF RunningFold, CandidateInv
      <4> QED
        BY <1>1, <1>10, <3>1, <3>2, <3>3, <3>4, <4>1, <4>2 DEF EdgeInv, Rows
    <3>5. CASE fold.kind = "compaction"
      BY <1>1, <1>10, <3>2, <3>3, <3>5 DEF EdgeInv, Rows
    <3> QED
      BY <1>1, <3>4, <3>5 DEF Fold, Kind
  <2> QED
    BY <2>1, <2>2
<1>17. RunningFold'
  BY <1>1, <1>5, <1>10, <1>13, <1>14, <1>15, <1>16 DEF RunningFold, Rows
<1> QED
  BY <1>11, <1>12, <1>17 DEF FoldInv, GroupFolded

LEMMA DedupInv ==
    ASSUME FoldInv, NEW near \in SUBSET Rows, Dedup(near)
    PROVE  GroupFolded
<1> DEFINE group == {Anchor} \cup near
<1>1. /\ fold # NULL /\ fold.kind = "dedup" /\ fold.left # {}
      /\ near \subseteq fold.left
      /\ UNCHANGED <<mem, clock, pass, folded>>
  BY DEF Dedup
<1>2. PICK survivor \in Survivors(group) :
        FoldGroup(fold.work, group, group \ {survivor}, survivor)
  BY DEF Dedup
<1>3. /\ RunningFold /\ Len(fold.work) \in Nat /\ clock \in Nat
      /\ \A i \in fold.left : i \in 1..Len(fold.work)
  BY <1>1, RunningFoldFacts
<1>4. fold.left \subseteq Nat
  BY <1>1, RunningFoldFacts DEF Fold
<1>5. group \subseteq fold.left
  <2>1. Anchor \in fold.left
    BY <1>1, <1>4, LeastOf DEF Anchor
  <2> QED
    BY <1>1, <2>1
<1> HIDE DEF group
<1>6. /\ survivor \in group
      /\ \A j \in group : Rank(fold.work[survivor].tier) >= Rank(fold.work[j].tier)
  BY <1>2 DEF Survivors
<1>7. \A j \in group : fold.work[j] = mem[j]
  BY <1>3, <1>5 DEF RunningFold, CandidateInv
<1>8. \A i \in group \ {survivor} : Rank(mem[survivor].tier) >= Rank(mem[i].tier)
  BY <1>6, <1>7
<1>9. survivor \in 1..Len(fold.work) /\ survivor \notin group \ {survivor}
  BY <1>3, <1>5, <1>6
<1>10. /\ TableInv(fold.work, clock) /\ OursAlone(fold.work)
       /\ Len(fold.work) >= Len(fold.work)
  BY <1>3 DEF RunningFold
<1> DEFINE t == fold.work
           olds == group \ {survivor}
<1>11. /\ FoldGroup(t, group, olds, survivor) /\ olds \in SUBSET group
       /\ group \in SUBSET fold.left
       /\ \A i \in olds : Rank(mem[survivor].tier) >= Rank(mem[i].tier)
       /\ survivor \in 1..Len(t) /\ survivor \notin olds
       /\ TableInv(t, clock) /\ OursAlone(t) /\ Len(t) >= Len(fold.work)
       /\ \A i \in 1..Len(fold.work) : t[i] = fold.work[i]
  BY <1>2, <1>5, <1>8, <1>9, <1>10
<1>12. fold.kind # "compaction"
  BY <1>1
<1> HIDE DEF t, olds
<1> QED
  BY <1>1, <1>6, <1>11, <1>12, FoldGroupInv

\* The table w is sound, and is t with at most a row of consolidation's added.
Extended(t, w, now) ==
    /\ TableInv(w, now)
    /\ OursAlone(w)
    /\ Len(w) >= Len(t)
    /\ \A i \in 1..Len(t) : w[i] = t[i]

\* The summary of a group leaves every row of the table as it is.
LEMMA SummaryWritten ==
    ASSUME NEW t, NEW now \in Nat, TableInv(t, now), OursAlone(t),
           NEW summary \in Content, NEW w,
           "consolidation" \in Source,
           w \in Written(t, SummarySource, summary, NULL, FALSE, TRUE, now)
    PROVE  Extended(t, w, now)
<1> DEFINE source == SummarySource
           retired == FALSE
           episodic == TRUE
           key == NULL
<1>1. t \in Seq(Row) /\ Len(t) \in Nat
  BY DEF TableInv
<1>2. /\ source \in Source /\ retired \in BOOLEAN /\ episodic \in BOOLEAN
      /\ key \in Key \cup {NULL}
  BY DEF SummarySource
<1>3. \A i \in 1..Len(t) : t[i].key = key => t[i].lower < now
  <2>1. ASSUME NEW i \in 1..Len(t) PROVE t[i].key # NULL
    <3>1. t[i] \in Row
      BY <1>1
    <3>2. t[i].key \in Key \cup (Source \X Content)
      BY <3>1 DEF Row, RowKey
    <3> QED
      BY <3>2, NullAssumption
  <2> QED
    BY <2>1
<1>4. w \in Written(t, source, summary, key, retired, episodic, now)
  OBVIOUS
<1>5. CASE Holding(t, summary) # {}
  <2>1. w = t
    BY <1>5 DEF Written, Refound
  <2> QED
    BY <1>1, <2>1 DEF Extended
<1>6. CASE Holding(t, summary) = {}
  <2>1. w = Append(t, NewRow(t, source, summary, key, retired, episodic, now))
    BY <1>6 DEF Written, Inserted, ClosePrior
  <2> HIDE DEF source, retired, episodic, key
  <2>2. NewRow(t, source, summary, key, retired, episodic, now) \in Row
    BY <1>2, NewRowInv
  <2>3. Len(w) = Len(t) + 1 /\ \A i \in 1..Len(t) : w[i] = t[i]
    BY <1>1, <2>1, <2>2, AppendProperties
  <2>4. TableInv(w, now)
    BY <1>2, <1>3, <1>4, WrittenInv
  <2>5. Rewritten(t, w, source, summary, retired)
    BY <1>2, <1>4, WrittenKeeps
  <2>6. OursAlone(w)
    <3> SUFFICES ASSUME NEW i \in 1..Len(w), w[i].content \in Summaries
                 PROVE  w[i].source = SummarySource
      BY DEF OursAlone
    <3>1. CASE i \in 1..Len(t)
      BY <2>3, <3>1 DEF OursAlone
    <3>2. CASE i \notin 1..Len(t)
      BY <1>1, <2>3, <2>5, <3>2 DEF Rewritten, source
    <3> QED
      BY <3>1, <3>2
  <2> QED
    BY <1>1, <2>3, <2>4, <2>6 DEF Extended
<1> QED
  BY <1>5, <1>6

LEMMA CompactInv ==
    ASSUME ConsolidationAssumption, FoldInv, NEW near \in SUBSET Rows, Compact(near)
    PROVE  GroupFolded
<1> DEFINE group == {Anchor} \cup near
           texts == {fold.work[i].content : i \in group}
           summary == SummaryOf[texts]
<1>1. /\ fold # NULL /\ fold.kind = "compaction" /\ fold.left # {}
      /\ near \subseteq fold.left
      /\ UNCHANGED <<mem, clock, pass, folded>>
  BY DEF Compact
<1>2. PICK t \in Written(fold.work, SummarySource, summary, NULL, FALSE, TRUE, clock) :
            \E new \in Holding(t, summary) : FoldGroup(t, group, group, new)
  BY DEF Compact
<1>3. /\ RunningFold /\ clock \in Nat
      /\ fold.work \in Seq(Row) /\ Len(fold.work) \in Nat
      /\ \A i \in fold.left : i \in 1..Len(fold.work)
  BY <1>1, RunningFoldFacts
<1>4. fold.left \subseteq Nat
  BY <1>1, RunningFoldFacts DEF Fold
<1>5. group \subseteq fold.left
  <2>1. Anchor \in fold.left
    BY <1>1, <1>4, LeastOf DEF Anchor
  <2> QED
    BY <1>1, <2>1
<1> HIDE DEF group
<1>6. texts \in SUBSET Content
  <2>1. ASSUME NEW i \in group PROVE fold.work[i].content \in Content
    <3>1. fold.work[i] \in Row
      BY <1>3, <1>5
    <3> QED
      BY <3>1 DEF Row
  <2> QED
    BY <2>1
<1>7. summary \in Content /\ summary \in Summaries
  BY <1>6 DEF ConsolidationAssumption, Summaries
<1> HIDE DEF texts, summary
<1>8. PICK new \in Holding(t, summary) : FoldGroup(t, group, group, new)
  BY <1>2
<1>9. TableInv(fold.work, clock) /\ OursAlone(fold.work)
  BY <1>3 DEF RunningFold
<1>10. /\ TableInv(t, clock)
       /\ OursAlone(t)
       /\ Len(t) >= Len(fold.work)
       /\ \A i \in 1..Len(fold.work) : t[i] = fold.work[i]
  <2>1. "consolidation" \in Source
    BY DEF ConsolidationAssumption
  <2>2. Extended(fold.work, t, clock)
    BY <1>2, <1>3, <1>7, <1>9, <2>1, SummaryWritten
  <2> QED
    BY <2>2 DEF Extended
<1>11. new \in 1..Len(t) /\ t[new].content = summary
  BY <1>8 DEF Holding
<1>12. new \notin group
  <2>1. t[new].source = "consolidation"
    BY <1>7, <1>10, <1>11 DEF OursAlone, SummarySource
  <2>2. ASSUME new \in group PROVE FALSE
    <3>1. fold.work[new] = mem[new] /\ mem[new].source # "consolidation"
      BY <1>1, <1>3, <1>5, <2>2 DEF RunningFold, CandidateInv
    <3>2. t[new] = fold.work[new]
      BY <1>3, <1>5, <1>10, <2>2
    <3> QED
      BY <2>1, <3>1, <3>2
  <2> QED
    BY <2>2
<1>13. fold.kind # "dedup"
  BY <1>1
<1> QED
  BY <1>1, <1>5, <1>7, <1>8, <1>10, <1>11, <1>12, <1>13, FoldGroupInv

LEMMA BeginFoldInv ==
    ASSUME ConsolidationAssumption, FoldInv,
           NEW kind \in Kind, NEW candidates \in SUBSET Rows, BeginFold(kind, candidates)
    PROVE  FoldInv'
<1>1. /\ Begin
      /\ candidates \subseteq Eligible(mem, kind)
      /\ fold' = [kind |-> kind, left |-> candidates, work |-> mem, edges |-> {}]
      /\ UNCHANGED <<mem, pass, call, folded>>
  BY DEF BeginFold
<1>2. /\ IInv /\ FoldTypeOK /\ OursAlone(mem) /\ pass = NULL
  BY <1>1 DEF FoldInv, StoreInv, Begin, Idle
<1>3. /\ clock' \in Nat
      /\ mem \in Seq(Row) /\ Len(mem) \in Nat
      /\ TableInv(mem, clock')
      /\ \A i \in 1..Len(mem) : mem[i].lower < clock'
  BY <1>1, <1>2, BeginInv
<1>4. /\ fold'.kind = kind /\ fold'.left = candidates
      /\ fold'.work = mem /\ fold'.edges = {}
  BY <1>1
<1>5. fold' \in Fold
  BY <1>1, <1>3 DEF Fold, Rows
<1>6. StoreInv' /\ FoldTypeOK' /\ OursAlone(mem)'
  BY <1>1, <1>2, <1>3, <1>5
  DEF StoreInv, IInv, TypeOK, PassInv, NeverRefused, PassKeeps, PassWithdraws,
      FoldTypeOK, Rows, OursAlone
<1>7. Kept(mem, mem)
  BY <1>3 DEF Kept
<1>8. ASSUME NEW i \in candidates PROVE CandidateInv(i)'
  BY <1>1, <1>3, <1>4, <1>8 DEF CandidateInv, Eligible, Rows
<1>9. RunningFold'
  BY <1>1, <1>2, <1>3, <1>4, <1>7, <1>8 DEF RunningFold, Rows
<1> QED
  BY <1>6, <1>9 DEF FoldInv

LEMMA SkipAnchorInv ==
    ASSUME FoldInv, SkipAnchor
    PROVE  FoldInv'
<1>1. /\ fold # NULL
      /\ fold' = [fold EXCEPT !.left = @ \ {Anchor}]
      /\ UNCHANGED <<mem, clock, pass, call, folded>>
  BY DEF SkipAnchor
<1>2. fold \in Fold /\ RunningFold
  BY <1>1, RunningFoldFacts
<1>3. /\ fold'.kind = fold.kind /\ fold'.left = fold.left \ {Anchor}
      /\ fold'.work = fold.work /\ fold'.edges = fold.edges
  BY <1>1, <1>2 DEF Fold
<1>4. fold' \in Fold
  BY <1>1, <1>2 DEF Fold
<1>5. StoreInv' /\ FoldTypeOK' /\ OursAlone(mem)'
  BY <1>1, <1>4
  DEF FoldInv, StoreInv, IInv, TypeOK, PassInv, NeverRefused, PassKeeps, PassWithdraws,
      FoldTypeOK, Rows, OursAlone
<1>6. ASSUME NEW i \in fold'.left PROVE CandidateInv(i)'
  BY <1>1, <1>2, <1>3 DEF RunningFold, CandidateInv, Rows
<1>7. ASSUME NEW e \in fold'.edges PROVE EdgeInv(e)'
  BY <1>1, <1>2, <1>3 DEF RunningFold, EdgeInv, Rows
<1>8. RunningFold'
  BY <1>1, <1>2, <1>3, <1>6, <1>7 DEF RunningFold, Rows
<1> QED
  BY <1>5, <1>8 DEF FoldInv

LEMMA FinishFoldInv ==
    ASSUME FoldInv, FinishFold
    PROVE  FoldInv'
<1>1. /\ fold # NULL
      /\ mem' = fold.work
      /\ folded' = folded \cup fold.edges
      /\ fold' = NULL /\ call' = Committed
      /\ UNCHANGED <<clock, pass>>
  BY DEF FinishFold
<1>2. /\ RunningFold /\ clock \in Nat /\ Len(mem) \in Nat
      /\ fold.work \in Seq(Row) /\ Len(fold.work) \in Nat
      /\ Len(mem) <= Len(fold.work) /\ fold \in Fold
  BY <1>1, RunningFoldFacts
<1>3. StoreInv'
  BY <1>1, <1>2 DEF RunningFold, StoreInv, IInv, TypeOK, PassInv, NeverRefused,
                    PassKeeps, PassWithdraws, Committed
<1>4. OursAlone(mem)'
  BY <1>1, <1>2 DEF RunningFold, OursAlone
<1>5. folded' \subseteq Rows' \X Rows'
  <2>1. folded \subseteq Rows' \X Rows'
    BY <1>1, <1>2 DEF FoldInv, FoldTypeOK, Rows
  <2>2. ASSUME NEW e \in fold.edges PROVE e \in Rows' \X Rows'
    <3>1. EdgeInv(e) /\ e \in Nat \X Nat
      BY <1>2 DEF RunningFold, Fold
    <3> QED
      BY <1>1, <1>2, <3>1 DEF EdgeInv, Rows
  <2> QED
    BY <1>1, <2>1, <2>2
<1>6. FoldTypeOK'
  BY <1>1, <1>3, <1>5 DEF FoldTypeOK, StoreInv, IInv
<1> QED
  BY <1>1, <1>3, <1>4, <1>6 DEF FoldInv

LEMMA StoreStepInv ==
    ASSUME FoldInv, fold = NULL, [Next]_vars, NoCallerWritesASummary,
           UNCHANGED <<fold, folded>>
    PROVE  FoldInv'
<1>1. StoreInv /\ mem \in Seq(Row) /\ Len(mem) \in Nat
  BY DEF FoldInv, StoreInv, IInv, TypeOK
<1>2. StoreInv' /\ Kept(mem, mem')
  BY <1>1, NextKeeps
<1>3. mem' \in Seq(Row) /\ Len(mem') \in Nat
  BY <1>2 DEF StoreInv, IInv, TypeOK
<1>4. OursAlone(mem')
  <2> SUFFICES ASSUME NEW i \in 1..Len(mem'), mem'[i].content \in Summaries
               PROVE  mem'[i].source = SummarySource
    BY DEF OursAlone
  <2>1. i \in 1..Len(mem)
    BY <1>1, <1>3 DEF NoCallerWritesASummary
  <2> QED
    BY <1>2, <2>1 DEF FoldInv, Kept, OursAlone
<1>5. FoldTypeOK'
  BY <1>1, <1>2, <1>3 DEF FoldInv, FoldTypeOK, StoreInv, IInv, Kept, Rows
<1> QED
  BY <1>2, <1>4, <1>5 DEF FoldInv

LEMMA FoldNextInv ==
    ASSUME ConsolidationAssumption, FoldInv, [FoldNext]_foldVars
    PROVE  FoldInv'
<1>1. CASE fold = NULL /\ Next /\ NoCallerWritesASummary /\ UNCHANGED <<fold, folded>>
  BY <1>1, StoreStepInv
<1>2. ASSUME NEW kind \in Kind, NEW candidates \in SUBSET Rows, BeginFold(kind, candidates)
      PROVE  FoldInv'
  BY <1>2, BeginFoldInv
<1>3. ASSUME NEW near \in SUBSET Rows, Dedup(near) PROVE FoldInv'
  BY <1>3, DedupInv DEF GroupFolded
<1>4. ASSUME NEW near \in SUBSET Rows, Compact(near) PROVE FoldInv'
  BY <1>4, CompactInv DEF GroupFolded
<1>5. CASE AbortFold
  BY <1>5 DEF AbortFold, FoldInv, StoreInv, IInv, TypeOK, PassInv, NeverRefused, PassKeeps,
              PassWithdraws, FoldTypeOK, Rows, OursAlone, RolledBack
<1>6. CASE UNCHANGED foldVars
  <2>1. UNCHANGED <<mem, clock, pass, call, fold, folded>>
    BY <1>6 DEF foldVars, vars
  <2>2. StoreInv' /\ FoldTypeOK' /\ OursAlone(mem)'
    BY <2>1
    DEF FoldInv, StoreInv, IInv, TypeOK, PassInv, NeverRefused, PassKeeps, PassWithdraws,
        FoldTypeOK, Rows, OursAlone
  <2>3. fold # NULL => RunningFold'
    BY <2>1 DEF FoldInv, RunningFold, CandidateInv, EdgeInv, Rows
  <2> QED
    BY <2>1, <2>2, <2>3 DEF FoldInv
<1> QED
  BY <1>1, <1>2, <1>3, <1>4, <1>5, <1>6, SkipAnchorInv, FinishFoldInv DEF FoldNext

\* Everything proved of the store holds with consolidation running beside it, which
\* never trips over a constraint itself.
THEOREM FoldInvariance ==
    ASSUME ConsolidationAssumption
    PROVE  FoldSpec => []FoldInv
<1>1. FoldInit => FoldInv
  <2> SUFFICES ASSUME FoldInit PROVE FoldInv
    OBVIOUS
  <2>1. Init /\ fold = NULL /\ folded = {} /\ mem = <<>> /\ Len(mem) = 0
    BY DEF FoldInit, Init
  <2>2. StoreInv
    BY <2>1, InitInv DEF Init, StoreInv, PassKeeps, PassWithdraws
  <2> QED
    BY <2>1, <2>2 DEF FoldInv, FoldTypeOK, StoreInv, IInv, OursAlone
<1>2. FoldInv /\ [FoldNext]_foldVars => FoldInv'
  BY FoldNextInv
<1> QED
  BY <1>1, <1>2, PTL DEF FoldSpec

\* Every reachable state of the store with consolidation has its types.
THEOREM FoldTypeCorrect ==
    ASSUME ConsolidationAssumption
    PROVE  FoldSpec => []FoldTypeOK
<1>1. FoldInv => FoldTypeOK
  BY DEF FoldInv
<1> QED
  BY <1>1, FoldInvariance, PTL

\* No fold moves trust the wrong way: dedup leaves a served row of at least the
\* trust of what it archives, and a summary that no reviewer has promoted is
\* trusted no more than what it summarises.
THEOREM TrustSurvivesFolds ==
    ASSUME ConsolidationAssumption
    PROVE  FoldSpec => FoldsKeepTrust
<1> DEFINE A ==
        /\ Commits("dedup") =>
            \A e \in fold.edges :
                /\ mem'[e[1]].status = "active"
                /\ Rank(mem'[e[1]].tier) >= Rank(mem[e[2]].tier)
        /\ Commits("compaction") =>
            \A e \in fold.edges :
                \/ mem'[e[1]].review # NULL
                \/ Rank(mem'[e[1]].tier) <= Rank(mem[e[2]].tier)
<1>1. ASSUME FoldInv, [FoldNext]_foldVars PROVE A
  <2>1. ASSUME NEW kind, Commits(kind) PROVE FinishFold /\ fold # NULL /\ fold.kind = kind
    <3>1. fold # NULL /\ fold' = NULL /\ call' = Committed /\ fold.kind = kind
      BY <2>1 DEF Commits
    <3>2. fold \in Fold
      BY <1>1, <3>1, RunningFoldFacts
    <3>3. ~SkipAnchor
      <4>1. SkipAnchor => fold' \in Fold
        BY <3>2 DEF SkipAnchor, Fold
      <4> QED
        BY <3>1, <4>1 DEF ConsolidationAssumption
    <3>4. ~AbortFold
      BY <3>1 DEF AbortFold, Committed, RolledBack
    <3>5. ~UNCHANGED foldVars
      BY <3>1 DEF foldVars
    <3>6. ASSUME NEW near \in SUBSET Rows, Dedup(near) \/ Compact(near) PROVE FALSE
      <4>1. GroupFolded
        BY <1>1, <3>6, DedupInv, CompactInv
      <4> QED
        BY <3>1, <4>1 DEF GroupFolded, ConsolidationAssumption
    <3> QED
      BY <1>1, <3>1, <3>3, <3>4, <3>5, <3>6 DEF FoldNext, BeginFold
  <2>2. ASSUME Commits("dedup"), NEW e \in fold.edges
        PROVE  /\ mem'[e[1]].status = "active"
               /\ Rank(mem'[e[1]].tier) >= Rank(mem[e[2]].tier)
    <3>1. fold # NULL /\ fold.kind = "dedup" /\ mem' = fold.work
      BY <2>1, <2>2 DEF FinishFold
    <3>2. EdgeInv(e)
      BY <1>1, <3>1, RunningFoldFacts DEF RunningFold
    <3> QED
      BY <3>1, <3>2 DEF EdgeInv
  <2>3. ASSUME Commits("compaction"), NEW e \in fold.edges, mem'[e[1]].review = NULL
        PROVE  Rank(mem'[e[1]].tier) <= Rank(mem[e[2]].tier)
    <3> DEFINE s0 == fold.work[e[1]]
    <3>1. fold # NULL /\ fold.kind = "compaction" /\ mem' = fold.work
      BY <2>1, <2>3 DEF FinishFold
    <3>2. /\ EdgeInv(e) /\ TableInv(fold.work, clock) /\ OursAlone(fold.work)
          /\ mem \in Seq(Row)
      BY <1>1, <2>3, <3>1, RunningFoldFacts DEF RunningFold
    <3>3. /\ s0 \in Row /\ RowInv(s0, clock) /\ s0.content \in Summaries
          /\ mem[e[2]] \in Row /\ mem[e[2]].tier \notin QuarantineTiers
          /\ s0.source = "consolidation"
      BY <3>1, <3>2 DEF EdgeInv, TableInv, OursAlone, SummarySource, Rows
    <3>4. s0.tier = BirthTier(s0.content, "consolidation")
      BY <2>3, <3>1, <3>3 DEF RowInv
    <3>5. s0.tier \in {"untrusted", "observed"}
      BY <3>4 DEF BirthTier, TierOf, Capped
    <3>6. s0.tier \in Tier /\ mem[e[2]].tier \in Tier
      BY <3>3 DEF Row
    <3>7. /\ Rank(s0.tier) \in Nat /\ Rank(s0.tier) <= 2
          /\ Rank(mem[e[2]].tier) \in Nat /\ Rank(mem[e[2]].tier) >= 2
      BY <3>3, <3>5, <3>6, RankOrder
    <3> QED
      BY <3>1, <3>7
  <2> QED
    BY <2>2, <2>3
<1> QED
  BY <1>1, FoldInvariance, PTL DEF FoldSpec, FoldsKeepTrust

\* What is proved of the store alone also holds with consolidation beside it, and
\* no pass is ever refused by a constraint.
THEOREM StoreHoldsBesideFolds ==
    ASSUME ConsolidationAssumption
    PROVE  FoldSpec => [](/\ NeverRefused /\ StatusMatchesValidity /\ OneRowPerContent
                          /\ SupersessionIsContiguous)
<1>1. FoldInv => /\ NeverRefused /\ StatusMatchesValidity /\ OneRowPerContent
                 /\ SupersessionIsContiguous
  BY DEF FoldInv, StoreInv, IInv, TableInv, RowInv, ContentUnique, Contiguous,
         StatusMatchesValidity, OneRowPerContent, SupersessionIsContiguous, Rows
<1> QED
  BY <1>1, FoldInvariance, PTL
=============================================================================
