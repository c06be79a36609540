------------------------ MODULE ConcurrentWritersProofs ------------------------
(***************************************************************************)
(* The versions of a key form one chain for any number of overlapping      *)
(* writers, keys, texts and transactions.                                  *)
(*                                                                         *)
(* write_memory closes the row it found by id, and may close one that has  *)
(* been closed since.  The argument is why such a transaction cannot end   *)
(* well if the row has a successor: the successor begins where the row     *)
(* ended, so a new version that does not meet it begins after it has       *)
(* ended, and then the row, closed again, meets it.  So what a transaction *)
(* holds is carried as not meeting any committed row but the one it works  *)
(* on (Clear), nor what another transaction holds (Apart), which waiting   *)
(* keeps true while others commit.                                         *)
(***************************************************************************)
EXTENDS ConcurrentWriters, TLAPS

\* A range that holds an instant.
Lasts(row) == Open(row) \/ row.lower < row.upper

\* The row meets no row of the table but, perhaps, the one at `old`.
Clear(row, tb, old) == \A i \in 1..Len(tb) : i # old => ~Overlap(row, tb[i])

Chain(tb) ==
    \A i \in 1..Len(tb) :
        /\ Lasts(tb[i])
        /\ tb[i].replaces # NULL =>
            /\ tb[i].replaces \in 1..Len(tb)
            /\ tb[tb[i].replaces].key = tb[i].key
            /\ tb[tb[i].replaces].upper = tb[i].lower
        /\ \A j \in 1..Len(tb) : i # j =>
            /\ ~Overlap(tb[i], tb[j])
            /\ tb[i].replaces # NULL => tb[j].replaces # tb[i].replaces

\* What an open transaction has decided, and what it holds.
Consistent(t, tb) ==
    /\ t.stage \in {"look", "retire", "prior", "close", "insert"} => t.call \in WriteCall
    /\ t.stage \in {"missing", "archive"} => t.call \in SweepCall
    /\ t.old # NULL => t.old \in 1..Len(tb)
    /\ t.stage \in {"look", "prior", "missing"} => t.old = NULL
    /\ t.stage \in {"retire", "close", "archive"} => t.old # NULL
    /\ t.stage \in {"look", "prior", "missing", "retire", "close", "archive"} =>
        t.written = NULL
    /\ t.stage # "commit" => t.new = NULL
    /\ t.stage = "prior" => t.call.key # NULL
    /\ t.stage = "close" => tb[t.old].key = t.call.key /\ t.call.key # NULL
    /\ t.stage = "insert" /\ t.old # NULL =>
        /\ t.written # NULL /\ t.written.upper = t.start
        /\ t.written.key = t.call.key /\ t.call.key # NULL
    /\ t.written # NULL =>
        /\ t.old # NULL
        /\ t.written.key = tb[t.old].key
        /\ t.written.lower = tb[t.old].lower
        /\ t.written.replaces = tb[t.old].replaces
        /\ Lasts(t.written)
        /\ Clear(t.written, tb, t.old)
        /\ \/ t.written.upper = tb[t.old].upper
           \/ Open(tb[t.old])
           \/ t.stage = "insert" \/ t.new # NULL
    /\ t.new # NULL =>
        /\ Open(t.new) /\ t.new.replaces = t.old
        /\ Clear(t.new, tb, t.old)
        /\ t.old # NULL =>
            /\ t.written # NULL /\ t.written.key = t.new.key
            /\ t.written.upper = t.new.lower

Held(t) == {r \in {t.written, t.new} : r # NULL}

\* Two transactions hold different rows, which do not meet.
Apart(t, u) ==
    /\ t.written # NULL /\ u.written # NULL => t.old # u.old
    /\ \A r \in Held(t), s \in Held(u) : ~Overlap(r, s)

Inv ==
    /\ TypeOK
    /\ Chain(table)
    /\ \A p \in Process : tx[p] # NULL => Consistent(tx[p], table)
    /\ \A p, q \in Process : p # q /\ tx[p] # NULL /\ tx[q] # NULL => Apart(tx[p], tx[q])

\* NULL is none of the values it stands beside.
NullIsNothing == NULL \notin Nat \cup Row \cup Tx

\* The table a transaction leaves.
After(tb, t) ==
    LET kept == IF t.written = NULL THEN tb ELSE [tb EXCEPT ![t.old] = t.written]
    IN  IF t.new = NULL THEN kept ELSE Append(kept, t.new)
-----------------------------------------------------------------------------
(***************************************************************************)
(* The commit.                                                             *)
(***************************************************************************)
\* What is where afterwards.
LEMMA AfterRows ==
    ASSUME NullIsNothing, NEW tb \in Seq(Row), NEW t \in Tx, Consistent(t, tb)
    PROVE  LET m == IF t.new = NULL THEN Len(tb) ELSE Len(tb) + 1
           IN  /\ After(tb, t) \in Seq(Row)
               /\ Len(After(tb, t)) = m
               /\ \A i \in 1..Len(tb) :
                    After(tb, t)[i] = IF t.written # NULL /\ i = t.old THEN t.written ELSE tb[i]
               /\ t.new # NULL => After(tb, t)[Len(tb) + 1] = t.new
<1> DEFINE kept == IF t.written = NULL THEN tb ELSE [tb EXCEPT ![t.old] = t.written]
<1>1. t.written \in Row \cup {NULL} /\ t.new \in Row \cup {NULL}
  BY DEF Tx
<1>2. t.written # NULL => t.old \in 1..Len(tb)
  BY DEF Consistent
<1>3. /\ kept \in Seq(Row) /\ Len(kept) = Len(tb)
      /\ \A i \in 1..Len(tb) :
            kept[i] = IF t.written # NULL /\ i = t.old THEN t.written ELSE tb[i]
  <2>1. CASE t.written = NULL
    BY <2>1
  <2>2. CASE t.written # NULL
    BY <1>1, <1>2, <2>2
  <2> QED
    BY <2>1, <2>2
<1> HIDE DEF kept
<1>4. After(tb, t) = IF t.new = NULL THEN kept ELSE Append(kept, t.new)
  BY DEF After, kept
<1>5. CASE t.new = NULL
  BY <1>3, <1>4, <1>5
<1>6. CASE t.new # NULL
  BY <1>1, <1>3, <1>4, <1>6
<1> QED
  BY <1>5, <1>6

\* Whether two rows meet does not depend on the order they are asked in.
LEMMA OverlapSymmetric ==
    ASSUME NEW r, NEW s, Overlap(r, s)
    PROVE  Overlap(s, r)
BY DEF Overlap

\* A row closed again has no successor.
LEMMA NoSuccessor ==
    ASSUME NullIsNothing, NEW tb \in Seq(Row), NEW t \in Tx, Chain(tb), Consistent(t, tb),
           t.new # NULL, t.old # NULL,
           NEW i \in 1..Len(tb), tb[i].replaces = t.old
    PROVE  FALSE
<1> DEFINE row == tb[t.old]
           next == tb[i]
<1>1. t.old \in 1..Len(tb) /\ row \in Row /\ next \in Row /\ t.old \in Nat
  BY DEF Consistent
<1>2. /\ t.new \in Row /\ t.written \in Row
      /\ Open(t.new) /\ t.written.key = t.new.key /\ t.written.upper = t.new.lower
      /\ t.written.key = row.key /\ t.written.lower = row.lower
      /\ Lasts(t.written)
  BY DEF Consistent, Tx
<1>3. row.key = next.key /\ row.upper = next.lower /\ Lasts(row) /\ Lasts(next)
  BY <1>1 DEF Chain
<1>4. i # t.old
  <2>1. ~(next.upper = next.lower)
    BY <1>1, <1>3 DEF Lasts, Open, Row, NullIsNothing
  <2> QED
    BY <1>3, <2>1
<1>5. ~Overlap(t.new, next) /\ ~Overlap(t.written, next)
  BY <1>4 DEF Consistent, Clear
<1> HIDE DEF row, next
<1>6. /\ row.lower \in Nat /\ next.lower \in Nat /\ t.new.lower \in Nat
      /\ next.upper \in Nat \cup {NULL} /\ t.written.lower \in Nat
  BY <1>1, <1>2 DEF Row
<1>7. row.lower < next.lower
  BY <1>3, <1>6 DEF Lasts, Open, NullIsNothing
<1>8. next.upper # NULL /\ next.upper <= t.new.lower
  BY <1>2, <1>3, <1>5, <1>6 DEF Overlap, Open, NullIsNothing
<1>9. next.lower < next.upper
  BY <1>3, <1>8 DEF Lasts, Open
<1> QED
  BY <1>2, <1>3, <1>5, <1>6, <1>7, <1>8, <1>9 DEF Overlap, Open, NullIsNothing

\* A commit leaves a chain.
LEMMA CommitChain ==
    ASSUME NullIsNothing, NEW tb \in Seq(Row), NEW t \in Tx, Chain(tb), Consistent(t, tb),
           t.stage = "commit"
    PROVE  Chain(After(tb, t))
<1> DEFINE af == After(tb, t)
           n == Len(tb)
           Rewritten(i) == t.written # NULL /\ i = t.old
<1>1. /\ af \in Seq(Row)
      /\ Len(af) = IF t.new = NULL THEN n ELSE n + 1
      /\ \A i \in 1..n : af[i] = IF Rewritten(i) THEN t.written ELSE tb[i]
      /\ t.new # NULL => af[n + 1] = t.new
  BY AfterRows
<1>2. /\ t.written # NULL => /\ t.written \in Row /\ t.old \in 1..n
                             /\ t.written.key = tb[t.old].key
                             /\ t.written.lower = tb[t.old].lower
                             /\ t.written.replaces = tb[t.old].replaces
                             /\ Lasts(t.written) /\ Clear(t.written, tb, t.old)
                             /\ \/ t.written.upper = tb[t.old].upper
                                \/ Open(tb[t.old]) \/ t.new # NULL
      /\ t.new # NULL => /\ t.new \in Row /\ Open(t.new) /\ t.new.replaces = t.old
                         /\ Clear(t.new, tb, t.old)
                         /\ t.old # NULL => /\ t.written # NULL
                                            /\ t.written.key = t.new.key
                                            /\ t.written.upper = t.new.lower
      /\ n \in Nat
  BY DEF Consistent, Tx
<1> HIDE DEF af, n
<1>3. \A i \in 1..n : /\ af[i].key = tb[i].key /\ af[i].lower = tb[i].lower
                      /\ af[i].replaces = tb[i].replaces /\ Lasts(af[i])
  BY <1>1, <1>2 DEF Chain, n
<1>4. \A i \in 1..Len(af) : i \in 1..n \/ (t.new # NULL /\ i = n + 1)
  BY <1>1, <1>2
<1>5. \A i \in 1..n : tb[i].replaces # NULL =>
        /\ tb[i].replaces \in 1..n
        /\ af[tb[i].replaces].key = af[i].key
        /\ af[tb[i].replaces].upper = af[i].lower
  <2> SUFFICES ASSUME NEW i \in 1..n, tb[i].replaces # NULL
               PROVE  /\ tb[i].replaces \in 1..n
                      /\ af[tb[i].replaces].key = af[i].key
                      /\ af[tb[i].replaces].upper = af[i].lower
    OBVIOUS
  <2> DEFINE k == tb[i].replaces
  <2>1. k \in 1..n /\ tb[k].key = tb[i].key /\ tb[k].upper = tb[i].lower
    BY DEF Chain, n
  <2>2. ~Open(tb[k])
    <3>1. tb[i] \in Row
      BY DEF n
    <3> QED
      BY <2>1, <3>1 DEF Open, Row, NullIsNothing
  <2>3. k = t.old => t.new = NULL
    <3>1. k # NULL /\ i \in 1..Len(tb)
      BY DEF n
    <3> QED
      BY <3>1, NoSuccessor
  <2>4. af[k].upper = tb[k].upper
    BY <1>1, <1>2, <2>1, <2>2, <2>3
  <2> QED
    BY <1>3, <2>1, <2>4
<1>6. t.new # NULL /\ t.new.replaces # NULL =>
        /\ t.old \in 1..n
        /\ af[t.old].key = t.new.key /\ af[t.old].upper = t.new.lower
        /\ \A i \in 1..n : tb[i].replaces # t.old
  BY <1>1, <1>2, NoSuccessor DEF n
<1>7. \A i, j \in 1..n : i # j => ~Overlap(af[i], af[j])
  <2> SUFFICES ASSUME NEW i \in 1..n, NEW j \in 1..n, i # j, Overlap(af[i], af[j])
               PROVE  FALSE
    OBVIOUS
  <2>1. CASE Rewritten(i)
    BY <1>1, <1>2, <2>1 DEF Clear, n
  <2>2. CASE Rewritten(j)
    <3>1. Overlap(af[j], af[i])
      BY OverlapSymmetric
    <3> QED
      BY <1>1, <1>2, <2>2, <3>1 DEF Clear, n
  <2>3. CASE ~Rewritten(i) /\ ~Rewritten(j)
    BY <1>1, <2>3 DEF Chain, n
  <2> QED
    BY <2>1, <2>2, <2>3
<1>8. t.new # NULL => \A i \in 1..n : ~Overlap(t.new, af[i]) /\ ~Overlap(af[i], t.new)
  <2> SUFFICES ASSUME t.new # NULL, NEW i \in 1..n
               PROVE  ~Overlap(t.new, af[i])
    BY OverlapSymmetric
  <2>1. CASE i = t.old
    <3>1. t.old # NULL
      BY <2>1, <1>2 DEF NullIsNothing
    <3>2. af[i] = t.written /\ t.written.upper = t.new.lower /\ t.written # NULL
      BY <1>1, <1>2, <2>1, <3>1
    <3> QED
      BY <1>2, <3>2 DEF Overlap, Open, Row, NullIsNothing
  <2>2. CASE i # t.old
    BY <1>1, <1>2, <2>2 DEF Clear, n
  <2> QED
    BY <2>1, <2>2
<1>9. \A i \in 1..Len(af) : Lasts(af[i])
  BY <1>1, <1>2, <1>3, <1>4 DEF Lasts
<1>10. \A i \in 1..Len(af) : af[i].replaces # NULL =>
            /\ af[i].replaces \in 1..Len(af)
            /\ af[af[i].replaces].key = af[i].key
            /\ af[af[i].replaces].upper = af[i].lower
  <2> SUFFICES ASSUME NEW i \in 1..Len(af), af[i].replaces # NULL
               PROVE  /\ af[i].replaces \in 1..Len(af)
                      /\ af[af[i].replaces].key = af[i].key
                      /\ af[af[i].replaces].upper = af[i].lower
    OBVIOUS
  <2>1. CASE i \in 1..n
    BY <1>1, <1>2, <1>3, <1>5, <2>1
  <2>2. CASE t.new # NULL /\ i = n + 1
    BY <1>1, <1>2, <1>6, <2>2
  <2> QED
    BY <1>4, <2>1, <2>2
<1>11. \A i, j \in 1..Len(af) : i # j => ~Overlap(af[i], af[j])
  BY <1>1, <1>4, <1>7, <1>8
<1>12. \A i, j \in 1..Len(af) : i # j /\ af[i].replaces # NULL =>
            af[j].replaces # af[i].replaces
  <2> SUFFICES ASSUME NEW i \in 1..Len(af), NEW j \in 1..Len(af), i # j,
                      af[i].replaces # NULL
               PROVE  af[j].replaces # af[i].replaces
    OBVIOUS
  <2>1. CASE i \in 1..n /\ j \in 1..n
    BY <1>3, <2>1 DEF Chain, n
  <2>2. CASE i \in 1..n /\ t.new # NULL /\ j = n + 1
    BY <1>1, <1>2, <1>3, <1>6, <2>2
  <2>3. CASE j \in 1..n /\ t.new # NULL /\ i = n + 1
    BY <1>1, <1>2, <1>3, <1>6, <2>3
  <2> QED
    BY <1>4, <2>1, <2>2, <2>3
<1> QED
  BY <1>9, <1>10, <1>11, <1>12 DEF Chain, af

\* What the others have decided and hold stands after a commit.
LEMMA CommitOthers ==
    ASSUME NullIsNothing, NEW tb \in Seq(Row), NEW t \in Tx, Consistent(t, tb),
           NEW u \in Tx, Consistent(u, tb), Apart(u, t)
    PROVE  Consistent(u, After(tb, t))
<1> DEFINE af == After(tb, t)
           n == Len(tb)
<1>1. /\ Len(af) = IF t.new = NULL THEN n ELSE n + 1
      /\ \A i \in 1..n : af[i] = IF t.written # NULL /\ i = t.old THEN t.written ELSE tb[i]
      /\ t.new # NULL => af[n + 1] = t.new
      /\ n \in Nat
  BY AfterRows
<1>2. t.written # NULL => /\ t.written.key = tb[t.old].key
                          /\ t.written.lower = tb[t.old].lower
                          /\ t.written.replaces = tb[t.old].replaces
  BY DEF Consistent
<1> HIDE DEF af
<1>3. u.old # NULL =>
        /\ u.old \in 1..n /\ u.old \in 1..Len(af)
        /\ af[u.old].key = tb[u.old].key
        /\ af[u.old].lower = tb[u.old].lower
        /\ af[u.old].replaces = tb[u.old].replaces
        /\ u.written # NULL => af[u.old] = tb[u.old]
  <2>1. u.old # NULL => u.old \in 1..n
    BY DEF Consistent
  <2>2. u.written # NULL /\ t.written # NULL => u.old # t.old
    BY DEF Apart
  <2> QED
    BY <1>1, <1>2, <2>1, <2>2
<1>4. ASSUME NEW r \in Held(u), Clear(r, tb, u.old)
      PROVE  Clear(r, af, u.old)
  <2> SUFFICES ASSUME NEW i \in 1..Len(af), i # u.old
               PROVE  ~Overlap(r, af[i])
    BY DEF Clear
  <2>1. CASE i \in 1..n /\ ~(t.written # NULL /\ i = t.old)
    BY <1>1, <1>4, <2>1 DEF Clear
  <2>2. CASE i \in 1..n /\ t.written # NULL /\ i = t.old
    BY <1>1, <2>2 DEF Apart, Held
  <2>3. CASE t.new # NULL /\ i = n + 1
    BY <1>1, <2>3 DEF Apart, Held
  <2> QED
    BY <1>1, <2>1, <2>2, <2>3
<1>5. u.written # NULL => Clear(u.written, af, u.old)
  BY <1>4 DEF Consistent, Held
<1>6. u.new # NULL => Clear(u.new, af, u.old)
  BY <1>4 DEF Consistent, Held
<1>7. u.stage \in {"retire", "close", "archive"} => u.old # NULL
  BY DEF Consistent
<1> HIDE DEF n
<1> QED
  BY <1>3, <1>5, <1>6, <1>7 DEF Consistent, af
-----------------------------------------------------------------------------
(***************************************************************************)
(* The steps.                                                              *)
(***************************************************************************)
\* A statement that changes only what its own transaction has.
LEMMA OwnStep ==
    ASSUME NullIsNothing, Inv, NEW p \in Process, NEW t \in Tx,
           Consistent(t, table),
           \A q \in Process \ {p} : tx[q] # NULL => Apart(t, tx[q]) /\ Apart(tx[q], t),
           table' = table, now' \in 0..MaxStarts, tx' = [tx EXCEPT ![p] = t]
    PROVE  Inv'
<1>1. tx' \in [Process -> Tx \cup {NULL}]
  BY DEF Inv, TypeOK
<1>2. tx'[p] = t /\ \A q \in Process \ {p} : tx'[q] = tx[q]
  BY DEF Inv, TypeOK
<1>3. TypeOK'
  BY <1>1 DEF Inv, TypeOK
<1>4. Chain(table)'
  BY DEF Inv
<1>5. ASSUME NEW q \in Process, tx'[q] # NULL
      PROVE  Consistent(tx'[q], table')
  BY <1>2, <1>5 DEF Inv
<1>6. ASSUME NEW q \in Process, NEW r \in Process, q # r, tx'[q] # NULL, tx'[r] # NULL
      PROVE  Apart(tx'[q], tx'[r])
  <2>1. CASE q = p
    BY <1>2, <1>6, <2>1
  <2>2. CASE r = p
    BY <1>2, <1>6, <2>2
  <2>3. CASE q # p /\ r # p
    BY <1>2, <1>6, <2>3 DEF Inv
  <2> QED
    BY <2>1, <2>2, <2>3
<1> QED
  BY <1>3, <1>4, <1>5, <1>6 DEF Inv

\* A transaction that holds nothing is apart from any other.
LEMMA NothingHeld ==
    ASSUME NEW t, NEW u, t.written = NULL, t.new = NULL
    PROVE  Apart(t, u) /\ Apart(u, t)
BY DEF Apart, Held

\* Nothing of a transaction that has ended remains.
LEMMA RaisesInv ==
    ASSUME NullIsNothing, Inv, NEW p \in Process, Raises(p)
    PROVE  Inv'
<1>1. tx' \in [Process -> Tx \cup {NULL}]
  BY DEF Inv, TypeOK, Raises
<1>2. tx'[p] = NULL /\ \A q \in Process \ {p} : tx'[q] = tx[q]
  BY DEF Inv, TypeOK, Raises
<1>3. table' = table /\ now' = now
  BY DEF Raises
<1> QED
  BY <1>1, <1>2, <1>3 DEF Inv, TypeOK

\* A step that writes nothing goes to a stage the transaction is ready for.
LEMMA GoesInv ==
    ASSUME NullIsNothing, Inv, NEW p \in Process, tx[p] # NULL,
           tx[p].written = NULL, tx[p].new = NULL,
           NEW stage, NEW old, [tx[p] EXCEPT !.stage = stage, !.old = old] \in Tx,
           Consistent([tx[p] EXCEPT !.stage = stage, !.old = old], table),
           table' = table, now' = now,
           tx' = [tx EXCEPT ![p] = [tx[p] EXCEPT !.stage = stage, !.old = old]]
    PROVE  Inv'
<1> DEFINE t == [tx[p] EXCEPT !.stage = stage, !.old = old]
<1>1. t.written = NULL /\ t.new = NULL
  BY DEF Inv, TypeOK, Tx
<1>2. now' \in 0..MaxStarts
  BY DEF Inv, TypeOK
<1> HIDE DEF t
<1> QED
  BY <1>1, <1>2, NothingHeld, OwnStep DEF t

\* The row a transaction writes keeps it consistent, and apart from the others,
\* when no other has the row and none holds one that meets it.
LEMMA WritesInv ==
    ASSUME NullIsNothing, Inv, NEW p \in Process, tx[p] # NULL,
           tx[p].written = NULL, tx[p].new = NULL, tx[p].old # NULL,
           NEW row \in Row, NEW stage,
           [tx[p] EXCEPT !.stage = stage, !.written = row] \in Tx,
           Consistent([tx[p] EXCEPT !.stage = stage, !.written = row], table),
           ~Locked(p, tx[p].old),
           \A q \in Process \ {p} : tx[q] # NULL => \A r \in Held(tx[q]) : ~Overlap(r, row),
           Writes(p, row, stage)
    PROVE  Inv'
<1> DEFINE t == [tx[p] EXCEPT !.stage = stage, !.written = row]
<1>1. tx[p] \in Tx /\ row # NULL
  BY DEF Inv, TypeOK, NullIsNothing
<1>2. t.written = row /\ t.new = NULL /\ t.old = tx[p].old
  BY <1>1 DEF Tx
<1>3. table' = table /\ now' \in 0..MaxStarts
  BY DEF Writes, Inv, TypeOK
<1>4. tx' = [tx EXCEPT ![p] = t]
  BY DEF Writes
<1> HIDE DEF t
<1>5. ASSUME NEW q \in Process \ {p}, tx[q] # NULL
      PROVE  Apart(t, tx[q]) /\ Apart(tx[q], t)
  <2>1. tx[q].written # NULL => tx[q].old # t.old
    BY <1>2, <1>5 DEF Locked
  <2>2. \A r \in Held(tx[q]) : ~Overlap(r, row) /\ ~Overlap(row, r)
    BY <1>5, OverlapSymmetric
  <2>3. Held(t) = {row}
    BY <1>1, <1>2 DEF Held
  <2> QED
    BY <2>1, <2>2, <2>3 DEF Apart
<1> QED
  BY <1>3, <1>4, <1>5, OwnStep DEF t

\* What a statement need not wait for, none of the others holds.
LEMMA NotPending ==
    ASSUME NEW p \in Process, NEW row, ~MustWait(p, row),
           NEW q \in Process \ {p}, tx[q] # NULL, NEW r \in Held(tx[q])
    PROVE  ~Overlap(r, row)
BY DEF MustWait, Pending, Held

\* Begin.
LEMMA BeginInv ==
    ASSUME NullIsNothing, ConcurrentWritersAssumption, Inv, NEW p \in Process,
           NEW call \in Calls[p], Begin(p, call)
    PROVE  Inv'
<1> DEFINE t == [call |-> call, start |-> now + 1,
                 stage |-> IF call.op = "archive" THEN "missing" ELSE "look",
                 old |-> NULL, written |-> NULL, new |-> NULL]
<1>1. call \in WriteCall \cup SweepCall /\ now + 1 \in 0..MaxStarts /\ now + 1 \in Nat
  BY DEF ConcurrentWritersAssumption, Inv, TypeOK, Begin
<1>2. call.op = "archive" => call \in SweepCall
  BY <1>1 DEF WriteCall
<1>3. call.op # "archive" => call \in WriteCall
  BY <1>1 DEF SweepCall
<1>4. t \in Tx
  BY <1>1 DEF Tx
<1>5. Consistent(t, table)
  BY <1>2, <1>3 DEF Consistent
<1>6. table' = table /\ now' \in 0..MaxStarts /\ tx' = [tx EXCEPT ![p] = t]
  BY <1>1 DEF Begin
<1>7. t.written = NULL /\ t.new = NULL
  OBVIOUS
<1> HIDE DEF t
<1> QED
  BY <1>4, <1>5, <1>6, <1>7, NothingHeld, OwnStep

\* Look.
LEMMA LookInv ==
    ASSUME NullIsNothing, Inv, NEW p \in Process, Look(p)
    PROVE  Inv'
<1>1. tx[p] \in Tx /\ tx[p].stage = "look" /\ tx[p] # NULL /\ Consistent(tx[p], table)
  BY DEF Look, At, Inv, TypeOK
<1>2. /\ tx[p].call \in WriteCall /\ tx[p].old = NULL
      /\ tx[p].written = NULL /\ tx[p].new = NULL
  BY <1>1 DEF Consistent
<1>3. ASSUME NEW stage \in {"commit", "insert", "prior"}, Goes(p, stage),
             stage = "prior" => tx[p].call.key # NULL
      PROVE  Inv'
  <2> DEFINE t == [tx[p] EXCEPT !.stage = stage, !.old = NULL]
  <2>1. t \in Tx /\ t.stage = stage /\ t.call = tx[p].call /\ t.old = NULL
        /\ t.written = NULL /\ t.new = NULL
    BY <1>1, <1>2 DEF Tx
  <2>2. tx' = [tx EXCEPT ![p] = t] /\ table' = table /\ now' = now
    BY <1>1, <1>2, <1>3 DEF Goes, Tx
  <2> HIDE DEF t
  <2>3. Consistent(t, table)
    BY <1>2, <1>3, <2>1 DEF Consistent
  <2> QED
    BY <1>1, <1>2, <2>1, <2>2, <2>3, GoesInv DEF t
<1>4. ASSUME NEW i \in Rows,
             tx' = [tx EXCEPT ![p].stage = "retire", ![p].old = i],
             UNCHANGED <<table, now>>
      PROVE  Inv'
  <2> DEFINE t == [tx[p] EXCEPT !.stage = "retire", !.old = i]
  <2>0. i # NULL /\ i \in Nat
    BY DEF NullIsNothing, Rows
  <2>1. t \in Tx /\ t.stage = "retire" /\ t.call = tx[p].call /\ t.old = i
        /\ t.written = NULL /\ t.new = NULL
    BY <1>1, <1>2, <2>0 DEF Tx
  <2>2. tx' = [tx EXCEPT ![p] = t] /\ table' = table /\ now' = now
    BY <1>1, <1>4 DEF Inv, TypeOK
  <2> HIDE DEF t
  <2>3. Consistent(t, table)
    BY <1>2, <2>0, <2>1 DEF Consistent, Rows
  <2> QED
    BY <1>1, <1>2, <2>1, <2>2, <2>3, GoesInv DEF t
<1> QED
  BY <1>3, <1>4 DEF Look, Picks

\* Retire: the range the row keeps meets no other.
LEMMA RetireInv ==
    ASSUME NullIsNothing, Inv, NEW p \in Process, Retire(p)
    PROVE  Inv'
<1> DEFINE old == tx[p].old
           row == [table[old] EXCEPT !.status = "superseded"]
           t == [tx[p] EXCEPT !.stage = "commit", !.written = row]
<1>1. /\ tx[p] \in Tx /\ tx[p].stage = "retire" /\ tx[p] # NULL
      /\ Consistent(tx[p], table) /\ table \in Seq(Row) /\ Chain(table)
  BY DEF Retire, At, Inv, TypeOK
<1>2. /\ tx[p].call \in WriteCall /\ old # NULL /\ old \in 1..Len(table)
      /\ tx[p].written = NULL /\ tx[p].new = NULL
  BY <1>1 DEF Consistent
<1>3. table[old] \in Row
  BY <1>1, <1>2
<1>4. /\ row \in Row /\ row.key = table[old].key /\ row.lower = table[old].lower
      /\ row.upper = table[old].upper /\ row.replaces = table[old].replaces
  BY <1>3 DEF Row
<1>5. /\ t \in Tx /\ t.stage = "commit" /\ t.old = old /\ t.written = row /\ t.new = NULL
  BY <1>1, <1>2, <1>4 DEF Tx
<1>6. ~Locked(p, old) /\ Writes(p, row, "commit")
  BY DEF Retire
<1> HIDE DEF row
<1>7. \A r : Overlap(row, r) => Overlap(table[old], r)
  BY <1>4 DEF Overlap, Open
<1>8. \A r : Overlap(r, row) => Overlap(r, table[old])
  BY <1>4 DEF Overlap, Open
<1>9. Lasts(row) /\ Clear(row, table, old)
  BY <1>1, <1>2, <1>4, <1>7 DEF Chain, Lasts, Open, Clear
<1>10. Consistent(t, table)
  <2> HIDE DEF t, old
  <2> QED
    BY <1>2, <1>4, <1>5, <1>9 DEF Consistent
<1>11. ASSUME NEW q \in Process \ {p}, tx[q] # NULL, NEW r \in Held(tx[q])
       PROVE  ~Overlap(r, row)
  <2>1. Consistent(tx[q], table)
    BY <1>11 DEF Inv
  <2>2. tx[q].written # NULL => tx[q].old # old
    BY <1>6, <1>11 DEF Locked
  <2>3. tx[q].old # old
    <3>1. r \in {tx[q].written, tx[q].new} /\ r # NULL
      BY <1>11 DEF Held
    <3>2. tx[q].new # NULL /\ tx[q].old # NULL => tx[q].written # NULL
      BY <2>1 DEF Consistent
    <3> QED
      BY <1>2, <2>2, <3>1, <3>2
  <2>4. Clear(r, table, tx[q].old)
    BY <1>11, <2>1 DEF Consistent, Held
  <2> QED
    BY <1>2, <1>8, <2>3, <2>4 DEF Clear
<1> QED
  BY <1>1, <1>2, <1>4, <1>5, <1>6, <1>10, <1>11, WritesInv

\* Prior.
LEMMA PriorInv ==
    ASSUME NullIsNothing, Inv, NEW p \in Process, Prior(p)
    PROVE  Inv'
<1>1. tx[p] \in Tx /\ tx[p].stage = "prior" /\ tx[p] # NULL /\ Consistent(tx[p], table)
  BY DEF Prior, At, Inv, TypeOK
<1>2. /\ tx[p].call \in WriteCall /\ tx[p].old = NULL /\ tx[p].call.key # NULL
      /\ tx[p].written = NULL /\ tx[p].new = NULL
  BY <1>1 DEF Consistent
<1>3. CASE Goes(p, "insert")
  <2> DEFINE t == [tx[p] EXCEPT !.stage = "insert", !.old = NULL]
  <2>1. t \in Tx /\ t.stage = "insert" /\ t.call = tx[p].call /\ t.old = NULL
        /\ t.written = NULL /\ t.new = NULL
    BY <1>1, <1>2 DEF Tx
  <2>2. tx' = [tx EXCEPT ![p] = t] /\ table' = table /\ now' = now
    BY <1>1, <1>2, <1>3 DEF Goes, Tx
  <2> HIDE DEF t
  <2>3. Consistent(t, table)
    BY <1>2, <2>1 DEF Consistent
  <2> QED
    BY <1>1, <1>2, <2>1, <2>2, <2>3, GoesInv DEF t
<1>4. ASSUME NEW i \in Rows, table[i].key = tx[p].call.key,
             tx' = [tx EXCEPT ![p].stage = "close", ![p].old = i],
             UNCHANGED <<table, now>>
      PROVE  Inv'
  <2> DEFINE t == [tx[p] EXCEPT !.stage = "close", !.old = i]
  <2>0. i # NULL /\ i \in Nat
    BY DEF NullIsNothing, Rows
  <2>1. t \in Tx /\ t.stage = "close" /\ t.call = tx[p].call /\ t.old = i
        /\ t.written = NULL /\ t.new = NULL
    BY <1>1, <1>2, <2>0 DEF Tx
  <2>2. tx' = [tx EXCEPT ![p] = t] /\ table' = table /\ now' = now
    BY <1>1, <1>4 DEF Inv, TypeOK
  <2> HIDE DEF t
  <2>3. Consistent(t, table)
    BY <1>2, <1>4, <2>0, <2>1 DEF Consistent, Rows
  <2> QED
    BY <1>1, <1>2, <2>1, <2>2, <2>3, GoesInv DEF t
<1> QED
  BY <1>3, <1>4 DEF Prior, Picks

\* Missing.
LEMMA MissingInv ==
    ASSUME NullIsNothing, Inv, NEW p \in Process, Missing(p)
    PROVE  Inv'
<1>1. tx[p] \in Tx /\ tx[p].stage = "missing" /\ tx[p] # NULL /\ Consistent(tx[p], table)
  BY DEF Missing, At, Inv, TypeOK
<1>2. /\ tx[p].call \in SweepCall /\ tx[p].old = NULL
      /\ tx[p].written = NULL /\ tx[p].new = NULL
  BY <1>1 DEF Consistent
<1>3. CASE Goes(p, "commit")
  <2> DEFINE t == [tx[p] EXCEPT !.stage = "commit", !.old = NULL]
  <2>1. t \in Tx /\ t.stage = "commit" /\ t.call = tx[p].call /\ t.old = NULL
        /\ t.written = NULL /\ t.new = NULL
    BY <1>1, <1>2 DEF Tx
  <2>2. tx' = [tx EXCEPT ![p] = t] /\ table' = table /\ now' = now
    BY <1>1, <1>2, <1>3 DEF Goes, Tx
  <2> HIDE DEF t
  <2>3. Consistent(t, table)
    BY <2>1 DEF Consistent
  <2> QED
    BY <1>1, <1>2, <2>1, <2>2, <2>3, GoesInv DEF t
<1>4. ASSUME NEW i \in Rows,
             tx' = [tx EXCEPT ![p].stage = "archive", ![p].old = i],
             UNCHANGED <<table, now>>
      PROVE  Inv'
  <2> DEFINE t == [tx[p] EXCEPT !.stage = "archive", !.old = i]
  <2>0. i # NULL /\ i \in Nat
    BY DEF NullIsNothing, Rows
  <2>1. t \in Tx /\ t.stage = "archive" /\ t.call = tx[p].call /\ t.old = i
        /\ t.written = NULL /\ t.new = NULL
    BY <1>1, <1>2, <2>0 DEF Tx
  <2>2. tx' = [tx EXCEPT ![p] = t] /\ table' = table /\ now' = now
    BY <1>1, <1>4 DEF Inv, TypeOK
  <2> HIDE DEF t
  <2>3. Consistent(t, table)
    BY <1>2, <2>0, <2>1 DEF Consistent, Rows
  <2> QED
    BY <1>1, <1>2, <2>1, <2>2, <2>3, GoesInv DEF t
<1> QED
  BY <1>3, <1>4 DEF Missing, Picks

\* A row closed: nobody else has it, and no range it meets is held or committed.
LEMMA EndsInv ==
    ASSUME NullIsNothing, Inv, NEW p \in Process, tx[p] # NULL,
           NEW stage \in {"close", "archive"}, At(p, stage), ~Locked(p, tx[p].old),
           NEW status \in {"superseded", "archived"},
           NEW next \in {"insert", "commit"},
           stage = "close" => next = "insert",
           stage = "archive" => next = "commit" /\ Open(table[tx[p].old]),
           Ends(p, status, next)
    PROVE  Inv'
<1> DEFINE old == tx[p].old
           row == Until(p, table[old], status)
           t == [tx[p] EXCEPT !.stage = next, !.written = row]
<1>1. /\ tx[p] \in Tx /\ tx[p].stage = stage
      /\ Consistent(tx[p], table) /\ table \in Seq(Row)
  BY DEF At, Inv, TypeOK
<1>2. /\ old # NULL /\ old \in 1..Len(table)
      /\ tx[p].written = NULL /\ tx[p].new = NULL
      /\ stage = "close" => /\ tx[p].call \in WriteCall /\ tx[p].call.key # NULL
                            /\ table[old].key = tx[p].call.key
  BY <1>1 DEF Consistent
<1>3. table[old] \in Row /\ tx[p].start \in Nat
  BY <1>1, <1>2 DEF Tx
<1>4. /\ row \in Row /\ row.key = table[old].key /\ row.lower = table[old].lower
      /\ row.upper = tx[p].start /\ row.replaces = table[old].replaces
      /\ row # NULL
  BY <1>3 DEF Row, Until, NullIsNothing
<1>5. /\ t \in Tx /\ t.stage = next /\ t.old = old /\ t.written = row /\ t.new = NULL
      /\ t.start = tx[p].start /\ t.call = tx[p].call
  BY <1>1, <1>2, <1>4 DEF Tx
<1> HIDE DEF row, t
<1>6. CASE Raises(p)
  BY <1>6, RaisesInv
<1>7. CASE /\ Closable(p, table[old]) /\ ~MustWait(p, row) /\ ~Collides(p, row)
           /\ Writes(p, row, next)
  <2>1. Lasts(row)
    BY <1>4, <1>7 DEF Closable, Lasts
  <2>2. Clear(row, table, old)
    BY <1>7, OverlapSymmetric DEF Clear, Collides, Rows
  <2>3. next = "insert" \/ Open(table[old])
    OBVIOUS
  <2>4. next = "insert" => stage = "close"
    OBVIOUS
  <2> HIDE DEF old
  <2>5. Consistent(t, table)
    BY <1>2, <1>4, <1>5, <2>1, <2>2, <2>3, <2>4 DEF Consistent
  <2> USE DEF old
  <2>6. \A q \in Process \ {p} : tx[q] # NULL => \A r \in Held(tx[q]) : ~Overlap(r, row)
    BY <1>7, NotPending
  <2> QED
    BY <1>2, <1>4, <1>5, <1>7, <2>5, <2>6, WritesInv DEF t
<1> QED
  BY <1>6, <1>7 DEF Ends, row

\* Close.
LEMMA CloseInv ==
    ASSUME NullIsNothing, Inv, NEW p \in Process, Close(p)
    PROVE  Inv'
<1>1. At(p, "close") /\ tx[p] # NULL /\ ~Locked(p, tx[p].old)
      /\ Ends(p, "superseded", "insert")
  BY DEF Close, At
<1> QED
  BY <1>1, EndsInv

\* Archive.
LEMMA ArchiveInv ==
    ASSUME NullIsNothing, Inv, NEW p \in Process, Archive(p)
    PROVE  Inv'
<1>1. /\ At(p, "archive") /\ tx[p] # NULL /\ ~Locked(p, tx[p].old)
      /\ tx[p] \in Tx /\ tx[p].stage = "archive" /\ Consistent(tx[p], table)
  BY DEF Archive, At, Inv, TypeOK
<1>2. tx[p].written = NULL /\ tx[p].new = NULL /\ tx[p].old # NULL
      /\ tx[p].old \in 1..Len(table) /\ tx[p].call \in SweepCall
  BY <1>1 DEF Consistent
<1>3. CASE Open(table[tx[p].old])
  BY <1>1, <1>3, EndsInv DEF Archive
<1>4. CASE ~Open(table[tx[p].old])
  <2> DEFINE t == [tx[p] EXCEPT !.stage = "commit", !.old = tx[p].old]
  <2>1. t \in Tx /\ t.stage = "commit" /\ t.call = tx[p].call /\ t.old = tx[p].old
        /\ t.written = NULL /\ t.new = NULL
    BY <1>1, <1>2 DEF Tx
  <2>2. tx' = [tx EXCEPT ![p] = t] /\ table' = table /\ now' = now
    BY <1>1, <1>4 DEF Archive, Goes, Tx
  <2> HIDE DEF t
  <2>3. Consistent(t, table)
    BY <1>2, <2>1 DEF Consistent
  <2> QED
    BY <1>1, <1>2, <2>1, <2>2, <2>3, GoesInv DEF t
<1> QED
  BY <1>3, <1>4

\* Insert.
LEMMA InsertInv ==
    ASSUME NullIsNothing, Inv, NEW p \in Process, Insert(p)
    PROVE  Inv'
<1> DEFINE row == Born(p)
           t == [tx[p] EXCEPT !.stage = "commit", !.new = row]
<1>1. /\ tx[p] \in Tx /\ tx[p].stage = "insert" /\ tx[p] # NULL
      /\ Consistent(tx[p], table)
  BY DEF Insert, At, Inv, TypeOK
<1>2. /\ tx[p].call \in WriteCall /\ tx[p].new = NULL
      /\ tx[p].written # NULL => tx[p].old # NULL
      /\ tx[p].old # NULL => /\ tx[p].written # NULL /\ tx[p].call.key # NULL
                             /\ tx[p].written.key = tx[p].call.key
                             /\ tx[p].written.upper = tx[p].start
  BY <1>1 DEF Consistent
<1>3. tx[p].start \in Nat /\ tx[p].old \in Nat \cup {NULL}
  BY <1>1 DEF Tx
<1>4. /\ row \in Row /\ row # NULL /\ row.replaces = tx[p].old /\ Open(row)
      /\ row.lower = tx[p].start
      /\ tx[p].call.key # NULL => row.key = tx[p].call.key
  <2> DEFINE call == tx[p].call
             key == IF call.key = NULL THEN <<call.source, call.text>> ELSE call.key
             status == IF call.op = "retire" THEN "superseded" ELSE "active"
  <2>1. key \in RowKey /\ call.text \in Text /\ call.source \in Source
    BY <1>2 DEF RowKey, WriteCall
  <2>2. status \in {"active", "superseded", "archived"}
    OBVIOUS
  <2>3. row = [key |-> key, text |-> call.text, source |-> call.source, status |-> status,
               lower |-> tx[p].start, upper |-> NULL, replaces |-> tx[p].old]
    BY DEF Born
  <2>4. call.key # NULL => key = call.key
    OBVIOUS
  <2> HIDE DEF call, key, status
  <2>5. row \in Row
    BY <1>3, <2>1, <2>2, <2>3 DEF Row
  <2>6. row # NULL
    BY <2>5 DEF NullIsNothing
  <2> HIDE DEF row
  <2> QED
    BY <2>3, <2>4, <2>5, <2>6 DEF Open, call
<1>5. /\ t \in Tx /\ t.stage = "commit" /\ t.new = row /\ t.old = tx[p].old
      /\ t.written = tx[p].written /\ t.call = tx[p].call
  BY <1>1, <1>4 DEF Tx
<1> HIDE DEF row, t
<1>6. CASE Raises(p)
  BY <1>6, RaisesInv
<1>7. CASE /\ ~MustWait(p, row) /\ ~Collides(p, row)
           /\ tx' = [tx EXCEPT ![p] = t] /\ UNCHANGED <<table, now>>
  <2>1. Clear(row, table, tx[p].old)
    BY <1>7, OverlapSymmetric DEF Clear, Collides, Rows
  <2>2. t.written # NULL =>
            /\ t.old # NULL
            /\ t.old \in 1..Len(table)
            /\ t.written.key = table[t.old].key
            /\ t.written.lower = table[t.old].lower
            /\ t.written.replaces = table[t.old].replaces
            /\ Lasts(t.written)
            /\ Clear(t.written, table, t.old)
    BY <1>1, <1>5 DEF Consistent
  <2>3. Consistent(t, table)
    <3>1. t.new # NULL /\ Open(t.new) /\ t.new.replaces = t.old /\ Clear(t.new, table, t.old)
      BY <1>4, <1>5, <2>1
    <3>2. t.old # NULL =>
            t.written # NULL /\ t.written.key = t.new.key /\ t.written.upper = t.new.lower
      BY <1>2, <1>4, <1>5
    <3>3. t.old # NULL => t.old \in 1..Len(table)
      BY <1>1, <1>5 DEF Consistent
    <3> QED
      BY <1>5, <2>2, <3>1, <3>2, <3>3 DEF Consistent
  <2>4. ASSUME NEW q \in Process \ {p}, tx[q] # NULL
        PROVE  Apart(t, tx[q]) /\ Apart(tx[q], t)
    <3>1. \A r \in Held(tx[q]) : ~Overlap(r, row) /\ ~Overlap(row, r)
      BY <1>7, <2>4, NotPending, OverlapSymmetric
    <3>2. Held(t) \subseteq Held(tx[p]) \cup {row}
      BY <1>5 DEF Held
    <3>3. Apart(tx[p], tx[q]) /\ Apart(tx[q], tx[p])
      BY <1>1, <2>4 DEF Inv
    <3> QED
      BY <1>5, <3>1, <3>2, <3>3 DEF Apart
  <2>5. table' = table /\ now' \in 0..MaxStarts
    BY <1>7 DEF Inv, TypeOK
  <2> QED
    BY <1>5, <1>7, <2>3, <2>4, <2>5, OwnStep
<1> QED
  BY <1>6, <1>7 DEF Insert, row, t

\* Commit.
LEMMA CommitInv ==
    ASSUME NullIsNothing, Inv, NEW p \in Process, Commit(p)
    PROVE  Inv'
<1>1. /\ tx[p] \in Tx /\ tx[p].stage = "commit" /\ tx[p] # NULL
      /\ Consistent(tx[p], table) /\ table \in Seq(Row) /\ Chain(table)
  BY DEF Commit, At, Inv, TypeOK
<1>2. table' = After(table, tx[p])
  BY DEF Commit, After
<1>3. table' \in Seq(Row) /\ Chain(table')
  BY <1>1, <1>2, AfterRows, CommitChain
<1>4. /\ tx' \in [Process -> Tx \cup {NULL}]
      /\ tx'[p] = NULL /\ \A q \in Process \ {p} : tx'[q] = tx[q]
      /\ now' = now
  BY DEF Commit, Inv, TypeOK
<1>5. ASSUME NEW q \in Process, tx'[q] # NULL
      PROVE  Consistent(tx'[q], table')
  <2>1. q # p /\ tx'[q] = tx[q]
    BY <1>4, <1>5
  <2>2. tx[q] \in Tx /\ Consistent(tx[q], table) /\ Apart(tx[q], tx[p])
    BY <1>1, <1>5, <2>1 DEF Inv, TypeOK
  <2> QED
    BY <1>1, <1>2, <2>1, <2>2, CommitOthers
<1>6. \A q, r \in Process : q # r /\ tx'[q] # NULL /\ tx'[r] # NULL => Apart(tx'[q], tx'[r])
  BY <1>4 DEF Inv
<1> QED
  BY <1>3, <1>4, <1>5, <1>6 DEF Inv, TypeOK
-----------------------------------------------------------------------------
\* The table of the start.
LEMMA InitInv ==
    ASSUME NullIsNothing, ConcurrentWritersAssumption, Init
    PROVE  Inv
<1>1. TypeOK
  BY DEF Init, TypeOK, ConcurrentWritersAssumption
<1> QED
  BY <1>1 DEF Inv, Init, Chain

\* Every step.
LEMMA NextInv ==
    ASSUME NullIsNothing, ConcurrentWritersAssumption, Inv, [Next]_vars
    PROVE  Inv'
<1>1. CASE UNCHANGED vars
  BY <1>1 DEF vars, Inv, TypeOK
<1>2. ASSUME NEW p \in Process, NEW call \in Calls[p], Begin(p, call)
      PROVE  Inv'
  BY <1>2, BeginInv
<1>3. ASSUME NEW p \in Process, Abort(p)
      PROVE  Inv'
  BY <1>3, RaisesInv DEF Abort
<1> QED
  BY <1>1, <1>2, <1>3, LookInv, RetireInv, PriorInv, CloseInv, MissingInv, ArchiveInv,
     InsertInv, CommitInv DEF Next

\* However many edits, retirements and sweeps overlap, the versions of a key form
\* one chain.
THEOREM ChainsHold ==
    ASSUME ConcurrentWritersAssumption
    PROVE  Spec => []VersionsFormAChain
<1>0. NullIsNothing
  BY DEF NullIsNothing, ConcurrentWritersAssumption
<1>1. Init => Inv
  BY <1>0, InitInv
<1>2. Inv /\ [Next]_vars => Inv'
  BY <1>0, NextInv
<1>3. Inv => VersionsFormAChain
  <2> SUFFICES ASSUME Inv PROVE VersionsFormAChain
    OBVIOUS
  <2> QED
    BY DEF Inv, Chain, VersionsFormAChain, Rows
<1> QED
  BY <1>1, <1>2, <1>3, PTL DEF Spec

\* The table and the open transactions keep their types.
THEOREM WritersTypeCorrect ==
    ASSUME ConcurrentWritersAssumption
    PROVE  Spec => []TypeOK
<1>0. NullIsNothing
  BY DEF NullIsNothing, ConcurrentWritersAssumption
<1>1. Init => Inv
  BY <1>0, InitInv
<1>2. Inv /\ [Next]_vars => Inv'
  BY <1>0, NextInv
<1>3. Inv => TypeOK
  BY DEF Inv
<1> QED
  BY <1>1, <1>2, <1>3, PTL DEF Spec
=============================================================================
