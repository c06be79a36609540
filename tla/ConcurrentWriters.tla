-------------------------- MODULE ConcurrentWriters --------------------------
(***************************************************************************)
(* memories.write_memory in transactions that overlap: console, agents and *)
(* the reconciliation of .memory write one table, statement by statement,  *)
(* under READ COMMITTED.  A statement sees what is committed when it       *)
(* starts and waits for a row another open transaction has written;        *)
(* now() is the start of the transaction, so a writer may close a row at   *)
(* an instant before other transactions that have already committed.       *)
(*                                                                         *)
(* MemoryStore is the same table with one transaction at a time, and has   *)
(* trust, quarantine, reviews and decay; here a row has what the overlap   *)
(* of transactions can damage: its range, its status, what it replaced.    *)
(***************************************************************************)
EXTENDS Naturals, Sequences

CONSTANTS
    Process,    \* connections that write
    Key,
    Text,
    Source,     \* values of source_type
    Calls,      \* what each process may be asked to do: only ingestion sweeps and retires
    MaxStarts,  \* bound: transactions
    NULL

\* write_memory for a key, or for a text with no key; "retire" when a source
\* withdraws its document.
WriteCall ==
    [op : {"write", "retire"}, key : Key \cup {NULL}, text : Text, source : Source]

\* The sweep of a file that is gone.
SweepCall == [op : {"archive"}, key : Key]

VARIABLES
    table,  \* committed rows, in the order they were committed
    tx,     \* the open transaction of each process
    now     \* the last start of a transaction: no two start at one instant

vars == <<table, tx, now>>

RowKey == Key \cup (Source \X Text)

Row == [key : RowKey, text : Text, source : Source,
        status : {"active", "superseded", "archived"},
        lower : Nat, upper : Nat \cup {NULL},
        replaces : Nat \cup {NULL}]      \* memory_supersessions, by new_id

Rows == 1..Len(table)

\* `old` is the id of the row a transaction works on, `written` that row as the
\* transaction has rewritten it, `new` the row it has inserted.
Tx == [call : WriteCall \cup SweepCall, start : Nat,
       stage : {"look", "retire", "prior", "close", "insert", "missing", "archive", "commit"},
       old : Nat \cup {NULL}, written : Row \cup {NULL}, new : Row \cup {NULL}]

ConcurrentWritersAssumption ==
    /\ Calls \in [Process -> SUBSET (WriteCall \cup SweepCall)]
    /\ MaxStarts \in Nat
    /\ NULL \notin Nat \cup Row \cup Tx

TypeOK ==
    /\ table \in Seq(Row)
    /\ tx \in [Process -> Tx \cup {NULL}]
    /\ now \in 0..MaxStarts

Init ==
    /\ table = <<>>
    /\ tx = [p \in Process |-> NULL]
    /\ now = 0
-----------------------------------------------------------------------------
At(p, stage) == tx[p] # NULL /\ tx[p].stage = stage

Open(row) == row.upper = NULL

\* valid_at = tstzrange(lower(valid_at), now()): refused unless the row began earlier.
Closable(p, row) == row.lower < tx[p].start

Until(p, row, status) == [row EXCEPT !.upper = tx[p].start, !.status = status]

Overlap(r, s) ==
    /\ r.key = s.key
    /\ Open(r) \/ s.lower < r.upper
    /\ Open(s) \/ r.lower < s.upper

\* The versions of rows other transactions have yet to commit: the outcome of a
\* constraint that meets one is known when they end.
Pending(p) ==
    UNION {{r \in {tx[v].written, tx[v].new} : r # NULL}
                \cup (IF tx[v].written = NULL THEN {} ELSE {table[tx[v].old]})
           : v \in {q \in Process \ {p} : tx[q] # NULL}}

MustWait(p, row) == \E r \in Pending(p) : Overlap(r, row)

\* Mutant of Collides: the constraint covers open rows only.
CollidesWithOpen(p, row) ==
    \E i \in Rows \ {tx[p].old} : Overlap(table[i], row) /\ Open(table[i]) /\ Open(row)

\* memories_temporal_uniq, against what is committed and not being replaced.
Collides(p, row) == \E i \in Rows \ {tx[p].old} : Overlap(table[i], row)

\* Another transaction has written the row.
Locked(p, i) == \E v \in Process \ {p} : tx[v] # NULL /\ tx[v].written # NULL /\ tx[v].old = i

\* The statement raises: the transaction is rolled back.
Raises(p) == tx' = [tx EXCEPT ![p] = NULL] /\ UNCHANGED <<table, now>>

Goes(p, stage) == tx' = [tx EXCEPT ![p].stage = stage] /\ UNCHANGED <<table, now>>

Picks(p, ids, stage, otherwise) ==
    \/ /\ ids = {}
       /\ Goes(p, otherwise)
    \/ \E i \in ids :
         /\ tx' = [tx EXCEPT ![p].stage = stage, ![p].old = i]
         /\ UNCHANGED <<table, now>>

Writes(p, row, next) ==
    /\ tx' = [tx EXCEPT ![p].stage = next, ![p].written = row]
    /\ UNCHANGED <<table, now>>
-----------------------------------------------------------------------------
Begin(p, call) ==
    /\ tx[p] = NULL
    /\ now < MaxStarts
    /\ now' = now + 1
    /\ tx' = [tx EXCEPT ![p] =
                [call |-> call, start |-> now + 1,
                 stage |-> IF call.op = "archive" THEN "missing" ELSE "look",
                 old |-> NULL, written |-> NULL, new |-> NULL]]
    /\ UNCHANGED table

\* A row that holds the text is what write_memory returns, whatever its key; a
\* source that withdraws the document retires it.
Look(p) ==
    /\ At(p, "look")
    /\ LET call == tx[p].call
           holding == {i \in Rows : table[i].text = call.text}
           retiring == {i \in holding : call.op = "retire" /\ table[i].status # "superseded"}
       IN  \/ retiring # {} /\ Picks(p, retiring, "retire", "commit")
           \/ holding \ retiring # {} /\ Goes(p, "commit")
           \/ holding = {} /\ Goes(p, IF call.key = NULL THEN "insert" ELSE "prior")

\* The update goes by id, whatever the row has become meanwhile.
Retire(p) ==
    /\ At(p, "retire")
    /\ ~Locked(p, tx[p].old)
    /\ Writes(p, [table[tx[p].old] EXCEPT !.status = "superseded"], "commit")

\* The version to close is the key's open row, served or not.
Prior(p) ==
    /\ At(p, "prior")
    /\ Picks(p, {i \in Rows : table[i].key = tx[p].call.key /\ Open(table[i])},
             "close", "insert")

\* An update that ends a row's validity, which the constraint then looks at.
Ends(p, status, next) ==
    LET row == table[tx[p].old]
        closed == Until(p, row, status)
    IN  IF ~Closable(p, row) THEN Raises(p)
        ELSE /\ ~MustWait(p, closed)
             /\ IF Collides(p, closed) THEN Raises(p) ELSE Writes(p, closed, next)

\* The update goes by id: it does not ask whether the row it has waited for is
\* still open.
Close(p) ==
    /\ At(p, "close")
    /\ ~Locked(p, tx[p].old)
    /\ Ends(p, "superseded", "insert")

\* The sweep picks the served row of a file that is gone ...
Missing(p) ==
    /\ At(p, "missing")
    /\ Picks(p, {i \in Rows : /\ table[i].key = tx[p].call.key
                              /\ table[i].status = "active" /\ table[i].source = "git"},
             "archive", "commit")

\* ... and, when it has the row, asks again whether it is open.
Archive(p) ==
    /\ At(p, "archive")
    /\ ~Locked(p, tx[p].old)
    /\ IF Open(table[tx[p].old]) THEN Ends(p, "archived", "commit") ELSE Goes(p, "commit")

\* A document its source has withdrawn is stored superseded.
Born(p) ==
    LET call == tx[p].call
    IN  [key |-> IF call.key = NULL THEN <<call.source, call.text>> ELSE call.key,
         text |-> call.text, source |-> call.source,
         status |-> IF call.op = "retire" THEN "superseded" ELSE "active",
         lower |-> tx[p].start, upper |-> NULL, replaces |-> tx[p].old]

Insert(p) ==
    /\ At(p, "insert")
    /\ ~MustWait(p, Born(p))
    /\ IF Collides(p, Born(p)) THEN Raises(p)
       ELSE /\ tx' = [tx EXCEPT ![p].stage = "commit", ![p].new = Born(p)]
            /\ UNCHANGED <<table, now>>

Commit(p) ==
    /\ At(p, "commit")
    /\ LET kept == IF tx[p].written = NULL THEN table
                   ELSE [table EXCEPT ![tx[p].old] = tx[p].written]
       IN  table' = IF tx[p].new = NULL THEN kept ELSE Append(kept, tx[p].new)
    /\ tx' = [tx EXCEPT ![p] = NULL]
    /\ UNCHANGED now

\* Any statement may fail, a deadlock's victim among them, or the connection be lost.
Abort(p) == tx[p] # NULL /\ Raises(p)

Next ==
    \E p \in Process :
        \/ \E call \in Calls[p] : Begin(p, call)
        \/ Look(p)
        \/ Retire(p)
        \/ Prior(p)
        \/ Close(p)
        \/ Missing(p)
        \/ Archive(p)
        \/ Insert(p)
        \/ Commit(p)
        \/ Abort(p)

Spec == Init /\ [][Next]_vars
-----------------------------------------------------------------------------
(***************************************************************************)
(* Properties.                                                             *)
(***************************************************************************)
\* The versions of a key form one chain, however edits, retirements and sweeps
\* overlap: each begins where the one it replaced ends, and none is replaced
\* twice (write_memory closes by id, without asking whether the row is open).
VersionsFormAChain ==
    \A i \in Rows :
        LET r == table[i]
        IN  /\ r.replaces # NULL =>
                /\ table[r.replaces].key = r.key
                /\ table[r.replaces].upper = r.lower
            /\ \A j \in Rows \ {i} :
                /\ ~Overlap(r, table[j])
                /\ r.replaces # NULL => table[j].replaces # r.replaces

\* "Idempotent on (tenant_id, content_hash)": a text is stored once.
TextIsStoredOnce == \A i, j \in Rows : table[i].text = table[j].text => i = j
=============================================================================
