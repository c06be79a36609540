----------------------------- MODULE AccessProofs -----------------------------
(***************************************************************************)
(* For any pool, any tenants and any grants: what a transaction reads      *)
(* stays in the scope its caller was handed.  The argument is that the     *)
(* settings of a connection are those of its caller, or none at all        *)
(* (SettingIsTheCallers), that every partition there is has been secured,  *)
(* and that rows of the tables without a sensitivity are internal.         *)
(***************************************************************************)
EXTENDS Access, TLAPS

\* A connection has the settings of the caller it was handed to.
SettingIsTheCallers == setting = holder

\* What is read without asking for a sensitivity has none.
SharedIsInternal ==
    /\ \A x \in shared : x[1].level <= Internal
    /\ \A n \in 1..Months : partition[n] # "open"

Inv == TypeOK /\ SettingIsTheCallers /\ SharedIsInternal /\ ReadsStayInScope

\* Rows a connection may read are of the scope set on it, and cleared.
LEMMA ReadableIsInScope ==
    ASSUME AccessAssumption, Inv, NEW c \in Conn, NEW row \in Readable(c)
    PROVE  /\ setting[c] # NULL
           /\ InScope(setting[c], row)
           /\ Cleared(setting[c], row.level)
<1>1. CASE \E m \in Visible(c) : row = memory[m]
  <2>1. PICK m \in Visible(c) : row = memory[m]
    BY <1>1
  <2>2. MayRead(c, row)
    BY <2>1 DEF Visible
  <2> QED
    BY <2>2 DEF MayRead, SensitivityAllowed, Cleared
<1>2. CASE \E x \in SharedRead(c) : row = x[1]
  <2>1. PICK x \in SharedRead(c) : row = x[1]
    BY <1>2
  <2>2. x \in shared /\ x[2] \in 0..Months /\ x[1].level <= Internal
    BY <2>1 DEF SharedRead, Inv, TypeOK, SharedIsInternal
  <2>3. ~(x[2] # 0 /\ partition[x[2]] = "open")
    BY <2>2 DEF Inv, SharedIsInternal, AccessAssumption
  <2> QED
    BY <2>1, <2>2, <2>3 DEF SharedRead, Cleared
<1> QED
  BY <1>1, <1>2 DEF Readable, VersionsRead, DerivedRead

\* What write_memory and the scoped inserts store.
LEMMA NewRowIsRow ==
    ASSUME AccessAssumption, TypeOK, NEW c \in Conn, setting[c] # NULL,
           NEW k \in Key \cup {NULL}
    PROVE  NewRow(c, k) \in Row /\ NewRow(c, k).level = Internal
<1>1. setting[c] \in Scope
  BY DEF TypeOK, AccessAssumption
<1>2. /\ setting[c].tenant \in Tenant
      /\ setting[c].project \in Project \cup {NULL}
  BY <1>1 DEF Scope
<1>3. Internal \in Level
  BY DEF Internal, Level
<1> QED
  BY <1>2, <1>3 DEF NewRow, Row

\* The end of a transaction keeps what concerns sessions.
LEMMA EndsKeeps ==
    ASSUME Inv, NEW c \in Conn, Ends(c), UNCHANGED until
    PROVE  /\ holder' \in [Conn -> Scopes \cup {NULL}]
           /\ setting' \in [Conn -> Scopes \cup {NULL}]
           /\ seen' \in [Conn -> SUBSET Row]
           /\ setting' = holder'
           /\ ReadsStayInScope'
<1>1. /\ holder' \in [Conn -> Scopes \cup {NULL}]
      /\ setting' \in [Conn -> Scopes \cup {NULL}]
      /\ seen' \in [Conn -> SUBSET Row]
      /\ setting' = holder'
  BY DEF Ends, Inv, TypeOK, SettingIsTheCallers
<1>2. ASSUME NEW d \in Conn, NEW row \in seen'[d]
      PROVE  (/\ holder[d] # NULL
              /\ InScope(holder[d], row)
              /\ Cleared(holder[d], row.level))'
  <2>1. d # c /\ row \in seen[d] /\ holder'[d] = holder[d]
    BY <1>2 DEF Ends, Inv, TypeOK
  <2> QED
    BY <2>1 DEF Inv, ReadsStayInScope, Cleared
<1> QED
  BY <1>1, <1>2 DEF ReadsStayInScope

\* A step that leaves sessions and expiries alone.
LEMMA SessionsStand ==
    ASSUME Inv, UNCHANGED <<holder, setting, seen, until>>
    PROVE  ReadsStayInScope' /\ SettingIsTheCallers'
BY DEF Inv, ReadsStayInScope, SettingIsTheCallers, Cleared

\* The initial states satisfy the invariant.
THEOREM InitInv == ASSUME AccessAssumption PROVE Init => Inv
<1> SUFFICES ASSUME Init PROVE Inv
  OBVIOUS
<1>1. memory \in [Memory -> Row \cup {NULL}]
  BY DEF Init, AccessAssumption
<1>2. versions \in [Memory -> SUBSET Row]
  BY <1>1 DEF Init
<1>3. /\ holder \in [Conn -> Scopes \cup {NULL}]
      /\ setting \in [Conn -> Scopes \cup {NULL}]
      /\ since \in [Conn -> 0..MaxTime]
      /\ until \in [Grant -> 0..MaxTime \cup {NULL}]
      /\ time \in 0..MaxTime
      /\ seen \in [Conn -> SUBSET Row]
  BY DEF Init, AccessAssumption
<1>4. /\ partition \in [1..Months -> {"absent", "open", "secured"}]
      /\ \A n \in 1..Months : partition[n] # "open"
  BY DEF Init
<1>5. TypeOK
  BY <1>1, <1>2, <1>3, <1>4 DEF TypeOK, Init
<1>6. SettingIsTheCallers /\ SharedIsInternal /\ ReadsStayInScope
  BY <1>4 DEF Init, SettingIsTheCallers, SharedIsInternal, ReadsStayInScope
<1> QED
  BY <1>5, <1>6 DEF Inv

\* Handing a connection out: the settings are the new holder's, and nothing
\* has been read yet.
LEMMA ScopedInv ==
    ASSUME AccessAssumption, Inv, NEW c \in Conn, NEW s \in Scopes, Scoped(c, s)
    PROVE  Inv'
<1>1. TypeOK'
  BY DEF Scoped, tables, Inv, TypeOK
<1>2. SettingIsTheCallers'
  BY DEF Scoped, Inv, TypeOK, SettingIsTheCallers
<1>3. SharedIsInternal'
  BY DEF Scoped, tables, Inv, SharedIsInternal
<1>4. ASSUME NEW d \in Conn, NEW row \in seen'[d]
      PROVE  (/\ holder[d] # NULL
              /\ InScope(holder[d], row)
              /\ Cleared(holder[d], row.level))'
  <2>1. row \in seen[d] /\ holder[d] # NULL
    BY <1>4 DEF Scoped, Inv, ReadsStayInScope
  <2>2. d # c /\ holder'[d] = holder[d] /\ until' = until
    BY <2>1 DEF Scoped, Inv, TypeOK
  <2> QED
    BY <2>1, <2>2 DEF Inv, ReadsStayInScope, Cleared
<1> QED
  BY <1>1, <1>2, <1>3, <1>4 DEF Inv, ReadsStayInScope

\* A select adds rows that are in scope for the holder.
LEMMA ReadInv ==
    ASSUME AccessAssumption, Inv, NEW c \in Conn, Read(c)
    PROVE  Inv'
<1>1. \A x \in SharedRead(c) : x[1] \in Row
  BY DEF SharedRead, Inv, TypeOK
<1>2. \A m \in Visible(c) : memory[m] \in Row
  BY DEF Visible, Present, Inv, TypeOK
<1>3. Readable(c) \subseteq Row
  BY <1>1, <1>2 DEF Readable, VersionsRead, DerivedRead
<1>4. TypeOK'
  BY <1>3 DEF Read, session, tables, Inv, TypeOK
<1>5. SettingIsTheCallers' /\ SharedIsInternal'
  BY DEF Read, session, tables, Inv, SettingIsTheCallers, SharedIsInternal
<1>6. ASSUME NEW d \in Conn, NEW row \in seen'[d]
      PROVE  (/\ holder[d] # NULL
              /\ InScope(holder[d], row)
              /\ Cleared(holder[d], row.level))'
  <2>1. holder' = holder /\ until' = until
    BY DEF Read, session
  <2>2. CASE row \in seen[d]
    BY <2>1, <2>2 DEF Inv, ReadsStayInScope, Cleared
  <2>3. CASE row \notin seen[d]
    <3>1. d = c /\ row \in Readable(c)
      BY <2>3, <1>6 DEF Read, Inv, TypeOK
    <3>2. setting[c] # NULL /\ InScope(setting[c], row) /\ Cleared(setting[c], row.level)
      BY <3>1, ReadableIsInScope
    <3> QED
      BY <2>1, <3>1, <3>2 DEF Inv, SettingIsTheCallers, Cleared
  <2> QED
    BY <2>2, <2>3
<1> QED
  BY <1>4, <1>5, <1>6 DEF Inv, ReadsStayInScope

\* Commit or rollback without a write.
LEMMA CloseInv ==
    ASSUME AccessAssumption, Inv, NEW c \in Conn, Close(c)
    PROVE  Inv'
<1>1. Ends(c) /\ UNCHANGED until
  BY DEF Close
<1>2. /\ holder' \in [Conn -> Scopes \cup {NULL}]
      /\ setting' \in [Conn -> Scopes \cup {NULL}]
      /\ seen' \in [Conn -> SUBSET Row]
      /\ setting' = holder'
      /\ ReadsStayInScope'
  BY <1>1, EndsKeeps
<1>3. since' \in [Conn -> 0..MaxTime]
  BY <1>1 DEF Ends, Inv, TypeOK, AccessAssumption
<1>4. TypeOK'
  BY <1>2, <1>3 DEF Close, tables, Inv, TypeOK
<1> QED
  BY <1>2, <1>4 DEF Close, tables, Inv, SettingIsTheCallers, SharedIsInternal

\* write_memory: at most one row closed, one inserted, each with its snapshot.
LEMMA WriteMemoryInv ==
    ASSUME AccessAssumption, Inv, NEW c \in Conn, NEW m \in Memory, NEW k \in Key,
           WriteMemory(c, m, k)
    PROVE  Inv'
<1>1. Ends(c) /\ UNCHANGED <<derived, shared, partition, until, revoked, time>>
  BY DEF WriteMemory
<1>2. /\ holder' \in [Conn -> Scopes \cup {NULL}]
      /\ setting' \in [Conn -> Scopes \cup {NULL}]
      /\ seen' \in [Conn -> SUBSET Row]
      /\ setting' = holder'
      /\ ReadsStayInScope'
  BY <1>1, EndsKeeps
<1>3. since' \in [Conn -> 0..MaxTime]
  BY <1>1 DEF Ends, Inv, TypeOK, AccessAssumption
<1>4. setting[c] # NULL
  BY DEF WriteMemory, MayInsert
<1>5. NewRow(c, k) \in Row
  BY <1>4, NewRowIsRow DEF Inv
<1>6. /\ memory' \in [Memory -> Row \cup {NULL}]
      /\ versions' \in [Memory -> SUBSET Row]
      /\ refused' \subseteq {"seen", "hidden"}
  <2>1. CASE UNCHANGED <<memory, versions>>
             /\ \E r \in {"seen", "hidden"} : refused' = refused \cup {r}
    BY <2>1 DEF Inv, TypeOK
  <2>2. CASE UNCHANGED refused
             /\ \E prior \in SUBSET Visible(c) :
                  /\ memory' = [[o \in Memory |->
                                   IF o \in prior THEN [memory[o] EXCEPT !.open = FALSE]
                                   ELSE memory[o]] EXCEPT ![m] = NewRow(c, k)]
                  /\ versions' = [o \in Memory |->
                        IF o \in prior \cup {m} THEN versions[o] \cup {memory'[o]}
                        ELSE versions[o]]
    <3>1. PICK prior \in SUBSET Visible(c) :
             /\ memory' = [[o \in Memory |->
                              IF o \in prior THEN [memory[o] EXCEPT !.open = FALSE]
                              ELSE memory[o]] EXCEPT ![m] = NewRow(c, k)]
             /\ versions' = [o \in Memory |->
                   IF o \in prior \cup {m} THEN versions[o] \cup {memory'[o]}
                   ELSE versions[o]]
      BY <2>2
    <3>2. \A o \in prior : memory[o] \in Row
      BY DEF Visible, Present, Inv, TypeOK
    <3>3. \A o \in prior : [memory[o] EXCEPT !.open = FALSE] \in Row
      BY <3>2 DEF Row
    <3>4. memory' \in [Memory -> Row \cup {NULL}]
      BY <3>1, <3>3, <1>5 DEF Inv, TypeOK
    <3>5. \A o \in prior \cup {m} : memory'[o] \in Row
      BY <3>1, <3>3, <1>5 DEF Visible, Present
    <3>6. versions' \in [Memory -> SUBSET Row]
      BY <3>1, <3>5 DEF Inv, TypeOK
    <3> QED
      BY <2>2, <3>4, <3>6 DEF Inv, TypeOK
  <2> QED
    BY <2>1, <2>2 DEF WriteMemory
<1>7. TypeOK'
  BY <1>1, <1>2, <1>3, <1>6 DEF Inv, TypeOK
<1> QED
  BY <1>1, <1>2, <1>7 DEF Inv, SettingIsTheCallers, SharedIsInternal

\* A row that hangs off a memory.
LEMMA DeriveInv ==
    ASSUME AccessAssumption, Inv, NEW c \in Conn, NEW m \in Memory, Derive(c, m)
    PROVE  Inv'
<1>1. Ends(c) /\ UNCHANGED until
  BY DEF Derive
<1>2. /\ holder' \in [Conn -> Scopes \cup {NULL}]
      /\ setting' \in [Conn -> Scopes \cup {NULL}]
      /\ seen' \in [Conn -> SUBSET Row]
      /\ setting' = holder'
      /\ ReadsStayInScope'
  BY <1>1, EndsKeeps
<1>3. since' \in [Conn -> 0..MaxTime]
  BY <1>1 DEF Ends, Inv, TypeOK, AccessAssumption
<1>4. TypeOK'
  BY <1>2, <1>3 DEF Derive, Inv, TypeOK
<1> QED
  BY <1>2, <1>4 DEF Derive, Inv, SettingIsTheCallers, SharedIsInternal

\* A row with a project of its own, or an event in a partition.
LEMMA ShareInv ==
    ASSUME AccessAssumption, Inv, NEW c \in Conn, NEW n \in 0..Months, Share(c, n)
    PROVE  Inv'
<1>1. Ends(c) /\ UNCHANGED until
  BY DEF Share
<1>2. /\ holder' \in [Conn -> Scopes \cup {NULL}]
      /\ setting' \in [Conn -> Scopes \cup {NULL}]
      /\ seen' \in [Conn -> SUBSET Row]
      /\ setting' = holder'
      /\ ReadsStayInScope'
  BY <1>1, EndsKeeps
<1>3. since' \in [Conn -> 0..MaxTime]
  BY <1>1 DEF Ends, Inv, TypeOK, AccessAssumption
<1>4. setting[c] # NULL
  BY DEF Share, Inv, SettingIsTheCallers
<1>5. NewRow(c, NULL) \in Row /\ NewRow(c, NULL).level = Internal
  BY <1>4, NewRowIsRow DEF Inv
<1>6. shared' \subseteq Row \X (0..Months)
  BY <1>5 DEF Share, Inv, TypeOK
<1>7. TypeOK'
  BY <1>2, <1>3, <1>6 DEF Share, Inv, TypeOK
<1>8. SharedIsInternal'
  BY <1>5 DEF Share, Inv, SharedIsInternal, Internal
<1> QED
  BY <1>2, <1>7, <1>8 DEF Inv, SettingIsTheCallers

\* The scheduler's partitions and the operators' steps leave sessions alone.
LEMMA OutsideInv ==
    ASSUME AccessAssumption, Inv,
           \/ \E n \in 1..Months : EnsurePartitions(n)
           \/ \E m \in Memory, level \in Levels : Classify(m, level)
           \/ \E g \in Grant, t \in 1..MaxTime : Issue(g, t)
           \/ \E g \in Grant : Revoke(g)
           \/ Tick
    PROVE  Inv'
<1>1. CASE \E n \in 1..Months : EnsurePartitions(n)
  <2>1. TypeOK' /\ SharedIsInternal'
    BY <1>1 DEF EnsurePartitions, session, Inv, TypeOK, SharedIsInternal
  <2> QED
    BY <1>1, <2>1, SessionsStand DEF EnsurePartitions, session, Inv
<1>2. CASE \E m \in Memory, level \in Levels : Classify(m, level)
  <2>1. PICK m \in Memory, level \in Levels : Classify(m, level)
    BY <1>2
  <2>2. memory[m] \in Row /\ level \in Level
    BY <2>1 DEF Classify, Present, Inv, TypeOK, AccessAssumption
  <2>3. [memory[m] EXCEPT !.level = level] \in Row
    BY <2>2 DEF Row
  <2>4. /\ memory' = [memory EXCEPT ![m] = [memory[m] EXCEPT !.level = level]]
        /\ versions' = [versions EXCEPT ![m] = versions[m] \cup {memory'[m]}]
    BY <2>1 DEF Classify
  <2>5. memory' \in [Memory -> Row \cup {NULL}] /\ versions' \in [Memory -> SUBSET Row]
    BY <2>3, <2>4 DEF Inv, TypeOK
  <2>6. TypeOK' /\ SharedIsInternal'
    BY <2>1, <2>5 DEF Classify, session, Inv, TypeOK, SharedIsInternal
  <2> QED
    BY <2>1, <2>6, SessionsStand DEF Classify, session, Inv
<1>3. CASE \E g \in Grant, t \in 1..MaxTime : Issue(g, t)
  <2>1. PICK g \in Grant, t \in 1..MaxTime : Issue(g, t)
    BY <1>3
  <2>2. until' \in [Grant -> 0..MaxTime \cup {NULL}]
    BY <2>1 DEF Issue, Inv, TypeOK, AccessAssumption
  <2>3. TypeOK' /\ SharedIsInternal' /\ SettingIsTheCallers'
    BY <2>1, <2>2 DEF Issue, session, tables, Inv, TypeOK, SharedIsInternal,
                      SettingIsTheCallers
  <2>4. \A h \in Grant : until[h] # NULL => until'[h] = until[h]
    BY <2>1 DEF Issue, Inv, TypeOK
  <2>5. \A s, level : Cleared(s, level) => Cleared(s, level)'
    BY <2>4 DEF Cleared
  <2>6. ReadsStayInScope'
    BY <2>1, <2>5 DEF Issue, session, Inv, ReadsStayInScope
  <2> QED
    BY <2>3, <2>6 DEF Inv
<1>4. CASE Tick
  <2>1. TypeOK' /\ SharedIsInternal'
    BY <1>4 DEF Tick, session, tables, Inv, TypeOK, SharedIsInternal, AccessAssumption
  <2> QED
    BY <1>4, <2>1, SessionsStand DEF Tick, session, Inv
<1>5. CASE \E g \in Grant : Revoke(g)
  <2>1. TypeOK' /\ SharedIsInternal'
    BY <1>5 DEF Revoke, session, tables, Inv, TypeOK, SharedIsInternal
  <2> QED
    BY <1>5, <2>1, SessionsStand DEF Revoke, session, Inv
<1> QED
  BY <1>1, <1>2, <1>3, <1>4, <1>5

\* Every step keeps the invariant.
THEOREM StepInv == ASSUME AccessAssumption PROVE Inv /\ [Next]_vars => Inv'
<1> SUFFICES ASSUME Inv, [Next]_vars PROVE Inv'
  OBVIOUS
<1>1. CASE \E c \in Conn :
            \/ \E s \in Scopes : Scoped(c, s)
            \/ Read(c)
            \/ Close(c)
            \/ \E m \in Memory, k \in Key : WriteMemory(c, m, k)
            \/ \E m \in Memory : Derive(c, m)
            \/ \E n \in 0..Months : Share(c, n)
  BY <1>1, ScopedInv, ReadInv, CloseInv, WriteMemoryInv, DeriveInv, ShareInv
<1>2. CASE UNCHANGED vars
  <2>1. TypeOK' /\ SharedIsInternal'
    BY <1>2 DEF vars, Inv, TypeOK, SharedIsInternal
  <2> QED
    BY <1>2, <2>1, SessionsStand DEF vars, Inv
<1> QED
  BY <1>1, <1>2, OutsideInv DEF Next

\* Values keep to their types.
THEOREM AccessTypeCorrect == ASSUME AccessAssumption PROVE Spec => []TypeOK
<1>1. Init => Inv
  BY InitInv
<1>2. Inv /\ [Next]_vars => Inv'
  BY StepInv
<1>3. Inv => TypeOK
  BY DEF Inv
<1> QED
  BY <1>1, <1>2, <1>3, PTL DEF Spec

\* What a transaction reads, in whatever order requests share the pool, rows
\* are classified, partitions are made and grants are issued, is in the scope
\* of its caller and cleared for it.
THEOREM ReadsAreScoped == ASSUME AccessAssumption PROVE Spec => []ReadsStayInScope
<1>1. Init => Inv
  BY InitInv
<1>2. Inv /\ [Next]_vars => Inv'
  BY StepInv
<1>3. Inv => ReadsStayInScope
  BY DEF Inv
<1> QED
  BY <1>1, <1>2, <1>3, PTL DEF Spec
==============================================================================
