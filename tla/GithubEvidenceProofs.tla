------------------------- MODULE GithubEvidenceProofs -------------------------
(***************************************************************************)
(* For any deliveries, revisions, files, workers and crashes: the evidence *)
(* pipeline implements SidecarProjection, a processed delivery is complete *)
(* and live rows say what their files say; and while syncs do not overlap, *)
(* the live rows are the revision synced last.                             *)
(*                                                                         *)
(* The argument is about what an open sync has written (Projecting): the   *)
(* documents it has passed, each as the last of its key says (Written);    *)
(* and of the other revisions only rows that leave service (OthersRetire), *)
(* because the rows of a revision keep a path of that revision (PathsKept) *)
(* and so are never picked by its own sweep.  Row locks keep the writes of *)
(* two open transactions apart (Disjoint), so what a commit overwrites is  *)
(* what its statements saw; and a delivery has one worker at a time        *)
(* (Exclusive), so it is processed once.  What a sync that runs alone has  *)
(* retired of the others so far is Cleared, the last section.              *)
(***************************************************************************)
EXTENDS GithubEvidence, TLAPS

\* The stages at which a transaction has begun to write.
Syncing == {"upsert", "pick", "supersede", "sweep", "retract", "commit"}

Table == [Id -> Row \cup {NULL}]

RevIn(wd, j) == wd.sent[j.delivery].rev
DocsIn(wd, j) == wd.tree[RevIn(wd, j)]

\* How many documents job j has written.
Applied(wd, j) ==
    IF j.at = "upsert" THEN j.next - 1
    ELSE IF j.at \in {"pick", "supersede"} THEN j.next
    ELSE Len(DocsIn(wd, j))

\* For every document passed, the row of its key says what the last document
\* of that key says so far.
Written(docs, n, rev, mine) ==
    \A m \in 1..n : \E l \in 1..n :
        /\ docs[l].key = docs[m].key
        /\ \A k \in 1..n : docs[k].key = docs[m].key => k <= l
        /\ mine[<<docs[m].key, rev>>] # NULL
        /\ mine[<<docs[m].key, rev>>].state = docs[l].state

OwnAreNamed(docs, n, rev, mine) ==
    \A id \in Id : id[2] = rev /\ mine[id] # NULL =>
        \E m \in 1..n : docs[m].key = id[1]

OthersRetire(rev, mine, rs) ==
    \A id \in Id : id[2] # rev /\ mine[id] # NULL =>
        /\ rs[id] # NULL
        /\ \/ mine[id].state = "retracted"
           \/ mine[id].state = "superseded" /\ rs[id].state \in Live

PathsKept(wd, rs) ==
    \A id \in Id : rs[id] # NULL => rs[id].path \in PathsOf(wd.tree[id[2]])

PickedAreOthers(rev, picked, rs) ==
    \A id \in picked : id[2] # rev /\ rs[id] # NULL

Projecting(wd, rs, j) ==
    /\ j.at \in {"upsert", "pick", "supersede"} => j.next \in 1..Len(DocsIn(wd, j))
    /\ Written(DocsIn(wd, j), Applied(wd, j), RevIn(wd, j), j.mine)
    /\ OwnAreNamed(DocsIn(wd, j), Applied(wd, j), RevIn(wd, j), j.mine)
    /\ OthersRetire(RevIn(wd, j), j.mine, rs)
    /\ PathsKept(wd, j.mine)
    /\ j.at \in {"supersede", "retract"} => PickedAreOthers(RevIn(wd, j), j.picked, rs)

\* What is true of a worker's job.
Sound(wd, rs, ld, j) ==
    /\ j.at = "check" => j.next = 1
    /\ j.at \in Syncing => ld[j.delivery] # "processed"
    /\ RevIn(wd, j) = NULL => j.at \in {"check", "commit", "done", "mark"}
    /\ j.at \notin Syncing \/ RevIn(wd, j) = NULL => j.mine = Nothing
    /\ j.at \in Syncing /\ RevIn(wd, j) # NULL => Projecting(wd, rs, j)

JobsSound == \A w \in Worker : job[w] # NULL => Sound(world, rows, ledger, job[w])

\* A delivery is with one worker, and its job is queued by the handler that
\* made its row.
Exclusive ==
    /\ \A d \in Delivery : ledger[d] = NULL => hand[d] = NULL /\ task[d] = NULL
    /\ \A d \in Delivery : hand[d] = "recorded" => task[d] = NULL
    /\ \A w \in Worker : job[w] # NULL => task[job[w].delivery] = "doing"
    /\ \A w, v \in Worker :
        /\ job[w] # NULL /\ job[v] # NULL
        /\ job[w].delivery = job[v].delivery
        => w = v

Disjoint == \A w, v \in Worker, id \in Id : Holds(w, id) /\ Holds(v, id) => w = v

Inv ==
    /\ TypeOK
    /\ Exclusive
    /\ JobsSound
    /\ Disjoint
    /\ PathsKept(world, rows)
    /\ ProcessedIsComplete
    /\ LiveRowsAreReviewed

\* The initial states satisfy the invariant.
THEOREM InitInv == Init => Inv
<1> SUFFICES ASSUME Init PROVE Inv
  OBVIOUS
<1>1. TypeOK
  <2>1. overlapped \in BOOLEAN
    BY Zenon DEF Init
  <2> QED
    BY <2>1, WorldsAssumption DEF Init, TypeOK, Nothing
<1>2. Exclusive /\ JobsSound /\ Disjoint
  BY NullAssumption DEF Init, Exclusive, JobsSound, Disjoint, Holds
<1>3. PathsKept(world, rows)
  BY DEF Init, PathsKept, Nothing
<1>4. ProcessedIsComplete /\ LiveRowsAreReviewed
  BY NullAssumption DEF Init, ProcessedIsComplete, LiveRowsAreReviewed, IsLive, Nothing
<1> QED
  BY <1>1, <1>2, <1>3, <1>4 DEF Inv
-----------------------------------------------------------------------------
(***************************************************************************)
(* The statements of a sync.                                               *)
(***************************************************************************)
\* The row of a document, written: the document counts as passed.
LEMMA UpsertProjects ==
    ASSUME NEW wd \in World, NEW rs \in Table, NEW j \in Job, NEW k \in Job,
           RevIn(wd, j) \in Revision, j.at = "upsert", Projecting(wd, rs, j),
           NEW new \in Row,
           new.state = DocsIn(wd, j)[j.next].state,
           new.path \in PathsOf(DocsIn(wd, j)),
           k.delivery = j.delivery, k.next = j.next, k.at = "pick",
           k.mine = [id \in Id |-> IF id = <<DocsIn(wd, j)[j.next].key, RevIn(wd, j)>>
                                   THEN new ELSE j.mine[id]]
    PROVE  Projecting(wd, rs, k)
<1> DEFINE docs == DocsIn(wd, j)
           rev == RevIn(wd, j)
           n == j.next
           own == <<docs[n].key, rev>>
<1>1. docs \in Seq(Document) /\ n \in 1..Len(docs)
  BY DEF Projecting, DocsIn, World, Listing
<1>2. /\ RevIn(wd, k) = rev /\ DocsIn(wd, k) = docs
      /\ Applied(wd, j) = n - 1 /\ Applied(wd, k) = n /\ k.next = n
  BY DEF RevIn, DocsIn, Applied
<1>3. /\ Written(docs, n - 1, rev, j.mine) /\ OwnAreNamed(docs, n - 1, rev, j.mine)
      /\ OthersRetire(rev, j.mine, rs) /\ PathsKept(wd, j.mine)
  BY <1>2 DEF Projecting
<1>4. \A m \in 1..Len(docs) : docs[m] \in Document
  BY <1>1
<1>5. own \in Id /\ new # NULL
  BY <1>1, <1>4, NullAssumption DEF Id, Document
<1>6. k.mine[own] = new /\ \A id \in Id \ {own} : k.mine[id] = j.mine[id]
  BY <1>5
<1> HIDE DEF docs, rev, n
<1>7. Written(docs, n, rev, k.mine)
  <2> SUFFICES ASSUME NEW m \in 1..n
               PROVE  \E l \in 1..n :
                        /\ docs[l].key = docs[m].key
                        /\ \A i \in 1..n : docs[i].key = docs[m].key => i <= l
                        /\ k.mine[<<docs[m].key, rev>>] # NULL
                        /\ k.mine[<<docs[m].key, rev>>].state = docs[l].state
    BY DEF Written
  <2>1. CASE docs[m].key = docs[n].key
    <3>1. k.mine[<<docs[m].key, rev>>] = new
      BY <2>1, <1>6
    <3>2. new.state = docs[n].state
      BY DEF docs, n
    <3> QED
      BY <1>1, <1>5, <2>1, <3>1, <3>2
  <2>2. CASE docs[m].key # docs[n].key
    <3>1. m \in 1..n-1
      BY <1>1, <2>2
    <3>2. PICK l \in 1..n-1 :
            /\ docs[l].key = docs[m].key
            /\ \A i \in 1..n-1 : docs[i].key = docs[m].key => i <= l
            /\ j.mine[<<docs[m].key, rev>>] # NULL
            /\ j.mine[<<docs[m].key, rev>>].state = docs[l].state
      BY <1>3, <3>1 DEF Written
    <3>3. <<docs[m].key, rev>> \in Id \ {own}
      <4>1. docs[m] \in Document
        BY <1>1, <1>4
      <4> QED
        BY <4>1, <2>2 DEF Id, Document, rev
    <3>4. \A i \in 1..n : docs[i].key = docs[m].key => i <= l
      BY <1>1, <2>2, <3>2
    <3> QED
      BY <1>1, <1>6, <3>2, <3>3, <3>4
  <2> QED
    BY <2>1, <2>2
<1>8. OwnAreNamed(docs, n, rev, k.mine)
  BY <1>1, <1>3, <1>6 DEF OwnAreNamed
<1>9. OthersRetire(rev, k.mine, rs)
  BY <1>3, <1>6 DEF OthersRetire
<1>10. PathsKept(wd, k.mine)
  BY <1>3, <1>6 DEF PathsKept, docs, rev, DocsIn
<1> QED
  BY <1>1, <1>2, <1>7, <1>8, <1>9, <1>10 DEF Projecting

\* A statement that only picks rows of others.
LEMMA PickProjects ==
    ASSUME NEW wd \in World, NEW rs \in Table, NEW j \in Job, NEW k \in Job,
           Projecting(wd, rs, j),
           \/ j.at = "pick" /\ k.at = "supersede"
           \/ j.at = "sweep" /\ k.at = "retract",
           k.delivery = j.delivery, k.next = j.next, k.mine = j.mine,
           PickedAreOthers(RevIn(wd, j), k.picked, rs)
    PROVE  Projecting(wd, rs, k)
BY DEF Projecting, RevIn, DocsIn, Applied

\* The picked rows, retired.
LEMMA RetireProjects ==
    ASSUME NEW wd \in World, NEW rs \in Table, NEW j \in Job, NEW k \in Job,
           RevIn(wd, j) \in Revision, Projecting(wd, rs, j),
           \/ j.at = "supersede" /\ k.next = j.next + 1
                /\ k.at = AtDocument(DocsIn(wd, j), j.next + 1)
           \/ j.at = "retract" /\ k.next = j.next /\ k.at = "commit",
           k.delivery = j.delivery,
           NEW hit \in SUBSET j.picked, NEW how \in {"superseded", "retracted"},
           \A id \in hit :
               /\ k.mine[id] # NULL /\ k.mine[id].state = how
               /\ how = "superseded" => rs[id].state \in Live
               /\ k.mine[id].path = IF j.mine[id] # NULL THEN j.mine[id].path
                                                         ELSE rs[id].path,
           \A id \in Id \ hit : k.mine[id] = j.mine[id],
           PathsKept(wd, rs)
    PROVE  Projecting(wd, rs, k)
<1> DEFINE docs == DocsIn(wd, j)
           rev == RevIn(wd, j)
           n == Applied(wd, j)
<1>1. docs \in Seq(Document)
  BY DEF DocsIn, World, Listing
<1>2. j.at = "supersede" => j.next \in 1..Len(docs)
  BY DEF Projecting
<1>3. RevIn(wd, k) = rev /\ DocsIn(wd, k) = docs
  BY DEF RevIn, DocsIn
<1>4. Applied(wd, k) = n
  <2>1. CASE j.at = "retract"
    BY <2>1, <1>3 DEF Applied
  <2>2. CASE j.at = "supersede" /\ j.next + 1 <= Len(docs)
    <3>1. k.at = "upsert" /\ k.next = j.next + 1 /\ j.next \in Nat
      BY <1>2, <2>2 DEF AtDocument
    <3> QED
      BY <2>2, <3>1 DEF Applied
  <2>3. CASE j.at = "supersede" /\ ~(j.next + 1 <= Len(docs))
    <3>1. k.at = "sweep" /\ j.next = Len(docs)
      BY <1>1, <1>2, <2>3 DEF AtDocument
    <3> QED
      BY <1>3, <2>3, <3>1 DEF Applied
  <2> QED
    BY <2>1, <2>2, <2>3
<1>5. /\ Written(docs, n, rev, j.mine) /\ OwnAreNamed(docs, n, rev, j.mine)
      /\ OthersRetire(rev, j.mine, rs) /\ PathsKept(wd, j.mine)
      /\ PickedAreOthers(rev, j.picked, rs)
  BY DEF Projecting
<1>6. \A id \in hit : id \in Id /\ id[2] # rev /\ rs[id] # NULL
  BY <1>5 DEF PickedAreOthers, Job
<1>7. \A id \in Id : id[2] = rev => k.mine[id] = j.mine[id]
  BY <1>6
<1>8. /\ k.at \in {"upsert", "pick", "supersede"} => k.next \in 1..Len(docs)
      /\ k.at \notin {"supersede", "retract"}
  BY <1>1, <1>2 DEF AtDocument
<1>9. n <= Len(docs) /\ n \in Nat
  BY <1>1, <1>2 DEF Applied
<1> HIDE DEF docs, rev, n
<1>10. Written(docs, n, rev, k.mine)
  <2>1. \A m \in 1..n : <<docs[m].key, rev>> \in Id
    <3> SUFFICES ASSUME NEW m \in 1..n PROVE <<docs[m].key, rev>> \in Id
      OBVIOUS
    <3>1. docs[m] \in Document
      BY <1>1, <1>9
    <3> QED
      BY <3>1 DEF Document, Id, rev
  <2>2. \A m \in 1..n : k.mine[<<docs[m].key, rev>>] = j.mine[<<docs[m].key, rev>>]
    BY <1>7, <2>1
  <2> QED
    BY <1>5, <2>2 DEF Written
<1>11. OwnAreNamed(docs, n, rev, k.mine)
  BY <1>5, <1>7 DEF OwnAreNamed
<1>12. OthersRetire(rev, k.mine, rs)
  <2> SUFFICES ASSUME NEW id \in Id, id[2] # rev, k.mine[id] # NULL
               PROVE  /\ rs[id] # NULL
                      /\ \/ k.mine[id].state = "retracted"
                         \/ k.mine[id].state = "superseded" /\ rs[id].state \in Live
    BY DEF OthersRetire
  <2>1. CASE id \in hit
    BY <2>1, <1>6
  <2>2. CASE id \notin hit
    BY <2>2, <1>5 DEF OthersRetire
  <2> QED
    BY <2>1, <2>2
<1>13. PathsKept(wd, k.mine)
  <2> SUFFICES ASSUME NEW id \in Id, k.mine[id] # NULL
               PROVE  k.mine[id].path \in PathsOf(wd.tree[id[2]])
    BY DEF PathsKept
  <2>1. CASE id \in hit
    BY <2>1, <1>5, <1>6 DEF PathsKept
  <2>2. CASE id \notin hit
    BY <2>2, <1>5 DEF PathsKept
  <2> QED
    BY <2>1, <2>2
<1> QED
  BY <1>3, <1>4, <1>8, <1>10, <1>11, <1>12, <1>13 DEF Projecting
-----------------------------------------------------------------------------
(***************************************************************************)
(* The steps.  `Sound` is asked of a job with the tables as arguments, so  *)
(* that a step which leaves them alone leaves the other jobs sound.        *)
(***************************************************************************)
\* A step of one worker that stays with its delivery and touches nothing else.
LEMMA LocalStep ==
    ASSUME Inv, NEW w \in Worker, job[w] # NULL, NEW k \in Job,
           k.delivery = job[w].delivery,
           job' = [job EXCEPT ![w] = k],
           UNCHANGED <<world, ledger, ingress, task, rows, artifacts, crashes, synced>>,
           overlapped' \in BOOLEAN,
           Sound(world, rows, ledger, k),
           \A id \in Id : k.mine[id] # NULL =>
                \A v \in Worker \ {w} : ~Holds(v, id)
    PROVE  Inv'
<1>1. /\ job \in [Worker -> Job \cup {NULL}] /\ k # NULL
      /\ job'[w] = k /\ \A v \in Worker \ {w} : job'[v] = job[v]
  BY NullAssumption DEF Inv, TypeOK
<1>2. TypeOK'
  BY <1>1 DEF Inv, TypeOK, ingress
<1>3. Exclusive'
  <2>1. \A v \in Worker :
            /\ job'[v] # NULL <=> job[v] # NULL
            /\ job[v] # NULL => job'[v].delivery = job[v].delivery
    BY <1>1
  <2> QED
    BY <2>1 DEF Inv, Exclusive, ingress
<1>4. JobsSound'
  <2> SUFFICES ASSUME NEW v \in Worker, job'[v] # NULL
               PROVE  Sound(world', rows', ledger', job'[v])
    BY DEF JobsSound
  <2>1. CASE v = w
    BY <2>1, <1>1
  <2>2. CASE v # w
    BY <2>2, <1>1 DEF Inv, JobsSound
  <2> QED
    BY <2>1, <2>2
<1>5. Disjoint'
  BY <1>1 DEF Inv, Disjoint, Holds
<1>6. PathsKept(world, rows)' /\ ProcessedIsComplete' /\ LiveRowsAreReviewed'
  BY DEF Inv, PathsKept, ProcessedIsComplete, LiveRowsAreReviewed, IsLive, LastDoc
<1> QED
  BY <1>2, <1>3, <1>4, <1>5, <1>6 DEF Inv

\* A worker leaves its delivery: finished, failed or dead.
LEMMA EndStep ==
    ASSUME Inv, NEW w \in Worker, job[w] # NULL,
           job' = [job EXCEPT ![w] = NULL],
           \/ task' = task
           \/ task' = [task EXCEPT ![job[w].delivery] = "finished"],
           \/ ledger' = ledger
           \/ ledger' = [ledger EXCEPT ![job[w].delivery] = "failed"],
           UNCHANGED <<world, ingress, rows, artifacts, synced>>,
           crashes' \in 0..MaxCrashes, overlapped' \in BOOLEAN
    PROVE  Inv'
<1>1. /\ job \in [Worker -> Job \cup {NULL}] /\ job[w] \in Job
      /\ job'[w] = NULL /\ \A v \in Worker \ {w} : job'[v] = job[v]
      /\ job[w].delivery \in Delivery
  BY DEF Inv, TypeOK, Job
<1>2. TypeOK'
  BY <1>1 DEF Inv, TypeOK, ingress
<1>3. \A d \in Delivery :
        /\ ledger'[d] = "processed" => ledger[d] = "processed"
        /\ ledger'[d] = NULL => ledger[d] = NULL
        /\ d # job[w].delivery => task'[d] = task[d]
        /\ task[d] = NULL /\ d # job[w].delivery => task'[d] = NULL
  BY <1>1, NullAssumption DEF Inv, TypeOK
<1>4. Exclusive'
  <2>1. \A v \in Worker : job'[v] # NULL =>
            v # w /\ job'[v] = job[v] /\ job[v].delivery # job[w].delivery
                 /\ job[v].delivery \in Delivery
    BY <1>1 DEF Inv, Exclusive, TypeOK, Job
  <2>2. task[job[w].delivery] = "doing"
    BY DEF Inv, Exclusive
  <2>3. ledger[job[w].delivery] # NULL /\ hand[job[w].delivery] # "recorded"
    BY <1>1, <2>2, NullAssumption DEF Inv, Exclusive
  <2> QED
    BY <1>1, <1>3, <2>1, <2>3 DEF Inv, Exclusive, ingress
<1>5. JobsSound'
  <2> SUFFICES ASSUME NEW v \in Worker, job'[v] # NULL
               PROVE  Sound(world', rows', ledger', job'[v])
    BY DEF JobsSound
  <2>1. job'[v] = job[v] /\ job[v] \in Job /\ Sound(world, rows, ledger, job[v])
    BY <1>1 DEF Inv, JobsSound
  <2>2. ledger'[job[v].delivery] = "processed" => ledger[job[v].delivery] = "processed"
    BY <1>3, <2>1 DEF Job
  <2> QED
    BY <2>1, <2>2 DEF Sound
<1>6. Disjoint'
  BY <1>1 DEF Inv, Disjoint, Holds
<1>7. PathsKept(world, rows)' /\ ProcessedIsComplete' /\ LiveRowsAreReviewed'
  BY <1>3 DEF Inv, PathsKept, ProcessedIsComplete, LiveRowsAreReviewed, IsLive, LastDoc
<1> QED
  BY <1>2, <1>4, <1>5, <1>6, <1>7 DEF Inv

\* A step of the webhook or the queue, which writes no assertion and processes
\* nothing.
LEMMA IngressStep ==
    ASSUME Inv, TypeOK', Exclusive',
           UNCHANGED <<world, rows, artifacts>>,
           \A d \in Delivery : ledger'[d] = "processed" => ledger[d] = "processed",
           \A w \in Worker :
                \/ job'[w] = job[w]
                \/ /\ job'[w] # NULL /\ job'[w].at = "check"
                   /\ job'[w].next = 1 /\ job'[w].mine = Nothing
    PROVE  Inv'
<1>1. JobsSound'
  <2> SUFFICES ASSUME NEW v \in Worker, job'[v] # NULL
               PROVE  Sound(world', rows', ledger', job'[v])
    BY DEF JobsSound
  <2>1. CASE job'[v] = job[v]
    <3>1. job[v] \in Job /\ Sound(world, rows, ledger, job[v])
      BY <2>1 DEF Inv, JobsSound, TypeOK
    <3>2. ledger'[job[v].delivery] = "processed" => ledger[job[v].delivery] = "processed"
      BY <3>1 DEF Job
    <3> QED
      BY <2>1, <3>1, <3>2 DEF Sound
  <2>2. CASE /\ job'[v].at = "check" /\ job'[v].next = 1 /\ job'[v].mine = Nothing
    BY <2>2 DEF Sound, Syncing
  <2> QED
    BY <2>1, <2>2
<1>2. Disjoint'
  BY DEF Inv, Disjoint, Holds, Nothing
<1>3. PathsKept(world, rows)' /\ ProcessedIsComplete' /\ LiveRowsAreReviewed'
  BY DEF Inv, PathsKept, ProcessedIsComplete, LiveRowsAreReviewed, IsLive, LastDoc
<1> QED
  BY <1>1, <1>2, <1>3 DEF Inv
-----------------------------------------------------------------------------
(***************************************************************************)
(* The webhook and the queue.                                              *)
(***************************************************************************)
LEMMA IngressInv ==
    ASSUME Inv, NEW d \in Delivery,
           Receive(d) \/ Enqueue(d) \/ EnqueueRaises(d) \/ MarkUnqueued(d)
                \/ ApiCrash(d) \/ Requeue(d)
    PROVE  Inv'
<1>1. /\ UNCHANGED <<world, rows, artifacts, job, synced, overlapped>>
  BY DEF Receive, Enqueue, EnqueueRaises, MarkUnqueued, ApiCrash, Requeue, history
<1>2. /\ TypeOK /\ Exclusive
      /\ ledger \in [Delivery -> {NULL, "queued", "processed", "failed"}]
      /\ hand \in [Delivery -> {NULL, "recorded", "raised"}]
      /\ task \in [Delivery -> {NULL, "todo", "doing", "finished"}]
      /\ \A w \in Worker : job[w] # NULL => job[w].delivery \in Delivery
  BY DEF Inv, TypeOK, Job
<1>3. CASE Receive(d)
  <2>1. TypeOK'
    BY <1>1, <1>2, <1>3 DEF TypeOK, Receive, New, Marks, history
  <2>2. Exclusive'
    BY <1>1, <1>2, <1>3, NullAssumption DEF Exclusive, Receive, New, Marks
  <2>3. \A e \in Delivery : ledger'[e] = "processed" => ledger[e] = "processed"
    BY <1>2, <1>3 DEF Receive, Marks
  <2> QED
    BY <1>1, <2>1, <2>2, <2>3, IngressStep
<1>4. CASE Enqueue(d) \/ EnqueueRaises(d)
  <2>1. /\ hand[d] = "recorded" /\ task[d] = NULL /\ ledger[d] # NULL
        /\ UNCHANGED <<ledger, crashes>>
    BY <1>2, <1>4, NullAssumption DEF Enqueue, EnqueueRaises, Exclusive
  <2>2. TypeOK'
    BY <1>1, <1>2, <1>4 DEF TypeOK, Enqueue, EnqueueRaises
  <2>3. \A w \in Worker : job[w] # NULL => job[w].delivery # d
    BY <1>2, <2>1, NullAssumption DEF Exclusive
  <2>4. /\ hand'[d] # "recorded" /\ \A e \in Delivery \ {d} : hand'[e] = hand[e]
        /\ \A e \in Delivery \ {d} : task'[e] = task[e]
    BY <1>2, <1>4, NullAssumption DEF Enqueue, EnqueueRaises
  <2>5. Exclusive'
    BY <1>1, <1>2, <2>1, <2>3, <2>4 DEF Exclusive
  <2> QED
    BY <1>1, <2>1, <2>2, <2>5, IngressStep
<1>5. CASE MarkUnqueued(d) \/ ApiCrash(d)
  <2>1. /\ hand' = [hand EXCEPT ![d] = NULL] /\ hand[d] # NULL /\ task' = task
        /\ ledger' = ledger \/ ledger' = [ledger EXCEPT ![d] = "failed"]
    BY <1>5, NullAssumption DEF MarkUnqueued, MarksFailed, Marks, ApiCrash
  <2>2. accepted' \subseteq Delivery /\ crashes' \in 0..MaxCrashes
    BY <1>2, <1>5, WorldsAssumption DEF MarkUnqueued, ApiCrash, TypeOK
  <2>3. TypeOK'
    BY <1>1, <1>2, <2>1, <2>2 DEF TypeOK
  <2>4. \A e \in Delivery : /\ ledger'[e] = NULL => ledger[e] = NULL
                            /\ ledger'[e] = "processed" => ledger[e] = "processed"
                            /\ hand'[e] = hand[e] \/ hand'[e] = NULL
    BY <1>2, <2>1, NullAssumption
  <2>5. Exclusive'
    BY <1>1, <1>2, <2>1, <2>4, NullAssumption DEF Exclusive
  <2> QED
    BY <1>1, <2>3, <2>4, <2>5, IngressStep
<1>6. CASE Requeue(d)
  <2>1. TypeOK'
    BY <1>1, <1>2, <1>6 DEF TypeOK, Requeue, ingress
  <2>2. Exclusive'
    BY <1>1, <1>2, <1>6, NullAssumption DEF Exclusive, Requeue, ingress
  <2> QED
    BY <1>1, <1>6, <2>1, <2>2, IngressStep DEF Requeue
<1> QED
  BY <1>3, <1>4, <1>5, <1>6

\* A worker that takes a job starts from nothing.
LEMMA TakeInv ==
    ASSUME Inv, NEW w \in Worker, NEW d \in Delivery, Take(w, d)
    PROVE  Inv'
<1> DEFINE new == [delivery |-> d, at |-> "check", next |-> 1, mine |-> Nothing,
                   picked |-> {}]
<1>1. new \in Job
  BY DEF Job, Nothing
<1>2. /\ job[w] = NULL /\ task[d] = "todo"
      /\ task' = [task EXCEPT ![d] = "doing"] /\ job' = [job EXCEPT ![w] = new]
      /\ UNCHANGED <<world, ledger, accepted, hand, rows, artifacts, crashes, synced,
                     overlapped>>
  BY DEF Take, ingress, history
<1>3. /\ TypeOK /\ Exclusive
      /\ task \in [Delivery -> {NULL, "todo", "doing", "finished"}]
      /\ job \in [Worker -> Job \cup {NULL}]
  BY DEF Inv, TypeOK
<1>4. job'[w] = new /\ new # NULL /\ \A v \in Worker \ {w} : job'[v] = job[v]
  BY <1>1, <1>2, <1>3, NullAssumption
<1>5. TypeOK'
  BY <1>1, <1>2, <1>3 DEF TypeOK
<1>6. \A v \in Worker : job[v] # NULL => job[v].delivery \in Delivery \ {d}
  BY <1>2, <1>3 DEF Exclusive, Job
<1>7. Exclusive'
  BY <1>2, <1>3, <1>4, <1>6, NullAssumption DEF Exclusive
<1> QED
  BY <1>2, <1>4, <1>5, <1>7, IngressStep
-----------------------------------------------------------------------------
(***************************************************************************)
(* The worker.                                                             *)
(***************************************************************************)
\* What is known of a worker's job.
LEMMA JobFacts ==
    ASSUME Inv, NEW w \in Worker, job[w] # NULL
    PROVE  /\ job[w] \in Job /\ job[w].delivery \in Delivery
           /\ world \in World /\ rows \in Table
           /\ RevOf(w) = RevIn(world, job[w]) /\ Docs(w) = DocsIn(world, job[w])
           /\ RevOf(w) \in Revision \cup {NULL}
           /\ Sound(world, rows, ledger, job[w])
           /\ PathsKept(world, rows)
<1>1. job[w] \in Job /\ world \in World /\ rows \in Table
  BY WorldsAssumption DEF Inv, TypeOK, Table
<1>2. job[w].delivery \in Delivery
  BY <1>1 DEF Job
<1>3. RevOf(w) = RevIn(world, job[w]) /\ Docs(w) = DocsIn(world, job[w])
  BY DEF RevOf, Docs, RevIn, DocsIn
<1>4. RevOf(w) \in Revision \cup {NULL}
  BY <1>1, <1>2 DEF RevOf, World, Envelope
<1> QED
  BY <1>1, <1>2, <1>3, <1>4 DEF Inv, JobsSound

\* A job that writes nothing more keeps the rows it holds to itself.
LEMMA HoldsNoMore ==
    ASSUME Inv, NEW w \in Worker, job[w] # NULL, NEW k,
           \A id \in Id : k.mine[id] # NULL => job[w].mine[id] # NULL
    PROVE  \A id \in Id : k.mine[id] # NULL =>
                \A v \in Worker \ {w} : ~Holds(v, id)
BY DEF Inv, Disjoint, Holds

\* The exceptions, the failing reads and the deadlock's victim.
LEMMA FailsInv ==
    ASSUME Inv, NEW w \in Worker, job[w] # NULL, Fails(w)
    PROVE  Inv'
<1> DEFINE k == [job[w] EXCEPT !.at = "mark", !.mine = Nothing, !.picked = {}]
<1>1. job[w] \in Job /\ RevIn(world, job[w]) = RevIn(world, k)
  BY JobFacts DEF RevIn, Job
<1>2. /\ k \in Job /\ k.delivery = job[w].delivery
      /\ k.at = "mark" /\ k.mine = Nothing
  BY <1>1 DEF Job, Nothing
<1>3. job' = [job EXCEPT ![w] = k]
  BY DEF Fails
<1>4. Sound(world, rows, ledger, k)
  BY <1>2 DEF Sound, Syncing
<1>5. \A id \in Id : k.mine[id] = NULL
  BY <1>2 DEF Nothing
<1>6. UNCHANGED <<world, ledger, ingress, task, rows, artifacts, crashes, synced>>
  BY DEF Fails, history
<1>7. overlapped' \in BOOLEAN
  BY DEF Fails, history, Inv, TypeOK
<1> HIDE DEF k
<1> QED
  BY <1>2, <1>3, <1>4, <1>5, <1>6, <1>7, LocalStep

\* Finished, failed or dead.
LEMMA EndInv ==
    ASSUME Inv, NEW w \in Worker, Finish(w) \/ MarkFailed(w) \/ Crash(w)
    PROVE  Inv'
<1>1. CASE Finish(w)
  <2>1. overlapped' \in BOOLEAN /\ crashes' \in 0..MaxCrashes
    BY <1>1 DEF Finish, history, Inv, TypeOK
  <2> QED
    BY <1>1, <2>1, EndStep DEF Finish, At, EndJob, history
<1>2. CASE MarkFailed(w)
  <2>1. overlapped' \in BOOLEAN /\ crashes' \in 0..MaxCrashes
    BY <1>2 DEF MarkFailed, history, Inv, TypeOK
  <2> QED
    BY <1>2, <2>1, EndStep DEF MarkFailed, At, EndJob, MarksFailed, Marks, history
<1>3. CASE Crash(w)
  <2>1. overlapped' \in BOOLEAN /\ crashes' \in 0..MaxCrashes
    BY <1>3, WorldsAssumption DEF Crash, history, Inv, TypeOK
  <2> QED
    BY <1>3, <2>1, EndStep DEF Crash, history
<1> QED
  BY <1>1, <1>2, <1>3

\* A sync begins with the first document, or, with none, with the sweep.
LEMMA CheckInv ==
    ASSUME Inv, NEW w \in Worker, Check(w)
    PROVE  Inv'
<1>1. job[w] # NULL /\ job[w].at = "check"
  BY DEF Check, At
<1>2. /\ job[w] \in Job /\ job[w].delivery \in Delivery
      /\ RevOf(w) = RevIn(world, job[w]) /\ Docs(w) = DocsIn(world, job[w])
      /\ RevOf(w) \in Revision \cup {NULL} /\ world \in World
      /\ Sound(world, rows, ledger, job[w])
  BY <1>1, JobFacts
<1>3. overlapped' \in BOOLEAN
  <2>1. overlapped' = \/ overlapped
                      \/ /\ RevOf(w) # NULL
                         /\ ledger[job[w].delivery] # "processed"
                         /\ \E v \in Worker \ {w} : InSync(v)
    BY DEF Check
  <2> QED
    BY <2>1, Zenon
<1>4. /\ UNCHANGED <<world, ledger, ingress, rows, artifacts, crashes, synced>>
      /\ crashes' \in 0..MaxCrashes
  BY DEF Check, Inv, TypeOK
<1>5. CASE ledger[job[w].delivery] = "processed"
  BY <1>1, <1>3, <1>4, <1>5, EndStep DEF Check, EndJob
<1>6. CASE ledger[job[w].delivery] # "processed"
  <2> DEFINE k == [job[w] EXCEPT !.at = IF RevOf(w) = NULL THEN "commit"
                                        ELSE AtDocument(Docs(w), 1)]
  <2>1. job' = [job EXCEPT ![w] = k] /\ task' = task
    BY <1>6 DEF Check
  <2>2. job[w].next = 1 /\ job[w].mine = Nothing
    BY <1>1, <1>2 DEF Sound, Syncing
  <2>3. /\ k \in Job /\ k.delivery = job[w].delivery /\ k.next = 1 /\ k.mine = Nothing
        /\ k.at = IF RevOf(w) = NULL THEN "commit" ELSE AtDocument(Docs(w), 1)
    BY <1>2, <2>2 DEF Job, AtDocument
  <2>4. RevIn(world, k) = RevOf(w) /\ DocsIn(world, k) = Docs(w)
    BY <1>2, <2>3 DEF RevIn, DocsIn
  <2>5. RevOf(w) # NULL => Docs(w) \in Seq(Document)
    BY <1>2 DEF DocsIn, World, Listing
  <2> HIDE DEF k
  <2>6. \A id \in Id : k.mine[id] = NULL
    BY <2>3 DEF Nothing
  <2>7. RevOf(w) # NULL => Projecting(world, rows, k)
    <3> SUFFICES ASSUME RevOf(w) # NULL PROVE Projecting(world, rows, k)
      OBVIOUS
    <3>1. Applied(world, k) = 0
      BY <2>3, <2>4, <2>5 DEF Applied, AtDocument
    <3> QED
      BY <2>3, <2>4, <2>5, <2>6, <3>1
      DEF Projecting, Written, OwnAreNamed, OthersRetire, PathsKept, AtDocument
  <2>8. Sound(world, rows, ledger, k)
    BY <1>6, <2>3, <2>4, <2>7 DEF Sound, Syncing, AtDocument
  <2> QED
    BY <1>1, <1>3, <1>4, <2>1, <2>3, <2>6, <2>8, LocalStep
<1> QED
  BY <1>5, <1>6

\* A sync whose job is at one of the stages that write.
LEMMA SyncFacts ==
    ASSUME Inv, NEW w \in Worker, job[w] # NULL,
           job[w].at \in {"upsert", "pick", "supersede", "sweep", "retract"}
    PROVE  /\ RevOf(w) \in Revision
           /\ ledger[job[w].delivery] # "processed"
           /\ Projecting(world, rows, job[w])
           /\ Docs(w) \in Seq(Document)
BY JobFacts DEF Sound, Syncing, DocsIn, World, Listing

\* A later stage of the same sync.
LEMMA SyncStep ==
    ASSUME Inv, NEW w \in Worker, job[w] # NULL,
           job[w].at \in {"upsert", "pick", "supersede", "sweep", "retract"},
           NEW k \in Job, k.delivery = job[w].delivery,
           k.at \in {"upsert", "pick", "supersede", "sweep", "retract", "commit"},
           Projecting(world, rows, k),
           job' = [job EXCEPT ![w] = k],
           UNCHANGED <<world, ledger, ingress, task, rows, artifacts, crashes, history>>,
           \A id \in Id : k.mine[id] # NULL =>
                \A v \in Worker \ {w} : ~Holds(v, id)
    PROVE  Inv'
<1>1. RevIn(world, k) = RevOf(w) /\ RevOf(w) # NULL
  BY SyncFacts, NullAssumption DEF RevIn, RevOf
<1>2. Sound(world, rows, ledger, k)
  BY <1>1, SyncFacts DEF Sound, Syncing
<1>3. overlapped' \in BOOLEAN
  BY DEF history, Inv, TypeOK
<1> QED
  BY <1>2, <1>3, LocalStep DEF history

\* Nobody else holds the document's row, so it may be written.
LEMMA UpsertInv ==
    ASSUME Inv, NEW w \in Worker, Upsert(w)
    PROVE  Inv'
<1> DEFINE j == job[w]
           own == DocId(w)
           old == Seen(w, own)
           new == [state |-> Doc(w).state,
                   path |-> IF old = NULL THEN Doc(w).path ELSE old.path]
           k == [j EXCEPT !.mine = [id \in Id |-> IF id = own THEN new ELSE j.mine[id]],
                          !.picked = {}, !.at = "pick"]
<1>1. j # NULL /\ j.at = "upsert" /\ MayLock(w)
  BY DEF Upsert, At
<1>2. /\ j \in Job /\ RevOf(w) = RevIn(world, j) /\ Docs(w) = DocsIn(world, j)
      /\ world \in World /\ rows \in Table /\ PathsKept(world, rows)
  BY <1>1, JobFacts
<1>3. RevOf(w) \in Revision /\ Projecting(world, rows, j) /\ Docs(w) \in Seq(Document)
  BY <1>1, SyncFacts
<1>4. j.next \in 1..Len(Docs(w))
  BY <1>1, <1>2, <1>3 DEF Projecting
<1>5. Doc(w) = Docs(w)[j.next] /\ Doc(w) \in Document
  BY <1>3, <1>4 DEF Doc
<1>6. own = <<Docs(w)[j.next].key, RevOf(w)>> /\ own \in Id
  BY <1>3, <1>5 DEF DocId, Id, Document
<1>7. old \in Row \cup {NULL} /\ (old # NULL => old.path \in PathsOf(Docs(w)))
  <2>1. j.mine[own] \in Row \cup {NULL} /\ rows[own] \in Row \cup {NULL}
    BY <1>2, <1>6 DEF Job, Table
  <2>2. j.mine[own] # NULL => j.mine[own].path \in PathsOf(world.tree[own[2]])
    BY <1>3, <1>6 DEF Projecting, PathsKept
  <2>3. rows[own] # NULL => rows[own].path \in PathsOf(world.tree[own[2]])
    BY <1>2, <1>6 DEF PathsKept
  <2>4. Docs(w) = world.tree[own[2]]
    BY <1>6 DEF Docs
  <2> QED
    BY <2>1, <2>2, <2>3, <2>4 DEF Seen
<1>8. Doc(w).path \in PathsOf(Docs(w))
  BY <1>4, <1>5 DEF PathsOf
<1>9. new \in Row /\ new.state = Docs(w)[j.next].state /\ new.path \in PathsOf(Docs(w))
  BY <1>5, <1>7, <1>8 DEF Row, Document, Reviewed
<1>10. job' = [job EXCEPT ![w] = k]
  <2>1. job' = [job EXCEPT ![w] =
                   [Wrote(w, {own}, LAMBDA id : new) EXCEPT !.at = "pick"]]
    BY DEF Upsert
  <2>2. Wrote(w, {own}, LAMBDA id : new) =
            [j EXCEPT !.mine = [id \in Id |-> IF id \in {own} THEN new ELSE j.mine[id]],
                      !.picked = {}]
    BY DEF Wrote
  <2> QED
    BY <2>1, <2>2
<1>11. /\ k \in Job /\ k.delivery = j.delivery /\ k.next = j.next /\ k.at = "pick"
       /\ k.mine = [id \in Id |-> IF id = own THEN new ELSE j.mine[id]]
  BY <1>2, <1>9 DEF Job
<1>12. UNCHANGED <<world, ledger, ingress, task, rows, artifacts, crashes, history>>
  BY DEF Upsert
<1> HIDE DEF j, own, old, new, k
<1>13. Projecting(world, rows, k)
  BY <1>1, <1>2, <1>3, <1>6, <1>9, <1>11, UpsertProjects
<1>14. \A v \in Worker \ {w} : ~Holds(v, own)
  BY <1>1 DEF MayLock, Wants, At, j, own
<1>15. \A id \in Id : k.mine[id] # NULL => \A v \in Worker \ {w} : ~Holds(v, id)
  BY <1>1, <1>11, <1>14 DEF Inv, Disjoint, Holds, j
<1> QED
  BY <1>1, <1>10, <1>11, <1>12, <1>13, <1>15, SyncStep DEF j

\* The picked rows of a key are of other revisions: the one of its own is left out.
LEMMA PickOthersInv ==
    ASSUME Inv, NEW w \in Worker, PickOthers(w)
    PROVE  Inv'
<1> DEFINE j == job[w]
           others == {id \in Id : id[1] = Doc(w).key /\ id # DocId(w) /\ LiveTo(w, id)}
           k == [j EXCEPT !.at = "supersede", !.picked = others]
<1>1. j # NULL /\ j.at = "pick"
  BY DEF PickOthers, At
<1>2. /\ j \in Job /\ RevOf(w) = RevIn(world, j) /\ Docs(w) = DocsIn(world, j)
      /\ world \in World /\ rows \in Table
  BY <1>1, JobFacts
<1>3. Projecting(world, rows, j)
  BY <1>1, SyncFacts
<1>4. /\ k \in Job /\ k.delivery = j.delivery /\ k.next = j.next /\ k.at = "supersede"
      /\ k.mine = j.mine /\ k.picked = others
  BY <1>2 DEF Job
<1>5. PickedAreOthers(RevIn(world, j), others, rows)
  <2> SUFFICES ASSUME NEW id \in others PROVE id[2] # RevOf(w) /\ rows[id] # NULL
    BY <1>2 DEF PickedAreOthers
  <2>1. id \in Id /\ id[1] = Doc(w).key /\ id # <<Doc(w).key, RevOf(w)>> /\ Seen(w, id) # NULL
    BY DEF DocId, LiveTo
  <2>2. id[2] # RevOf(w)
    BY <2>1 DEF Id
  <2>3. OthersRetire(RevOf(w), j.mine, rows)
    BY <1>2, <1>3 DEF Projecting
  <2> QED
    BY <2>1, <2>2, <2>3 DEF OthersRetire, Seen
<1>6. job' = [job EXCEPT ![w] = k]
  BY DEF PickOthers
<1>7. UNCHANGED <<world, ledger, ingress, task, rows, artifacts, crashes, history>>
  BY DEF PickOthers
<1> HIDE DEF k, others
<1>8. Projecting(world, rows, k)
  BY <1>1, <1>2, <1>3, <1>4, <1>5, PickProjects
<1>9. \A id \in Id : k.mine[id] # NULL => \A v \in Worker \ {w} : ~Holds(v, id)
  BY <1>1, <1>4, HoldsNoMore
<1> QED
  BY <1>1, <1>4, <1>6, <1>7, <1>8, <1>9, SyncStep

\* Nor does the sweep pick its own revision, whose rows keep paths of its tree.
LEMMA SweepInv ==
    ASSUME Inv, NEW w \in Worker, Sweep(w)
    PROVE  Inv'
<1> DEFINE j == job[w]
           gone == {id \in Id : LiveTo(w, id) /\ Seen(w, id).path \notin PathsOf(Docs(w))}
           k == [j EXCEPT !.at = "retract", !.picked = gone]
<1>1. j # NULL /\ j.at = "sweep"
  BY DEF Sweep, At
<1>2. /\ j \in Job /\ RevOf(w) = RevIn(world, j) /\ Docs(w) = DocsIn(world, j)
      /\ world \in World /\ rows \in Table /\ PathsKept(world, rows)
  BY <1>1, JobFacts
<1>3. Projecting(world, rows, j)
  BY <1>1, SyncFacts
<1>4. /\ k \in Job /\ k.delivery = j.delivery /\ k.next = j.next /\ k.at = "retract"
      /\ k.mine = j.mine /\ k.picked = gone
  BY <1>2 DEF Job
<1>5. PickedAreOthers(RevIn(world, j), gone, rows)
  <2> SUFFICES ASSUME NEW id \in gone PROVE id[2] # RevOf(w) /\ rows[id] # NULL
    BY <1>2 DEF PickedAreOthers
  <2>1. id \in Id /\ Seen(w, id) # NULL /\ Seen(w, id).path \notin PathsOf(Docs(w))
    BY DEF LiveTo
  <2>2. OthersRetire(RevOf(w), j.mine, rows) /\ PathsKept(world, j.mine)
    BY <1>2, <1>3 DEF Projecting
  <2>3. Seen(w, id).path \in PathsOf(world.tree[id[2]])
    BY <1>2, <2>1, <2>2 DEF PathsKept, Seen
  <2>4. id[2] # RevOf(w)
    BY <2>1, <2>3 DEF Docs
  <2> QED
    BY <2>1, <2>2, <2>4 DEF OthersRetire, Seen
<1>6. job' = [job EXCEPT ![w] = k]
  BY DEF Sweep
<1>7. UNCHANGED <<world, ledger, ingress, task, rows, artifacts, crashes, history>>
  BY DEF Sweep
<1> HIDE DEF k, gone
<1>8. Projecting(world, rows, k)
  BY <1>1, <1>2, <1>3, <1>4, <1>5, PickProjects
<1>9. \A id \in Id : k.mine[id] # NULL => \A v \in Worker \ {w} : ~Holds(v, id)
  BY <1>1, <1>4, HoldsNoMore
<1> QED
  BY <1>1, <1>4, <1>6, <1>7, <1>8, <1>9, SyncStep

\* Of the picked rows those still live are superseded.
LEMMA SupersedeInv ==
    ASSUME Inv, NEW w \in Worker, Supersede(w)
    PROVE  Inv'
<1> DEFINE j == job[w]
           hit == {id \in j.picked : LiveTo(w, id)}
           Old(id) == [Seen(w, id) EXCEPT !.state = "superseded"]
           k == [j EXCEPT !.mine = [id \in Id |-> IF id \in hit THEN Old(id) ELSE j.mine[id]],
                          !.picked = {}, !.next = j.next + 1,
                          !.at = AtDocument(Docs(w), j.next + 1)]
<1>1. j # NULL /\ j.at = "supersede" /\ MayLock(w)
  BY DEF Supersede, At
<1>2. /\ j \in Job /\ RevOf(w) = RevIn(world, j) /\ Docs(w) = DocsIn(world, j)
      /\ world \in World /\ rows \in Table /\ PathsKept(world, rows)
  BY <1>1, JobFacts
<1>3. RevOf(w) \in Revision /\ Projecting(world, rows, j)
  BY <1>1, SyncFacts
<1>4. hit \subseteq Id /\ hit \subseteq j.picked /\ j.next \in Nat
  BY <1>2 DEF Job
<1>5. \A id \in hit : /\ Seen(w, id) \in Row
                      /\ id[2] # RevOf(w) /\ rows[id] # NULL
                      /\ Seen(w, id).state \in Live
  BY <1>1, <1>2, <1>3, <1>4 DEF LiveTo, Seen, Job, Table, Projecting, PickedAreOthers
<1>6. \A id \in hit : rows[id].state \in Live
  <2> SUFFICES ASSUME NEW id \in hit PROVE rows[id].state \in Live
    OBVIOUS
  <2>1. CASE j.mine[id] = NULL
    BY <2>1, <1>5 DEF Seen
  <2>2. CASE j.mine[id] # NULL
    <3>1. j.mine[id].state \in {"superseded", "retracted"}
      BY <1>2, <1>3, <1>4, <1>5, <2>2 DEF Projecting, OthersRetire
    <3>2. j.mine[id].state \in Live
      BY <1>5, <2>2 DEF Seen
    <3> QED
      BY <3>1, <3>2 DEF Live
  <2> QED
    BY <2>1, <2>2
<1>7. \A id \in hit : /\ Old(id) \in Row /\ Old(id).state = "superseded"
                      /\ Old(id).path = Seen(w, id).path
  BY <1>5 DEF Row
<1>8. job' = [job EXCEPT ![w] = k]
  <2>1. job' = [job EXCEPT ![w] =
                   [Wrote(w, hit, Old) EXCEPT !.next = @ + 1,
                                              !.at = AtDocument(Docs(w), j.next + 1)]]
    BY DEF Supersede
  <2>2. Wrote(w, hit, Old) =
            [j EXCEPT !.mine = [id \in Id |-> IF id \in hit THEN Old(id) ELSE j.mine[id]],
                      !.picked = {}]
    BY DEF Wrote
  <2>3. Wrote(w, hit, Old).next = j.next
    BY <1>2, <2>2 DEF Job
  <2> HIDE DEF hit, Old
  <2> QED
    BY <2>1, <2>2, <2>3
<1>9. /\ k \in Job /\ k.delivery = j.delivery /\ k.next = j.next + 1
      /\ k.at = AtDocument(Docs(w), j.next + 1) /\ k.picked = {}
      /\ k.mine = [id \in Id |-> IF id \in hit THEN Old(id) ELSE j.mine[id]]
  <2> DEFINE mine == [id \in Id |-> IF id \in hit THEN Old(id) ELSE j.mine[id]]
             at == AtDocument(Docs(w), j.next + 1)
  <2>1. mine \in [Id -> Row \cup {NULL}]
    BY <1>2, <1>4, <1>7 DEF Job
  <2>2. at \in {"upsert", "sweep"} /\ j.next + 1 \in Nat
    BY <1>4 DEF AtDocument
  <2> HIDE DEF mine, at, hit, Old
  <2>3. k = [j EXCEPT !.mine = mine, !.picked = {}, !.next = j.next + 1, !.at = at]
    BY DEF mine, at
  <2>4. [j EXCEPT !.mine = mine, !.picked = {}, !.next = j.next + 1, !.at = at] \in Job
    BY <1>2, <2>1, <2>2 DEF Job
  <2> HIDE DEF k
  <2>5. /\ k.delivery = j.delivery /\ k.next = j.next + 1 /\ k.at = at /\ k.picked = {}
        /\ k.mine = mine
    BY <1>2, <2>3 DEF Job
  <2> QED
    BY <2>3, <2>4, <2>5 DEF mine, at
<1>10. UNCHANGED <<world, ledger, ingress, task, rows, artifacts, crashes, history>>
  BY DEF Supersede
<1>11. \A id \in hit : k.mine[id] = Old(id) /\ k.mine[id] # NULL
  BY <1>4, <1>7, <1>9, NullAssumption
<1>12. \A id \in Id \ hit : k.mine[id] = j.mine[id]
  BY <1>9
<1>13. \A id \in hit : \A v \in Worker \ {w} : ~Holds(v, id)
  BY <1>1, <1>4 DEF MayLock, Wants, At
<1> HIDE DEF hit, k
<1>14. Projecting(world, rows, k)
  <2>1. \A id \in hit :
            /\ k.mine[id] # NULL /\ k.mine[id].state = "superseded"
            /\ rows[id].state \in Live
            /\ k.mine[id].path = IF j.mine[id] # NULL THEN j.mine[id].path ELSE rows[id].path
    BY <1>6, <1>7, <1>11 DEF Seen
  <2> HIDE DEF Old
  <2> QED
    BY <1>1, <1>2, <1>3, <1>4, <1>9, <1>12, <2>1, RetireProjects
<1>15. \A id \in Id : k.mine[id] # NULL => \A v \in Worker \ {w} : ~Holds(v, id)
  BY <1>1, <1>12, <1>13 DEF Inv, Disjoint, Holds
<1> QED
  BY <1>1, <1>8, <1>9, <1>10, <1>14, <1>15, SyncStep DEF AtDocument

\* The picked rows are retracted whatever their state has become.
LEMMA RetractInv ==
    ASSUME Inv, NEW w \in Worker, Retract(w)
    PROVE  Inv'
<1> DEFINE j == job[w]
           hit == j.picked
           Old(id) == [Seen(w, id) EXCEPT !.state = "retracted"]
           k == [j EXCEPT !.mine = [id \in Id |-> IF id \in hit THEN Old(id) ELSE j.mine[id]],
                          !.picked = {}, !.at = "commit"]
<1>1. j # NULL /\ j.at = "retract" /\ MayLock(w)
  BY DEF Retract, At
<1>2. /\ j \in Job /\ RevOf(w) = RevIn(world, j) /\ Docs(w) = DocsIn(world, j)
      /\ world \in World /\ rows \in Table /\ PathsKept(world, rows)
  BY <1>1, JobFacts
<1>3. RevOf(w) \in Revision /\ Projecting(world, rows, j)
  BY <1>1, SyncFacts
<1>4. hit \subseteq Id
  BY <1>2 DEF Job
<1>5. \A id \in hit : Seen(w, id) \in Row
  BY <1>1, <1>2, <1>3, <1>4 DEF Seen, Job, Table, Projecting, PickedAreOthers
<1>6. \A id \in hit : /\ Old(id) \in Row /\ Old(id).state = "retracted"
                      /\ Old(id).path = Seen(w, id).path
  BY <1>5 DEF Row, Reviewed
<1>7. job' = [job EXCEPT ![w] = k]
  <2>1. job' = [job EXCEPT ![w] = [Wrote(w, hit, Old) EXCEPT !.at = "commit"]]
    BY DEF Retract
  <2>2. Wrote(w, hit, Old) =
            [j EXCEPT !.mine = [id \in Id |-> IF id \in hit THEN Old(id) ELSE j.mine[id]],
                      !.picked = {}]
    BY DEF Wrote
  <2> HIDE DEF hit, Old
  <2> QED
    BY <2>1, <2>2
<1>8. /\ k \in Job /\ k.delivery = j.delivery /\ k.next = j.next /\ k.at = "commit"
      /\ k.mine = [id \in Id |-> IF id \in hit THEN Old(id) ELSE j.mine[id]]
  BY <1>2, <1>4, <1>6 DEF Job
<1>9. UNCHANGED <<world, ledger, ingress, task, rows, artifacts, crashes, history>>
  BY DEF Retract
<1>10. \A id \in hit : k.mine[id] = Old(id) /\ k.mine[id] # NULL
  BY <1>4, <1>6, <1>8, NullAssumption
<1>11. \A id \in Id \ hit : k.mine[id] = j.mine[id]
  BY <1>8
<1>12. \A id \in hit : \A v \in Worker \ {w} : ~Holds(v, id)
  BY <1>1, <1>4 DEF MayLock, Wants, At
<1> HIDE DEF k
<1>13. Projecting(world, rows, k)
  <2>1. \A id \in hit :
            /\ k.mine[id] # NULL /\ k.mine[id].state = "retracted"
            /\ k.mine[id].path = IF j.mine[id] # NULL THEN j.mine[id].path ELSE rows[id].path
    BY <1>6, <1>10 DEF Seen
  <2> HIDE DEF Old
  <2> QED
    BY <1>1, <1>2, <1>3, <1>8, <1>11, <2>1, RetireProjects
<1>14. \A id \in Id : k.mine[id] # NULL => \A v \in Worker \ {w} : ~Holds(v, id)
  BY <1>1, <1>11, <1>12 DEF Inv, Disjoint, Holds
<1> QED
  BY <1>1, <1>7, <1>8, <1>9, <1>13, <1>14, SyncStep
-----------------------------------------------------------------------------
(***************************************************************************)
(* The commit.                                                             *)
(***************************************************************************)
\* What a commit leaves: of its own revision the last word on every key, of
\* the others what was there or a row retired.
LEMMA CommitEffect ==
    ASSUME Inv, NEW w \in Worker, Commit(w)
    PROVE  /\ job[w] # NULL /\ ledger[job[w].delivery] # "processed"
           /\ rows' \in Table
           /\ \A id \in Id : rows[id] # NULL => rows'[id] # NULL
           /\ \A id \in Id : job[w].mine[id] = NULL => rows'[id] = rows[id]
           /\ RevOf(w) = NULL => rows' = rows
           /\ RevOf(w) # NULL =>
                /\ Docs(w) \in Seq(Document)
                /\ \A n \in 1..Len(Docs(w)) :
                    LET id == <<Docs(w)[n].key, RevOf(w)>>
                    IN  /\ id \in Id /\ rows'[id] # NULL
                        /\ \E l \in LastDoc(Docs(w), id[1]) :
                                rows'[id].state = Docs(w)[l].state
                /\ \A id \in Id :
                    \/ rows'[id] = rows[id]
                    \/ id[2] = RevOf(w) /\ \E n \in 1..Len(Docs(w)) : Docs(w)[n].key = id[1]
                    \/ /\ rows[id] # NULL /\ rows'[id] # NULL
                       /\ \/ rows'[id].state = "retracted"
                          \/ rows'[id].state = "superseded" /\ rows[id].state \in Live
<1> DEFINE j == job[w]
           rev == RevOf(w)
           docs == Docs(w)
<1>1. j # NULL /\ j.at = "commit" /\ rows' = [id \in Id |-> Seen(w, id)]
  BY DEF Commit, At
<1>2. /\ j \in Job /\ rev = RevIn(world, j) /\ docs = DocsIn(world, j)
      /\ rev \in Revision \cup {NULL} /\ world \in World /\ rows \in Table
      /\ Sound(world, rows, ledger, j)
  BY <1>1, JobFacts
<1>3. ledger[j.delivery] # "processed"
  BY <1>1, <1>2 DEF Sound, Syncing
<1>4. /\ rows' \in Table
      /\ \A id \in Id : rows[id] # NULL => rows'[id] # NULL
      /\ \A id \in Id : j.mine[id] = NULL => rows'[id] = rows[id]
  BY <1>1, <1>2 DEF Seen, Table, Job
<1>5. ASSUME rev = NULL PROVE rows' = rows
  <2>1. \A id \in Id : j.mine[id] = NULL
    BY <1>2, <1>5 DEF Sound, Nothing
  <2> QED
    BY <1>2, <1>4, <2>1 DEF Table
<1>6. ASSUME rev # NULL
      PROVE  /\ docs \in Seq(Document)
             /\ \A n \in 1..Len(docs) :
                    LET id == <<docs[n].key, rev>>
                    IN  /\ id \in Id /\ rows'[id] # NULL
                        /\ \E l \in LastDoc(docs, id[1]) : rows'[id].state = docs[l].state
             /\ \A id \in Id :
                    \/ rows'[id] = rows[id]
                    \/ id[2] = rev /\ \E n \in 1..Len(docs) : docs[n].key = id[1]
                    \/ /\ rows[id] # NULL /\ rows'[id] # NULL
                       /\ \/ rows'[id].state = "retracted"
                          \/ rows'[id].state = "superseded" /\ rows[id].state \in Live
  <2>1. docs \in Seq(Document) /\ rev \in Revision
    BY <1>2, <1>6 DEF DocsIn, World, Listing
  <2>2. /\ Written(docs, Len(docs), rev, j.mine) /\ OwnAreNamed(docs, Len(docs), rev, j.mine)
        /\ OthersRetire(rev, j.mine, rows)
    BY <1>1, <1>2, <1>6 DEF Sound, Syncing, Projecting, Applied
  <2> HIDE DEF docs, rev, j
  <2>3. ASSUME NEW n \in 1..Len(docs)
        PROVE  LET id == <<docs[n].key, rev>>
               IN  /\ id \in Id /\ rows'[id] # NULL
                   /\ \E l \in LastDoc(docs, id[1]) : rows'[id].state = docs[l].state
    <3> DEFINE id == <<docs[n].key, rev>>
    <3>1. docs[n] \in Document
      BY <2>1
    <3>2. id \in Id /\ id[1] = docs[n].key
      BY <2>1, <3>1 DEF Id, Document
    <3>3. PICK l \in 1..Len(docs) :
            /\ docs[l].key = docs[n].key
            /\ \A k \in 1..Len(docs) : docs[k].key = docs[n].key => k <= l
            /\ j.mine[id] # NULL
            /\ j.mine[id].state = docs[l].state
      BY <2>2 DEF Written
    <3>4. rows'[id] = j.mine[id]
      BY <1>1, <3>2, <3>3 DEF Seen, j
    <3>5. l \in LastDoc(docs, id[1])
      BY <3>2, <3>3 DEF LastDoc
    <3> QED
      BY <3>2, <3>3, <3>4, <3>5
  <2>4. ASSUME NEW id \in Id
        PROVE  \/ rows'[id] = rows[id]
               \/ id[2] = rev /\ \E n \in 1..Len(docs) : docs[n].key = id[1]
               \/ /\ rows[id] # NULL /\ rows'[id] # NULL
                  /\ \/ rows'[id].state = "retracted"
                     \/ rows'[id].state = "superseded" /\ rows[id].state \in Live
    <3>1. j.mine[id] = NULL \/ rows'[id] = j.mine[id]
      BY <1>1 DEF Seen, j
    <3>2. CASE j.mine[id] = NULL
      BY <3>2, <1>4
    <3>3. CASE j.mine[id] # NULL /\ id[2] = rev
      BY <3>3, <2>2 DEF OwnAreNamed
    <3>4. CASE j.mine[id] # NULL /\ id[2] # rev
      BY <3>1, <3>4, <2>2 DEF OthersRetire
    <3> QED
      BY <3>2, <3>3, <3>4
  <2> QED
    BY <2>1, <2>3, <2>4
<1> QED
  BY <1>1, <1>3, <1>4, <1>5, <1>6

\* What a commit shows is reviewed and complete, and leaves the other jobs sound.
LEMMA CommitInv ==
    ASSUME Inv, NEW w \in Worker, Commit(w)
    PROVE  Inv'
<1> DEFINE j == job[w]
           d == j.delivery
           k == [j EXCEPT !.at = "done", !.mine = Nothing]
<1>1. /\ j # NULL /\ j \in Job /\ d \in Delivery /\ world \in World
      /\ RevOf(w) \in Revision \cup {NULL} /\ rows \in Table
      /\ Sound(world, rows, ledger, j) /\ PathsKept(world, rows)
      /\ RevOf(w) = RevIn(world, j)
  BY JobFacts DEF Commit, At
<1>2. /\ artifacts' = artifacts \cup {d}
      /\ ledger' = [ledger EXCEPT ![d] = "processed"]
      /\ synced' = IF RevOf(w) = NULL THEN synced ELSE RevOf(w)
      /\ job' = [job EXCEPT ![w] = k]
      /\ UNCHANGED <<world, accepted, hand, task, crashes, overlapped>>
      /\ rows' = [id \in Id |-> Seen(w, id)]
  BY DEF Commit, Provenance, Marks, ingress
<1>3. /\ TypeOK /\ Exclusive /\ JobsSound /\ Disjoint
      /\ ProcessedIsComplete /\ LiveRowsAreReviewed
      /\ job \in [Worker -> Job \cup {NULL}]
      /\ ledger \in [Delivery -> {NULL, "queued", "processed", "failed"}]
  BY DEF Inv, TypeOK
<1>4. k \in Job /\ k.at = "done" /\ k.mine = Nothing /\ k.next = j.next /\ k.delivery = d
  BY <1>1 DEF Job, Nothing
<1>5. /\ job'[w] = k /\ k # NULL /\ \A v \in Worker \ {w} : job'[v] = job[v]
      /\ ledger'[d] = "processed" /\ \A e \in Delivery \ {d} : ledger'[e] = ledger[e]
  BY <1>1, <1>2, <1>3, <1>4, NullAssumption
<1> HIDE DEF k
<1>6. /\ rows' \in Table
      /\ \A id \in Id : rows[id] # NULL => rows'[id] # NULL
      /\ \A id \in Id : j.mine[id] = NULL => rows'[id] = rows[id]
      /\ RevOf(w) = NULL => rows' = rows
  BY CommitEffect
<1>7. TypeOK'
  <2>1. ledger' \in [Delivery -> {NULL, "queued", "processed", "failed"}]
    BY <1>2, <1>3
  <2>2. job' \in [Worker -> Job \cup {NULL}] /\ artifacts' \subseteq Delivery
    BY <1>1, <1>2, <1>3, <1>4 DEF TypeOK
  <2> HIDE DEF j, d
  <2> QED
    BY <1>1, <1>2, <1>3, <1>6, <2>1, <2>2 DEF TypeOK, Table
<1>8. Exclusive'
  BY <1>1, <1>2, <1>3, <1>4, <1>5, NullAssumption DEF Exclusive
<1>9. JobsSound'
  <2> SUFFICES ASSUME NEW v \in Worker, job'[v] # NULL
               PROVE  Sound(world, rows', ledger', job'[v])
    BY <1>2 DEF JobsSound
  <2>1. CASE v = w
    <3>1. RevIn(world, k) = RevIn(world, j)
      BY <1>4 DEF RevIn
    <3> QED
      BY <1>4, <1>5, <2>1 DEF Sound, Syncing
  <2>2. CASE v # w
    <3> DEFINE i == job[v]
    <3>1. job'[v] = i /\ i # NULL /\ i \in Job /\ Sound(world, rows, ledger, i)
      BY <1>3, <1>5, <2>2 DEF JobsSound
    <3>2. i.delivery # d /\ i.delivery \in Delivery
      BY <1>1, <1>3, <2>2, <3>1 DEF Exclusive, Job
    <3>3. ledger'[i.delivery] = ledger[i.delivery]
      BY <1>5, <3>2
    <3>4. \A id \in Id : i.mine[id] # NULL => j.mine[id] = NULL
      BY <1>1, <1>3, <2>2, <3>1 DEF Disjoint, Holds
    <3>5. i.picked \subseteq Id
      BY <3>1 DEF Job
    <3> HIDE DEF i, j
    <3>6. Projecting(world, rows, i) => Projecting(world, rows', i)
      BY <1>6, <3>4, <3>5 DEF Projecting, OthersRetire, PickedAreOthers
    <3> QED
      BY <3>1, <3>3, <3>6 DEF Sound
  <2> QED
    BY <2>1, <2>2
<1>10. Disjoint'
  BY <1>3, <1>4, <1>5 DEF Disjoint, Holds, Nothing
<1>11. PathsKept(world, rows)'
  <2> SUFFICES ASSUME NEW id \in Id, rows'[id] # NULL
               PROVE  rows'[id].path \in PathsOf(world.tree[id[2]])
    BY <1>2 DEF PathsKept, PathsOf
  <2>1. CASE j.mine[id] = NULL
    BY <1>1, <1>6, <2>1 DEF PathsKept
  <2>2. CASE j.mine[id] # NULL
    <3>1. rows'[id] = j.mine[id]
      BY <1>2, <2>2 DEF Seen
    <3>2. PathsKept(world, j.mine)
      <4>1. j.mine # Nothing
        BY <2>2 DEF Nothing
      <4> QED
        BY <1>1, <4>1 DEF Sound, Projecting
    <3> QED
      BY <2>2, <3>1, <3>2 DEF PathsKept
  <2> QED
    BY <2>1, <2>2
<1>12. ProcessedIsComplete'
  <2> SUFFICES ASSUME NEW e \in Delivery, ledger'[e] = "processed",
                      NEW rev, rev = world.sent[e].rev
               PROVE  /\ e \in artifacts'
                      /\ rev # NULL => \A n \in 1..Len(world.tree[rev]) :
                            rows'[<<world.tree[rev][n].key, rev>>] # NULL
    BY <1>2 DEF ProcessedIsComplete
  <2>1. CASE e = d
    <3>1. rev = RevOf(w) /\ world.tree[rev] = Docs(w)
      BY <2>1 DEF RevOf, Docs
    <3>2. RevOf(w) # NULL => \A n \in 1..Len(Docs(w)) :
                rows'[<<Docs(w)[n].key, RevOf(w)>>] # NULL
      BY CommitEffect
    <3>3. e \in artifacts'
      BY <1>2, <2>1
    <3> HIDE DEF d, j
    <3> QED
      BY <3>1, <3>2, <3>3
  <2>2. CASE e # d
    <3>1. ledger[e] = "processed"
      BY <1>5, <2>2
    <3>2. /\ e \in artifacts
          /\ rev # NULL => \A n \in 1..Len(world.tree[rev]) :
                rows[<<world.tree[rev][n].key, rev>>] # NULL
      BY <1>3, <3>1 DEF ProcessedIsComplete
    <3>3. ASSUME rev # NULL, NEW n \in 1..Len(world.tree[rev])
          PROVE  <<world.tree[rev][n].key, rev>> \in Id
      <4>1. rev \in Revision /\ world.tree[rev] \in Seq(Document)
        BY <1>1, <3>3 DEF World, Envelope, Listing
      <4>2. world.tree[rev][n] \in Document
        BY <4>1
      <4> QED
        BY <4>1, <4>2 DEF Document, Id
    <3> QED
      BY <1>2, <1>6, <3>2, <3>3
  <2> QED
    BY <2>1, <2>2
<1>13. LiveRowsAreReviewed'
  <2> SUFFICES ASSUME NEW id \in Id, rows'[id] # NULL, rows'[id].state \in Live
               PROVE  \E n \in LastDoc(world.tree[id[2]], id[1]) :
                            world.tree[id[2]][n].state = rows'[id].state
    BY <1>2 DEF LiveRowsAreReviewed, IsLive, LastDoc
  <2>1. CASE rows'[id] = rows[id]
    BY <1>3, <2>1 DEF LiveRowsAreReviewed, IsLive
  <2>2. CASE rows'[id] # rows[id]
    <3>1. RevOf(w) # NULL
      BY <1>6, <2>2
    <3>2. ~(rows'[id].state \in {"retracted", "superseded"})
      BY DEF Live
    <3>3. id[2] = RevOf(w) /\ \E n \in 1..Len(Docs(w)) : Docs(w)[n].key = id[1]
      BY <2>2, <3>1, <3>2, CommitEffect
    <3>4. PICK n \in 1..Len(Docs(w)) : Docs(w)[n].key = id[1]
      BY <3>3
    <3>5. id = <<Docs(w)[n].key, RevOf(w)>>
      BY <3>3, <3>4 DEF Id
    <3>6. \E l \in LastDoc(Docs(w), id[1]) : rows'[id].state = Docs(w)[l].state
      BY <3>1, <3>5, CommitEffect
    <3> QED
      BY <3>3, <3>6 DEF Docs
  <2> QED
    BY <2>1, <2>2
<1> QED
  BY <1>7, <1>8, <1>9, <1>10, <1>11, <1>12, <1>13 DEF Inv
-----------------------------------------------------------------------------
(***************************************************************************)
(* The theorems.                                                           *)
(***************************************************************************)
\* Only a worker with a job waits for a row.
LEMMA WaitersWork ==
    ASSUME NEW w \in Worker, NEW v \in Worker, WaitsFor(w, v)
    PROVE  job[w] # NULL
<1>1. Wants(w) # {}
  BY DEF WaitsFor
<1> QED
  BY <1>1 DEF Wants, At

\* Every step keeps the invariant.
THEOREM NextInv == Inv /\ [Next]_vars => Inv'
<1> SUFFICES ASSUME Inv, [Next]_vars PROVE Inv'
  OBVIOUS
<1>1. ASSUME NEW d \in Delivery,
             Receive(d) \/ Enqueue(d) \/ EnqueueRaises(d) \/ MarkUnqueued(d)
                \/ ApiCrash(d) \/ Requeue(d)
      PROVE  Inv'
  BY <1>1, IngressInv
<1>2. ASSUME NEW w \in Worker, NEW d \in Delivery, Take(w, d) PROVE Inv'
  BY <1>2, TakeInv
<1>3. ASSUME NEW w \in Worker, Work(w) PROVE Inv'
  BY <1>3, CheckInv, UpsertInv, PickOthersInv, SupersedeInv, SweepInv, RetractInv,
     CommitInv, EndInv DEF Work
<1>4. ASSUME NEW w \in Worker, ReadFails(w) \/ Raise(w) \/ DeadlockVictim(w)
      PROVE  Inv'
  <2>1. job[w] # NULL /\ Fails(w)
    BY <1>4, WaitersWork DEF ReadFails, Raise, DeadlockVictim, At
  <2> QED
    BY <2>1, FailsInv
<1>5. ASSUME NEW w \in Worker, Crash(w) PROVE Inv'
  BY <1>5, EndInv
<1>6. CASE UNCHANGED vars
  <2>1. UNCHANGED <<world, ledger, accepted, hand, task, rows, artifacts, job, crashes,
                    synced, overlapped>>
    BY <1>6 DEF vars
  <2>2. TypeOK'
    BY <2>1 DEF Inv, TypeOK
  <2>3. Exclusive'
    BY <2>1 DEF Inv, Exclusive
  <2> QED
    BY <2>1, <2>2, <2>3, IngressStep
<1> QED
  BY <1>1, <1>2, <1>3, <1>4, <1>5, <1>6 DEF Next

\* The invariant holds in every reachable state.
THEOREM InvAlways == Spec => []Inv
<1>1. Init => Inv
  BY InitInv
<1>2. Inv /\ [Next]_vars => Inv'
  BY NextInv
<1> QED
  BY <1>1, <1>2, PTL DEF Spec

\* The state keeps its types.
THEOREM GithubTypeCorrect == Spec => []TypeOK
<1>1. Inv => TypeOK
  BY DEF Inv
<1> QED
  BY <1>1, InvAlways, PTL

\* A delivery recorded as processed has its event artifact and a row for every
\* assertion of its revision, whatever crashed or ran beside it.
THEOREM ProcessedIsCompleteAlways == Spec => []ProcessedIsComplete
<1>1. Inv => ProcessedIsComplete
  BY DEF Inv
<1> QED
  BY <1>1, InvAlways, PTL

\* A live assertion says what the reviewed file of its own revision says,
\* whatever two syncs did to each other.
THEOREM LiveRowsAreReviewedAlways == Spec => []LiveRowsAreReviewed
<1>1. Inv => LiveRowsAreReviewed
  BY DEF Inv
<1> QED
  BY <1>1, InvAlways, PTL

\* Only a commit changes assertions.
LEMMA RowsChangeInCommit ==
    ASSUME Inv, [Next]_vars, rows' # rows
    PROVE  \E w \in Worker : Commit(w)
<1>1. ~UNCHANGED vars
  BY DEF vars
<1>2. ASSUME NEW d \in Delivery PROVE
        ~(Receive(d) \/ Enqueue(d) \/ EnqueueRaises(d) \/ MarkUnqueued(d)
                \/ ApiCrash(d) \/ Requeue(d))
  BY DEF Receive, Enqueue, EnqueueRaises, MarkUnqueued, ApiCrash, Requeue
<1>3. ASSUME NEW w \in Worker, NEW d \in Delivery PROVE ~Take(w, d)
  BY DEF Take
<1>4. ASSUME NEW w \in Worker
      PROVE  ~(\/ Check(w) \/ Upsert(w) \/ PickOthers(w) \/ Supersede(w) \/ Sweep(w)
               \/ Retract(w) \/ Finish(w) \/ MarkFailed(w) \/ ReadFails(w) \/ Raise(w)
               \/ DeadlockVictim(w) \/ Crash(w))
  BY DEF Check, Upsert, PickOthers, Supersede, Sweep, Retract, Finish, MarkFailed,
         ReadFails, Raise, DeadlockVictim, Crash, Fails
<1> QED
  BY <1>1, <1>2, <1>3, <1>4 DEF Next, Work

\* Processing a delivery again changes no assertion.
THEOREM ReplaysAreHarmless == Spec => ReplayIsHarmless
<1> DEFINE Harmless ==
        \A w \in Worker :
          /\ job[w] # NULL
          /\ job'[w] # job[w]
          /\ ledger[job[w].delivery] = "processed"
          => rows' = rows
<1>1. Inv /\ [Next]_vars => [Harmless]_vars
  <2> SUFFICES ASSUME Inv, [Next]_vars, NEW w \in Worker,
                      job[w] # NULL, job'[w] # job[w],
                      ledger[job[w].delivery] = "processed", rows' # rows
               PROVE  FALSE
    OBVIOUS
  <2>1. PICK v \in Worker : Commit(v)
    BY RowsChangeInCommit
  <2>2. job' = [job EXCEPT ![v].at = "done", ![v].mine = Nothing]
    BY <2>1 DEF Commit
  <2>3. v = w
    BY <2>2 DEF Inv, TypeOK
  <2> QED
    BY <2>1, <2>3, CommitEffect
<1> QED
  BY <1>1, InvAlways, PTL DEF Spec, ReplayIsHarmless
-----------------------------------------------------------------------------
(***************************************************************************)
(* The refinement.                                                         *)
(***************************************************************************)
processedNow == {d \in Delivery : ledger[d] = "processed"}
stateNow == [id \in Id |-> IF rows[id] = NULL THEN NULL ELSE rows[id].state]

\* A commit is the abstract processing of its delivery.
LEMMA CommitRefines ==
    ASSUME Inv, NEW w \in Worker, Commit(w), NEW d \in Delivery, d = job[w].delivery
    PROVE  Projection!Process(d)
<1> DEFINE rev == RevOf(w)
           docs == Docs(w)
<1>1. /\ world' = world /\ rev = world.sent[d].rev
      /\ ledger' = [ledger EXCEPT ![d] = "processed"]
  BY JobFacts DEF Commit, At, Marks, RevOf
<1>2. ledger[d] # "processed"
  BY CommitEffect
<1>3. d \notin processedNow /\ processedNow' = processedNow \cup {d}
  BY <1>1, <1>2 DEF processedNow, Inv, TypeOK
<1>4. rows \in Table /\ rows' \in Table
  BY CommitEffect DEF Inv, TypeOK, Table
<1>5. rev = NULL => stateNow' = stateNow
  BY CommitEffect DEF stateNow
<1>6. ASSUME rev # NULL, NEW id \in Id
      PROVE  IF id[2] = rev /\ \E n \in 1..Len(docs) : docs[n].key = id[1]
             THEN \E n \in 1..Len(docs) :
                    /\ docs[n].key = id[1]
                    /\ docs[n].state = stateNow'[id]
                    /\ \A m \in n + 1..Len(docs) : docs[m].key # id[1]
             ELSE \/ stateNow'[id] = stateNow[id]
                  \/ stateNow[id] \in {"accepted", "contested"} /\ stateNow'[id] = "superseded"
                  \/ stateNow[id] # NULL /\ stateNow'[id] = "retracted"
  <2>1. docs \in Seq(Document)
    BY <1>6, CommitEffect
  <2>2. stateNow'[id] = IF rows'[id] = NULL THEN NULL ELSE rows'[id].state
    BY DEF stateNow
  <2>3. stateNow[id] = IF rows[id] = NULL THEN NULL ELSE rows[id].state
    BY DEF stateNow
  <2>4. CASE id[2] = rev /\ \E n \in 1..Len(docs) : docs[n].key = id[1]
    <3>1. PICK n \in 1..Len(docs) : docs[n].key = id[1]
      BY <2>4
    <3>2. id = <<docs[n].key, rev>>
      BY <2>4, <3>1 DEF Id
    <3>3. rows'[id] # NULL /\ \E l \in LastDoc(docs, id[1]) : rows'[id].state = docs[l].state
      BY <1>6, <3>2, CommitEffect
    <3>4. PICK l \in LastDoc(docs, id[1]) : rows'[id].state = docs[l].state
      BY <3>3
    <3>5. /\ l \in 1..Len(docs) /\ docs[l].key = id[1]
          /\ \A m \in 1..Len(docs) : docs[m].key = id[1] => m <= l
      BY <3>4 DEF LastDoc
    <3>6. Len(docs) \in Nat
      BY <2>1
    <3> HIDE DEF docs
    <3>7. \A m \in l + 1..Len(docs) : docs[m].key # id[1]
      BY <3>5, <3>6
    <3> QED
      BY <2>2, <2>4, <3>3, <3>4, <3>5, <3>7
  <2>5. CASE ~(id[2] = rev /\ \E n \in 1..Len(docs) : docs[n].key = id[1])
    <3>1. \/ rows'[id] = rows[id]
          \/ /\ rows[id] # NULL /\ rows'[id] # NULL
             /\ \/ rows'[id].state = "retracted"
                \/ rows'[id].state = "superseded" /\ rows[id].state \in Live
      BY <1>6, <2>5, CommitEffect
    <3>2. rows[id] # NULL => rows[id].state # NULL
      BY <1>4, NullAssumption DEF Table, Row
    <3> QED
      BY <2>2, <2>3, <2>5, <3>1, <3>2 DEF Live
  <2> QED
    BY <2>4, <2>5
<1>7. DOMAIN stateNow' = Id
  BY DEF stateNow
<1>8. ASSUME NEW id \in Id, id[2] = rev
      PROVE  /\ Projection!Mentions(id[2], id[1])
                    <=> \E n \in 1..Len(docs) : docs[n].key = id[1]
             /\ (\E n \in 1..Len(docs) :
                    /\ docs[n].key = id[1]
                    /\ docs[n].state = stateNow'[id]
                    /\ \A m \in n + 1..Len(docs) : docs[m].key # id[1])
                => Projection!Says(id[2], id[1], stateNow'[id])
  BY <1>8 DEF Projection!Mentions, Projection!Says, Docs, RevOf
<1>9. ASSUME NEW id \in Id,
             \/ stateNow'[id] = stateNow[id]
             \/ stateNow[id] \in {"accepted", "contested"} /\ stateNow'[id] = "superseded"
             \/ stateNow[id] # NULL /\ stateNow'[id] = "retracted"
      PROVE  Projection!Retires(id)
  BY <1>9 DEF Projection!Retires, stateNow
<1>10. ASSUME rev # NULL, NEW id \in Id
       PROVE  IF id[2] = rev /\ Projection!Mentions(id[2], id[1])
              THEN Projection!Says(id[2], id[1], stateNow'[id])
              ELSE Projection!Retires(id)
  <2> HIDE DEF rev, docs
  <2> QED
    BY <1>6, <1>8, <1>9, <1>10
<1> HIDE DEF rev, docs
<1>11. IF world.sent[d].rev = NULL
       THEN stateNow' = stateNow
       ELSE \A id \in Id :
              IF id[2] = world.sent[d].rev /\ Projection!Mentions(id[2], id[1])
              THEN Projection!Says(id[2], id[1], stateNow'[id])
              ELSE Projection!Retires(id)
  BY <1>1, <1>5, <1>10
<1> QED
  BY <1>1, <1>3, <1>7, <1>11
  DEF Projection!Process, Projection!Id, processedNow, stateNow, Id

\* A step that commits nothing leaves the projection alone, or calls a
\* processed delivery failed.
LEMMA OthersRefine ==
    ASSUME Inv, [Next]_vars, rows' = rows, \A w \in Worker : ~Commit(w)
    PROVE  \/ UNCHANGED Projection!projectionVars
           \/ \E d \in Delivery : Projection!Reopen(d)
<1>1. /\ world' = world
      /\ \/ \A d \in Delivery : ledger'[d] = "processed" <=> ledger[d] = "processed"
         \/ \E d \in Delivery : ledger' = [ledger EXCEPT ![d] = "failed"]
  <2>1. ASSUME NEW d \in Delivery, Receive(d)
        PROVE  /\ world' = world
               /\ \A e \in Delivery : ledger'[e] = "processed" <=> ledger[e] = "processed"
    BY <2>1, NullAssumption DEF Receive, New, Marks, Inv, TypeOK
  <2>2. ASSUME NEW d \in Delivery,
               Enqueue(d) \/ EnqueueRaises(d) \/ ApiCrash(d) \/ Requeue(d)
                    \/ \E w \in Worker : Take(w, d)
        PROVE  UNCHANGED <<world, ledger>>
    BY <2>2 DEF Enqueue, EnqueueRaises, ApiCrash, Requeue, Take
  <2>3. ASSUME NEW d \in Delivery, MarkUnqueued(d)
        PROVE  /\ world' = world
               /\ ledger' = ledger \/ ledger' = [ledger EXCEPT ![d] = "failed"]
    BY <2>3 DEF MarkUnqueued, MarksFailed, Marks
  <2>4. ASSUME NEW w \in Worker, MarkFailed(w)
        PROVE  /\ world' = world
               /\ \/ ledger' = ledger
                  \/ \E d \in Delivery : ledger' = [ledger EXCEPT ![d] = "failed"]
    <3>1. job[w].delivery \in Delivery
      BY <2>4, JobFacts DEF MarkFailed, At
    <3> QED
      BY <2>4, <3>1 DEF MarkFailed, MarksFailed, Marks
  <2>5. ASSUME NEW w \in Worker,
               \/ Check(w) \/ Upsert(w) \/ PickOthers(w) \/ Supersede(w) \/ Sweep(w)
               \/ Retract(w) \/ Finish(w) \/ ReadFails(w) \/ Raise(w)
               \/ DeadlockVictim(w) \/ Crash(w)
        PROVE  UNCHANGED <<world, ledger>>
    BY <2>5 DEF Check, Upsert, PickOthers, Supersede, Sweep, Retract, Finish,
                ReadFails, Raise, DeadlockVictim, Crash, Fails
  <2>6. CASE UNCHANGED vars
    BY <2>6 DEF vars
  <2>7. CASE \E d \in Delivery :
                Receive(d) \/ Enqueue(d) \/ EnqueueRaises(d) \/ MarkUnqueued(d)
                    \/ ApiCrash(d) \/ Requeue(d)
    BY <2>1, <2>2, <2>3, <2>7
  <2>8. CASE \E w \in Worker :
                \/ \E d \in Delivery : Take(w, d)
                \/ Work(w) \/ ReadFails(w) \/ Raise(w) \/ DeadlockVictim(w) \/ Crash(w)
    BY <2>2, <2>4, <2>5, <2>8 DEF Work
  <2> QED
    BY <2>6, <2>7, <2>8 DEF Next
<1>2. stateNow' = stateNow
  BY DEF stateNow
<1>3. CASE processedNow' = processedNow
  BY <1>1, <1>2, <1>3 DEF Projection!projectionVars, processedNow, stateNow
<1>4. ASSUME NEW d \in Delivery, ledger' = [ledger EXCEPT ![d] = "failed"],
             processedNow' # processedNow
      PROVE  Projection!Reopen(d)
  <2>1. d \in processedNow /\ processedNow' = processedNow \ {d}
    BY <1>4 DEF processedNow, Inv, TypeOK
  <2> QED
    BY <1>1, <1>2, <2>1 DEF Projection!Reopen, processedNow, stateNow
<1> QED
  BY <1>1, <1>3, <1>4 DEF processedNow

\* The pipeline implements SidecarProjection: whatever workers, statements,
\* crashes and retries do to each other, readers see a revision appear whole, in
\* the step that records its delivery as processed.
THEOREM PipelineImplementsProjection == Spec => RevisionsAppearWhole
<1>1. Init => Projection!Init
  <2> SUFFICES ASSUME Init PROVE Projection!Init
    OBVIOUS
  <2>1. processedNow = {} /\ stateNow = [id \in Id |-> NULL]
    BY NullAssumption DEF Init, processedNow, stateNow, Nothing
  <2> QED
    BY <2>1 DEF Projection!Init, Projection!Id, Id, processedNow, stateNow
<1>2. Inv /\ [Next]_vars => [Projection!Next]_(Projection!projectionVars)
  <2> SUFFICES ASSUME Inv, [Next]_vars
               PROVE  [Projection!Next]_(Projection!projectionVars)
    OBVIOUS
  <2>1. ASSUME NEW w \in Worker, Commit(w) PROVE Projection!Next
    <3>1. PICK d \in Delivery : d = job[w].delivery
      BY <2>1, JobFacts DEF Commit, At
    <3>2. Projection!Process(d)
      BY <2>1, <3>1, CommitRefines
    <3> QED
      BY <3>2 DEF Projection!Next
  <2>2. CASE \A w \in Worker : ~Commit(w)
    <3>1. rows' = rows
      BY <2>2, RowsChangeInCommit
    <3> QED
      BY <2>2, <3>1, OthersRefine DEF Projection!Next
  <2> QED
    BY <2>1, <2>2
<1> QED
  BY <1>1, <1>2, InvAlways, PTL DEF Spec, RevisionsAppearWhole, Projection!Spec

-----------------------------------------------------------------------------
(***************************************************************************)
(* The last sync.  Alone, a sync clears the other revisions' rows of every *)
(* key it passes, by the keys of its documents, and then those its tree    *)
(* has no file for, by their paths.  A row left over is of a file that     *)
(* stays and a key that went, which IdsStay rules out.                     *)
(***************************************************************************)
SeenIn(rs, j, id) == IF j.mine[id] # NULL THEN j.mine[id] ELSE rs[id]
LiveIn(rs, j, id) == SeenIn(rs, j, id) # NULL /\ SeenIn(rs, j, id).state \in Live

\* How many documents job j has superseded the other rows of.
Superseded(wd, j) ==
    IF j.at \in {"upsert", "pick", "supersede"} THEN j.next - 1 ELSE Len(DocsIn(wd, j))

\* What a sync that runs alone has retired.
Cleared(wd, rs, j) ==
    /\ \A m \in 1..Superseded(wd, j), id \in Id :
            id[1] = DocsIn(wd, j)[m].key /\ id[2] # RevIn(wd, j) => ~LiveIn(rs, j, id)
    /\ j.at = "supersede" => \A id \in Id :
            id[1] = DocsIn(wd, j)[j.next].key /\ id[2] # RevIn(wd, j) /\ LiveIn(rs, j, id)
                => id \in j.picked
    /\ j.at = "retract" => \A id \in Id :
            LiveIn(rs, j, id) /\ SeenIn(rs, j, id).path \notin PathsOf(DocsIn(wd, j))
                => id \in j.picked
    /\ j.at = "commit" => \A id \in Id :
            LiveIn(rs, j, id) => SeenIn(rs, j, id).path \in PathsOf(DocsIn(wd, j))

\* A row is of a document of its own revision.
Cites(wd, rs) ==
    \A id \in Id : rs[id] # NULL =>
        \E n \in 1..Len(wd.tree[id[2]]) :
            /\ wd.tree[id[2]][n].key = id[1]
            /\ wd.tree[id[2]][n].path = rs[id].path

LastSyncInv ==
    /\ Cites(world, rows)
    /\ \A w \in Worker : job[w] # NULL => Cites(world, job[w].mine)
    /\ ~overlapped =>
            /\ \A v, w \in Worker : InSync(v) /\ InSync(w) => v = w
            /\ \A w \in Worker : InSync(w) => Cleared(world, rows, job[w])
    /\ ProjectionIsLastSync

LEMMA LastSyncInit == Init => LastSyncInv
<1> SUFFICES ASSUME Init PROVE LastSyncInv
  OBVIOUS
<1>1. /\ rows = Nothing /\ synced = NULL /\ \A w \in Worker : job[w] = NULL
  BY DEF Init
<1>2. \A id \in Id : rows[id] = NULL
  BY <1>1 DEF Nothing
<1> QED
  BY <1>1, <1>2 DEF LastSyncInv, Cites, InSync, ProjectionIsLastSync

\* What a table shows does not depend on the workers.
LEMMA ProjectionStays ==
    ASSUME ProjectionIsLastSync, UNCHANGED <<world, rows, synced>>,
           overlapped => overlapped'
    PROVE  ProjectionIsLastSync'
<1>1. IdsStay' <=> IdsStay
  BY DEF IdsStay, LastDoc, PathsOf
<1>2. \A rev : ProjectionOf(rev)' <=> ProjectionOf(rev)
  BY DEF ProjectionOf, LastDoc, IsLive, Served
<1> QED
  BY <1>1, <1>2 DEF ProjectionIsLastSync

\* A step of one worker that shows nothing and at which no sync begins.
LEMMA SyncGoesOn ==
    ASSUME Inv, LastSyncInv, NEW w \in Worker,
           UNCHANGED <<world, rows, synced>>, overlapped' = overlapped,
           \A v \in Worker \ {w} : job'[v] = job[v],
           job'[w] # NULL => Cites(world, job'[w].mine),
           InSync(w)' =>
                InSync(w) /\ (Cleared(world, rows, job[w]) => Cleared(world, rows, job'[w]))
    PROVE  LastSyncInv'
<1>1. Cites(world, rows)'
  BY DEF LastSyncInv, Cites
<1>2. \A v \in Worker : job'[v] # NULL => Cites(world', job'[v].mine)
  BY DEF LastSyncInv
<1>3. \A v \in Worker : InSync(v)' => InSync(v)
  BY DEF InSync, RevOf
<1>4. ASSUME ~overlapped', NEW v \in Worker, InSync(v)' PROVE Cleared(world', rows', job'[v])
  BY <1>3, <1>4 DEF LastSyncInv
<1>5. ~overlapped' => \A u, v \in Worker : InSync(u)' /\ InSync(v)' => u = v
  BY <1>3 DEF LastSyncInv
<1>6. ProjectionIsLastSync'
  BY ProjectionStays DEF LastSyncInv
<1> QED
  BY <1>1, <1>2, <1>4, <1>5, <1>6 DEF LastSyncInv

\* The statements of a sync, as in Projecting.
LEMMA UpsertClears ==
    ASSUME NEW wd \in World, NEW rs, NEW j, NEW k, Cleared(wd, rs, j),
           j.at = "upsert", k.at = "pick", k.delivery = j.delivery, k.next = j.next,
           \A id \in Id : id[2] # RevIn(wd, j) => k.mine[id] = j.mine[id]
    PROVE  Cleared(wd, rs, k)
<1>1. /\ RevIn(wd, k) = RevIn(wd, j) /\ DocsIn(wd, k) = DocsIn(wd, j)
      /\ Superseded(wd, k) = Superseded(wd, j)
  BY DEF RevIn, DocsIn, Superseded
<1>2. \A id \in Id : id[2] # RevIn(wd, j) => (LiveIn(rs, k, id) <=> LiveIn(rs, j, id))
  BY DEF LiveIn, SeenIn
<1> QED
  BY <1>1, <1>2 DEF Cleared

LEMMA PickClears ==
    ASSUME NEW wd \in World, NEW rs, NEW j, NEW k, Cleared(wd, rs, j),
           k.delivery = j.delivery, k.next = j.next, k.mine = j.mine,
           \/ /\ j.at = "pick" /\ k.at = "supersede"
              /\ \A id \in Id :
                    id[1] = DocsIn(wd, j)[j.next].key /\ id[2] # RevIn(wd, j) /\ LiveIn(rs, j, id)
                        => id \in k.picked
           \/ /\ j.at = "sweep" /\ k.at = "retract"
              /\ \A id \in Id :
                    LiveIn(rs, j, id) /\ SeenIn(rs, j, id).path \notin PathsOf(DocsIn(wd, j))
                        => id \in k.picked
    PROVE  Cleared(wd, rs, k)
<1>1. /\ RevIn(wd, k) = RevIn(wd, j) /\ DocsIn(wd, k) = DocsIn(wd, j)
      /\ Superseded(wd, k) = Superseded(wd, j)
  BY DEF RevIn, DocsIn, Superseded
<1>2. \A id : SeenIn(rs, k, id) = SeenIn(rs, j, id)
  BY DEF SeenIn
<1>3. \A id : LiveIn(rs, k, id) <=> LiveIn(rs, j, id)
  BY <1>2 DEF LiveIn
<1> QED
  BY <1>1, <1>2, <1>3 DEF Cleared

\* After the picked rows are retired no row of the document's key is live, or
\* none without a file.
LEMMA RetireClears ==
    ASSUME NEW wd \in World, NEW rs, NEW j, NEW k, Cleared(wd, rs, j),
           k.delivery = j.delivery, DocsIn(wd, j) \in Seq(Document),
           \/ /\ j.at = "supersede" /\ k.next = j.next + 1
              /\ j.next \in 1..Len(DocsIn(wd, j))
              /\ k.at = AtDocument(DocsIn(wd, j), j.next + 1)
           \/ j.at = "retract" /\ k.next = j.next /\ k.at = "commit",
           \A id \in Id : LiveIn(rs, k, id) =>
                /\ LiveIn(rs, j, id) /\ id \notin j.picked
                /\ SeenIn(rs, k, id) = SeenIn(rs, j, id)
    PROVE  Cleared(wd, rs, k)
<1> DEFINE docs == DocsIn(wd, j)
           rev == RevIn(wd, j)
<1>1. RevIn(wd, k) = rev /\ DocsIn(wd, k) = docs
  BY DEF RevIn, DocsIn
<1>2. CASE j.at = "supersede"
  <2>1. Superseded(wd, j) = j.next - 1 /\ j.next \in 1..Len(docs) /\ Len(docs) \in Nat
    BY <1>2 DEF Superseded
  <2>2. k.at \in {"upsert", "sweep"} /\ Superseded(wd, k) = j.next
    <3>1. CASE j.next + 1 <= Len(docs)
      <4>1. k.at = "upsert" /\ k.next = j.next + 1
        BY <1>2, <3>1 DEF AtDocument
      <4> QED
        BY <2>1, <4>1 DEF Superseded
    <3>2. CASE ~(j.next + 1 <= Len(docs))
      <4>1. k.at = "sweep" /\ j.next = Len(docs)
        BY <1>2, <2>1, <3>2 DEF AtDocument
      <4> QED
        BY <1>1, <4>1 DEF Superseded
    <3> QED
      BY <3>1, <3>2
  <2>3. ASSUME NEW m \in 1..j.next, NEW id \in Id, id[1] = docs[m].key, id[2] # rev,
               LiveIn(rs, k, id)
        PROVE  FALSE
    <3>1. LiveIn(rs, j, id) /\ id \notin j.picked
      BY <2>3
    <3>2. m # j.next
      BY <1>2, <2>3, <3>1 DEF Cleared
    <3>3. m \in 1..Superseded(wd, j)
      BY <2>1, <2>3, <3>2
    <3> QED
      BY <2>3, <3>1, <3>3 DEF Cleared
  <2> HIDE DEF docs, rev
  <2> QED
    BY <1>1, <2>2, <2>3 DEF Cleared
<1>3. CASE j.at = "retract"
  <2>1. k.at = "commit" /\ Superseded(wd, j) = Len(docs) /\ Superseded(wd, k) = Len(docs)
    BY <1>1, <1>3 DEF Superseded
  <2>2. \A m \in 1..Len(docs), id \in Id :
            id[1] = docs[m].key /\ id[2] # rev => ~LiveIn(rs, k, id)
    BY <2>1 DEF Cleared
  <2>3. \A id \in Id : LiveIn(rs, k, id) => SeenIn(rs, k, id).path \in PathsOf(docs)
    BY <1>3 DEF Cleared
  <2> HIDE DEF docs, rev
  <2> QED
    BY <1>1, <2>1, <2>2, <2>3 DEF Cleared
<1> QED
  BY <1>2, <1>3

\* What a worker sees is what its job makes of the table.
LEMMA SeeingIsOfTheJob ==
    ASSUME NEW w \in Worker
    PROVE  /\ \A id : Seen(w, id) = SeenIn(rows, job[w], id)
           /\ \A id : LiveTo(w, id) <=> LiveIn(rows, job[w], id)
BY DEF Seen, SeenIn, LiveTo, LiveIn

LEMMA WritingSyncs ==
    ASSUME Inv, NEW w \in Worker, job[w] # NULL,
           job[w].at \in {"upsert", "pick", "supersede", "sweep", "retract"}
    PROVE  InSync(w)
BY SyncFacts, NullAssumption DEF InSync

LEMMA UpsertKeeps ==
    ASSUME Inv, LastSyncInv, NEW w \in Worker, Upsert(w)
    PROVE  LastSyncInv'
<1> DEFINE j == job[w]
           own == DocId(w)
           old == Seen(w, own)
           new == [state |-> Doc(w).state,
                   path |-> IF old = NULL THEN Doc(w).path ELSE old.path]
           k == [j EXCEPT !.mine = [id \in Id |-> IF id = own THEN new ELSE j.mine[id]],
                          !.picked = {}, !.at = "pick"]
<1>1. j # NULL /\ j.at = "upsert"
  BY DEF Upsert, At
<1>2. /\ j \in Job /\ RevOf(w) = RevIn(world, j) /\ Docs(w) = DocsIn(world, j)
      /\ world \in World /\ RevOf(w) \in Revision /\ Docs(w) \in Seq(Document)
      /\ j.next \in 1..Len(Docs(w)) /\ job \in [Worker -> Job \cup {NULL}]
  BY <1>1, JobFacts, SyncFacts DEF Projecting, Inv, TypeOK
<1>3. /\ Doc(w) = Docs(w)[j.next] /\ Doc(w) \in Document
      /\ own \in Id /\ own[1] = Doc(w).key /\ own[2] = RevOf(w)
  <2>1. Doc(w) = Docs(w)[j.next] /\ Doc(w) \in Document
    BY <1>2 DEF Doc
  <2>2. own = <<Doc(w).key, RevOf(w)>> /\ Doc(w).key \in Key
    BY <2>1 DEF DocId, Document
  <2> QED
    BY <1>2, <2>1, <2>2 DEF Id
<1>4. job' = [job EXCEPT ![w] = k]
  <2>1. job' = [job EXCEPT ![w] =
                   [Wrote(w, {own}, LAMBDA id : new) EXCEPT !.at = "pick"]]
    BY DEF Upsert
  <2>2. Wrote(w, {own}, LAMBDA id : new) =
            [j EXCEPT !.mine = [id \in Id |-> IF id \in {own} THEN new ELSE j.mine[id]],
                      !.picked = {}]
    BY DEF Wrote
  <2> QED
    BY <2>1, <2>2
<1>5. /\ k.delivery = j.delivery /\ k.next = j.next /\ k.at = "pick"
      /\ k.mine = [id \in Id |-> IF id = own THEN new ELSE j.mine[id]]
  BY <1>2 DEF Job
<1>6. job'[w] = k /\ \A v \in Worker \ {w} : job'[v] = job[v]
  BY <1>2, <1>4
<1>7. UNCHANGED <<world, rows, synced, overlapped>>
  BY DEF Upsert, history
<1>8. Cites(world, rows) /\ Cites(world, j.mine)
  BY <1>1 DEF LastSyncInv
<1>9. \E n \in 1..Len(world.tree[own[2]]) :
            /\ world.tree[own[2]][n].key = own[1]
            /\ world.tree[own[2]][n].path = new.path
  <2>0. world.tree[own[2]] = Docs(w)
    BY <1>3 DEF Docs
  <2>1. CASE old = NULL
    BY <1>2, <1>3, <2>0, <2>1
  <2>2. CASE old # NULL
    <3>1. new.path = old.path
      BY <2>2
    <3>2. CASE j.mine[own] # NULL
      BY <1>3, <1>8, <3>1, <3>2 DEF Cites, Seen
    <3>3. CASE j.mine[own] = NULL
      BY <1>3, <1>8, <2>2, <3>1, <3>3 DEF Cites, Seen
    <3> QED
      BY <3>2, <3>3
  <2> QED
    BY <2>1, <2>2
<1> HIDE DEF j, own, old, new, k
<1>10. Cites(world, k.mine)
  BY <1>5, <1>8, <1>9 DEF Cites
<1>11. Cleared(world, rows, j) => Cleared(world, rows, k)
  <2>1. \A id \in Id : id[2] # RevIn(world, j) => k.mine[id] = j.mine[id]
    BY <1>2, <1>3, <1>5
  <2> QED
    BY <1>1, <1>2, <1>5, <2>1, UpsertClears
<1>12. InSync(w)
  BY <1>1, WritingSyncs DEF j
<1> QED
  BY <1>6, <1>7, <1>10, <1>11, <1>12, SyncGoesOn DEF j

LEMMA PickKeeps ==
    ASSUME Inv, LastSyncInv, NEW w \in Worker, PickOthers(w) \/ Sweep(w)
    PROVE  LastSyncInv'
<1> DEFINE j == job[w]
           k == job'[w]
<1>1. j # NULL /\ j.at \in {"pick", "sweep"}
  BY DEF PickOthers, Sweep, At
<1>2. /\ j \in Job /\ RevOf(w) = RevIn(world, j) /\ Docs(w) = DocsIn(world, j)
      /\ world \in World /\ job \in [Worker -> Job \cup {NULL}]
  BY <1>1, JobFacts DEF Inv, TypeOK
<1>3. /\ \A v \in Worker \ {w} : job'[v] = job[v]
      /\ k.delivery = j.delivery /\ k.next = j.next /\ k.mine = j.mine
      /\ \/ j.at = "pick" /\ k.at = "supersede"
            /\ k.picked = {id \in Id : id[1] = Doc(w).key /\ id # DocId(w) /\ LiveTo(w, id)}
         \/ j.at = "sweep" /\ k.at = "retract"
            /\ k.picked = {id \in Id : LiveTo(w, id) /\ Seen(w, id).path \notin PathsOf(Docs(w))}
  <2>1. CASE PickOthers(w)
    BY <1>2, <2>1 DEF PickOthers, At, Job
  <2>2. CASE Sweep(w)
    BY <1>2, <2>2 DEF Sweep, At, Job
  <2> QED
    BY <2>1, <2>2
<1>4. UNCHANGED <<world, rows, synced, overlapped>>
  BY DEF PickOthers, Sweep, history
<1>5. Cites(world, k.mine)
  BY <1>1, <1>3 DEF LastSyncInv
<1>6. Cleared(world, rows, j) => Cleared(world, rows, k)
  <2>1. CASE j.at = "pick"
    <3>1. \A id \in Id : id[1] = Doc(w).key /\ id[2] # RevOf(w) => id # DocId(w)
      BY DEF DocId
    <3>2. Doc(w) = DocsIn(world, j)[j.next]
      BY <1>2 DEF Doc
    <3>3. \A id \in Id :
              id[1] = DocsIn(world, j)[j.next].key /\ id[2] # RevIn(world, j)
                    /\ LiveIn(rows, j, id) => id \in k.picked
      BY <1>2, <1>3, <2>1, <3>1, <3>2, SeeingIsOfTheJob
    <3> HIDE DEF j, k
    <3> QED
      BY <1>2, <1>3, <2>1, <3>3, PickClears
  <2>2. CASE j.at = "sweep"
    <3>1. \A id \in Id :
              LiveIn(rows, j, id) /\ SeenIn(rows, j, id).path \notin PathsOf(DocsIn(world, j))
                => id \in k.picked
      BY <1>2, <1>3, <2>2, SeeingIsOfTheJob
    <3> HIDE DEF j, k
    <3> QED
      BY <1>2, <1>3, <2>2, <3>1, PickClears
  <2> QED
    BY <1>1, <2>1, <2>2
<1>7. InSync(w)
  BY <1>1, WritingSyncs
<1> QED
  BY <1>3, <1>4, <1>5, <1>6, <1>7, SyncGoesOn

LEMMA RetireKeeps ==
    ASSUME Inv, LastSyncInv, NEW w \in Worker, Supersede(w) \/ Retract(w)
    PROVE  LastSyncInv'
<1> DEFINE j == job[w]
           k == job'[w]
           how == IF j.at = "supersede" THEN "superseded" ELSE "retracted"
           hit == IF j.at = "supersede" THEN {id \in j.picked : LiveTo(w, id)} ELSE j.picked
           Old(id) == [Seen(w, id) EXCEPT !.state = how]
<1>1. j # NULL /\ j.at \in {"supersede", "retract"}
  BY DEF Supersede, Retract, At
<1>2. /\ j \in Job /\ RevOf(w) = RevIn(world, j) /\ Docs(w) = DocsIn(world, j)
      /\ world \in World /\ rows \in Table /\ job \in [Worker -> Job \cup {NULL}]
      /\ Docs(w) \in Seq(Document) /\ Projecting(world, rows, j)
  BY <1>1, JobFacts, SyncFacts DEF Inv, TypeOK
<1>3. hit \subseteq Id
  BY <1>2 DEF Job
<1>4. \A id \in hit : Seen(w, id) \in Row
  BY <1>1, <1>2, <1>3 DEF Seen, Job, Table, Projecting, PickedAreOthers
<1>5. \A id \in hit : Old(id).state = how /\ Old(id).path = Seen(w, id).path /\ Old(id) \in Row
  BY <1>4 DEF Row, Reviewed
<1>6. /\ \A v \in Worker \ {w} : job'[v] = job[v]
      /\ k.delivery = j.delivery
      /\ k.mine = [id \in Id |-> IF id \in hit THEN Old(id) ELSE j.mine[id]]
      /\ \/ /\ j.at = "supersede" /\ k.next = j.next + 1
            /\ k.at = AtDocument(Docs(w), j.next + 1)
         \/ j.at = "retract" /\ k.next = j.next /\ k.at = "commit"
  <2>0. Wrote(w, hit, Old) =
            [j EXCEPT !.mine = [id \in Id |-> IF id \in hit THEN Old(id) ELSE j.mine[id]],
                      !.picked = {}]
    BY DEF Wrote
  <2>1. CASE Supersede(w)
    <3>1. j.at = "supersede"
      BY <2>1 DEF Supersede, At
    <3>2. job' = [job EXCEPT ![w] =
                   [Wrote(w, hit, Old) EXCEPT !.next = @ + 1,
                                              !.at = AtDocument(Docs(w), j.next + 1)]]
      BY <2>1, <3>1 DEF Supersede
    <3> HIDE DEF hit, Old
    <3> QED
      BY <1>2, <2>0, <3>1, <3>2 DEF Job
  <2>2. CASE Retract(w)
    <3>1. j.at = "retract"
      BY <2>2 DEF Retract, At
    <3>2. job' = [job EXCEPT ![w] = [Wrote(w, hit, Old) EXCEPT !.at = "commit"]]
      BY <2>2, <3>1 DEF Retract
    <3> HIDE DEF hit, Old
    <3> QED
      BY <1>2, <2>0, <3>1, <3>2 DEF Job
  <2> QED
    BY <2>1, <2>2
<1>7. UNCHANGED <<world, rows, synced, overlapped>>
  BY DEF Supersede, Retract, history
<1>8. \A id \in Id : LiveTo(w, id) /\ id \in j.picked => id \in hit
  BY <1>1
<1>9. how \notin Live /\ \A id \in hit : Old(id) # NULL
  BY <1>5, NullAssumption DEF Live
<1>10. Cites(world, rows) /\ Cites(world, j.mine)
  BY <1>1 DEF LastSyncInv
<1> HIDE DEF k, hit, Old, how
<1>11. Cites(world, k.mine)
  <2> SUFFICES ASSUME NEW id \in Id, k.mine[id] # NULL
               PROVE  \E n \in 1..Len(world.tree[id[2]]) :
                        /\ world.tree[id[2]][n].key = id[1]
                        /\ world.tree[id[2]][n].path = k.mine[id].path
    BY DEF Cites
  <2>1. CASE id \notin hit
    BY <1>6, <1>10, <2>1 DEF Cites
  <2>2. CASE id \in hit
    <3>1. k.mine[id].path = Seen(w, id).path /\ Seen(w, id) # NULL
      BY <1>4, <1>5, <1>6, <2>2, NullAssumption
    <3> QED
      BY <1>10, <3>1 DEF Cites, Seen
  <2> QED
    BY <2>1, <2>2
<1>12. ASSUME NEW id \in Id, LiveIn(rows, k, id)
       PROVE  /\ LiveIn(rows, j, id) /\ id \notin j.picked
              /\ SeenIn(rows, k, id) = SeenIn(rows, j, id)
  <2>1. id \notin hit
    BY <1>5, <1>6, <1>9, <1>12 DEF LiveIn, SeenIn
  <2>2. SeenIn(rows, k, id) = SeenIn(rows, j, id)
    BY <1>6, <2>1 DEF SeenIn
  <2>3. LiveIn(rows, j, id)
    BY <1>12, <2>2 DEF LiveIn
  <2> QED
    BY <1>8, <2>1, <2>2, <2>3, SeeingIsOfTheJob
<1>13. Cleared(world, rows, j) => Cleared(world, rows, k)
  <2>1. j.at = "supersede" => j.next \in 1..Len(DocsIn(world, j))
    BY <1>2 DEF Projecting
  <2> HIDE DEF j
  <2> QED
    BY <1>2, <1>6, <1>12, <2>1, RetireClears
<1>14. InSync(w)
  BY <1>1, WritingSyncs
<1> QED
  BY <1>6, <1>7, <1>11, <1>13, <1>14, SyncGoesOn DEF k

\* A sync that begins has everything before it, and begins alone or is seen to
\* overlap.
LEMMA CheckKeeps ==
    ASSUME Inv, LastSyncInv, NEW w \in Worker, Check(w)
    PROVE  LastSyncInv'
<1> DEFINE j == job[w]
           k == job'[w]
           begins == RevOf(w) # NULL /\ ledger[j.delivery] # "processed"
<1>1. j # NULL /\ j.at = "check"
  BY DEF Check, At
<1>2. /\ j \in Job /\ RevOf(w) = RevIn(world, j) /\ Docs(w) = DocsIn(world, j)
      /\ world \in World /\ job \in [Worker -> Job \cup {NULL}]
      /\ RevOf(w) \in Revision \cup {NULL}
      /\ j.next = 1 /\ j.mine = Nothing
  <2>1. Sound(world, rows, ledger, j)
    BY <1>1, JobFacts
  <2>2. j.next = 1 /\ j.mine = Nothing
    BY <1>1, <2>1 DEF Sound, Syncing
  <2> QED
    BY <1>1, <2>2, JobFacts DEF Inv, TypeOK
<1>3. /\ UNCHANGED <<world, rows, synced>>
      /\ overlapped' = (overlapped \/ (begins /\ \E v \in Worker \ {w} : InSync(v)))
      /\ \A v \in Worker \ {w} : job'[v] = job[v]
      /\ \/ ledger[j.delivery] = "processed" /\ k = NULL
         \/ /\ ledger[j.delivery] # "processed" /\ k # NULL
            /\ k.delivery = j.delivery /\ k.next = 1 /\ k.mine = Nothing
            /\ k.at = IF RevOf(w) = NULL THEN "commit" ELSE AtDocument(Docs(w), 1)
  <2>1. \A v \in Worker \ {w} : job'[v] = job[v]
    BY <1>2 DEF Check, EndJob
  <2>2. overlapped' = (overlapped \/ (begins /\ \E v \in Worker \ {w} : InSync(v)))
    BY Zenon DEF Check
  <2>3. CASE ledger[j.delivery] = "processed"
    BY <1>2, <2>1, <2>2, <2>3 DEF Check, EndJob
  <2>4. CASE ledger[j.delivery] # "processed"
    <3>1. k = [j EXCEPT !.at = IF RevOf(w) = NULL THEN "commit" ELSE AtDocument(Docs(w), 1)]
      BY <1>2, <2>4 DEF Check
    <3>2. [j EXCEPT !.at = IF RevOf(w) = NULL THEN "commit" ELSE AtDocument(Docs(w), 1)] \in Job
      BY <1>2 DEF Job, AtDocument
    <3>3. k # NULL
      BY <3>1, <3>2, NullAssumption
    <3> QED
      BY <1>2, <2>1, <2>2, <2>4, <3>1, <3>3 DEF Check, Job
  <2> QED
    BY <2>3, <2>4
<1>4. \A id \in Id : Nothing[id] = NULL
  BY DEF Nothing
<1>5. k # NULL => Cites(world, k.mine)
  BY <1>3, <1>4 DEF Cites
<1>6. RevOf(w)' = RevOf(w) \/ k = NULL
  BY <1>3 DEF RevOf
<1>7. CASE ~begins
  <2>1. ~InSync(w)'
    BY <1>3, <1>6, <1>7 DEF InSync
  <2>2. overlapped' = overlapped
    <3>1. overlapped \in BOOLEAN
      BY DEF Inv, TypeOK
    <3> QED
      BY Zenon, <1>3, <1>7, <3>1
  <2> QED
    BY <1>3, <1>5, <2>1, <2>2, SyncGoesOn
<1>8. CASE begins
  <2>1. \A v \in Worker \ {w} : InSync(v)' <=> InSync(v)
    BY <1>3 DEF InSync, RevOf
  <2>2. ASSUME ~overlapped' PROVE ~overlapped /\ \A v \in Worker \ {w} : ~InSync(v)
    BY <1>3, <1>8, <2>2
  <2>3. Cleared(world, rows, k)
    <3>1. RevIn(world, k) = RevIn(world, j) /\ DocsIn(world, k) = Docs(w) /\ RevOf(w) # NULL
      BY <1>2, <1>3, <1>8 DEF RevIn, DocsIn
    <3>2. Docs(w) \in Seq(Document)
      BY <1>2, <3>1 DEF DocsIn, World, Listing
    <3>3. Superseded(world, k) = 0 /\ k.at \in {"upsert", "sweep"}
      BY <1>3, <1>8, <3>1, <3>2 DEF Superseded, AtDocument
    <3> QED
      BY <3>3 DEF Cleared
  <2>4. ~overlapped' => /\ \A u, v \in Worker : InSync(u)' /\ InSync(v)' => u = v
                        /\ \A v \in Worker : InSync(v)' => Cleared(world', rows', job'[v])
    BY <1>3, <2>1, <2>2, <2>3
  <2>5. ProjectionIsLastSync'
    BY <1>3, ProjectionStays DEF LastSyncInv
  <2>6. Cites(world, rows)' /\ \A v \in Worker : job'[v] # NULL => Cites(world', job'[v].mine)
    BY <1>3, <1>5 DEF LastSyncInv, Cites
  <2> QED
    BY <2>4, <2>5, <2>6 DEF LastSyncInv
<1> QED
  BY <1>7, <1>8

\* The webhook, the queue, and jobs that end or fail show nothing.
LEMMA QuietKeeps ==
    ASSUME Inv, LastSyncInv,
           UNCHANGED <<world, rows, synced, overlapped>>,
           \A v \in Worker :
                \/ job'[v] = job[v] \/ job'[v] = NULL
                \/ job'[v].at \in {"check", "mark"} /\ job'[v].mine = Nothing
    PROVE  LastSyncInv'
<1>1. \A id \in Id : Nothing[id] = NULL
  BY DEF Nothing
<1>2. Cites(world, rows)' /\ \A v \in Worker : job'[v] # NULL => Cites(world', job'[v].mine)
  BY <1>1 DEF LastSyncInv, Cites
<1>3. \A v \in Worker : InSync(v)' => job'[v] = job[v] /\ InSync(v)
  BY DEF InSync, RevOf
<1>4. ~overlapped' =>
            /\ \A u, v \in Worker : InSync(u)' /\ InSync(v)' => u = v
            /\ \A v \in Worker : InSync(v)' => Cleared(world', rows', job'[v])
  BY <1>3 DEF LastSyncInv
<1>5. ProjectionIsLastSync'
  BY ProjectionStays DEF LastSyncInv
<1> QED
  BY <1>2, <1>4, <1>5 DEF LastSyncInv

\* What a sync commits cites its files, as what it saw does.
LEMMA CommitCites ==
    ASSUME Inv, LastSyncInv, NEW w \in Worker, Commit(w)
    PROVE  /\ Cites(world', rows')
           /\ \A v \in Worker : job'[v] # NULL => Cites(world', job'[v].mine)
           /\ \A v \in Worker \ {w} : job'[v] = job[v]
           /\ ~InSync(w)'
<1>1. /\ job[w] # NULL /\ rows' = [id \in Id |-> Seen(w, id)] /\ world' = world
      /\ job' = [job EXCEPT ![w].at = "done", ![w].mine = Nothing]
  BY DEF Commit, At
<1>2. job \in [Worker -> Job \cup {NULL}] /\ job[w] \in Job
  BY <1>1 DEF Inv, TypeOK
<1>3. /\ job'[w].at = "done" /\ job'[w].mine = Nothing
      /\ \A v \in Worker \ {w} : job'[v] = job[v]
  BY <1>1, <1>2 DEF Job
<1>4. \A id \in Id : Nothing[id] = NULL
  BY DEF Nothing
<1>5. Cites(world, rows) /\ Cites(world, job[w].mine)
  BY <1>1 DEF LastSyncInv
<1>6. Cites(world', rows')
  BY <1>1, <1>5 DEF Cites, Seen
<1>7. \A v \in Worker : job'[v] # NULL => Cites(world', job'[v].mine)
  <2>1. Cites(world', job'[w].mine)
    BY <1>3, <1>4 DEF Cites
  <2>2. \A v \in Worker \ {w} : job'[v] # NULL => Cites(world', job'[v].mine)
    BY <1>1, <1>3 DEF LastSyncInv
  <2> QED
    BY <2>1, <2>2
<1> QED
  BY <1>3, <1>6, <1>7 DEF InSync

\* A delivery without a revision commits no row.
LEMMA OtherEventKeeps ==
    ASSUME Inv, LastSyncInv, NEW w \in Worker, Commit(w), RevOf(w) = NULL
    PROVE  LastSyncInv'
<1>1. /\ UNCHANGED <<world, rows, synced>> /\ overlapped' = overlapped
  <2>1. rows' = rows
    BY CommitEffect
  <2>2. overlapped' = overlapped
    BY Zenon DEF Commit
  <2> QED
    BY <2>1, <2>2 DEF Commit
<1> QED
  BY <1>1, CommitCites, SyncGoesOn

\* A row left over is of a file that stays and a key that went.
LEMMA NoneIsLeftOver ==
    ASSUME Inv, LastSyncInv, NEW w \in Worker, Commit(w), RevOf(w) # NULL,
           ~overlapped, IdsStay, NEW id \in Id, IsLive(id)'
    PROVE  id[2] = RevOf(w)
<1> DEFINE j == job[w]
           docs == Docs(w)
<1>1. j # NULL /\ j.at = "commit" /\ rows' = [i \in Id |-> Seen(w, i)] /\ world' = world
  BY DEF Commit, At
<1>2. /\ RevOf(w) = RevIn(world, j) /\ docs = DocsIn(world, j)
      /\ RevOf(w) \in Revision /\ docs \in Seq(Document)
  BY <1>1, JobFacts, CommitEffect
<1>3. Cleared(world, rows, j)
  <2>1. InSync(w)
    BY <1>1 DEF InSync
  <2> QED
    BY <2>1 DEF LastSyncInv
<1>4. LiveIn(rows, j, id)
  BY <1>1, SeeingIsOfTheJob DEF IsLive, LiveTo
<1>5. rows'[id] = SeenIn(rows, j, id) /\ rows'[id] # NULL
  BY <1>1, SeeingIsOfTheJob DEF IsLive
<1>6. rows'[id].path \in PathsOf(docs)
  BY <1>1, <1>2, <1>3, <1>4, <1>5 DEF Cleared
<1>7. PICK n \in 1..Len(world.tree[id[2]]) :
            world.tree[id[2]][n].key = id[1] /\ world.tree[id[2]][n].path = rows'[id].path
  BY <1>1, <1>5, CommitCites DEF Cites
<1>8. id[2] \in Revision /\ docs = world.tree[RevOf(w)]
  BY DEF Id, Docs
<1>9. LastDoc(docs, id[1]) # {}
  BY <1>2, <1>6, <1>7, <1>8 DEF IdsStay
<1>10. PICK m \in 1..Len(docs) : docs[m].key = id[1]
  BY <1>9 DEF LastDoc
<1>11. Superseded(world, j) = Len(docs)
  BY <1>1, <1>2 DEF Superseded
<1> QED
  BY <1>2, <1>3, <1>4, <1>10, <1>11 DEF Cleared

\* What a sync that ran alone commits is its revision.
LEMMA CommitShows ==
    ASSUME Inv, LastSyncInv, NEW w \in Worker, Commit(w), RevOf(w) # NULL,
           ~overlapped, IdsStay, NEW rev, rev = RevOf(w)
    PROVE  ProjectionOf(rev)'
<1> DEFINE docs == Docs(w)
           Says(id, states) == /\ id[2] = rev
                               /\ \E n \in LastDoc(docs, id[1]) : docs[n].state \in states
<1>1. /\ docs \in Seq(Document) /\ docs = world.tree[rev] /\ world' = world
      /\ \A n \in 1..Len(docs) :
            LET id == <<docs[n].key, rev>>
            IN  /\ id \in Id /\ rows'[id] # NULL
                /\ \E l \in LastDoc(docs, id[1]) : rows'[id].state = docs[l].state
  BY CommitEffect DEF Commit, Docs
<1>2. rev \in Revision
  <2>1. job[w] # NULL
    BY CommitEffect
  <2> QED
    BY <2>1, JobFacts
<1>3. \A id \in Id : rows'[id] # NULL /\ rows'[id].state \in Live => id[2] = rev
  BY NoneIsLeftOver DEF IsLive
<1> HIDE DEF docs
<1>4. ASSUME NEW id \in Id, id[2] = rev, rows'[id] # NULL
      PROVE  \E n \in LastDoc(docs, id[1]) : rows'[id].state = docs[n].state
  <2>1. PICK n \in 1..Len(docs) : docs[n].key = id[1]
    BY <1>1, <1>4, CommitCites DEF Cites
  <2>2. id = <<docs[n].key, rev>>
    BY <1>4, <2>1 DEF Id
  <2> QED
    BY <1>1, <2>1, <2>2
<1>5. ASSUME NEW id \in Id, id[2] = rev, NEW n \in LastDoc(docs, id[1])
      PROVE  rows'[id] # NULL /\ rows'[id].state = docs[n].state
  <2>1. n \in 1..Len(docs) /\ docs[n].key = id[1]
    BY <1>5 DEF LastDoc
  <2>2. id = <<docs[n].key, rev>>
    BY <1>5, <2>1 DEF Id
  <2>3. rows'[id] # NULL
    BY <1>1, <2>1, <2>2
  <2>4. PICK l \in LastDoc(docs, id[1]) : rows'[id].state = docs[l].state
    BY <1>4, <1>5, <2>3
  <2>5. l = n
    <3>1. l \in Nat /\ n \in Nat /\ l <= n /\ n <= l
      BY <1>1 DEF LastDoc
    <3> QED
      BY <3>1
  <2> QED
    BY <2>3, <2>4, <2>5
<1>6. ASSUME NEW id \in Id, NEW states
      PROVE  Says(id, states) <=>
                id[2] = rev /\ rows'[id] # NULL /\ rows'[id].state \in states
  BY <1>4, <1>5
<1>7. "accepted" \in Live
  BY DEF Live
<1>8. {id \in Id : rows'[id] # NULL /\ rows'[id].state \in Live} = {id \in Id : Says(id, Live)}
  BY <1>3, <1>6
<1>9. {id \in Id : rows'[id] # NULL /\ rows'[id].state = "accepted"}
            = {id \in Id : Says(id, {"accepted"})}
  <2> HIDE DEF Says
  <2>1. ASSUME NEW id \in Id
        PROVE  rows'[id] # NULL /\ rows'[id].state = "accepted" <=> Says(id, {"accepted"})
    <3>1. rows'[id] # NULL /\ rows'[id].state = "accepted" => id[2] = rev
      BY <1>3, <1>7
    <3>2. Says(id, {"accepted"}) <=>
                id[2] = rev /\ rows'[id] # NULL /\ rows'[id].state \in {"accepted"}
      BY <1>6
    <3> QED
      BY <3>1, <3>2
  <2> QED
    BY <2>1
<1>10. ProjectionOf(rev)' <=>
            /\ {id \in Id : rows'[id] # NULL /\ rows'[id].state \in Live}
                    = {id \in Id : Says(id, Live)}
            /\ {id \in Id : rows'[id] # NULL /\ rows'[id].state = "accepted"}
                    = {id \in Id : Says(id, {"accepted"})}
  <2>1. world'.tree[rev] = docs
    BY <1>1
  <2>2. \A id \in Id : LastDoc(world.tree[rev], id[1])' = LastDoc(docs, id[1])
    BY <2>1 DEF LastDoc
  <2> QED
    BY <2>1, <2>2 DEF ProjectionOf, IsLive, Served
<1> QED
  BY <1>8, <1>9, <1>10

LEMMA CommitKeeps ==
    ASSUME Inv, LastSyncInv, NEW w \in Worker, Commit(w)
    PROVE  LastSyncInv'
<1>1. CASE RevOf(w) = NULL
  BY <1>1, OtherEventKeeps
<1>2. CASE RevOf(w) # NULL
  <2>1. InSync(w)
    BY <1>2 DEF Commit, At, InSync
  <2>2. /\ world' = world /\ synced' = RevOf(w)
    BY <1>2 DEF Commit
  <2>3. overlapped' = overlapped
    BY Zenon DEF Commit
  <2>4. \A v \in Worker : InSync(v)' => v # w /\ InSync(v)
    BY <2>2, CommitCites DEF InSync, RevOf
  <2>5. ~overlapped' => \A v \in Worker : ~InSync(v)'
    BY <2>1, <2>3, <2>4 DEF LastSyncInv
  <2>6. IdsStay' <=> IdsStay
    BY <2>2 DEF IdsStay, LastDoc, PathsOf
  <2>7. PICK rev : rev = RevOf(w)
    OBVIOUS
  <2>8. ~overlapped /\ IdsStay => ProjectionOf(rev)'
    BY <1>2, <2>7, CommitShows
  <2>9. ProjectionIsLastSync'
    BY <2>2, <2>3, <2>6, <2>7, <2>8 DEF ProjectionIsLastSync
  <2> QED
    BY <2>5, <2>9, CommitCites DEF LastSyncInv
<1> QED
  BY <1>1, <1>2

LEMMA LastSyncNext == Inv /\ LastSyncInv /\ [Next]_vars => LastSyncInv'
<1> SUFFICES ASSUME Inv, LastSyncInv, [Next]_vars PROVE LastSyncInv'
  OBVIOUS
<1>0. job \in [Worker -> Job \cup {NULL}] /\ \A w \in Worker : job[w] # NULL => job[w] \in Job
  BY DEF Inv, TypeOK
<1>1. CASE UNCHANGED vars
  BY <1>1, QuietKeeps DEF vars
<1>2. CASE \E d \in Delivery : Receive(d) \/ Enqueue(d) \/ EnqueueRaises(d) \/ MarkUnqueued(d)
                \/ ApiCrash(d) \/ Requeue(d)
  <2>1. UNCHANGED <<world, rows, job, synced, overlapped>>
    BY <1>2 DEF Receive, Enqueue, EnqueueRaises, MarkUnqueued, ApiCrash, Requeue, history
  <2> QED
    BY <2>1, QuietKeeps
<1>3. ASSUME NEW w \in Worker, NEW d \in Delivery, Take(w, d) PROVE LastSyncInv'
  <2>1. /\ UNCHANGED <<world, rows, synced, overlapped>>
        /\ job'[w].at = "check" /\ job'[w].mine = Nothing
        /\ \A v \in Worker \ {w} : job'[v] = job[v]
    BY <1>0, <1>3 DEF Take, history
  <2> QED
    BY <2>1, QuietKeeps
<1>4. ASSUME NEW w \in Worker, Finish(w) \/ MarkFailed(w) \/ Crash(w) PROVE LastSyncInv'
  <2>1. /\ UNCHANGED <<world, rows, synced, overlapped>>
        /\ job' = [job EXCEPT ![w] = NULL]
    BY <1>4 DEF Finish, MarkFailed, Crash, EndJob, history
  <2> QED
    BY <1>0, <2>1, QuietKeeps
<1>5. ASSUME NEW w \in Worker, ReadFails(w) \/ Raise(w) \/ DeadlockVictim(w) PROVE LastSyncInv'
  <2>1. Fails(w) /\ job[w] \in Job
    BY <1>0, <1>5, WaitersWork DEF ReadFails, Raise, DeadlockVictim, At
  <2>2. /\ UNCHANGED <<world, rows, synced, overlapped>>
        /\ job'[w].at = "mark" /\ job'[w].mine = Nothing
        /\ \A v \in Worker \ {w} : job'[v] = job[v]
    BY <1>0, <2>1 DEF Fails, history, Job
  <2> QED
    BY <2>2, QuietKeeps
<1> QED
  BY <1>1, <1>2, <1>3, <1>4, <1>5, CheckKeeps, UpsertKeeps, PickKeeps, RetireKeeps, CommitKeeps
     DEF Next, Work

\* As long as syncs have not run side by side, what is live and what is served
\* is the revision synced last (persist_sidecar_sync).
THEOREM ProjectionIsLastSyncAlways == Spec => []ProjectionIsLastSync
<1>1. Init /\ []Inv /\ [][Next]_vars => []LastSyncInv
  BY LastSyncInit, LastSyncNext, PTL
<1>2. LastSyncInv => ProjectionIsLastSync
  BY DEF LastSyncInv
<1> QED
  BY <1>1, <1>2, InvAlways, PTL DEF Spec
================================================================================
