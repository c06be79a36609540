---------------------------- MODULE CurationProofs ----------------------------
(***************************************************************************)
(* For any memories, entities, texts, reviewers and bounds: what machines  *)
(* propose and people decide (EntityGraph, OrgEntities, Extraction and     *)
(* Distillation, as Unattended puts them side by side).                    *)
(***************************************************************************)
EXTENDS Unattended, FiniteSetTheorems, FunctionTheorems, NaturalsInduction, TLAPS

-----------------------------------------------------------------------------
(***************************************************************************)
(* EntityGraph.                                                            *)
(***************************************************************************)
\* A conflict is stored with the memory of the lower rank first.
StoredInOrder ==
    \A a, b \in Memory, kind \in Graph!Kind :
        conflict[<<a, b, kind>>] # NULL => Graph!Rank[a] < Graph!Rank[b]

GraphInv == Graph!TypeOK /\ Graph!EdgesAreEarned /\ StoredInOrder

\* What is assumed of the graph's constants.
LEMMA GraphConstants ==
    /\ Dictionary \cap Glossary = {}
    /\ Subjects \in [Memory -> Seq(Dictionary \cup Glossary)]
    /\ Infers \in [Memory -> SUBSET (Dictionary \X Dictionary)]
    /\ Declares \in [Memory -> SUBSET (Dictionary \cup Glossary)]
    /\ Trusted \subseteq Memory
    /\ MaxAborts \in Nat
    /\ NULL \notin Graph!Pair
    /\ NULL \notin {"source", "review", "pending", "accepted", "rejected",
                    "quarantined", "active", "archived", "open", "resolved"}
BY UnattendedAssumption DEF UnattendedAssumption, Graph!GraphAssumption, Graph!Term

\* The memories can be ranked.
LEMMA RankIsOne ==
    /\ Graph!Rank \in [Memory -> Nat]
    /\ \A a, b \in Memory : Graph!Rank[a] = Graph!Rank[b] => a = b
<1>1. ASSUME NEW S PROVE Graph!Cardinality(S) = Cardinality(S)
  BY Zenon DEF Graph!Cardinality, Cardinality
<1>2. IsFiniteSet(Memory)
  <2>1. Graph!IsFiniteSet(Memory)
    BY UnattendedAssumption DEF UnattendedAssumption, Graph!GraphAssumption
  <2> QED
    BY <2>1 DEF Graph!IsFiniteSet, IsFiniteSet
<1>3. PICK f : f \in Bijection(Memory, 1..Cardinality(Memory))
  BY <1>2, FS_CardinalityType, Fun_ExistsBijSymmetric DEF ExistsBijection
<1>4. f \in [Memory -> 1..Graph!Cardinality(Memory)] /\ Graph!IsInjective(f)
  BY <1>1, <1>3 DEF Bijection, Injection, IsInjective, Graph!IsInjective
<1>5. /\ Graph!Rank \in [Memory -> 1..Graph!Cardinality(Memory)]
      /\ Graph!IsInjective(Graph!Rank)
  BY <1>4 DEF Graph!Rank
<1>6. Cardinality(Memory) \in Nat
  BY <1>2, FS_CardinalityType
<1> QED
  BY <1>1, <1>5, <1>6 DEF Graph!IsInjective

LEMMA GraphInitInv == Graph!Init => GraphInv
<1> USE GraphConstants
<1> SUFFICES ASSUME Graph!Init PROVE GraphInv
  OBVIOUS
<1>1. Graph!TypeOK
  BY DEF Graph!Init, Graph!TypeOK, Graph!Term
<1>2. Graph!EdgesAreEarned
  BY DEF Graph!Init, Graph!EdgesAreEarned
<1>3. StoredInOrder
  BY DEF Graph!Init, StoredInOrder
<1> QED
  BY <1>1, <1>2, <1>3 DEF GraphInv

\* A memory's relations put edges and proposals where there was none.
LEMMA RelatedInv ==
    ASSUME GraphInv, NEW m \in Memory, NEW pairs \in SUBSET Graph!Pair,
           Graph!Related(m, pairs), status' \in [Memory -> {NULL, "quarantined", "active", "archived"}],
           \A n \in Memory : status[n] # NULL => status'[n] # NULL,
           status'[m] # NULL,
           \A e \in pairs : e \in Infers[m] \/ e[2] \in Declares[m]
    PROVE  /\ edge' \in [Graph!Pair -> {NULL, "source", "review"}]
           /\ proposal' \in [Graph!Pair -> {NULL, "pending", "accepted", "rejected"}]
           /\ Graph!EdgesAreEarned'
           /\ \A e \in Graph!Pair : proposal[e] \in {"accepted", "rejected"}
                                        => proposal'[e] = proposal[e]
<1> USE GraphConstants
<1>1. /\ edge \in [Graph!Pair -> {NULL, "source", "review"}]
      /\ proposal \in [Graph!Pair -> {NULL, "pending", "accepted", "rejected"}]
      /\ status \in [Memory -> {NULL, "quarantined", "active", "archived"}]
  BY DEF GraphInv, Graph!TypeOK
<1>2. \A e \in Graph!Pair :
        /\ edge[e] = "review" => proposal[e] = "accepted"
        /\ proposal[e] = "accepted" => edge[e] # NULL
        /\ edge[e] = "source" =>
            \E n \in Trusted : status[n] # NULL /\ (e \in Infers[n] \/ e[2] \in Declares[n])
  BY DEF GraphInv, Graph!EdgesAreEarned, Graph!Held
<1>3. CASE m \in Trusted /\ edge' = Graph!Asserted(pairs) /\ UNCHANGED proposal
  <2>1. edge' = [e \in Graph!Pair |-> IF e \in pairs /\ edge[e] = NULL THEN "source" ELSE edge[e]]
    BY <1>3 DEF Graph!Asserted
  <2>2. edge' \in [Graph!Pair -> {NULL, "source", "review"}]
    BY <1>1, <2>1
  <2>3. ASSUME NEW e \in Graph!Pair
        PROVE  /\ edge'[e] = "review" => proposal'[e] = "accepted"
               /\ proposal'[e] = "accepted" => edge'[e] # NULL
               /\ edge'[e] = "source" =>
                   \E n \in Trusted : status'[n] # NULL /\ (e \in Infers[n] \/ e[2] \in Declares[n])
    BY <1>1, <1>2, <1>3, <2>1
  <2> QED
    BY <1>1, <1>3, <2>2, <2>3 DEF Graph!EdgesAreEarned, Graph!Held
<1>4. CASE m \notin Trusted /\ proposal' = Graph!Asked(pairs) /\ UNCHANGED edge
  <2>1. proposal' = [e \in Graph!Pair |-> IF e \in pairs /\ proposal[e] = NULL THEN "pending"
                                          ELSE proposal[e]]
    BY <1>4 DEF Graph!Asked
  <2>2. proposal' \in [Graph!Pair -> {NULL, "pending", "accepted", "rejected"}]
    BY <1>1, <2>1
  <2>3. ASSUME NEW e \in Graph!Pair
        PROVE  /\ edge'[e] = "review" => proposal'[e] = "accepted"
               /\ proposal'[e] = "accepted" => edge'[e] # NULL
               /\ edge'[e] = "source" =>
                   \E n \in Trusted : status'[n] # NULL /\ (e \in Infers[n] \/ e[2] \in Declares[n])
    BY <1>1, <1>2, <1>4, <2>1
  <2>4. \A e \in Graph!Pair : proposal[e] \in {"accepted", "rejected"}
                                        => proposal'[e] = proposal[e]
    BY <1>1, <2>1
  <2> QED
    BY <1>1, <1>4, <2>2, <2>3, <2>4 DEF Graph!EdgesAreEarned, Graph!Held
<1> QED
  BY <1>3, <1>4 DEF Graph!Related

\* The terms found in a memory are terms.
LEMMA FoundAreTerms ==
    ASSUME NEW m \in Memory, NEW words
    PROVE  Graph!Found(m, words) \subseteq Dictionary \cup Glossary
BY GraphConstants DEF Graph!Found, Graph!Range

\* What a memory relates is inferred from its text or declared by it.
LEMMA RelationsAreTheMemorys ==
    ASSUME NEW m \in Memory, NEW found, NEW known,
           NEW e \in Graph!Resolved(Graph!Relations(m, found, Declares[m]), known)
    PROVE  e \in Graph!Pair /\ (e \in Infers[m] \/ e[2] \in Declares[m])
BY DEF Graph!Resolved, Graph!Relations

\* What a decision step may do: decided stays decided.
DecisionsKept ==
    /\ \A e \in Graph!Pair : proposal[e] \in {"accepted", "rejected"}
                              => proposal'[e] \in {"accepted", "rejected"}
    /\ \A c \in DOMAIN conflict : conflict[c] = "resolved" => conflict'[c] = "resolved"

GraphKept == GraphInv' /\ DecisionsKept

LEMMA WriteMemoryInv ==
    ASSUME GraphInv, NEW p \in Process, NEW m \in Memory, Graph!WriteMemory(p, m)
    PROVE  GraphKept
<1> USE GraphConstants
<1> DEFINE words == Graph!Loaded(p)
           names == Graph!Found(m, words)
           pairs == Graph!Resolved(Graph!Relations(m, names, Declares[m]),
                                   Graph!Entities \cup names)
<1>1. /\ status[m] = NULL
      /\ status' = [status EXCEPT ![m] = IF m \in Trusted THEN "active" ELSE "quarantined"]
      /\ cache' = [cache EXCEPT ![p] = words]
      /\ Graph!Link(m, words, Declares[m]) \/ Graph!LinkPartly(m, words)
      /\ UNCHANGED <<authored, conflict, reviewing, aborts>>
  BY DEF Graph!WriteMemory
<1>2. /\ status' \in [Memory -> {NULL, "quarantined", "active", "archived"}]
      /\ \A n \in Memory : status[n] # NULL => status'[n] # NULL
      /\ status'[m] # NULL
  BY <1>1 DEF GraphInv, Graph!TypeOK
<1>3. words \subseteq Glossary /\ names \subseteq Dictionary \cup Glossary
  BY FoundAreTerms DEF GraphInv, Graph!TypeOK, Graph!Loaded
<1>4. /\ observed' \subseteq Graph!Term
      /\ mention' \subseteq Memory \X Graph!Term
  <2>1. CASE UNCHANGED <<observed, mention, edge, proposal>>
    BY <2>1 DEF GraphInv, Graph!TypeOK
  <2>2. CASE ~UNCHANGED <<observed, mention, edge, proposal>>
    <3>1. observed' = observed \cup (names \ authored) /\ mention' = mention \cup ({m} \X names)
      BY <1>1, <2>2 DEF Graph!Link, Graph!LinkPartly
    <3> QED
      BY <1>3, <3>1 DEF GraphInv, Graph!TypeOK, Graph!Term
  <2> QED
    BY <2>1, <2>2
<1>5. cache' \in [Process -> {NULL} \cup SUBSET Glossary]
  BY <1>1, <1>3 DEF GraphInv, Graph!TypeOK
<1>6. /\ edge' \in [Graph!Pair -> {NULL, "source", "review"}]
      /\ proposal' \in [Graph!Pair -> {NULL, "pending", "accepted", "rejected"}]
      /\ Graph!EdgesAreEarned'
      /\ \A e \in Graph!Pair : proposal[e] \in {"accepted", "rejected"}
                                        => proposal'[e] = proposal[e]
  <2>1. CASE Graph!Link(m, words, Declares[m])
    <3>1. Graph!Related(m, pairs)
      BY <2>1 DEF Graph!Link
    <3>2. \A e \in pairs : e \in Graph!Pair /\ (e \in Infers[m] \/ e[2] \in Declares[m])
      BY RelationsAreTheMemorys
    <3> HIDE DEF pairs
    <3> QED
      BY <1>2, <3>1, <3>2, RelatedInv
  <2>2. CASE Graph!LinkPartly(m, words)
    <3>1. UNCHANGED <<edge, proposal>>
      BY <2>2 DEF Graph!LinkPartly
    <3> QED
      BY <1>2, <3>1 DEF GraphInv, Graph!TypeOK, Graph!EdgesAreEarned, Graph!Held
  <2> QED
    BY <1>1, <2>1, <2>2
<1>7. Graph!TypeOK'
  BY <1>1, <1>2, <1>4, <1>5, <1>6 DEF GraphInv, Graph!TypeOK
<1>8. StoredInOrder'
  BY <1>1 DEF GraphInv, StoredInOrder
<1> QED
  BY <1>1, <1>6, <1>7, <1>8 DEF GraphKept, GraphInv, DecisionsKept

LEMMA BackfillInv ==
    ASSUME GraphInv, NEW p \in Process, NEW m \in Memory, Graph!Backfill(p, m)
    PROVE  GraphKept
<1> USE GraphConstants
<1> DEFINE words == IF cache[p] = NULL THEN {} ELSE cache[p]
           names == IF \E t \in Graph!Term : <<m, t>> \in mention THEN {}
                    ELSE Graph!Found(m, words)
           pairs == Graph!Resolved(Infers[m], Graph!Entities \cup names)
<1>1. /\ m \in Graph!Open
      /\ observed' = observed \cup (names \ authored)
      /\ mention' = mention \cup ({m} \X names)
      /\ Graph!Related(m, pairs)
      /\ UNCHANGED <<authored, status, conflict, cache, reviewing, aborts>>
  BY DEF Graph!Backfill
<1>2. /\ status' \in [Memory -> {NULL, "quarantined", "active", "archived"}]
      /\ \A n \in Memory : status[n] # NULL => status'[n] # NULL
      /\ status'[m] # NULL
  BY <1>1 DEF GraphInv, Graph!TypeOK, Graph!Open
<1>3. names \subseteq Dictionary \cup Glossary
  BY FoundAreTerms
<1>4. observed' \subseteq Graph!Term /\ mention' \subseteq Memory \X Graph!Term
  BY <1>1, <1>3 DEF GraphInv, Graph!TypeOK, Graph!Term
<1>5. \A e \in pairs : e \in Graph!Pair /\ (e \in Infers[m] \/ e[2] \in Declares[m])
  BY DEF Graph!Resolved
<1> HIDE DEF pairs, names
<1>6. /\ edge' \in [Graph!Pair -> {NULL, "source", "review"}]
      /\ proposal' \in [Graph!Pair -> {NULL, "pending", "accepted", "rejected"}]
      /\ Graph!EdgesAreEarned'
      /\ \A e \in Graph!Pair : proposal[e] \in {"accepted", "rejected"}
                                        => proposal'[e] = proposal[e]
  BY <1>1, <1>2, <1>5, RelatedInv
<1>7. Graph!TypeOK'
  BY <1>1, <1>2, <1>4, <1>6 DEF GraphInv, Graph!TypeOK
<1>8. StoredInOrder'
  BY <1>1 DEF GraphInv, StoredInOrder
<1> QED
  BY <1>1, <1>6, <1>7, <1>8 DEF GraphKept, GraphInv, DecisionsKept

\* Steps that leave edges, proposals and conflicts, and no memory unwritten.
LEMMA NothingDecided ==
    ASSUME GraphInv, UNCHANGED <<edge, proposal, conflict>>, Graph!TypeOK',
           \A n \in Memory : status[n] # NULL => status'[n] # NULL
    PROVE  GraphKept
<1>1. Graph!EdgesAreEarned'
  BY DEF GraphInv, Graph!EdgesAreEarned, Graph!Held
<1>2. StoredInOrder'
  BY DEF GraphInv, StoredInOrder
<1> QED
  BY <1>1, <1>2 DEF GraphKept, GraphInv, DecisionsKept

LEMMA VocabularyInv ==
    ASSUME GraphInv, NEW p \in Process,
           \/ \E m \in Memory : Graph!WriteLost(p, m)
           \/ \E terms \in SUBSET Glossary : Graph!IngestGlossary(p, terms)
           \/ Graph!Restart(p)
    PROVE  GraphKept
<1> USE GraphConstants
<1>1. UNCHANGED <<edge, proposal, conflict, status>>
  BY DEF Graph!WriteLost, Graph!IngestGlossary, Graph!Restart, Graph!graph
<1>2. Graph!TypeOK'
  <2>1. CASE \E m \in Memory : Graph!WriteLost(p, m)
    BY <2>1 DEF Graph!WriteLost, GraphInv, Graph!TypeOK, Graph!Loaded, Graph!graph
  <2>2. CASE \E terms \in SUBSET Glossary : Graph!IngestGlossary(p, terms)
    BY <2>2 DEF Graph!IngestGlossary, GraphInv, Graph!TypeOK
  <2>3. CASE Graph!Restart(p)
    BY <2>3 DEF Graph!Restart, GraphInv, Graph!TypeOK, Graph!graph
  <2> QED
    BY <2>1, <2>2, <2>3
<1> QED
  BY <1>1, <1>2, NothingDecided

LEMMA ReviewReadsInv ==
    ASSUME GraphInv,
           \/ \E r \in Reviewer, e \in Graph!Pair : Graph!AcceptRead(r, e)
           \/ \E r \in Reviewer : Graph!ReviewAbort(r)
           \/ \E m \in Memory, to \in {"active", "quarantined", "archived"} : Graph!Move(m, to)
    PROVE  GraphKept
<1> USE GraphConstants
<1>1. UNCHANGED <<edge, proposal, conflict>>
  BY DEF Graph!AcceptRead, Graph!ReviewAbort, Graph!Move, Graph!graph
<1>2. /\ Graph!TypeOK'
      /\ \A n \in Memory : status[n] # NULL => status'[n] # NULL
  <2>1. CASE \E r \in Reviewer, e \in Graph!Pair : Graph!AcceptRead(r, e)
    BY <2>1 DEF Graph!AcceptRead, GraphInv, Graph!TypeOK, Graph!graph
  <2>2. CASE \E r \in Reviewer : Graph!ReviewAbort(r)
    BY <2>2 DEF Graph!ReviewAbort, GraphInv, Graph!TypeOK, Graph!graph
  <2>3. CASE \E m \in Memory, to \in {"active", "quarantined", "archived"} : Graph!Move(m, to)
    BY <2>3 DEF Graph!Move, GraphInv, Graph!TypeOK, Graph!graph
  <2> QED
    BY <2>1, <2>2, <2>3
<1> QED
  BY <1>1, <1>2, NothingDecided

LEMMA AcceptCommitInv ==
    ASSUME GraphInv, NEW r \in Reviewer, Graph!AcceptCommit(r)
    PROVE  GraphKept
<1> USE GraphConstants
<1> DEFINE e == reviewing[r]
<1>1. /\ e \in Graph!Pair
      /\ edge' = [edge EXCEPT ![e] = IF edge[e] = NULL THEN "review" ELSE edge[e]]
      /\ proposal' = [proposal EXCEPT ![e] = "accepted"]
      /\ reviewing' = [reviewing EXCEPT ![r] = NULL]
      /\ UNCHANGED <<authored, observed, mention, status, conflict, cache, aborts>>
  BY DEF Graph!AcceptCommit, GraphInv, Graph!TypeOK
<1> HIDE DEF e
<1>2. Graph!TypeOK'
  BY <1>1 DEF GraphInv, Graph!TypeOK
<1>3. Graph!EdgesAreEarned'
  BY <1>1 DEF GraphInv, Graph!TypeOK, Graph!EdgesAreEarned, Graph!Held
<1>4. StoredInOrder' /\ DecisionsKept
  BY <1>1 DEF GraphInv, Graph!TypeOK, StoredInOrder, DecisionsKept
<1> QED
  BY <1>2, <1>3, <1>4 DEF GraphKept, GraphInv

LEMMA RejectEdgeInv ==
    ASSUME GraphInv, NEW e \in Graph!Pair, Graph!RejectEdge(e)
    PROVE  GraphKept
<1> USE GraphConstants
<1>1. /\ proposal[e] = "pending"
      /\ proposal' = [proposal EXCEPT ![e] = "rejected"]
      /\ UNCHANGED <<authored, observed, mention, edge, status, conflict, cache, reviewing,
                     aborts>>
  BY DEF Graph!RejectEdge
<1>2. Graph!TypeOK'
  BY <1>1 DEF GraphInv, Graph!TypeOK
<1>3. Graph!EdgesAreEarned'
  BY <1>1 DEF GraphInv, Graph!TypeOK, Graph!EdgesAreEarned, Graph!Held
<1>4. StoredInOrder' /\ DecisionsKept
  BY <1>1 DEF GraphInv, Graph!TypeOK, StoredInOrder, DecisionsKept
<1> QED
  BY <1>2, <1>3, <1>4 DEF GraphKept, GraphInv

LEMMA DetectInv ==
    ASSUME GraphInv, NEW a \in Memory, NEW b \in Memory, NEW kind \in Graph!Kind,
           Graph!Detect(a, b, kind)
    PROVE  GraphKept
<1> USE GraphConstants
<1> DEFINE pair == Graph!Ordered(a, b, Graph!Rank)
           line == <<pair[1], pair[2], kind>>
<1>1. /\ a # b
      /\ conflict[line] = NULL
      /\ conflict' = [conflict EXCEPT ![line] = "open"]
      /\ UNCHANGED <<authored, observed, mention, edge, proposal, status, cache, reviewing,
                     aborts>>
  BY DEF Graph!Detect, Graph!graph
<1>2. /\ pair[1] \in Memory /\ pair[2] \in Memory
      /\ Graph!Rank[pair[1]] < Graph!Rank[pair[2]]
  BY <1>1, RankIsOne DEF Graph!Ordered
<1> HIDE DEF pair
<1>3. Graph!TypeOK'
  BY <1>1, <1>2 DEF GraphInv, Graph!TypeOK
<1>4. Graph!EdgesAreEarned'
  BY <1>1 DEF GraphInv, Graph!EdgesAreEarned, Graph!Held
<1>5. StoredInOrder'
  BY <1>1, <1>2 DEF GraphInv, Graph!TypeOK, StoredInOrder
<1>6. DecisionsKept
  BY <1>1, <1>2 DEF GraphInv, Graph!TypeOK, DecisionsKept
<1> QED
  BY <1>3, <1>4, <1>5, <1>6 DEF GraphKept, GraphInv

LEMMA ResolveConflictInv ==
    ASSUME GraphInv, NEW c \in DOMAIN conflict, Graph!ResolveConflict(c)
    PROVE  GraphKept
<1> USE GraphConstants
<1>1. /\ conflict[c] = "open"
      /\ conflict' = [conflict EXCEPT ![c] = "resolved"]
      /\ UNCHANGED <<authored, observed, mention, edge, proposal, status, cache, reviewing,
                     aborts>>
  BY DEF Graph!ResolveConflict, Graph!graph
<1>2. Graph!TypeOK'
  BY <1>1 DEF GraphInv, Graph!TypeOK
<1>3. Graph!EdgesAreEarned'
  BY <1>1 DEF GraphInv, Graph!EdgesAreEarned, Graph!Held
<1>4. StoredInOrder' /\ DecisionsKept
  BY <1>1 DEF GraphInv, Graph!TypeOK, StoredInOrder, DecisionsKept
<1> QED
  BY <1>2, <1>3, <1>4 DEF GraphKept, GraphInv

LEMMA GraphStep == GraphInv /\ [Graph!Next]_Graph!vars => GraphKept
<1> SUFFICES ASSUME GraphInv, [Graph!Next]_Graph!vars PROVE GraphKept
  OBVIOUS
<1>1. CASE UNCHANGED Graph!vars
  <2>1. Graph!TypeOK'
    BY <1>1 DEF Graph!vars, GraphInv, Graph!TypeOK
  <2> QED
    BY <1>1, <2>1, NothingDecided DEF Graph!vars
<1>2. CASE Graph!Next
  BY <1>2, WriteMemoryInv, BackfillInv, VocabularyInv, ReviewReadsInv, AcceptCommitInv,
     RejectEdgeInv, DetectInv, ResolveConflictInv DEF Graph!Next
<1> QED
  BY <1>1, <1>2

LEMMA GraphInvariance == Graph!Spec => []GraphInv
<1>1. GraphInv /\ [Graph!Next]_Graph!vars => GraphInv'
  BY GraphStep DEF GraphKept
<1> QED
  BY <1>1, GraphInitInv, PTL DEF Graph!Spec

\* Every reachable state of the graph has its types.
THEOREM GraphTypeCorrect == Graph!Spec => []Graph!TypeOK
<1>1. GraphInv => Graph!TypeOK
  BY DEF GraphInv
<1> QED
  BY <1>1, GraphInvariance, PTL

\* No machine's guess is an edge on its own, and what a reviewer accepted is one.
THEOREM MachinesOnlyPropose == Graph!Spec => []EdgesAreEarned
<1>1. GraphInv => EdgesAreEarned
  BY DEF GraphInv, EdgesAreEarned
<1> QED
  BY <1>1, GraphInvariance, PTL

\* Two memories are asked about once per kind, in whichever order passes meet them.
THEOREM DisagreementsAreAskedOnce == Graph!Spec => []OneQuestionPerDisagreement
<1>1. GraphInv => OneQuestionPerDisagreement
  BY RankIsOne DEF GraphInv, StoredInOrder, OneQuestionPerDisagreement,
     Graph!OneQuestionPerDisagreement
<1> QED
  BY <1>1, GraphInvariance, PTL

\* What a reviewer has decided is not asked again.
THEOREM DecisionsAreFinal == Graph!Spec => DecisionsStand
<1>1. GraphInv /\ [Graph!Next]_Graph!vars => [DecisionsKept]_Graph!vars
  BY GraphStep DEF GraphKept
<1>2. DecisionsStand <=> [][DecisionsKept]_Graph!vars
  BY Zenon DEF DecisionsStand, Graph!DecisionsStand, DecisionsKept
<1> QED
  BY <1>1, <1>2, GraphInvariance, PTL DEF Graph!Spec
-----------------------------------------------------------------------------
(***************************************************************************)
(* OrgEntities.  SharedCrossedReview needs what an open review has read:   *)
(* its row is still there, and a name it accepts passed the screen.        *)
(***************************************************************************)
ReviewsAreScreened ==
    \A r \in Curator : deciding[r] # NULL =>
        /\ promotion[deciding[r].entity] # NULL
        /\ promotion[deciding[r].entity].clear
        /\ deciding[r].verdict = "accepted" => deciding[r].name \notin Specific

ProposalsAreClear == \A e \in Entity : promotion[e] # NULL => promotion[e].clear

OrgInv ==
    /\ Shared!TypeOK
    /\ ReviewsAreScreened
    /\ ProposalsAreClear
    /\ Shared!SharedCrossedReview

Proposed == [name : Name, decision : {NULL, "accepted", "rejected"}, clear : BOOLEAN]
Reading == [entity : Entity, name : Name, verdict : {"accepted", "rejected"}]

LEMMA OrgConstants ==
    /\ Specific \subseteq Name
    /\ NULL \notin {"accepted", "rejected"}
    /\ NULL \notin Proposed /\ NULL \notin Reading
BY UnattendedAssumption DEF UnattendedAssumption, Shared!OrgAssumption, Proposed, Reading

LEMMA OrgTypes ==
    Shared!TypeOK <=>
        /\ restricted \subseteq Entity
        /\ promotion \in [Entity -> {NULL} \cup Proposed]
        /\ shared \subseteq [name : Name, origin : Entity]
        /\ deciding \in [Curator -> {NULL} \cup Reading]
BY DEF Shared!TypeOK, Shared!Verdict, Proposed, Reading

LEMMA OrgInitInv == Shared!Init => OrgInv
<1> USE OrgConstants
<1> SUFFICES ASSUME Shared!Init PROVE OrgInv
  OBVIOUS
<1> QED
  BY OrgTypes DEF Shared!Init, OrgInv, ReviewsAreScreened, ProposalsAreClear,
     Shared!SharedCrossedReview

LEMMA ProposeInv ==
    ASSUME OrgInv, NEW e \in Entity, NEW name \in Name, Shared!Propose(e, name)
    PROVE  OrgInv'
<1> USE OrgConstants
<1> DEFINE new == [name |-> name,
                   decision |-> IF promotion[e] = NULL THEN NULL ELSE promotion[e].decision,
                   clear |-> e \notin restricted]
<1>1. /\ name \notin Specific /\ e \notin restricted
      /\ promotion' = [promotion EXCEPT ![e] = new]
      /\ UNCHANGED <<restricted, shared, deciding>>
  BY DEF Shared!Propose, Shared!Generalisable
<1>2. promotion \in [Entity -> {NULL} \cup Proposed]
  BY OrgTypes DEF OrgInv
<1>3. new \in Proposed /\ new.clear /\ new # NULL
  <2>1. new.decision \in {NULL, "accepted", "rejected"}
    BY <1>2 DEF Proposed
  <2>2. (e \notin restricted) = TRUE
    BY <1>1
  <2>3. new \in Proposed /\ new.clear
    BY <2>1, <2>2 DEF Proposed
  <2> QED
    BY <2>3
<1>4. new.decision = IF promotion[e] = NULL THEN NULL ELSE promotion[e].decision
  OBVIOUS
<1> HIDE DEF new
<1>5. promotion' \in [Entity -> {NULL} \cup Proposed]
  BY <1>1, <1>2, <1>3
<1>6. \A f \in Entity : promotion'[f] = IF f = e THEN new ELSE promotion[f]
  BY <1>1, <1>2
<1>7. Shared!TypeOK'
  BY <1>1, <1>5, OrgTypes DEF OrgInv, Shared!TypeOK, Shared!Verdict, Proposed
<1>8. ReviewsAreScreened' /\ ProposalsAreClear'
  BY <1>1, <1>3, <1>6, OrgTypes DEF OrgInv, ReviewsAreScreened, ProposalsAreClear, Reading
<1>9. Shared!SharedCrossedReview'
  <2>1. ASSUME NEW s \in shared
        PROVE  /\ s.name \notin Specific /\ promotion'[s.origin] # NULL
               /\ promotion'[s.origin].decision # NULL /\ promotion'[s.origin].clear
    <3>1. s.origin \in Entity
      BY OrgTypes DEF OrgInv
    <3> QED
      BY <1>3, <1>4, <1>6, <3>1 DEF OrgInv, Shared!SharedCrossedReview
  <2>2. ASSUME NEW f \in Entity, promotion'[f] # NULL, promotion'[f].decision = "accepted"
        PROVE  \E s \in shared : s.origin = f
    BY <1>4, <1>6, <2>2 DEF OrgInv, Shared!SharedCrossedReview
  <2> QED
    BY <1>1, <2>1, <2>2 DEF Shared!SharedCrossedReview
<1> QED
  BY <1>7, <1>8, <1>9 DEF OrgInv

LEMMA ReadProposalInv ==
    ASSUME OrgInv, NEW r \in Curator, NEW e \in Entity, NEW verdict \in {"accepted", "rejected"},
           Shared!ReadProposal(r, e, verdict)
    PROVE  OrgInv'
<1> USE OrgConstants
<1> DEFINE read == [entity |-> e, name |-> promotion[e].name, verdict |-> verdict]
<1>1. /\ promotion[e] # NULL
      /\ verdict = "accepted" => promotion[e].name \notin Specific
      /\ deciding' = [deciding EXCEPT ![r] = read]
      /\ UNCHANGED <<restricted, promotion, shared>>
  BY DEF Shared!ReadProposal
<1>2. /\ promotion \in [Entity -> {NULL} \cup Proposed]
      /\ deciding \in [Curator -> {NULL} \cup Reading]
  BY OrgTypes DEF OrgInv
<1>3. read \in Reading
  BY <1>1, <1>2 DEF Proposed, Reading
<1>4. read.entity = e /\ read.name = promotion[e].name /\ read.verdict = verdict
  OBVIOUS
<1> HIDE DEF read
<1>5. deciding' \in [Curator -> {NULL} \cup Reading]
  BY <1>1, <1>2, <1>3
<1>6. Shared!TypeOK'
  BY <1>1, <1>5, OrgTypes DEF OrgInv, Shared!TypeOK, Shared!Verdict, Reading
<1>7. ReviewsAreScreened'
  BY <1>1, <1>2, <1>4 DEF OrgInv, ReviewsAreScreened, ProposalsAreClear
<1> QED
  BY <1>1, <1>6, <1>7 DEF OrgInv, ProposalsAreClear, Shared!SharedCrossedReview

LEMMA DecideInv ==
    ASSUME OrgInv, NEW r \in Curator, Shared!Decide(r)
    PROVE  OrgInv'
<1> USE OrgConstants
<1> DEFINE read == deciding[r]
           row_ == [name |-> read.name, origin |-> read.entity]
<1>1. /\ read # NULL
      /\ shared' = IF read.verdict = "accepted" THEN shared \cup {row_} ELSE shared
      /\ promotion' = [promotion EXCEPT ![read.entity].decision = read.verdict]
      /\ deciding' = [deciding EXCEPT ![r] = NULL]
      /\ UNCHANGED restricted
  BY DEF Shared!Decide
<1>2. /\ promotion \in [Entity -> {NULL} \cup Proposed]
      /\ deciding \in [Curator -> {NULL} \cup Reading]
      /\ shared \subseteq [name : Name, origin : Entity]
  BY OrgTypes DEF OrgInv
<1>3. read \in Reading
  BY <1>1, <1>2
<1>4. promotion[read.entity] # NULL /\ promotion[read.entity] \in Proposed
  BY <1>1, <1>2, <1>3 DEF OrgInv, ReviewsAreScreened, Reading
<1> DEFINE new == [promotion[read.entity] EXCEPT !.decision = read.verdict]
<1>5. /\ new \in Proposed /\ new.decision = read.verdict
      /\ new.clear = promotion[read.entity].clear
  BY <1>3, <1>4 DEF Proposed, Reading
<1>6. promotion' = [promotion EXCEPT ![read.entity] = new]
  BY <1>1
<1>7. /\ promotion' \in [Entity -> {NULL} \cup Proposed]
      /\ \A f \in Entity : promotion'[f] = IF f = read.entity THEN new ELSE promotion[f]
  BY <1>2, <1>3, <1>5, <1>6 DEF Reading
<1>8. row_ \in [name : Name, origin : Entity] /\ row_.name = read.name /\ row_.origin = read.entity
  BY <1>3 DEF Reading
<1>9. read.verdict = "accepted" => read.name \notin Specific
  BY <1>1 DEF OrgInv, ReviewsAreScreened
<1>10. read.entity \in Entity /\ read.verdict \in {"accepted", "rejected"}
  BY <1>3 DEF Reading
<1> HIDE DEF new, row_, read
<1>11. /\ deciding' \in [Curator -> {NULL} \cup Reading]
       /\ shared' \subseteq [name : Name, origin : Entity]
  BY <1>1, <1>2, <1>8
<1>12. Shared!TypeOK'
  BY <1>1, <1>7, <1>11, OrgTypes DEF OrgInv, Shared!TypeOK, Shared!Verdict, Proposed, Reading
<1>13. ProposalsAreClear'
  BY <1>4, <1>5, <1>7 DEF OrgInv, ProposalsAreClear, Proposed
<1>14. ReviewsAreScreened'
  <2> SUFFICES ASSUME NEW q \in Curator, deciding'[q] # NULL
               PROVE  /\ promotion'[deciding'[q].entity] # NULL
                      /\ promotion'[deciding'[q].entity].clear
                      /\ deciding'[q].verdict = "accepted" => deciding'[q].name \notin Specific
    BY DEF ReviewsAreScreened
  <2>1. deciding'[q] = deciding[q] /\ deciding[q] \in Reading /\ deciding[q].entity \in Entity
    BY <1>1, <1>2 DEF Reading
  <2> QED
    BY <1>5, <1>7, <2>1, <1>13 DEF OrgInv, ReviewsAreScreened, ProposalsAreClear
<1>15. Shared!SharedCrossedReview'
  <2>1. ASSUME NEW s \in shared'
        PROVE  /\ s.name \notin Specific /\ promotion'[s.origin] # NULL
               /\ promotion'[s.origin].decision # NULL /\ promotion'[s.origin].clear
    <3>1. CASE s \in shared
      <4>1. s.origin \in Entity
        BY <1>2, <3>1
      <4> QED
        BY <1>5, <1>7, <1>10, <1>13, <3>1, <4>1 DEF OrgInv, Shared!SharedCrossedReview,
           ProposalsAreClear
    <3>2. CASE s = row_ /\ read.verdict = "accepted"
      BY <1>5, <1>7, <1>8, <1>9, <1>10, <1>13, <3>2 DEF ProposalsAreClear
    <3> QED
      BY <1>1, <3>1, <3>2
  <2>2. ASSUME NEW f \in Entity, promotion'[f] # NULL, promotion'[f].decision = "accepted"
        PROVE  \E s \in shared' : s.origin = f
    <3>1. CASE f = read.entity
      BY <1>1, <1>5, <1>7, <1>8, <2>2, <3>1
    <3>2. CASE f # read.entity
      BY <1>1, <1>7, <2>2, <3>2 DEF OrgInv, Shared!SharedCrossedReview
    <3> QED
      BY <3>1, <3>2
  <2> QED
    BY <2>1, <2>2 DEF Shared!SharedCrossedReview
<1> QED
  BY <1>12, <1>13, <1>14, <1>15 DEF OrgInv

LEMMA OrgRestInv ==
    ASSUME OrgInv,
           \/ \E e \in Entity : Shared!MentionRestricted(e)
           \/ \E r \in Curator : Shared!Fail(r)
           \/ UNCHANGED Shared!vars
    PROVE  OrgInv'
<1> USE OrgConstants
<1>1. UNCHANGED <<promotion, shared>>
  BY DEF Shared!MentionRestricted, Shared!Fail, Shared!vars
<1>2. \A q \in Curator : deciding'[q] # NULL => deciding'[q] = deciding[q]
  BY DEF Shared!MentionRestricted, Shared!Fail, Shared!vars, OrgInv, Shared!TypeOK
<1>3. Shared!TypeOK'
  BY DEF Shared!MentionRestricted, Shared!Fail, Shared!vars, OrgInv, Shared!TypeOK
<1>4. ReviewsAreScreened'
  BY <1>1, <1>2 DEF OrgInv, ReviewsAreScreened
<1> QED
  BY <1>1, <1>3, <1>4 DEF OrgInv, ProposalsAreClear, Shared!SharedCrossedReview

LEMMA OrgInvariance == Shared!Spec => []OrgInv
<1>1. OrgInv /\ [Shared!Next]_Shared!vars => OrgInv'
  BY ProposeInv, ReadProposalInv, DecideInv, OrgRestInv DEF Shared!Next, Shared!Verdict
<1> QED
  BY <1>1, OrgInitInv, PTL DEF Shared!Spec

\* Every reachable state of the promotion of entities has its types.
THEOREM OrgTypeCorrect == Shared!Spec => []Shared!TypeOK
<1>1. OrgInv => Shared!TypeOK
  BY DEF OrgInv
<1> QED
  BY <1>1, OrgInvariance, PTL

\* What other projects see has crossed a review, and what a row calls accepted is
\* shared, however two reviewers and new proposals race.
THEOREM SharingIsReviewed == Shared!Spec => []SharedCrossedReview
<1>1. OrgInv => SharedCrossedReview
  BY DEF OrgInv, SharedCrossedReview
<1> QED
  BY <1>1, OrgInvariance, PTL
-----------------------------------------------------------------------------
(***************************************************************************)
(* Extraction.  The switch is right because a sample below the threshold   *)
(* is taken on a day the inbox was below it, no day is sampled ahead, and  *)
(* today's sample, if there is one, is the last one taken.                 *)
(***************************************************************************)
Written == [by : {"capture", "extractor"}, on : 1..MaxDay, reviewed : BOOLEAN,
            status : {"quarantined", "active", "archived"}]
Daily == [depth : Nat, count : [promoted : Nat, rejected : Nat, extracted : Nat]]

SamplesAreOfTheirDay ==
    /\ Machine!Below(row) => day \in low
    /\ \A d \in 1..MaxDay : sample[d] # NULL /\ sample[d].depth < DisableDepth => d \in low
    /\ \A d \in 1..MaxDay : d > day => sample[d] = NULL
    /\ sample[day] # NULL => sample[day].depth = lastDepth

MachineTypes ==
    /\ day \in 1..MaxDay
    /\ row \in [Candidate -> {NULL} \cup Written]
    /\ decided \in [1..MaxDay -> [promoted : Nat, rejected : Nat]]
    /\ sample \in [1..MaxDay -> {NULL} \cup Daily]
    /\ session \in 0..MaxDay
    /\ low \subseteq 1..MaxDay
    /\ lastDepth \in Nat

MachineInv ==
    /\ MachineTypes
    /\ SamplesAreOfTheirDay
    /\ Machine!MachineWritingIsReviewed
    /\ Machine!DecisionsCountedOnce

LEMMA MachineConstants ==
    /\ DisableDepth \in Nat \ {0} /\ SustainedDays \in Nat \ {0} /\ MaxDay \in Nat \ {0}
    /\ Grounded \subseteq Candidate /\ Flagged \subseteq Candidate
    /\ IsFiniteSet(Candidate)
    /\ NULL \notin Written /\ NULL \notin Daily
<1>1. Machine!IsFiniteSet(Candidate) <=> IsFiniteSet(Candidate)
  BY DEF Machine!IsFiniteSet, IsFiniteSet
<1> QED
  BY <1>1, UnattendedAssumption DEF UnattendedAssumption, Machine!ExtractionAssumption, Written,
     Daily

\* Texts can be counted, and more of them count for more.
LEMMA CountingTexts ==
    ASSUME NEW S \in SUBSET Candidate, NEW T \in SUBSET S
    PROVE  /\ Machine!Cardinality(S) \in Nat
           /\ Machine!Cardinality(T) \in Nat
           /\ Machine!Cardinality(T) <= Machine!Cardinality(S)
<1>1. Machine!Cardinality(S) = Cardinality(S) /\ Machine!Cardinality(T) = Cardinality(T)
  BY Zenon DEF Machine!Cardinality, Cardinality
<1>2. IsFiniteSet(S) /\ IsFiniteSet(T)
  BY MachineConstants, FS_Subset
<1> QED
  BY <1>1, <1>2, FS_Subset, FS_CardinalityType

LEMMA MachineInitInv == Machine!Init => MachineInv
<1> USE MachineConstants
<1> SUFFICES ASSUME Machine!Init PROVE MachineInv
  OBVIOUS
<1>1. MachineTypes
  BY DEF Machine!Init, MachineTypes
<1>2. SamplesAreOfTheirDay
  BY DEF Machine!Init, SamplesAreOfTheirDay
<1>3. Machine!MachineWritingIsReviewed /\ Machine!DecisionsCountedOnce
  BY DEF Machine!Init, Machine!MachineWritingIsReviewed, Machine!DecisionsCountedOnce
<1> QED
  BY <1>1, <1>2, <1>3 DEF MachineInv

\* A row keeps who wrote it and when.
RowsKept ==
    \A t \in Candidate : row[t] # NULL =>
        row'[t] # NULL /\ row'[t].by = row[t].by /\ row'[t].on = row[t].on

\* No decision of the log is lost.
LogKept ==
    \A d \in 1..MaxDay : /\ decided[d].promoted <= decided'[d].promoted
                         /\ decided[d].rejected <= decided'[d].rejected

\* Steps that write no sample.
LEMMA UnsampledInv ==
    ASSUME MachineInv, MachineTypes', RowsKept, LogKept, Machine!MachineWritingIsReviewed',
           UNCHANGED <<day, sample, lastDepth>>, low \subseteq low',
           Machine!Below(row') => day \in low'
    PROVE  MachineInv'
<1> USE MachineConstants
<1>1. SamplesAreOfTheirDay'
  BY DEF MachineInv, SamplesAreOfTheirDay, Machine!Below, Machine!Inbox
<1>2. Machine!DecisionsCountedOnce'
  <2> SUFFICES ASSUME NEW d \in 1..MaxDay, sample[d] # NULL
               PROVE  /\ sample[d].count.promoted <= decided'[d].promoted
                      /\ sample[d].count.rejected <= decided'[d].rejected
                      /\ sample[d].count.extracted <= Machine!Cardinality(Machine!Extracted(d)')
    BY DEF Machine!DecisionsCountedOnce, Machine!Extracted
  <2>1. /\ sample[d].count.promoted <= decided[d].promoted
        /\ sample[d].count.rejected <= decided[d].rejected
        /\ sample[d].count.extracted <= Machine!Cardinality(Machine!Extracted(d))
    BY DEF MachineInv, Machine!DecisionsCountedOnce
  <2>2. sample[d] \in Daily
    BY DEF MachineInv, MachineTypes
  <2>3. /\ sample[d].count.promoted \in Nat /\ sample[d].count.rejected \in Nat
        /\ sample[d].count.extracted \in Nat
    BY <2>2 DEF Daily
  <2>4. Machine!Extracted(d) \subseteq Machine!Extracted(d)' /\ Machine!Extracted(d)' \subseteq Candidate
    BY DEF Machine!Extracted, RowsKept
  <2>5. /\ Machine!Cardinality(Machine!Extracted(d)) <= Machine!Cardinality(Machine!Extracted(d)')
        /\ Machine!Cardinality(Machine!Extracted(d)) \in Nat
        /\ Machine!Cardinality(Machine!Extracted(d)') \in Nat
    BY <2>4, CountingTexts
  <2>6. /\ decided[d].promoted \in Nat /\ decided[d].rejected \in Nat
        /\ decided'[d].promoted \in Nat /\ decided'[d].rejected \in Nat
    BY DEF MachineInv, MachineTypes
  <2>7. sample[d].count.extracted <= Machine!Cardinality(Machine!Extracted(d)')
    BY <2>1, <2>3, <2>5
  <2> QED
    BY <2>1, <2>3, <2>6, <2>7 DEF LogKept
<1> QED
  BY <1>1, <1>2 DEF MachineInv

\* Texts that are stored: what capture and the extractor write.
LEMMA StoredRows ==
    ASSUME MachineInv, NEW texts, NEW by \in {"capture", "extractor"}, NEW on \in 1..MaxDay,
           NEW status_ \in [Candidate -> {"quarantined", "active"}],
           \A t \in Candidate : status_[t] = "active" => by = "capture" /\ t \notin Flagged,
           row' = Machine!Stored(texts, by, on, status_)
    PROVE  /\ row' \in [Candidate -> {NULL} \cup Written]
           /\ RowsKept
           /\ Machine!MachineWritingIsReviewed'
<1> USE MachineConstants
<1>1. row \in [Candidate -> {NULL} \cup Written]
  BY DEF MachineInv, MachineTypes
<1>2. ASSUME NEW t \in Candidate
      PROVE  /\ row'[t] \in {NULL} \cup Written
             /\ row[t] # NULL => row'[t] = row[t]
             /\ row[t] = NULL /\ row'[t] # NULL =>
                    /\ row'[t].reviewed = FALSE
                    /\ row'[t].by = by /\ row'[t].status = status_[t]
  <2> DEFINE new == [by |-> by, on |-> on, reviewed |-> FALSE, status |-> status_[t]]
  <2>1. row'[t] = IF t \in texts /\ row[t] = NULL THEN new ELSE row[t]
    BY DEF Machine!Stored
  <2>2. new \in Written
    BY DEF Written
  <2> QED
    BY <1>1, <2>1, <2>2
<1>3. row' \in [Candidate -> {NULL} \cup Written]
  <2>1. row' = [t \in Candidate |-> row'[t]]
    BY DEF Machine!Stored
  <2> QED
    BY <1>2, <2>1
<1>4. RowsKept
  BY <1>2 DEF RowsKept
<1>5. Machine!MachineWritingIsReviewed'
  <2> SUFFICES ASSUME NEW t \in Candidate, row'[t] # NULL, row'[t].status = "active"
               PROVE  row'[t].reviewed \/ (row'[t].by = "capture" /\ t \notin Flagged)
    BY DEF Machine!MachineWritingIsReviewed
  <2> QED
    BY <1>2 DEF MachineInv, Machine!MachineWritingIsReviewed
<1> QED
  BY <1>3, <1>4, <1>5

LEMMA CaptureInv ==
    ASSUME MachineInv, NEW t \in Candidate, Machine!Capture(t)
    PROVE  MachineInv'
<1> USE MachineConstants
<1>1. /\ row' = Machine!Stored({t}, "capture", day, Machine!Captured)
      /\ low' = low \cup (IF Machine!Below(row') THEN {day} ELSE {})
      /\ UNCHANGED <<day, decided, sample, session, lastDepth>>
  BY DEF Machine!Capture, Machine!Watch
<1>2. /\ Machine!Captured \in [Candidate -> {"quarantined", "active"}]
      /\ \A u \in Candidate : Machine!Captured[u] = "active" => u \notin Flagged
  BY DEF Machine!Captured
<1>3. day \in 1..MaxDay
  BY DEF MachineInv, MachineTypes
<1>4. /\ row' \in [Candidate -> {NULL} \cup Written]
      /\ RowsKept
      /\ Machine!MachineWritingIsReviewed'
  BY <1>1, <1>2, <1>3, StoredRows
<1>5. MachineTypes'
  BY <1>1, <1>4 DEF MachineInv, MachineTypes
<1>6. LogKept
  BY <1>1 DEF LogKept, MachineInv, MachineTypes
<1> QED
  BY <1>1, <1>4, <1>5, <1>6, UnsampledInv

LEMMA AnswerInv ==
    ASSUME MachineInv, NEW answer, Machine!Answer(answer)
    PROVE  MachineInv'
<1> USE MachineConstants
<1> DEFINE texts == Machine!Parsed(answer) \cap Grounded
<1>1. /\ session # 0 /\ session' = 0
      /\ row' = Machine!Stored(texts, "extractor", session, Machine!Quarantined)
      /\ low' = low \cup (IF Machine!Below(row') THEN {day} ELSE {})
      /\ UNCHANGED <<day, decided, sample, lastDepth>>
  BY DEF Machine!Answer, Machine!Watch
<1>2. /\ Machine!Quarantined \in [Candidate -> {"quarantined", "active"}]
      /\ \A u \in Candidate : Machine!Quarantined[u] # "active"
  BY DEF Machine!Quarantined
<1>3. session \in 1..MaxDay
  BY <1>1 DEF MachineInv, MachineTypes
<1> HIDE DEF texts
<1>4. /\ row' \in [Candidate -> {NULL} \cup Written]
      /\ RowsKept
      /\ Machine!MachineWritingIsReviewed'
  BY <1>1, <1>2, <1>3, StoredRows
<1>5. MachineTypes'
  BY <1>1, <1>4 DEF MachineInv, MachineTypes
<1>6. LogKept
  BY <1>1 DEF LogKept, MachineInv, MachineTypes
<1> QED
  BY <1>1, <1>4, <1>5, <1>6, UnsampledInv

\* A reviewer's decision on a row, or its undo.
LEMMA DecidedRow ==
    ASSUME MachineInv, NEW t \in Candidate, row[t] # NULL, NEW to \in {"quarantined", "active", "archived"},
           NEW flag \in BOOLEAN, to = "active" => flag,
           row' = [row EXCEPT ![t].status = to, ![t].reviewed = flag]
    PROVE  /\ row' \in [Candidate -> {NULL} \cup Written]
           /\ RowsKept
           /\ Machine!MachineWritingIsReviewed'
<1> USE MachineConstants
<1>1. row \in [Candidate -> {NULL} \cup Written] /\ row[t] \in Written
  BY DEF MachineInv, MachineTypes
<1> DEFINE new == [row[t] EXCEPT !.status = to, !.reviewed = flag]
<1>2. row' = [row EXCEPT ![t] = new]
  BY <1>1
<1>3. /\ new \in Written /\ new.by = row[t].by /\ new.on = row[t].on
      /\ new.status = to /\ new.reviewed = flag
  BY <1>1 DEF Written
<1> HIDE DEF new
<1>4. row' \in [Candidate -> {NULL} \cup Written]
  BY <1>1, <1>2, <1>3
<1>5. RowsKept
  BY <1>1, <1>2, <1>3 DEF RowsKept
<1>6. Machine!MachineWritingIsReviewed'
  BY <1>1, <1>2, <1>3 DEF MachineInv, Machine!MachineWritingIsReviewed
<1> QED
  BY <1>4, <1>5, <1>6

LEMMA ReviewInv ==
    ASSUME MachineInv, NEW t \in Candidate, NEW to \in {"active", "archived"},
           Machine!Review(t, to)
    PROVE  MachineInv'
<1> USE MachineConstants
<1>1. /\ t \in Machine!Inbox(row)
      /\ row' = [row EXCEPT ![t].status = to, ![t].reviewed = TRUE]
      /\ decided' = IF to = "active" THEN [decided EXCEPT ![day].promoted = @ + 1]
                    ELSE [decided EXCEPT ![day].rejected = @ + 1]
      /\ low' = low \cup (IF Machine!Below(row') THEN {day} ELSE {})
      /\ UNCHANGED <<day, sample, session, lastDepth>>
  BY DEF Machine!Review, Machine!Watch
<1>2. row[t] # NULL
  BY <1>1 DEF Machine!Inbox
<1>3. /\ row' \in [Candidate -> {NULL} \cup Written]
      /\ RowsKept
      /\ Machine!MachineWritingIsReviewed'
  BY <1>1, <1>2, DecidedRow
<1>4. /\ day \in 1..MaxDay /\ decided \in [1..MaxDay -> [promoted : Nat, rejected : Nat]]
      /\ decided[day] \in [promoted : Nat, rejected : Nat]
  BY DEF MachineInv, MachineTypes
<1>5. /\ decided' \in [1..MaxDay -> [promoted : Nat, rejected : Nat]]
      /\ LogKept
  <2> DEFINE more == [decided[day] EXCEPT !.promoted = @ + 1]
             fewer == [decided[day] EXCEPT !.rejected = @ + 1]
  <2>1. /\ more \in [promoted : Nat, rejected : Nat] /\ fewer \in [promoted : Nat, rejected : Nat]
        /\ more.promoted = decided[day].promoted + 1 /\ more.rejected = decided[day].rejected
        /\ fewer.promoted = decided[day].promoted /\ fewer.rejected = decided[day].rejected + 1
    BY <1>4
  <2>2. decided' = [decided EXCEPT ![day] = IF to = "active" THEN more ELSE fewer]
    BY <1>1, <1>4
  <2> HIDE DEF more, fewer
  <2>3. decided' \in [1..MaxDay -> [promoted : Nat, rejected : Nat]]
    BY <1>4, <2>1, <2>2
  <2>4. ASSUME NEW d \in 1..MaxDay
        PROVE  /\ decided[d].promoted <= decided'[d].promoted
               /\ decided[d].rejected <= decided'[d].rejected
    BY <1>4, <2>1, <2>2
  <2> QED
    BY <2>3, <2>4 DEF LogKept
<1>6. MachineTypes'
  BY <1>1, <1>3, <1>5 DEF MachineInv, MachineTypes
<1> QED
  BY <1>1, <1>3, <1>5, <1>6, UnsampledInv

LEMMA UnreviewInv ==
    ASSUME MachineInv, NEW t \in Candidate, Machine!Unreview(t)
    PROVE  MachineInv'
<1> USE MachineConstants
<1>1. /\ row[t] # NULL
      /\ row' = [row EXCEPT ![t].status = "quarantined", ![t].reviewed = FALSE]
      /\ low' = low \cup (IF Machine!Below(row') THEN {day} ELSE {})
      /\ UNCHANGED <<day, decided, sample, session, lastDepth>>
  BY DEF Machine!Unreview, Machine!Watch
<1>2. /\ row' \in [Candidate -> {NULL} \cup Written]
      /\ RowsKept
      /\ Machine!MachineWritingIsReviewed'
  BY <1>1, DecidedRow
<1>3. MachineTypes'
  BY <1>1, <1>2 DEF MachineInv, MachineTypes
<1>4. LogKept
  BY <1>1 DEF LogKept, MachineInv, MachineTypes
<1> QED
  BY <1>1, <1>2, <1>3, <1>4, UnsampledInv

LEMMA SnapshotInv ==
    ASSUME MachineInv, Machine!Snapshot
    PROVE  MachineInv'
<1> USE MachineConstants
<1> DEFINE depth == Machine!Cardinality(Machine!Inbox(row))
           found == Machine!Cardinality(Machine!Extracted(day))
           count == [promoted |-> decided[day].promoted, rejected |-> decided[day].rejected,
                     extracted |-> found]
           new == [depth |-> depth, count |-> count]
<1>1. /\ sample' = [sample EXCEPT ![day] = new]
      /\ lastDepth' = depth
      /\ UNCHANGED <<day, row, decided, session, low>>
  BY DEF Machine!Snapshot, Machine!Today
<1>2. depth \in Nat /\ found \in Nat
  <2>1. Machine!Inbox(row) \in SUBSET Candidate /\ Machine!Extracted(day) \in SUBSET Candidate
    BY DEF Machine!Inbox, Machine!Extracted
  <2> QED
    BY <2>1, CountingTexts
<1>3. depth < DisableDepth => day \in low
  BY DEF MachineInv, SamplesAreOfTheirDay, Machine!Below
<1> HIDE DEF depth, found
<1>4. MachineTypes
  BY DEF MachineInv
<1>5. new \in Daily /\ new # NULL /\ new.depth = depth /\ new.count = count
  BY <1>2, <1>4 DEF Daily, MachineTypes
<1>6. /\ count.promoted = decided[day].promoted /\ count.rejected = decided[day].rejected
      /\ count.extracted = found
  OBVIOUS
<1> HIDE DEF new, count
<1>7. /\ sample' \in [1..MaxDay -> {NULL} \cup Daily]
      /\ \A d \in 1..MaxDay : sample'[d] = IF d = day THEN new ELSE sample[d]
  BY <1>1, <1>4, <1>5 DEF MachineTypes
<1>8. MachineTypes'
  BY <1>1, <1>2, <1>7 DEF MachineInv, MachineTypes
<1>9. SamplesAreOfTheirDay'
  BY <1>1, <1>3, <1>4, <1>5, <1>7 DEF MachineInv, MachineTypes, SamplesAreOfTheirDay, Machine!Below,
     Machine!Inbox
<1>10. Machine!DecisionsCountedOnce'
  <2> SUFFICES ASSUME NEW d \in 1..MaxDay, sample'[d] # NULL
               PROVE  /\ sample'[d].count.promoted <= decided[d].promoted
                      /\ sample'[d].count.rejected <= decided[d].rejected
                      /\ sample'[d].count.extracted <= Machine!Cardinality(Machine!Extracted(d))
    BY <1>1 DEF Machine!DecisionsCountedOnce, Machine!Extracted
  <2>1. CASE d # day
    BY <1>7, <2>1 DEF MachineInv, Machine!DecisionsCountedOnce
  <2>2. CASE d = day
    <3>1. sample'[d].count = count
      BY <1>5, <1>7, <2>2
    <3>2. Machine!Cardinality(Machine!Extracted(d)) = found
      BY <2>2 DEF found
    <3>3. decided[d].promoted \in Nat /\ decided[d].rejected \in Nat
      BY <1>4 DEF MachineTypes
    <3> QED
      BY <1>2, <1>6, <2>2, <3>1, <3>2, <3>3
  <2> QED
    BY <2>1, <2>2
<1>11. Machine!MachineWritingIsReviewed'
  BY <1>1 DEF MachineInv, Machine!MachineWritingIsReviewed
<1> QED
  BY <1>8, <1>9, <1>10, <1>11 DEF MachineInv

LEMMA MachineRestInv ==
    ASSUME MachineInv,
           Machine!Consult \/ Machine!Unavailable \/ Machine!NextDay \/ UNCHANGED Machine!vars
    PROVE  MachineInv'
<1> USE MachineConstants
<1>1. UNCHANGED <<row, decided, sample, lastDepth>>
  BY DEF Machine!Consult, Machine!Unavailable, Machine!NextDay, Machine!vars
<1>2. MachineTypes'
  <2>1. /\ row' \in [Candidate -> {NULL} \cup Written]
        /\ decided' \in [1..MaxDay -> [promoted : Nat, rejected : Nat]]
        /\ sample' \in [1..MaxDay -> {NULL} \cup Daily]
        /\ lastDepth' \in Nat
    BY <1>1 DEF MachineInv, MachineTypes
  <2>2. /\ day \in 1..MaxDay /\ session \in 0..MaxDay /\ low \in SUBSET (1..MaxDay)
    BY DEF MachineInv, MachineTypes
  <2>3. day' \in 1..MaxDay
    <3>1. CASE Machine!NextDay
      BY <2>2, <3>1 DEF Machine!NextDay
    <3>2. CASE ~Machine!NextDay
      BY <2>2, <3>2 DEF Machine!Consult, Machine!Unavailable, Machine!vars
    <3> QED
      BY <3>1, <3>2
  <2>4. session' \in 0..MaxDay
    <3>1. day \in 0..MaxDay /\ 0 \in 0..MaxDay
      BY <2>2
    <3> QED
      BY <2>2, <3>1 DEF Machine!Consult, Machine!Unavailable, Machine!NextDay, Machine!vars
  <2>5. low' \in SUBSET (1..MaxDay)
    <3>1. CASE Machine!NextDay
      BY <2>2, <2>3, <3>1 DEF Machine!NextDay, Machine!Watch
    <3>2. CASE ~Machine!NextDay
      BY <2>2, <3>2 DEF Machine!Consult, Machine!Unavailable, Machine!vars
    <3> QED
      BY <3>1, <3>2
  <2> QED
    BY <2>1, <2>3, <2>4, <2>5 DEF MachineTypes
<1>3. SamplesAreOfTheirDay'
  <2>1. CASE Machine!NextDay
    <3>1. /\ day' = day + 1 /\ day' \in 1..MaxDay
          /\ low' = low \cup (IF Machine!Below(row) THEN {day'} ELSE {})
      BY <1>2, <2>1 DEF Machine!NextDay, Machine!Watch, MachineTypes
    <3> QED
      BY <1>1, <3>1 DEF MachineInv, MachineTypes, SamplesAreOfTheirDay, Machine!Below, Machine!Inbox
  <2>2. CASE ~Machine!NextDay
    <3>1. UNCHANGED <<day, low>>
      BY <2>2 DEF Machine!Consult, Machine!Unavailable, Machine!vars
    <3> QED
      BY <1>1, <3>1 DEF MachineInv, SamplesAreOfTheirDay, Machine!Below, Machine!Inbox
  <2> QED
    BY <2>1, <2>2
<1>4. Machine!DecisionsCountedOnce' /\ Machine!MachineWritingIsReviewed'
  BY <1>1 DEF MachineInv, Machine!DecisionsCountedOnce, Machine!MachineWritingIsReviewed,
     Machine!Extracted
<1> QED
  BY <1>2, <1>3, <1>4 DEF MachineInv

LEMMA MachineInvariance == Machine!Spec => []MachineInv
<1>1. MachineInv /\ [Machine!Next]_Machine!vars => MachineInv'
  BY CaptureInv, AnswerInv, ReviewInv, UnreviewInv, SnapshotInv, MachineRestInv
     DEF Machine!Next
<1> QED
  BY <1>1, MachineInitInv, PTL DEF Machine!Spec

\* Every reachable state of what machines write has its types.
THEOREM MachineTypeCorrect == Machine!Spec => []Machine!TypeOK
<1>1. MachineInv => Machine!TypeOK
  BY DEF MachineInv, MachineTypes, Machine!TypeOK, Machine!Count, Written, Daily
<1> QED
  BY <1>1, MachineInvariance, PTL

\* The extractor is off when the inbox has stood at the threshold for the whole
\* window, each day sampled, and on when the last sample of today is below it.
THEOREM TheSwitchFollowsTheQueue == Machine!Spec => []SwitchFollowsTheQueue
<1> USE MachineConstants
<1>1. MachineInv => SwitchFollowsTheQueue
  <2> SUFFICES ASSUME MachineInv PROVE Machine!SwitchFollowsTheQueue
    BY DEF SwitchFollowsTheQueue
  <2>1. ASSUME Machine!Cardinality(Machine!Window) = SustainedDays, Machine!Window \cap low = {},
               Machine!Sampled = Machine!Window
        PROVE  ~Machine!Allowed
    <3>1. ASSUME NEW d \in Machine!Sampled PROVE ~(sample[d].depth < DisableDepth)
      BY <2>1 DEF MachineInv, SamplesAreOfTheirDay, Machine!Sampled, Machine!Window
    <3> QED
      BY <2>1, <3>1 DEF Machine!Allowed
  <2>2. ASSUME lastDepth < DisableDepth, sample[day] # NULL
        PROVE  Machine!Allowed
    <3>1. day \in Machine!Sampled
      BY <2>2 DEF MachineInv, MachineTypes, Machine!Sampled, Machine!Window
    <3>2. sample[day].depth < DisableDepth
      BY <2>2 DEF MachineInv, SamplesAreOfTheirDay
    <3> QED
      BY <3>1, <3>2 DEF Machine!Allowed
  <2> QED
    BY <2>1, <2>2 DEF Machine!SwitchFollowsTheQueue
<1> QED
  BY <1>1, MachineInvariance, PTL

\* What a machine proposed is served after a person promoted it, whatever
\* captures, extractions, reviews and undos come between.
THEOREM MachinesAreReviewed == Machine!Spec => []MachineWritingIsReviewed
<1>1. MachineInv => MachineWritingIsReviewed
  BY DEF MachineInv, MachineWritingIsReviewed
<1> QED
  BY <1>1, MachineInvariance, PTL

\* A day's sample has no more than the log and the table hold for that day.
THEOREM NothingIsCountedTwice == Machine!Spec => []DecisionsCountedOnce
<1>1. MachineInv => DecisionsCountedOnce
  BY DEF MachineInv, DecisionsCountedOnce
<1> QED
  BY <1>1, MachineInvariance, PTL
-----------------------------------------------------------------------------
(***************************************************************************)
(* Distillation.                                                           *)
(***************************************************************************)
Episodes == [action : Action, session : Session \cup {NULL}]

\* Members of a group are captures, with Minimum witnesses among them.
Earned(from) ==
    /\ from \subseteq DOMAIN captures
    /\ Distill!Cardinality({Distill!Witness(i) : i \in from}) >= Minimum

\* A pass is a record: [r EXCEPT !.left = l] then changes that field alone.
Passes(r) ==
    /\ r = [run |-> r.run, beside |-> r.beside, left |-> r.left, proposed |-> r.proposed]
    /\ r.run \in Nat /\ r.run <= runs

Open == {s \in Sweeper : distilling[s] # NULL}

\* What passes work on and what was attempted is earned.
EvidenceKept ==
    /\ captures \in Seq(Episodes)
    /\ \A s \in Open : \A g \in distilling[s].left : Earned(g.from)
    /\ \A p \in attempts : Earned(p.from)

\* Passes have numbers of their own.
RunsAreNumbered ==
    /\ runs \in Nat
    /\ DOMAIN distilling = Sweeper
    /\ \A s \in Open : Passes(distilling[s]) /\ distilling[s].run \notin DOMAIN audit
    /\ \A s, o \in Open : distilling[s].run = distilling[o].run => s = o
    /\ \A r \in DOMAIN audit : r \in Nat /\ r <= runs
    /\ \A p \in attempts : p.run \in Nat /\ p.run <= runs

\* A pass that is open ran beside every later one.
OpenIsBeside ==
    /\ \A s, o \in Open :
        distilling[o].run < distilling[s].run => distilling[o].run \in distilling[s].beside
    /\ \A o \in Open, q \in attempts :
        distilling[o].run < q.run => distilling[o].run \in q.beside

\* What a pass attempted it reports.
AttemptsAreReported ==
    /\ \A p \in attempts : p.run \in DOMAIN audit => p.sequence \in audit[p.run]
    /\ \A p \in attempts, s \in Open :
        p.run = distilling[s].run => p.sequence \in distilling[s].proposed

\* A pass works on nothing that one before it reported.
ReportsAreRead ==
    \A s \in Open : \A r \in DOMAIN audit :
        r < distilling[s].run /\ r \notin distilling[s].beside =>
            \A g \in distilling[s].left : g.sequence \notin audit[r]

DistillInv ==
    /\ EvidenceKept /\ RunsAreNumbered /\ OpenIsBeside
    /\ AttemptsAreReported /\ ReportsAreRead
    /\ Distill!ProposedOnce

\* What is assumed of distillation's constants.
LEMMA DistillConstants == Minimum \in Nat /\ NULL \notin Session
BY UnattendedAssumption DEF UnattendedAssumption, Distill!DistillationAssumption

LEMMA LeastOf ==
    ASSUME NEW T, T \subseteq Nat, T # {}
    PROVE  \E x \in T : \A y \in T : x <= y
<1> DEFINE R == OpToRel(<, Nat)
<1>1. IsWellFoundedOn(R, Nat)
  BY NatLessThanWellFounded
<1> HIDE DEF R
<1>2. PICK x \in T : \A y \in T : ~(<<y, x>> \in R)
  BY <1>1, WFMin
<1>3. \A y \in T : ~(y < x)
  BY <1>2 DEF R, OpToRel
<1> QED
  BY <1>3

\* A member of a group is the first success of its session, or has none.
LEMMA MembersAreFirst ==
    ASSUME captures \in Seq(Episodes), NEW q, NEW i \in Distill!Evidence(q)
    PROVE  /\ i \in DOMAIN captures
           /\ captures[i].session # NULL =>
                i = Distill!First(Distill!Of(captures[i].session))
<1>1. CASE i \in Distill!Of(NULL)
  BY <1>1 DEF Distill!Of
<1>2. CASE i \notin Distill!Of(NULL)
  <2>1. PICK s \in Session : Distill!Of(s) # {} /\ i = Distill!First(Distill!Of(s))
    BY <1>2 DEF Distill!Evidence
  <2>2. Distill!Of(s) \subseteq Nat
    BY DEF Distill!Of
  <2>3. PICK x \in Distill!Of(s) : \A y \in Distill!Of(s) : x <= y
    BY <2>1, <2>2, LeastOf
  <2>4. i \in Distill!Of(s)
    BY <2>1, <2>3 DEF Distill!First
  <2> QED
    BY <2>1, <2>4 DEF Distill!Of
<1> QED
  BY <1>1, <1>2

\* Every member of a group is a witness of its own.
LEMMA GroupsAreEarned ==
    ASSUME captures \in Seq(Episodes), NEW q,
           Distill!Cardinality(Distill!Evidence(q)) >= Minimum
    PROVE  Earned(Distill!Evidence(q))
<1> DEFINE E == Distill!Evidence(q)
           W == {Distill!Witness(i) : i \in E}
           f == [i \in E |-> Distill!Witness(i)]
<1>1. /\ E \subseteq DOMAIN captures
      /\ \A i \in E : captures[i].session # NULL =>
            i = Distill!First(Distill!Of(captures[i].session))
  BY MembersAreFirst
<1> HIDE DEF E
<1>2. IsFiniteSet(E)
  <2>1. DOMAIN captures = 1..Len(captures) /\ Len(captures) \in Int /\ 1 \in Int
    OBVIOUS
  <2>2. IsFiniteSet(1..Len(captures))
    BY <2>1, FS_Interval
  <2> QED
    BY <1>1, <2>1, <2>2, FS_Subset
<1>3. ASSUME NEW i \in E, NEW j \in E, Distill!Witness(i) = Distill!Witness(j)
      PROVE  i = j
  <2>1. captures[i].session = captures[j].session
    BY <1>3 DEF Distill!Witness
  <2>2. CASE captures[i].session = NULL
    BY <1>3, <2>1, <2>2 DEF Distill!Witness
  <2>3. CASE captures[i].session # NULL
    BY <1>1, <2>1, <2>3
  <2> QED
    BY <2>2, <2>3
<1>4. f \in Bijection(E, W)
  BY <1>3 DEF Bijection, Injection, Surjection, IsInjective
<1>5. Cardinality(W) = Cardinality(E)
  BY <1>2, <1>4, FS_Bijection DEF ExistsBijection
<1>6. ASSUME NEW S PROVE Distill!Cardinality(S) = Cardinality(S)
  BY Zenon DEF Distill!Cardinality, Cardinality
<1> QED
  BY <1>1, <1>5, <1>6 DEF Earned, E

LEMMA DistillInitInv == Distill!Init => DistillInv
<1> SUFFICES ASSUME Distill!Init PROVE DistillInv
  OBVIOUS
<1>1. /\ captures = <<>> /\ distilling = [s \in Sweeper |-> NULL]
      /\ runs = 0 /\ audit = <<>> /\ attempts = {}
  BY DEF Distill!Init
<1>2. Open = {} /\ DOMAIN audit = {} /\ DOMAIN distilling = Sweeper
  BY <1>1 DEF Open
<1>3. captures \in Seq(Episodes)
  BY <1>1
<1> QED
  BY <1>1, <1>2, <1>3 DEF DistillInv, EvidenceKept, RunsAreNumbered, OpenIsBeside,
     AttemptsAreReported, ReportsAreRead, Distill!ProposedOnce

\* A new capture takes no witness away.
LEMMA EarnedStays ==
    ASSUME captures \in Seq(Episodes), NEW e \in Episodes, NEW from, Earned(from),
           captures' = Append(captures, e)
    PROVE  Earned(from)'
<1>1. /\ DOMAIN captures \subseteq DOMAIN captures'
      /\ \A i \in DOMAIN captures : captures'[i] = captures[i]
  OBVIOUS
<1>2. \A i \in from : Distill!Witness(i)' = Distill!Witness(i)
  BY <1>1 DEF Earned, Distill!Witness
<1>3. {Distill!Witness(i) : i \in from}' = {Distill!Witness(i) : i \in from}
  BY <1>2
<1>4. from \subseteq DOMAIN captures'
  BY <1>1 DEF Earned
<1>5. Distill!Cardinality({Distill!Witness(i) : i \in from})' >= Minimum
  BY <1>3 DEF Earned
<1> QED
  BY <1>4, <1>5 DEF Earned

LEMMA SuccessInv ==
    ASSUME DistillInv, NEW a \in Action, NEW x \in Session \cup {NULL},
           Distill!CaptureSuccess(a, x)
    PROVE  DistillInv'
<1> DEFINE e == [action |-> a, session |-> x]
<1>1. /\ captures' = Append(captures, e)
      /\ UNCHANGED <<distilling, runs, audit, attempts>>
  BY DEF Distill!CaptureSuccess
<1>2. e \in Episodes
  BY DEF Episodes
<1>3. captures \in Seq(Episodes)
  BY DEF DistillInv, EvidenceKept
<1> HIDE DEF e
<1>4. ASSUME NEW from, Earned(from) PROVE Earned(from)'
  BY <1>1, <1>2, <1>3, <1>4, EarnedStays
<1>5. Open' = Open
  BY <1>1 DEF Open
<1>6. EvidenceKept'
  <2>1. captures' \in Seq(Episodes)
    BY <1>1, <1>2, <1>3
  <2> QED
    BY <1>1, <1>4, <1>5, <2>1 DEF DistillInv, EvidenceKept
<1>7. RunsAreNumbered' /\ OpenIsBeside' /\ AttemptsAreReported' /\ ReportsAreRead'
  BY <1>1, <1>5 DEF DistillInv, RunsAreNumbered, OpenIsBeside, AttemptsAreReported,
     ReportsAreRead, Passes
<1>8. Distill!ProposedOnce'
  BY <1>1 DEF DistillInv, Distill!ProposedOnce
<1> QED
  BY <1>6, <1>7, <1>8 DEF DistillInv

LEMMA BeginInv ==
    ASSUME DistillInv, NEW s \in Sweeper, Distill!Begin(s)
    PROVE  DistillInv'
<1> DEFINE beside == {distilling[o].run : o \in {o \in Sweeper : distilling[o] # NULL}}
           groups == {[sequence |-> q, from |-> Distill!Evidence(q)] :
                        q \in {q \in Distill!Performed \ Distill!Proposed :
                            Distill!Cardinality(Distill!Evidence(q)) >= Minimum}}
           new == [run |-> runs + 1, beside |-> beside, left |-> groups, proposed |-> {}]
<1>1. /\ distilling[s] = NULL
      /\ runs' = runs + 1
      /\ distilling' = [distilling EXCEPT ![s] = new]
      /\ UNCHANGED <<captures, audit, attempts>>
  BY DEF Distill!Begin
<1>2. \A g \in groups : Earned(g.from) /\ g.sequence \notin UNION {audit[r] : r \in DOMAIN audit}
  <2> SUFFICES ASSUME NEW q \in Distill!Performed \ Distill!Proposed,
                      Distill!Cardinality(Distill!Evidence(q)) >= Minimum
               PROVE  /\ Earned(Distill!Evidence(q))
                      /\ q \notin UNION {audit[r] : r \in DOMAIN audit}
    OBVIOUS
  <2>1. captures \in Seq(Episodes)
    BY DEF DistillInv, EvidenceKept
  <2> QED
    BY <2>1, GroupsAreEarned DEF Distill!Proposed
<1>3. beside = {distilling[o].run : o \in Open}
  BY DEF Open
<1> HIDE DEF beside, groups
<1>4. /\ new.run = runs + 1 /\ new.beside = beside /\ new.left = groups /\ new.proposed = {}
      /\ new = [run |-> new.run, beside |-> new.beside, left |-> new.left,
                proposed |-> new.proposed]
  OBVIOUS
<1> HIDE DEF new
<1>5. RunsAreNumbered
  BY DEF DistillInv
<1>6. /\ DOMAIN distilling' = Sweeper
      /\ distilling'[s] = new
      /\ \A o \in Sweeper \ {s} : distilling'[o] = distilling[o]
      /\ Open' \subseteq Open \cup {s} /\ s \notin Open
      /\ \A o \in Open : o # s /\ distilling'[o] = distilling[o]
  BY <1>1, <1>5 DEF RunsAreNumbered, Open
<1>7. EvidenceKept'
  <2>1. \A from : Earned(from) <=> Earned(from)'
    BY <1>1 DEF Earned, Distill!Witness
  <2> QED
    BY <1>1, <1>2, <1>4, <1>6, <2>1 DEF DistillInv, EvidenceKept
<1>8. RunsAreNumbered'
  <2>1. \A o \in Open : distilling[o].run <= runs /\ distilling[o].run \in Nat
    BY <1>5 DEF RunsAreNumbered, Passes
  <2>2. runs + 1 \notin DOMAIN audit /\ runs \in Nat
    BY <1>5 DEF RunsAreNumbered
  <2>3. \A o \in Open' : Passes(distilling[o])' /\ distilling'[o].run \notin DOMAIN audit'
    BY <1>1, <1>4, <1>5, <1>6, <2>2 DEF RunsAreNumbered, Passes
  <2>4. \A o, p \in Open' : distilling'[o].run = distilling'[p].run => o = p
    BY <1>4, <1>5, <1>6, <2>1, <2>2 DEF RunsAreNumbered
  <2> QED
    BY <1>1, <1>5, <1>6, <2>2, <2>3, <2>4 DEF RunsAreNumbered
<1>9. OpenIsBeside'
  <2>1. \A o \in Open : distilling[o].run \in Nat /\ distilling[o].run <= runs
    BY <1>5 DEF RunsAreNumbered, Passes
  <2>2. \A q \in attempts : q.run \in Nat /\ q.run <= runs
    BY <1>5 DEF RunsAreNumbered
  <2>3. runs \in Nat
    BY <1>5 DEF RunsAreNumbered
  <2> QED
    BY <1>1, <1>3, <1>4, <1>6, <2>1, <2>2, <2>3 DEF DistillInv, OpenIsBeside
<1>10. AttemptsAreReported'
  BY <1>1, <1>4, <1>5, <1>6 DEF DistillInv, RunsAreNumbered, AttemptsAreReported
<1>11. ReportsAreRead'
  BY <1>1, <1>2, <1>4, <1>6 DEF DistillInv, ReportsAreRead
<1>12. Distill!ProposedOnce'
  BY <1>1 DEF DistillInv, Distill!ProposedOnce
<1> QED
  BY <1>7, <1>8, <1>9, <1>10, <1>11, <1>12 DEF DistillInv

LEMMA RecordWithLeft ==
    ASSUME NEW r, NEW a, NEW b, NEW c, NEW d, NEW e,
           r = [run |-> a, beside |-> b, left |-> c, proposed |-> d]
    PROVE  [r EXCEPT !.left = e] = [run |-> a, beside |-> b, left |-> e, proposed |-> d]
OBVIOUS

LEMMA RecordWithProposed ==
    ASSUME NEW a, NEW b, NEW c, NEW d, NEW e
    PROVE  [[run |-> a, beside |-> b, left |-> c, proposed |-> d] EXCEPT !.proposed = e]
           = [run |-> a, beside |-> b, left |-> c, proposed |-> e]
OBVIOUS

\* A pass that has tried a group.
Tried(old, g) == [run |-> old.run, beside |-> old.beside, left |-> old.left \ {g},
                  proposed |-> old.proposed \cup {g.sequence}]

LEMMA TryingIsRecorded ==
    ASSUME NEW s \in Sweeper, NEW g, Passes(distilling[s]), Distill!Recorded(s, g)
    PROVE  distilling' = [distilling EXCEPT ![s] = Tried(distilling[s], g)]
<1> DEFINE old == distilling[s]
           new == [run |-> old.run, beside |-> old.beside, left |-> old.left \ {g},
                   proposed |-> old.proposed \cup {g.sequence}]
<1>1. old = [run |-> old.run, beside |-> old.beside, left |-> old.left,
             proposed |-> old.proposed]
  BY DEF Passes
<1>2. distilling' = [distilling EXCEPT
          ![s] = [[old EXCEPT !.left = old.left \ {g}]
                      EXCEPT !.proposed = old.proposed \cup {g.sequence}]]
  BY <1>1 DEF Distill!Recorded
<1> HIDE DEF old
<1>3. [[old EXCEPT !.left = old.left \ {g}]
          EXCEPT !.proposed = old.proposed \cup {g.sequence}] = new
  <2>1. [old EXCEPT !.left = old.left \ {g}]
        = [run |-> old.run, beside |-> old.beside, left |-> old.left \ {g},
           proposed |-> old.proposed]
    BY ONLY <1>1, RecordWithLeft
  <2>2. [[run |-> old.run, beside |-> old.beside, left |-> old.left \ {g},
          proposed |-> old.proposed] EXCEPT !.proposed = old.proposed \cup {g.sequence}]
        = new
    BY ONLY RecordWithProposed
  <2> HIDE DEF new
  <2> QED
    BY ONLY <2>1, <2>2
<1> QED
  BY <1>2, <1>3 DEF Tried, old

\* A group is tried, whether or not its branch goes through.
LEMMA TriedInv ==
    ASSUME DistillInv, NEW s \in Sweeper, distilling[s] # NULL,
           NEW g \in distilling[s].left,
           Distill!Recorded(s, g), Distill!Attempted(s, g),
           UNCHANGED <<captures, runs, audit>>
    PROVE  DistillInv'
<1> DEFINE old == distilling[s]
           new == [run |-> old.run, beside |-> old.beside, left |-> old.left \ {g},
                   proposed |-> old.proposed \cup {g.sequence}]
           try == [sequence |-> g.sequence, from |-> g.from, run |-> old.run,
                   beside |-> old.beside]
<1>1. s \in Open /\ Passes(old) /\ RunsAreNumbered
  BY DEF DistillInv, RunsAreNumbered, Open
<1>2. distilling' = [distilling EXCEPT ![s] = new]
  BY <1>1, TryingIsRecorded DEF Tried
<1>3. attempts' = attempts \cup {try}
  BY DEF Distill!Attempted
<1>4. /\ new.run = old.run /\ new.beside = old.beside /\ new.left = old.left \ {g}
      /\ new.proposed = old.proposed \cup {g.sequence}
      /\ new = [run |-> new.run, beside |-> new.beside, left |-> new.left,
                proposed |-> new.proposed]
      /\ try.sequence = g.sequence /\ try.from = g.from /\ try.run = old.run
      /\ try.beside = old.beside
  OBVIOUS
<1> HIDE DEF new, try, old
<1>5. /\ DOMAIN distilling' = Sweeper
      /\ distilling'[s] = new
      /\ \A o \in Sweeper \ {s} : distilling'[o] = distilling[o]
      /\ Open' \subseteq Open
      /\ \A o \in Open : /\ distilling'[o].run = distilling[o].run
                         /\ distilling'[o].beside = distilling[o].beside
                         /\ distilling'[o].left \subseteq distilling[o].left
                         /\ distilling[o].proposed \subseteq distilling'[o].proposed
  BY <1>1, <1>2, <1>4 DEF RunsAreNumbered, Open, old
<1>6. EvidenceKept'
  <2>1. \A from : Earned(from) <=> Earned(from)'
    BY DEF Earned, Distill!Witness
  <2>2. Earned(g.from)
    BY <1>1 DEF DistillInv, EvidenceKept
  <2> QED
    BY <1>3, <1>4, <1>5, <2>1, <2>2 DEF DistillInv, EvidenceKept
<1>7. RunsAreNumbered'
  <2>1. \A o \in Open' : Passes(distilling[o])'
    BY <1>1, <1>4, <1>5 DEF RunsAreNumbered, Passes, old, Open
  <2>2. \A p \in attempts' : p.run \in Nat /\ p.run <= runs
    BY <1>1, <1>3, <1>4 DEF RunsAreNumbered, Passes
  <2> QED
    BY <1>1, <1>5, <2>1, <2>2 DEF RunsAreNumbered
<1>8. OpenIsBeside'
  BY <1>1, <1>3, <1>4, <1>5 DEF DistillInv, OpenIsBeside, old
<1>9. AttemptsAreReported'
  <2>1. old.run \notin DOMAIN audit
    BY <1>1 DEF RunsAreNumbered, old
  <2>2. \A o \in Open : distilling[o].run = old.run => o = s
    BY <1>1 DEF RunsAreNumbered, old
  <2>3. g.sequence \in distilling'[s].proposed
    BY <1>4, <1>5
  <2>4. \A p \in attempts' : p.run \in DOMAIN audit => p.sequence \in audit[p.run]
    BY <1>3, <1>4, <2>1 DEF DistillInv, AttemptsAreReported
  <2>5. \A p \in attempts', o \in Open' :
            p.run = distilling'[o].run => p.sequence \in distilling'[o].proposed
    BY <1>3, <1>4, <1>5, <2>2, <2>3 DEF DistillInv, AttemptsAreReported
  <2> QED
    BY <2>4, <2>5 DEF AttemptsAreReported
<1>10. ReportsAreRead'
  BY <1>5 DEF DistillInv, ReportsAreRead
<1>11. Distill!ProposedOnce'
  <2> SUFFICES ASSUME NEW p \in attempts', NEW q \in attempts', p.sequence = q.sequence,
                      p.run < q.run, p.run \in DOMAIN audit
               PROVE  p.run \in q.beside
    BY DEF Distill!ProposedOnce
  <2>1. old.run \notin DOMAIN audit
    BY <1>1 DEF RunsAreNumbered, old
  <2>2. p \in attempts
    BY <1>3, <1>4, <2>1
  <2>3. CASE q \in attempts
    BY <2>2, <2>3 DEF DistillInv, Distill!ProposedOnce
  <2>4. CASE q = try
    <3>1. p.sequence \in audit[p.run]
      BY <2>2 DEF DistillInv, AttemptsAreReported
    <3> QED
      BY <1>1, <1>4, <2>4, <3>1 DEF DistillInv, ReportsAreRead, old
  <2> QED
    BY <1>3, <2>3, <2>4
<1> QED
  BY <1>6, <1>7, <1>8, <1>9, <1>10, <1>11 DEF DistillInv

LEMMA PassCommitInv ==
    ASSUME DistillInv, NEW s \in Sweeper, Distill!Commit(s)
    PROVE  DistillInv'
<1> DEFINE run == distilling[s].run
<1>1. /\ distilling[s] # NULL
      /\ audit' = [r \in DOMAIN audit \cup {run} |->
                    IF r = run THEN distilling[s].proposed ELSE audit[r]]
      /\ distilling' = [distilling EXCEPT ![s] = NULL]
      /\ UNCHANGED <<captures, runs, attempts>>
  BY DEF Distill!Commit
<1>2. RunsAreNumbered /\ s \in Open
  BY <1>1 DEF DistillInv, Open
<1>3. /\ DOMAIN audit' = DOMAIN audit \cup {run}
      /\ audit'[run] = distilling[s].proposed
      /\ \A r \in DOMAIN audit : r # run /\ audit'[r] = audit[r]
  BY <1>1, <1>2 DEF RunsAreNumbered
<1>4. /\ DOMAIN distilling' = Sweeper
      /\ Open' = Open \ {s}
      /\ \A o \in Open' : distilling'[o] = distilling[o]
  BY <1>1, <1>2 DEF RunsAreNumbered, Open
<1>5. run \in Nat /\ run <= runs /\ \A o \in Open' : distilling[o].run # run
  BY <1>2, <1>4 DEF RunsAreNumbered, Passes
<1> HIDE DEF run
<1>6. EvidenceKept'
  <2>1. \A from : Earned(from) <=> Earned(from)'
    BY <1>1 DEF Earned, Distill!Witness
  <2> QED
    BY <1>1, <1>4, <2>1 DEF DistillInv, EvidenceKept
<1>7. RunsAreNumbered'
  <2>1. \A o \in Open' : Passes(distilling[o])' /\ distilling'[o].run \notin DOMAIN audit'
    BY <1>1, <1>2, <1>3, <1>4, <1>5 DEF RunsAreNumbered, Passes
  <2>2. \A r \in DOMAIN audit' : r \in Nat /\ r <= runs
    BY <1>2, <1>3, <1>5 DEF RunsAreNumbered
  <2> QED
    BY <1>1, <1>2, <1>4, <2>1, <2>2 DEF RunsAreNumbered
<1>8. OpenIsBeside'
  BY <1>1, <1>4 DEF DistillInv, OpenIsBeside
<1>9. AttemptsAreReported'
  <2>1. \A p \in attempts : p.run = run => p.sequence \in distilling[s].proposed
    BY <1>2 DEF DistillInv, AttemptsAreReported, run
  <2> QED
    BY <1>1, <1>3, <1>4, <2>1 DEF DistillInv, AttemptsAreReported
<1>10. ReportsAreRead'
  <2>1. \A o \in Open' : run < distilling[o].run => run \in distilling[o].beside
    BY <1>2, <1>4 DEF DistillInv, OpenIsBeside, run
  <2> QED
    BY <1>3, <1>4, <2>1 DEF DistillInv, ReportsAreRead
<1>11. Distill!ProposedOnce'
  <2>1. \A q \in attempts : run < q.run => run \in q.beside
    BY <1>2 DEF DistillInv, OpenIsBeside, run
  <2> QED
    BY <1>1, <1>3, <2>1 DEF DistillInv, Distill!ProposedOnce
<1> QED
  BY <1>6, <1>7, <1>8, <1>9, <1>10, <1>11 DEF DistillInv

LEMMA AbortInv ==
    ASSUME DistillInv, NEW s \in Sweeper, Distill!Abort(s)
    PROVE  DistillInv'
<1>1. /\ distilling' = [distilling EXCEPT ![s] = NULL]
      /\ UNCHANGED <<captures, runs, audit, attempts>>
  BY DEF Distill!Abort
<1>2. /\ DOMAIN distilling' = Sweeper
      /\ Open' \subseteq Open
      /\ \A o \in Open' : distilling'[o] = distilling[o]
  BY <1>1 DEF DistillInv, RunsAreNumbered, Open
<1>3. EvidenceKept'
  <2>1. \A from : Earned(from) <=> Earned(from)'
    BY <1>1 DEF Earned, Distill!Witness
  <2> QED
    BY <1>1, <1>2, <2>1 DEF DistillInv, EvidenceKept
<1>4. RunsAreNumbered'
  BY <1>1, <1>2 DEF DistillInv, RunsAreNumbered, Passes
<1>5. OpenIsBeside' /\ AttemptsAreReported' /\ ReportsAreRead'
  BY <1>1, <1>2 DEF DistillInv, OpenIsBeside, AttemptsAreReported, ReportsAreRead
<1>6. Distill!ProposedOnce'
  BY <1>1 DEF DistillInv, Distill!ProposedOnce
<1> QED
  BY <1>3, <1>4, <1>5, <1>6 DEF DistillInv

LEMMA DistillRests ==
    ASSUME DistillInv, UNCHANGED Distill!distillVars
    PROVE  DistillInv'
<1>1. UNCHANGED <<captures, distilling, runs, audit, attempts>>
  BY DEF Distill!distillVars
<1>2. \A from : Earned(from) <=> Earned(from)'
  BY <1>1 DEF Earned, Distill!Witness
<1>3. Open' = Open
  BY <1>1 DEF Open
<1>4. EvidenceKept' /\ RunsAreNumbered'
  BY <1>1, <1>2, <1>3 DEF DistillInv, EvidenceKept, RunsAreNumbered, Passes
<1>5. OpenIsBeside' /\ AttemptsAreReported' /\ ReportsAreRead'
  BY <1>1, <1>3 DEF DistillInv, OpenIsBeside, AttemptsAreReported, ReportsAreRead
<1>6. Distill!ProposedOnce'
  BY <1>1 DEF DistillInv, Distill!ProposedOnce
<1> QED
  BY <1>4, <1>5, <1>6 DEF DistillInv

LEMMA DistillInvariance == Distill!Spec => []DistillInv
<1>1. ASSUME DistillInv, NEW s \in Sweeper, Distill!Propose(s) \/ Distill!ProposeFails(s)
      PROVE  DistillInv'
  <2>1. distilling[s] # NULL
    BY <1>1 DEF Distill!Propose, Distill!ProposeFails
  <2>2. UNCHANGED <<captures, runs, audit>>
    BY <1>1 DEF Distill!Propose, Distill!ProposeFails
  <2>3. \E g \in Distill!Foremost(s) : Distill!Recorded(s, g) /\ Distill!Attempted(s, g)
    BY <1>1 DEF Distill!Propose, Distill!ProposeFails
  <2>4. PICK g \in distilling[s].left : Distill!Recorded(s, g) /\ Distill!Attempted(s, g)
    BY <2>3 DEF Distill!Foremost
  <2> QED
    BY <1>1, <2>1, <2>2, <2>4, TriedInv
<1>2. DistillInv /\ [Distill!Next]_Distill!distillVars => DistillInv'
  BY <1>1, SuccessInv, BeginInv, PassCommitInv, AbortInv, DistillRests DEF Distill!Next
<1> QED
  BY <1>2, DistillInitInv, PTL DEF Distill!Spec

\* Behind every procedure a person is asked to review stand enough different
\* runs, and no pass proposes again what a pass that had committed before it
\* began has reported, with passes side by side, rolled back and failing.
THEOREM PeopleAreAskedOnceForAReason == Distill!Spec => []ProposalsAreEarnedOnce
<1>1. DistillInv => ProposalsAreEarnedOnce
  BY DEF DistillInv, EvidenceKept, Earned, ProposalsAreEarnedOnce,
     Distill!ProposalsAreEarnedOnce, Distill!ProposalsAreEarned
<1> QED
  BY <1>1, DistillInvariance, PTL
-----------------------------------------------------------------------------
(***************************************************************************)
(* The types of distillation: the n-th success of a session is one of its  *)
(* successes, because counting those up to each of them counts to all.     *)
(***************************************************************************)
LEMMA SameCounting == \A S : Distill!Cardinality(S) = Cardinality(S)
BY Zenon DEF Distill!Cardinality, Cardinality

\* Every place in a finite set of numbers is taken.
LEMMA PlacesAreTaken ==
    ASSUME NEW S, S \subseteq Nat, IsFiniteSet(S), NEW n \in 1..Cardinality(S)
    PROVE  \E i \in S : Cardinality({j \in S : j <= i}) = n
<1> DEFINE upto(i) == {j \in S : j <= i}
           f == [i \in S |-> Cardinality(upto(i))]
           d == 1..Cardinality(S)
           W == {f[i] : i \in S}
<1>1. Cardinality(S) \in Nat
  BY FS_CardinalityType
<1>2. \A i \in S : IsFiniteSet(upto(i)) /\ Cardinality(upto(i)) <= Cardinality(S)
                   /\ Cardinality(upto(i)) \in Nat
  BY FS_Subset, FS_CardinalityType
<1>3. \A i \in S : f[i] \in d
  <2> SUFFICES ASSUME NEW i \in S PROVE f[i] \in d
    OBVIOUS
  <2>1. upto(i) # {}
    OBVIOUS
  <2>2. Cardinality(upto(i)) # 0
    BY <1>2, <2>1, FS_EmptySet
  <2> QED
    BY <1>1, <1>2, <2>2
<1>4. ASSUME NEW i \in S, NEW j \in S, i < j PROVE f[i] < f[j]
  <2>0. i \in Nat /\ j \in Nat /\ \A l \in S : l \in Nat
    OBVIOUS
  <2>1. upto(i) \subseteq upto(j)
    <3> SUFFICES ASSUME NEW l \in S, l <= i PROVE l <= j
      OBVIOUS
    <3> QED
      BY <1>4, <2>0
  <2>4. j \in upto(j) /\ j \notin upto(i)
    BY <1>4, <2>0
  <2>2. Cardinality(upto(i)) <= Cardinality(upto(j)) /\ upto(i) # upto(j)
    BY <1>2, <2>1, <2>4, FS_Subset
  <2>3. Cardinality(upto(i)) # Cardinality(upto(j))
    BY <1>2, <2>1, <2>2, FS_Subset
  <2> QED
    BY <1>2, <2>2, <2>3
<1>5. \A i, j \in S : f[i] = f[j] => i = j
  <2> SUFFICES ASSUME NEW i \in S, NEW j \in S, i # j PROVE f[i] # f[j]
    OBVIOUS
  <2>1. i < j \/ j < i
    OBVIOUS
  <2>2. f[i] \in Nat /\ f[j] \in Nat
    BY <1>2
  <2> HIDE DEF f
  <2> QED
    BY <1>4, <2>1, <2>2
<1>6. f \in Bijection(S, W)
  BY <1>5 DEF Bijection, Injection, Surjection, IsInjective
<1>7. Cardinality(W) = Cardinality(S)
  BY <1>6, FS_Bijection DEF ExistsBijection
<1>8. IsFiniteSet(d) /\ Cardinality(d) = Cardinality(S)
  BY <1>1, FS_Interval
<1>9. W \subseteq d
  BY <1>3
<1>10. W = d
  BY <1>7, <1>8, <1>9, FS_Subset
<1> QED
  BY <1>10
\* The n-th success of a session is one of them.
LEMMA NthIsOfTheSession ==
    ASSUME captures \in Seq(Episodes), NEW s, NEW n \in 1..Distill!Cardinality(Distill!Of(s))
    PROVE  Distill!Nth(s, n) \in Distill!Of(s)
<1>1. /\ Distill!Of(s) \subseteq 1..Len(captures)
      /\ 1..Len(captures) \subseteq Nat /\ IsFiniteSet(1..Len(captures))
  <2>1. DOMAIN captures = 1..Len(captures) /\ Len(captures) \in Nat
    OBVIOUS
  <2>2. IsFiniteSet(1..Len(captures))
    BY <2>1, FS_Interval
  <2> QED
    BY <2>1, <2>2 DEF Distill!Of
<1>2. IsFiniteSet(Distill!Of(s))
  BY <1>1, FS_Subset
<1>3. Distill!Of(s) \subseteq Nat /\ n \in 1..Cardinality(Distill!Of(s))
  BY <1>1, SameCounting
<1>4. \E i \in Distill!Of(s) : Cardinality({j \in Distill!Of(s) : j <= i}) = n
  BY <1>2, <1>3, PlacesAreTaken
<1>5. \E i \in Distill!Of(s) : Distill!Cardinality({j \in Distill!Of(s) : j <= i}) = n
  BY <1>4, SameCounting
<1> QED
  BY <1>5 DEF Distill!Nth

\* What is performed is a procedure of at least one action.
LEMMA PerformedAreProcedures ==
    ASSUME captures \in Seq(Episodes), Len(captures) <= MaxCaptures
    PROVE  Distill!Performed \subseteq Distill!Procedure
<1>0. /\ DOMAIN captures = 1..Len(captures) /\ Len(captures) \in Nat
      /\ MaxCaptures \in Nat
      /\ \A i \in DOMAIN captures : captures[i].action \in Action
  <2>1. DOMAIN captures = 1..Len(captures) /\ Len(captures) \in Nat
    OBVIOUS
  <2>2. MaxCaptures \in Nat
    BY UnattendedAssumption DEF UnattendedAssumption, Distill!DistillationAssumption
  <2>3. \A i \in DOMAIN captures : captures[i] \in Episodes
    BY <2>1
  <2> QED
    BY <2>1, <2>2, <2>3 DEF Episodes
<1>1. ASSUME NEW s, Distill!Of(s) # {} PROVE Distill!SequenceOf(s) \in Distill!Procedure
  <2> DEFINE N == Distill!Cardinality(Distill!Of(s))
  <2>1. N \in 1..MaxCaptures
    <3>1. Distill!Of(s) \subseteq 1..Len(captures)
      BY <1>0 DEF Distill!Of
    <3>2. IsFiniteSet(1..Len(captures)) /\ Cardinality(1..Len(captures)) = Len(captures)
      <4>1. 1 \in Int /\ Len(captures) \in Int /\ Len(captures) \in Nat
        BY <1>0
      <4>2. /\ IsFiniteSet(1..Len(captures))
            /\ Cardinality(1..Len(captures)) =
                    IF 1 > Len(captures) THEN 0 ELSE Len(captures) - 1 + 1
        BY <4>1, FS_Interval
      <4> QED
        BY <4>1, <4>2
    <3>3. /\ IsFiniteSet(Distill!Of(s)) /\ Cardinality(Distill!Of(s)) \in Nat
          /\ Cardinality(Distill!Of(s)) <= Len(captures)
      BY <3>1, <3>2, FS_Subset, FS_CardinalityType
    <3>4. Cardinality(Distill!Of(s)) # 0
      BY <1>1, <3>3, FS_EmptySet
    <3> QED
      BY <1>0, <3>3, <3>4, SameCounting
  <2>2. \A n \in 1..N : captures[Distill!Nth(s, n)].action \in Action
    BY <1>0, NthIsOfTheSession DEF Distill!Of
  <2>3. Distill!SequenceOf(s) \in [1..N -> Action]
    BY <2>2 DEF Distill!SequenceOf
  <2> HIDE DEF N
  <2> QED
    BY <2>1, <2>3 DEF Distill!Procedure
<1>2. ASSUME NEW i \in Distill!Of(NULL) PROVE <<captures[i].action>> \in Distill!Procedure
  <2>1. i \in DOMAIN captures /\ 1 \in 1..MaxCaptures
    BY <1>0 DEF Distill!Of
  <2>2. <<captures[i].action>> \in [1..1 -> Action]
    BY <1>0, <2>1
  <2> QED
    BY <2>1, <2>2 DEF Distill!Procedure
<1> QED
  BY <1>1, <1>2 DEF Distill!Performed

\* The fields of what TypeOK speaks of, as sets.
DistillTypes ==
    /\ Len(captures) <= MaxCaptures
    /\ runs \in 0..MaxRuns
    /\ \A s \in Open :
            /\ distilling[s].run \in Distill!Run
            /\ distilling[s].beside \subseteq Distill!Run
            /\ distilling[s].left \subseteq Distill!Group
            /\ distilling[s].proposed \subseteq Distill!Procedure
    /\ \A r \in DOMAIN audit : r \in Distill!Run /\ audit[r] \subseteq Distill!Procedure
    /\ attempts \subseteq [sequence : Distill!Procedure, from : SUBSET (1..MaxCaptures),
                           run : Distill!Run, beside : SUBSET Distill!Run]
    /\ checkout \subseteq Distill!Branch

LEMMA BeginTypes ==
    ASSUME DistillInv, DistillTypes, NEW s \in Sweeper, Distill!Begin(s)
    PROVE  DistillTypes'
<1> DEFINE beside == {distilling[o].run : o \in {o \in Sweeper : distilling[o] # NULL}}
           groups == {[sequence |-> q, from |-> Distill!Evidence(q)] :
                        q \in {q \in Distill!Performed \ Distill!Proposed :
                            Distill!Cardinality(Distill!Evidence(q)) >= Minimum}}
           new == [run |-> runs + 1, beside |-> beside, left |-> groups, proposed |-> {}]
<1>1. /\ runs' = runs + 1 /\ runs < MaxRuns
      /\ distilling' = [distilling EXCEPT ![s] = new]
      /\ UNCHANGED <<captures, audit, attempts, checkout>>
  BY DEF Distill!Begin
<1>2. runs + 1 \in Distill!Run /\ runs' \in 0..MaxRuns
  BY <1>1, UnattendedAssumption
     DEF UnattendedAssumption, Distill!DistillationAssumption, DistillTypes, Distill!Run
<1>3. beside \subseteq Distill!Run
  BY DEF DistillTypes, Open
<1>4. groups \subseteq Distill!Group
  <2> SUFFICES ASSUME NEW q \in Distill!Performed
               PROVE  /\ q \in Distill!Procedure
                      /\ Distill!Evidence(q) \subseteq 1..MaxCaptures
    BY DEF Distill!Group
  <2>1. /\ captures \in Seq(Episodes) /\ Len(captures) <= MaxCaptures /\ MaxCaptures \in Nat
    BY UnattendedAssumption DEF UnattendedAssumption, Distill!DistillationAssumption,
       DistillInv, EvidenceKept, DistillTypes
  <2>2. Distill!Evidence(q) \subseteq DOMAIN captures
    BY <2>1, MembersAreFirst
  <2>3. DOMAIN captures \subseteq 1..MaxCaptures
    BY <2>1
  <2> QED
    BY <2>1, <2>2, <2>3, PerformedAreProcedures
<1> HIDE DEF beside, groups
<1>5. /\ new.run = runs + 1 /\ new.beside = beside /\ new.left = groups /\ new.proposed = {}
  OBVIOUS
<1> HIDE DEF new
<1>6. \A o \in Open' : (o = s /\ distilling'[o] = new) \/ (o \in Open /\ distilling'[o] = distilling[o])
  BY <1>1 DEF DistillInv, RunsAreNumbered, Open
<1> QED
  BY <1>1, <1>2, <1>3, <1>4, <1>5, <1>6 DEF DistillTypes

LEMMA TriedTypes ==
    ASSUME DistillInv, DistillTypes, NEW s \in Sweeper, distilling[s] # NULL,
           NEW g \in distilling[s].left,
           Distill!Recorded(s, g), Distill!Attempted(s, g),
           \/ UNCHANGED checkout
           \/ checkout' \in Distill!Pushed(Distill!BranchOf(g.sequence, distilling[s].run)),
           UNCHANGED <<captures, runs, audit>>
    PROVE  DistillTypes'
<1> DEFINE old == distilling[s]
           new == Tried(old, g)
           try == [sequence |-> g.sequence, from |-> g.from, run |-> old.run,
                   beside |-> old.beside]
<1>1. s \in Open /\ Passes(old)
  BY DEF DistillInv, RunsAreNumbered, Open
<1>2. distilling' = [distilling EXCEPT ![s] = new]
  BY <1>1, TryingIsRecorded
<1>3. attempts' = attempts \cup {try}
  BY DEF Distill!Attempted
<1>4. /\ old.run \in Distill!Run /\ old.beside \subseteq Distill!Run
      /\ old.left \subseteq Distill!Group /\ old.proposed \subseteq Distill!Procedure
      /\ g.sequence \in Distill!Procedure /\ g.from \subseteq 1..MaxCaptures
  BY <1>1 DEF DistillTypes, Distill!Group
<1>5. /\ new.run = old.run /\ new.beside = old.beside /\ new.left = old.left \ {g}
      /\ new.proposed = old.proposed \cup {g.sequence}
  BY DEF Tried
<1>6. try \in [sequence : Distill!Procedure, from : SUBSET (1..MaxCaptures),
               run : Distill!Run, beside : SUBSET Distill!Run]
  BY <1>4
<1>7. Distill!BranchOf(g.sequence, old.run) \in Distill!Branch
  <2>1. PICK n \in 1..MaxCaptures : g.sequence \in [1..n -> Action]
    BY <1>4 DEF Distill!Procedure
  <2>2. Head(g.sequence) \in Action
    BY <2>1
  <2> QED
    BY <1>4, <2>2 DEF Distill!BranchOf, Distill!Branch
<1>8. checkout' \subseteq Distill!Branch
  BY <1>7 DEF Distill!Pushed, DistillTypes
<1> HIDE DEF new, try
<1>9. \A o \in Open' : (o = s /\ distilling'[o] = new) \/ (o \in Open /\ distilling'[o] = distilling[o])
  BY <1>1, <1>2 DEF DistillInv, RunsAreNumbered, Open
<1>10. attempts' \subseteq [sequence : Distill!Procedure, from : SUBSET (1..MaxCaptures),
                            run : Distill!Run, beside : SUBSET Distill!Run]
  BY <1>3, <1>6 DEF DistillTypes
<1> HIDE DEF old
<1>11. \A o \in Open' :
            /\ distilling'[o].run \in Distill!Run
            /\ distilling'[o].beside \subseteq Distill!Run
            /\ distilling'[o].left \subseteq Distill!Group
            /\ distilling'[o].proposed \subseteq Distill!Procedure
  BY <1>4, <1>5, <1>9 DEF DistillTypes
<1> QED
  BY <1>8, <1>10, <1>11 DEF DistillTypes

LEMMA DistillTypesStep ==
    ASSUME DistillInv, DistillTypes, [Distill!Next]_Distill!distillVars
    PROVE  DistillTypes'
<1>0. DOMAIN distilling = Sweeper
  BY DEF DistillInv, RunsAreNumbered
<1>1. ASSUME NEW a \in Action, NEW x \in Session \cup {NULL}, Distill!CaptureSuccess(a, x)
      PROVE  DistillTypes'
  <2>1. /\ Len(captures) < MaxCaptures /\ Len(captures') = Len(captures) + 1
        /\ Len(captures) \in Nat /\ MaxCaptures \in Nat
        /\ UNCHANGED <<distilling, runs, audit, attempts, checkout>>
    BY <1>1, UnattendedAssumption DEF UnattendedAssumption, Distill!DistillationAssumption,
       Distill!CaptureSuccess, DistillInv, EvidenceKept
  <2> QED
    BY <2>1 DEF DistillTypes, Open
<1>2. ASSUME NEW s \in Sweeper, Distill!Propose(s) \/ Distill!ProposeFails(s)
      PROVE  DistillTypes'
  <2>1. /\ distilling[s] # NULL /\ UNCHANGED <<captures, runs, audit>>
    BY <1>2 DEF Distill!Propose, Distill!ProposeFails
  <2>2. \E g \in Distill!Foremost(s) :
            /\ Distill!Recorded(s, g) /\ Distill!Attempted(s, g)
            /\ \/ UNCHANGED checkout
               \/ checkout' \in Distill!Pushed(Distill!BranchOf(g.sequence, distilling[s].run))
    BY <1>2 DEF Distill!Propose, Distill!ProposeFails
  <2>3. PICK g \in distilling[s].left :
            /\ Distill!Recorded(s, g) /\ Distill!Attempted(s, g)
            /\ \/ UNCHANGED checkout
               \/ checkout' \in Distill!Pushed(Distill!BranchOf(g.sequence, distilling[s].run))
    BY <2>2 DEF Distill!Foremost
  <2> QED
    BY <2>1, <2>3, TriedTypes
<1>3. ASSUME NEW s \in Sweeper, Distill!Commit(s) PROVE DistillTypes'
  <2> DEFINE run == distilling[s].run
  <2>1. /\ s \in Open
        /\ audit' = [r \in DOMAIN audit \cup {run} |->
                        IF r = run THEN distilling[s].proposed ELSE audit[r]]
        /\ distilling' = [distilling EXCEPT ![s] = NULL]
        /\ UNCHANGED <<captures, runs, attempts, checkout>>
    BY <1>3 DEF Distill!Commit, Open
  <2>2. run \in Distill!Run /\ distilling[s].proposed \subseteq Distill!Procedure
    BY <2>1 DEF DistillTypes
  <2>3. \A o \in Open' : o \in Open /\ distilling'[o] = distilling[o]
    BY <1>0, <2>1 DEF Open
  <2> HIDE DEF run
  <2>4. \A r \in DOMAIN audit' : r \in Distill!Run /\ audit'[r] \subseteq Distill!Procedure
    BY <2>1, <2>2 DEF DistillTypes
  <2> QED
    BY <2>1, <2>3, <2>4 DEF DistillTypes
<1>4. ASSUME NEW s \in Sweeper, Distill!Abort(s) PROVE DistillTypes'
  <2>1. /\ distilling' = [distilling EXCEPT ![s] = NULL]
        /\ UNCHANGED <<captures, runs, audit, attempts, checkout>>
    BY <1>4 DEF Distill!Abort
  <2>2. \A o \in Open' : o \in Open /\ distilling'[o] = distilling[o]
    BY <1>0, <2>1 DEF Open
  <2> QED
    BY <2>1, <2>2 DEF DistillTypes
<1>5. CASE UNCHANGED Distill!distillVars
  BY <1>5 DEF Distill!distillVars, DistillTypes, Open
<1> QED
  BY <1>1, <1>2, <1>3, <1>4, <1>5, BeginTypes DEF Distill!Next

\* Passes, attempts and branches keep their types.
THEOREM DistillTypeCorrect == Distill!Spec => []Distill!TypeOK
<1>1. Distill!Init => DistillTypes
  BY UnattendedAssumption DEF UnattendedAssumption, Distill!DistillationAssumption,
     Distill!Init, DistillTypes, Open
<1>2. DistillInv /\ DistillTypes /\ [Distill!Next]_Distill!distillVars => DistillTypes'
  BY DistillTypesStep
<1>3. DistillInv /\ DistillTypes => Distill!TypeOK
  BY DEF DistillInv, EvidenceKept, DistillTypes, Episodes, Distill!Capture, Distill!TypeOK, Open
<1> QED
  BY <1>1, <1>2, <1>3, DistillInvariance, PTL DEF Distill!Spec
=============================================================================
