-------------------------------- MODULE Serving --------------------------------
(***************************************************************************)
(* What one request goes through: who is asking (Auth), whether it may     *)
(* write now (Admission), whether a person was asked (Confirmation), what  *)
(* its session may touch (Access, which this module extends), and what a   *)
(* reader is handed (Retrieval).  The modules share no state, so a         *)
(* behaviour is one of theirs: `scene` names the module that moves.        *)
(*                                                                         *)
(* A constant has the name it has in the module it is of; where two        *)
(* modules use one name for different things, the instance says which.     *)
(***************************************************************************)
EXTENDS Access, Sequences

CONSTANTS
    Known, KeyOf, SectionOf, Tables, Words, Linked, Score, Rrf, Ident, Cross,
    Similarity, Cost, Cap, Clause, Terms, Marker, Relational, TopK,
    Hits,                                                       \* Retrieval
    Thread, Limit, MaxTracked, Quota, Second, MaxTick, MaxRequests,  \* Admission
    Replica, Ref, Evidence, Calls, AnswerTime, MaxMinute, MaxRestarts,
    MaxQuestions,                                               \* Confirmation
    Kid, Registered, Unknown, CacheTime, MinRefresh, MaxTurn, MaxRefreshes,
    MaxDenials,                                                 \* Auth
    Scenes         \* bound: the modules that may move

VARIABLES
    scene,
    row, late, stage, request, arrived, was, ranked, pool, kept, evidence,
    served, used, dropped, verdict, event,
    second, window, held, writing, answers, forgiven,
    minute, secret, questions, confirmed, status, posted, done,
    clock, published, lastSeen, reachable, cache, current, thread, audit, denials

accessVars == <<session, tables, until, revoked, time, seen, refused>>
retrievalVars == <<row, late, stage, request, arrived, was, ranked, pool, kept,
                   evidence, served, used, dropped, verdict, event>>
admissionVars == <<second, window, held, writing, answers, forgiven>>
confirmationVars == <<minute, secret, questions, confirmed, status, posted, done>>
authVars == <<clock, published, lastSeen, reachable, cache, current, thread, audit,
              denials>>
-----------------------------------------------------------------------------
Retrieval == INSTANCE Retrieval WITH Memory <- Known, Key <- KeyOf, Limit <- Hits

Admission == INSTANCE Admission WITH MaxTime <- MaxTick, clock <- second

Confirmation == INSTANCE Confirmation WITH
    TTL <- AnswerTime, MaxTime <- MaxMinute, clock <- minute

Auth == INSTANCE Auth WITH
    Project <- Registered, TTL <- CacheTime, MaxTime <- MaxTurn

ASSUME ServingAssumption ==
    /\ AccessAssumption
    /\ Retrieval!RetrievalAssumption /\ Retrieval!TablesAreOfTheStore
    /\ Admission!AdmissionAssumption
    /\ Confirmation!ConfirmationAssumption
    /\ Auth!AuthAssumption
    /\ Scenes \subseteq {"access", "retrieval", "admission", "confirmation", "auth"}

ServingInit ==
    /\ scene \in Scenes
    /\ Retrieval!Init /\ (scene = "retrieval" \/ row = CHOOSE t \in Tables : TRUE)
    /\ Admission!Init /\ Confirmation!Init /\ Auth!Init /\ Init

ServingNext ==
    \/ /\ scene = "access" /\ Next
       /\ UNCHANGED <<scene, retrievalVars, admissionVars, confirmationVars,
                      authVars>>
    \/ /\ scene = "retrieval" /\ Retrieval!Next
       /\ UNCHANGED <<scene, accessVars, admissionVars, confirmationVars,
                      authVars>>
    \/ /\ scene = "admission" /\ Admission!Next
       /\ UNCHANGED <<scene, accessVars, retrievalVars, confirmationVars,
                      authVars>>
    \/ /\ scene = "confirmation" /\ Confirmation!Next
       /\ UNCHANGED <<scene, accessVars, retrievalVars, admissionVars, authVars>>
    \/ /\ scene = "auth" /\ Auth!Next
       /\ UNCHANGED <<scene, accessVars, retrievalVars, admissionVars,
                      confirmationVars>>

ServingSpec ==
    ServingInit /\ [][ServingNext]_<<scene, accessVars, retrievalVars, admissionVars,
                                     confirmationVars, authVars>>

\* The type invariant of the module that moves.
ServingTypeOK ==
    CASE scene = "access"       -> TypeOK
      [] scene = "retrieval"    -> Retrieval!TypeOK
      [] scene = "admission"    -> Admission!TypeOK
      [] scene = "confirmation" -> Confirmation!TypeOK
      [] scene = "auth"         -> Auth!TypeOK

\* A pack accounts for every candidate.
DropsAreExplained == Retrieval!DropsAreExplained
\* A ranking does not depend on the order the rows arrived in.
RankingIsReproducible == Retrieval!RankingIsReproducible
\* What is no longer current is marked, the embedder being up.
HistoryIsMarked == Retrieval!HistoryIsMarked
\* What is no longer current is marked, the embedder being up or down.
HistoryIsMarkedAnyhow == Retrieval!HistoryIsMarkedAnyhow
\* Reviewed constraints are in every pack.
BaselineIsServed == Retrieval!BaselineIsServed
\* What a pack says is supported is supported by what is in it.
AnswerabilityIsOfThePack == Retrieval!AnswerabilityIsOfThePack
\* A window and the next admit at most twice the limit in a second; only a
\* tenant that used its limit is refused, for no longer than it is told.
WindowIsFair == Admission!WindowIsFair
\* Concurrent writers overshoot the quota by less than their number.
QuotaOvershootIsBounded == Admission!QuotaOvershootIsBounded
\* What acts on trust was asked about first.
TrustIsAskedFor == Confirmation!TrustIsAskedFor
\* A confirmed retraction takes effect.
RetractedIsRetired == Confirmation!RetractedIsRetired
\* Withdrawn signing keys are refused, published ones are found, and unknown
\* key ids are fetched for once per refresh interval.
KeyCacheIsSound == Auth!KeyCacheIsSound
\* Denied scopes are in the audit log.
DenialIsAudited == Auth!DenialIsAudited
==============================================================================
