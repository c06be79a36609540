----------------------------- MODULE Confirmation -----------------------------
(***************************************************************************)
(* memory_write through the MCP gateway (mcp_server.py, mrtr.py): calls    *)
(* whose effect is on trust are answered with a question first, and the    *)
(* question is kept nowhere but in the token the client sends back, a MAC  *)
(* over an expiry and the operation.                                       *)
(*                                                                         *)
(* No setting named jwt_secret, api_token or secret_key exists, so every   *)
(* gateway process signs with a secret of its own, drawn when first used;  *)
(* a MAC is the pair of the secret and what it signs.  The scope is bound  *)
(* by the gateway and one project is modelled.                             *)
(***************************************************************************)
EXTENDS Integers, FiniteSets

CONSTANTS
    Replica,        \* gateway processes
    Ref,            \* memories a call may name
    Evidence,       \* argument that is no part of the operation
    Calls,          \* bound: calls of memory_write the clients make
    TTL,            \* CONFIRMATION_TTL_S, in ticks
    MaxTime,        \* bound: ticks
    MaxRestarts,    \* bound: deaths of a gateway process
    MaxQuestions,   \* bound: questions asked
    NULL

ConfirmationAssumption ==
    /\ TTL \in Nat /\ MaxTime \in Nat
    /\ MaxRestarts \in Nat /\ MaxQuestions \in Nat
    /\ IsFiniteSet(Replica)
    /\ Calls \subseteq [op : {"assert", "retract", "supersede"},
                       type : {"observation", "decision"},
                       ref : Ref, evidence : Evidence]

VARIABLES
    clock,
    secret,     \* _EPHEMERAL of each process, by number
    questions,  \* history: the questions asked, their tokens and calls
    confirmed,  \* tokens a person answered with true
    status,     \* status of the memories named
    posted,     \* memories the API stored for the gateway
    done        \* history: the last call that went through, when, and by whom

vars == <<clock, secret, questions, confirmed, status, posted, done>>

Time == 0..MaxTime
Operation == [op : {"assert", "retract", "supersede"},
              type : {"observation", "decision"}, ref : Ref]
Mac == [secret : Nat, expires : Nat, of : Operation]
Token == [expires : Nat, mac : Mac]

TypeOK ==
    /\ clock \in Time
    /\ secret \in [Replica -> Nat]
    /\ questions \subseteq [token : Token, call : Calls, at : Time]
    /\ confirmed \subseteq Token
    /\ status \in [Ref -> {"active", "archived", "superseded"}]
    /\ posted \subseteq [type : {"observation", "decision"}, tier : {"inferred"},
                         status : {"quarantined"}]
    /\ done \in [call : Calls, at : Time, by : Nat] \cup {NULL}

Init ==
    /\ clock = 0
    /\ secret = CHOOSE s \in [Replica -> 1..Cardinality(Replica)] :
                    \A p, q \in Replica : s[p] = s[q] => p = q
    /\ questions = {} /\ confirmed = {}
    /\ status = [m \in Ref |-> "active"]
    /\ posted = {} /\ done = NULL
-----------------------------------------------------------------------------
\* Mutant of Canonical: the memory the call is about is not signed.
CanonicalWithoutRef(call) ==
    [op |-> call.op, type |-> call.type, ref |-> CHOOSE r \in Ref : TRUE]

\* _canonical: only what determines the effect.
Canonical(call) == [op |-> call.op, type |-> call.type, ref |-> call.ref]

RequiresConfirmation(call) ==
    call.op \in {"retract", "supersede"} \/ call.type = "decision"

Signed(p, expires, call) ==
    [secret |-> secret[p], expires |-> expires, of |-> Canonical(call)]

\* issue
Question(p, call) ==
    [token |-> [expires |-> clock + TTL, mac |-> Signed(p, clock + TTL, call)],
     call |-> call, at |-> clock]

\* verify: the retry quotes a token and says true.
Verified(p, call, token) ==
    /\ token # NULL
    /\ token \in confirmed
    /\ token.expires >= clock
    /\ token.mac = Signed(p, token.expires, call)

\* A call that must be asked about and brings no confirmation of its own.
AskFirst(p, call, token) ==
    /\ RequiresConfirmation(call)
    /\ ~Verified(p, call, token)
    /\ Cardinality(questions) < MaxQuestions
    /\ questions' = questions \cup {Question(p, call)}
    /\ UNCHANGED <<clock, secret, confirmed, status, posted, done>>

\* _dispatch posts a new memory, whatever op says; op is kept in the metadata,
\* nothing of the memory named changes.  The gateway hears of it, or times out
\* after the API stored it, or the API stored nothing.
Dispatch(p, call, token) ==
    /\ RequiresConfirmation(call) => Verified(p, call, token)
    /\ \/ /\ posted' = posted \cup {[type |-> call.type, tier |-> "inferred",
                                     status |-> "quarantined"]}
          /\ done' = [call |-> call, at |-> clock, by |-> secret[p]]
       \/ UNCHANGED <<posted, done>>
    /\ UNCHANGED <<clock, secret, questions, confirmed, status>>

\* A person answers a question.  A refusal leaves nothing behind.
Confirm(q) ==
    /\ confirmed' = confirmed \cup {q.token}
    /\ UNCHANGED <<clock, secret, questions, status, posted, done>>

Highest == CHOOSE n \in {secret[p] : p \in Replica} :
                \A p \in Replica : secret[p] <= n

Restart(p) ==
    /\ Highest < Cardinality(Replica) + MaxRestarts
    /\ secret' = [secret EXCEPT ![p] = Highest + 1]
    /\ UNCHANGED <<clock, questions, confirmed, status, posted, done>>

Tick ==
    /\ clock < MaxTime
    /\ clock' = clock + 1
    /\ UNCHANGED <<secret, questions, confirmed, status, posted, done>>

Tokens == {q.token : q \in questions}

Next ==
    \/ \E p \in Replica, call \in Calls, token \in Tokens \cup {NULL} :
            AskFirst(p, call, token) \/ Dispatch(p, call, token)
    \/ \E q \in questions : Confirm(q)
    \/ \E p \in Replica : Restart(p)
    \/ Tick
-----------------------------------------------------------------------------
(***************************************************************************)
(* Properties.                                                             *)
(***************************************************************************)
\* What acts on trust happened after a person was asked about that very
\* operation, by the process that let it through, and said yes no longer ago
\* than the question stays open: whatever the client sent between, to whichever
\* process, and however often one restarted.
TrustIsAskedFor ==
    done # NULL /\ RequiresConfirmation(done.call) =>
        \E q \in questions :
            /\ q.token \in confirmed
            /\ q.call.op = done.call.op /\ q.call.type = done.call.type
            /\ q.call.ref = done.call.ref
            /\ q.token.mac.secret = done.by
            /\ q.at <= done.at /\ done.at <= q.at + TTL

\* A retraction that was confirmed and went through takes the memory out of
\* every future pack.
RetractedIsRetired ==
    done # NULL /\ done.call.op = "retract" =>
        status[done.call.ref] # "active"
=============================================================================
