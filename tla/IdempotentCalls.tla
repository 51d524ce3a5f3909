-------------------------- MODULE IdempotentCalls --------------------------
(***************************************************************************)
(* Idempotency keys (utils/idempotency.py): a request with a key looks for *)
(* the answer stored under it, and otherwise executes and stores its own.  *)
(*                                                                         *)
(* Looking, executing and storing are three transactions.  A body stands   *)
(* for what is hashed; the path of the request is not part of it.          *)
(* Executing is any operation of the API that commits, or fails and leaves *)
(* nothing; its answer is told from every other.                           *)
(***************************************************************************)
EXTENDS Naturals, FiniteSets

CONSTANTS
  CallKeys,   \* values of the Idempotency-Key header
  Bodies,     \* request bodies
  Unstorable, \* keys used where the answer cannot be written as JSON
  Callers,    \* concurrent requests
  MaxCalls,   \* bound on executions
  MaxLost     \* bound on requests that end between executing and storing

ASSUME CallsAssumption ==
  Unstorable \subseteq CallKeys /\ MaxCalls \in Nat /\ MaxLost \in Nat

VARIABLES
  stored,   \* api_idempotency_keys: body and answer of a key
  call,     \* what every request is about to do
  executed, \* history: executions that committed
  replayed, \* history: answers given from the store
  lostCalls \* counts requests that ended early, for the bound

callVars == <<stored, call, executed, replayed, lostCalls>>
------------------------------------------------------------------------------
NotStored == [answer |-> 0]
NoCall == [pc |-> "idle"]
Answer(k, b, n) == [key |-> k, body |-> b, answer |-> n]

CallsTypeOK ==
  /\ \A c \in Callers : call[c].pc \in {"idle", "execute", "store"}
  /\ executed \subseteq [key : CallKeys, body : Bodies, answer : 1 .. MaxCalls]
  /\ lostCalls \in 0 .. MaxLost

CallsInit ==
  /\ stored = [k \in CallKeys |-> NotStored]
  /\ call = [c \in Callers |-> NoCall]
  /\ executed = {} /\ replayed = {} /\ lostCalls = 0
------------------------------------------------------------------------------
Replayable(k, b) == stored[k] # NotStored /\ stored[k].body = b

\* idempotency_replay_or_none: an answer under another body is a 409.
Ask(c, k, b) ==
  /\ call[c] = NoCall
  /\ Replayable(k, b) \/ stored[k] = NotStored
  /\ IF Replayable(k, b)
     THEN replayed' = replayed \cup {Answer(k, b, stored[k].answer)} /\ UNCHANGED call
     ELSE call' = [call EXCEPT ![c] = [pc |-> "execute", key |-> k, body |-> b]]
          /\ UNCHANGED replayed
  /\ UNCHANGED <<stored, executed, lostCalls>>

\* exec_fn commits.
Execute(c) ==
  LET n == Cardinality(executed) + 1 IN
  /\ call[c].pc = "execute" /\ n <= MaxCalls
  /\ executed' = executed \cup {Answer(call[c].key, call[c].body, n)}
  /\ call' = [call EXCEPT ![c] = [pc |-> "store", of |-> Answer(call[c].key, call[c].body, n)]]
  /\ UNCHANGED <<stored, replayed, lostCalls>>

\* exec_fn raises: nothing is stored.
ExecuteFails(c) ==
  /\ call[c].pc = "execute"
  /\ call' = [call EXCEPT ![c] = NoCall]
  /\ UNCHANGED <<stored, executed, replayed, lostCalls>>

\* Mutant: the answer of the last request replaces the one stored before.
Kept_Last(k, mine) == mine

\* ux_api_idempo_org_key refuses a second answer, and the caller hears its own.
Kept(k, mine) ==
  IF k \in Unstorable \/ stored[k] # NotStored THEN stored[k] ELSE mine

\* idempotency_store
Store(c) ==
  LET a == call[c].of IN
  /\ call[c].pc = "store"
  /\ stored' = [stored EXCEPT ![a.key] = Kept(a.key, [body |-> a.body, answer |-> a.answer])]
  /\ call' = [call EXCEPT ![c] = NoCall]
  /\ UNCHANGED <<executed, replayed, lostCalls>>

\* The process ends in between; the client asks again.
LoseCall(c) ==
  /\ call[c].pc = "store" /\ lostCalls < MaxLost
  /\ call' = [call EXCEPT ![c] = NoCall]
  /\ lostCalls' = lostCalls + 1
  /\ UNCHANGED <<stored, executed, replayed>>

CallsNext ==
  \E c \in Callers :
    \/ \E k \in CallKeys, b \in Bodies : Ask(c, k, b)
    \/ Execute(c) \/ ExecuteFails(c) \/ Store(c) \/ LoseCall(c)

CallsSpec == CallsInit /\ [][CallsNext]_callVars
------------------------------------------------------------------------------
(* Properties *)

\* Whoever is answered from the store hears what an execution of the same body under
\* that key answered, and all of them hear the same for ever, though several requests
\* may have executed at the same time with different bodies, or again after one was
\* lost.
ReplayTruthful ==
  \A a \in replayed : a \in executed /\ stored[a.key] = [body |-> a.body, answer |-> a.answer]
=============================================================================
