---------------------------- MODULE EventOutbox ----------------------------
(***************************************************************************)
(* The outbox of domain events (services/event_bus.py) and the task that   *)
(* dispatches them (tasks/event_tasks.py): publishers write an event in    *)
(* their own transaction, dispatchers claim the oldest pending ones, hand  *)
(* each over, and mark it in a transaction that commits after that.        *)
(*                                                                         *)
(* A dispatcher that dies and one whose transaction fails end alike: the   *)
(* failed transaction expires the claimed rows, and reading one of them to *)
(* call mark_failed raises.  So no event is ever failed or dead, and only  *)
(* pending events are claimed.  (redeliver_event opens a transaction in a  *)
(* session that has one and always fails.)                                 *)
(***************************************************************************)
EXTENDS Naturals, Sequences, FiniteSets, SequencesExt, FiniteSetsExt

CONSTANTS
  Keys,        \* dedupe keys publishers use
  Dispatchers, \* concurrent tasks
  Limit,       \* events a task claims at most
  EventsBeat,  \* ENABLE_EVENTS_BEAT: the schedule that starts dispatchers exists (default FALSE)
  MaxFaults    \* bound on dispatchers that stop half way

ASSUME OutboxAssumption == Limit \in Nat \ {0} /\ MaxFaults \in Nat /\ EventsBeat \in BOOLEAN

VARIABLES
  events, \* domain_events in the order of created_at: key, status, times handed over
  batch,  \* what every task has claimed and not yet marked
  given,  \* the tasks that have handed over the head of their batch
  lost,   \* history: transactions refused because the key was taken
  faults  \* counts faults, for the bound

outboxVars == <<events, batch, given, lost, faults>>
------------------------------------------------------------------------------
Event == [key : Keys, status : {"pending", "processing", "processed"}, handed : Nat]

OutboxTypeOK ==
  /\ events \in Seq(Event)
  /\ \A w \in Dispatchers : Range(batch[w]) \subseteq DOMAIN events
  /\ given \subseteq {w \in Dispatchers : batch[w] # <<>>}
  /\ lost \subseteq Keys /\ faults \in 0 .. MaxFaults

OutboxInit ==
  /\ events = <<>> /\ given = {} /\ lost = {} /\ faults = 0
  /\ batch = [w \in Dispatchers |-> <<>>]
------------------------------------------------------------------------------
\* publish_event: the flush fails on ux_domain_event_org_dedupe, and with it the
\* transaction of the publisher.
Publish(k) ==
  /\ IF \E i \in DOMAIN events : events[i].key = k
     THEN lost' = lost \cup {k} /\ UNCHANGED events
     ELSE /\ events' = Append(events, [key |-> k, status |-> "pending", handed |-> 0])
          /\ UNCHANGED lost
  /\ UNCHANGED <<batch, given, faults>>

\* Mutant: an event waits until no earlier one is unfinished.
Claimable_InOrder ==
  {i \in DOMAIN events : events[i].status = "pending"
                         /\ \A j \in 1 .. i - 1 : events[j].status # "processing"}

\* Mutant: an event that a dispatcher has claimed may be claimed again.
Claimable_Processing == {i \in DOMAIN events : events[i].status \in {"pending", "processing"}}

Claimable == {i \in DOMAIN events : events[i].status = "pending"}

\* claim_pending_events: the oldest of them, locked by the SELECT and committed as
\* processing.
Claim(w) ==
  LET oldest == {i \in Claimable : Cardinality({j \in Claimable : j < i}) < Limit} IN
  /\ batch[w] = <<>> /\ Claimable # {}
  /\ \E claimed \in [1 .. Cardinality(oldest) -> oldest] :
       /\ \A i, j \in DOMAIN claimed : i < j => claimed[i] < claimed[j]
       /\ batch' = [batch EXCEPT ![w] = claimed]
  /\ events' = [i \in DOMAIN events |->
       IF i \in oldest THEN [events[i] EXCEPT !.status = "processing"] ELSE events[i]]
  /\ UNCHANGED <<given, lost, faults>>

\* _handle_event: what it does is seen outside, and no rollback takes it back.
HandOver(w) ==
  /\ batch[w] # <<>> /\ w \notin given
  /\ events' = [events EXCEPT ![Head(batch[w])].handed = @ + 1]
  /\ given' = given \cup {w}
  /\ UNCHANGED <<batch, lost, faults>>

\* mark_processed, and the commit.
Mark(w) ==
  /\ w \in given
  /\ events' = [events EXCEPT ![Head(batch[w])].status = "processed"]
  /\ batch' = [batch EXCEPT ![w] = Tail(@)]
  /\ given' = given \ {w}
  /\ UNCHANGED <<lost, faults>>

\* The task stops, before a hand-over or between one and its commit: its batch stays
\* processing.
Abandon(w) ==
  /\ batch[w] # <<>> /\ faults < MaxFaults
  /\ batch' = [batch EXCEPT ![w] = <<>>]
  /\ given' = given \ {w}
  /\ faults' = faults + 1
  /\ UNCHANGED <<events, lost>>

OutboxNext ==
  \/ \E k \in Keys : Publish(k)
  \/ \E w \in Dispatchers : Claim(w) \/ HandOver(w) \/ Mark(w) \/ Abandon(w)

\* A dispatcher that runs goes on or stops.  Only the beat schedule starts them, and it
\* is there, for ever, only with ENABLE_EVENTS_BEAT.
OutboxFairness ==
  \A w \in Dispatchers :
    /\ WF_outboxVars(HandOver(w)) /\ WF_outboxVars(Mark(w))
    /\ EventsBeat => WF_outboxVars(Claim(w))

OutboxSpec == OutboxInit /\ [][OutboxNext]_outboxVars /\ OutboxFairness
------------------------------------------------------------------------------
(* Properties *)

\* The dispatcher that claimed the event stopped.
Abandoned(i) ==
  events[i].status = "processing" /\ \A w \in Dispatchers : i \notin Range(batch[w])

\* An event is handed over at most once, with several dispatchers and whichever of them
\* stop wherever; a processed one was, a pending one was not, and one that was handed
\* over and is still processing is being marked, or its dispatcher stopped before it
\* could: no one claims it again.
HandedOnce ==
  \A i \in DOMAIN events :
    /\ events[i].handed <= 1
    /\ events[i].status = "pending" => events[i].handed = 0
    /\ events[i].status = "processed" => events[i].handed = 1
    /\ events[i].status = "processing" /\ events[i].handed = 1 =>
         Abandoned(i) \/ \E w \in given : Head(batch[w]) = i

\* Where the beat schedule is switched on, every published event is handed over and
\* marked in the end, unless its own dispatcher stopped: the batches that others
\* abandoned keep none of the later events back.
EventsEnd ==
  EventsBeat =>
    \A n \in 1 .. Cardinality(Keys) :
      Len(events) >= n ~> (Len(events) >= n /\ (events[n].status = "processed" \/ Abandoned(n)))
=============================================================================
