------------------------------- MODULE Roster -------------------------------
(***************************************************************************)
(* A roster plan (services/wf_roster_state_machine.py,                     *)
(* services/wf_roster_service.py): planners submit, approve, publish,      *)
(* freeze and archive it and assign shifts.  A request loads the plan,     *)
(* decides on the status it loaded, and writes it back later.              *)
(***************************************************************************)
EXTENDS Naturals, Sequences, FiniteSets, SequencesExt

CONSTANTS
  Planners,   \* concurrent requests
  MaxLog,     \* bound on the state log
  MaxAssigned \* bound on requests that assign shifts

ASSUME RosterAssumption == MaxLog \in Nat /\ MaxAssigned \in Nat

VARIABLES
  plan,     \* status and version of the row
  log,      \* wf_roster_state_logs
  events,   \* versions with a published event, by its dedupe key
  assigned, \* wf_roster_assignments, as the status the plan was in
  planner   \* what every request has loaded

rosterVars == <<plan, log, events, assigned, planner>>
------------------------------------------------------------------------------
NotPlanning == [pc |-> "idle"]

\* ROSTER_TRANSITIONS
Transitions ==
  [draft |-> {"pending", "archived"}, pending |-> {"approved", "draft", "archived"},
   approved |-> {"published", "draft"}, published |-> {"frozen", "archived"},
   frozen |-> {"archived"}, archived |-> {}]

\* The targets of the endpoints; none goes back to draft.
Targets == {"pending", "approved", "published", "frozen", "archived"}

RosterTypeOK ==
  /\ plan.status \in DOMAIN Transitions /\ plan.version \in Nat
  /\ \A i \in DOMAIN log : log[i].from \in DOMAIN Transitions /\ log[i].to \in Targets
  /\ \A p \in Planners : planner[p].pc \in {"idle", "move", "assign", "allocate"}

RosterInit ==
  /\ plan = [status |-> "draft", version |-> 1]
  /\ log = <<>> /\ events = {} /\ assigned = <<>>
  /\ planner = [p \in Planners |-> NotPlanning]
------------------------------------------------------------------------------
\* submit_for_approval, approve_roster, publish_roster_plan, freeze_roster_sm,
\* archive_roster: the load and can_transition.  Publishing a draft tries to approve it
\* first, which a draft does not allow.
LoadPlan(p, target) ==
  /\ planner[p].pc = "idle"
  /\ Len(log) + Cardinality({q \in Planners : planner[q].pc = "move"}) < MaxLog
  /\ target \in Transitions[plan.status]
  /\ planner' = [planner EXCEPT ![p] = [pc |-> "move", of |-> plan, to |-> target]]
  /\ UNCHANGED <<plan, log, events, assigned>>

\* Mutant: the event of a publication has a key of its own every time.
Taken_Never(version) == FALSE

\* Was the version published before?  The event's dedupe key is taken.
Taken(version) == version \in events

\* transition_roster: log, status and event are one commit, which a taken key refuses.
Move(p) ==
  LET to == planner[p].to
      version == planner[p].of.version + 1 IN
  /\ planner[p].pc = "move"
  /\ IF to = "published" /\ Taken(version) THEN UNCHANGED <<plan, log, events>>
     ELSE /\ log' = Append(log, [from |-> planner[p].of.status, to |-> to])
          /\ plan' = [status |-> to,
                      version |-> IF to = "published" THEN version ELSE plan.version]
          /\ events' = IF to = "published" THEN events \cup {version} ELSE events
  /\ planner' = [planner EXCEPT ![p] = NotPlanning]
  /\ UNCHANGED assigned

Assigning == Cardinality({q \in Planners : planner[q].pc \in {"assign", "allocate"}})

\* add_roster_assignments, up to its commit: only a frozen plan refuses.
BeginAssign(p) ==
  /\ planner[p].pc = "idle"
  /\ Len(assigned) + Assigning < MaxAssigned
  /\ plan.status # "frozen"
  /\ planner' = [planner EXCEPT ![p] = [pc |-> "assign"]]
  /\ UNCHANGED <<plan, log, events, assigned>>

Assign(p) ==
  /\ planner[p].pc = "assign"
  /\ assigned' = Append(assigned, plan.status)
  /\ planner' = [planner EXCEPT ![p] = NotPlanning]
  /\ UNCHANGED <<plan, log, events>>

\* allocate_shift_for_day, up to its commit: the plan is the one of the request,
\* whatever its status, or a published one.
BeginAllocate(p, named) ==
  /\ planner[p].pc = "idle"
  /\ Len(assigned) + Assigning < MaxAssigned
  /\ named \/ plan.status = "published"
  /\ planner' = [planner EXCEPT ![p] = [pc |-> "allocate"]]
  /\ UNCHANGED <<plan, log, events, assigned>>

\* A day that has an assignment gets the new shift in its place.
Allocate(p) ==
  /\ planner[p].pc = "allocate"
  /\ \/ assigned' = Append(assigned, plan.status)
     \/ \E i \in DOMAIN assigned : assigned' = [assigned EXCEPT ![i] = plan.status]
  /\ planner' = [planner EXCEPT ![p] = NotPlanning]
  /\ UNCHANGED <<plan, log, events>>

RosterNext ==
  \E p \in Planners :
    \/ (\E target \in Targets : LoadPlan(p, target)) \/ Move(p)
    \/ BeginAssign(p) \/ Assign(p)
    \/ (\E named \in BOOLEAN : BeginAllocate(p, named)) \/ Allocate(p)

RosterSpec == RosterInit /\ [][RosterNext]_rosterVars
------------------------------------------------------------------------------
(* Properties *)

Publications == Cardinality({i \in DOMAIN log : log[i].to = "published"})

\* Every version of a roster is published by one request and announced by one event,
\* though two planners may both have found it approved, or one of them may approve
\* again what another has published meanwhile; and the version counts publications.
PublishedOnce ==
  /\ Publications = Cardinality(events)
  /\ plan.version = 1 + Publications
=============================================================================
