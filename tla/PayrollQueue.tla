---------------------------- MODULE PayrollQueue ----------------------------
(***************************************************************************)
(* A payroll run that is handed to Celery (PAYROLL_USE_CELERY): the API    *)
(* marks it queued (mark_payroll_run_queued in crud/payroll_crud.py) and   *)
(* sends the orchestrator a task (payroll/tasks.py), which first looks at  *)
(* the mark.  An API process without Celery processes the run itself, and  *)
(* a processed run can be reset.                                           *)
(*                                                                         *)
(* Requests load the run and write back the columns they change later.  An *)
(* employee task dies on its first line, an import of a name that is not   *)
(* there: it records nothing and counts nothing, so there is no action for *)
(* it.  The two hours after which the run's lock in Redis expires are over *)
(* only when nobody would look at it any more, and are left out.           *)
(***************************************************************************)
EXTENDS Naturals, FiniteSets

CONSTANTS
  Requests, \* concurrent API requests
  MaxTasks  \* bound on tasks sent

VARIABLES
  row,     \* status and execution_status of the run
  locked,  \* payroll:exec_lock in Redis
  tasks,   \* orchestrator tasks waiting
  sent,    \* counts tasks, for the bound
  request, \* what every request is about to write, and the row it loaded
  worker   \* how far the orchestrator that has the lock is

queueVars == <<row, locked, tasks, sent, request, worker>>
------------------------------------------------------------------------------
Idle == [pc |-> "idle"]
RunRow == [status : {"draft", "processed"}, execution : {"draft", "queued", "running", "completed"}]

QueueTypeOK ==
  /\ row \in RunRow /\ locked \in BOOLEAN
  /\ tasks \in 0 .. sent /\ sent \in 0 .. MaxTasks
  /\ \A r \in Requests :
       request[r] = Idle \/ (request[r].pc \in {"mark", "send", "process", "reset"}
                             /\ request[r].was \in RunRow)
  /\ worker \in {"none", "gather", "finalize"}
  /\ worker # "none" => locked

QueueInit ==
  /\ row = [status |-> "draft", execution |-> "draft"]
  /\ locked = FALSE
  /\ tasks = 0 /\ sent = 0
  /\ request = [r \in Requests |-> Idle]
  /\ worker = "none"
------------------------------------------------------------------------------
(* The API *)

InProgress == row.execution \in {"queued", "running"}

\* mark_payroll_run_queued, assert_payroll_process_allowed, assert_payroll_reset_allowed.
Load(r, pc) ==
  /\ request[r] = Idle
  /\ ~InProgress
  /\ pc # "reset" => row.status = "draft"
  /\ pc = "mark" => sent + Cardinality({q \in Requests : request[q].pc \in {"mark", "send"}}) < MaxTasks
  /\ request' = [request EXCEPT ![r] = [pc |-> pc, was |-> row]]
  /\ UNCHANGED <<row, locked, tasks, sent, worker>>

MarkQueued(r) ==
  /\ request[r].pc = "mark"
  /\ row' = [row EXCEPT !.execution = "queued"]
  /\ request' = [request EXCEPT ![r].pc = "send"]
  /\ UNCHANGED <<locked, tasks, sent, worker>>

SendTask(r) ==
  /\ request[r].pc = "send"
  /\ tasks' = tasks + 1 /\ sent' = sent + 1
  /\ request' = [request EXCEPT ![r] = Idle]
  /\ UNCHANGED <<row, locked, worker>>

\* The commit of a request writes the columns that differ from the row it loaded.
Written(was, new) ==
  [status |-> IF new.status # was.status THEN new.status ELSE row.status,
   execution |-> IF new.execution # was.execution THEN new.execution ELSE row.execution]

Processed == [status |-> "processed", execution |-> "completed"]
Draft == [status |-> "draft", execution |-> "draft"]

\* process_payroll_run and reset_payroll_run_for_reprocess.
Write(r, pc, new) ==
  /\ request[r].pc = pc
  /\ row' = Written(request[r].was, new)
  /\ request' = [request EXCEPT ![r] = Idle]
  /\ UNCHANGED <<locked, tasks, sent, worker>>
------------------------------------------------------------------------------
(* The orchestrator *)

\* already_processed, already_in_progress, lock_not_acquired.
SkipTask ==
  /\ tasks > 0
  /\ row.status = "processed" \/ InProgress \/ locked
  /\ tasks' = tasks - 1
  /\ UNCHANGED <<row, locked, sent, request, worker>>

TakeTask ==
  /\ tasks > 0
  /\ row.status # "processed" /\ ~InProgress /\ ~locked
  /\ tasks' = tasks - 1
  /\ locked' = TRUE
  /\ worker' = "gather"
  /\ UNCHANGED <<row, sent, request>>

\* gather_payroll_inputs raises: the lock is released.
GatherFails ==
  /\ worker = "gather"
  /\ worker' = "none" /\ locked' = FALSE
  /\ UNCHANGED <<row, tasks, sent, request>>

\* The run is running; it is finalized at once when it has no employees, and otherwise
\* the employee tasks are sent.
StartRun(employees) ==
  /\ worker = "gather"
  /\ row' = [row EXCEPT !.execution = "running"]
  /\ worker' = IF employees THEN "none" ELSE "finalize"
  /\ UNCHANGED <<locked, tasks, sent, request>>

\* _finalize_payroll_run_aggregate_session
Finalize ==
  /\ worker = "finalize"
  /\ row' = Processed
  /\ worker' = "none" /\ locked' = FALSE
  /\ UNCHANGED <<tasks, sent, request>>

QueueNext ==
  \/ \E r \in Requests :
       \/ \E pc \in {"mark", "process", "reset"} : Load(r, pc)
       \/ MarkQueued(r) \/ SendTask(r)
       \/ Write(r, "process", Processed) \/ Write(r, "reset", Draft)
  \/ SkipTask \/ TakeTask \/ GatherFails \/ (\E some \in BOOLEAN : StartRun(some)) \/ Finalize

\* Requests that have started end, and workers are there.
QueueFairness ==
  /\ \A r \in Requests :
       /\ WF_queueVars(MarkQueued(r)) /\ WF_queueVars(SendTask(r))
       /\ WF_queueVars(Write(r, "process", Processed)) /\ WF_queueVars(Write(r, "reset", Draft))
  /\ WF_queueVars(SkipTask) /\ WF_queueVars(TakeTask) /\ WF_queueVars(Finalize)
  /\ WF_queueVars(StartRun(TRUE) \/ StartRun(FALSE) \/ GatherFails)

QueueSpec == QueueInit /\ [][QueueNext]_queueVars /\ QueueFairness
------------------------------------------------------------------------------
(* Properties *)

\* payroll_process_policy.py: "Payroll is already queued or running. Wait for
\* completion or check Celery workers."  With workers there, a run that is queued or
\* running gets out of it.
QueuedRunCompletes == InProgress ~> ~InProgress
=============================================================================
