# Verification of the payroll service

TLA+ modules, TLC runs and TLAPS proofs about the FastAPI / SQLAlchemy / Celery
payroll service under `src/backend`.  Paths below are relative to `src/backend`.

## 1. The system

Four kinds of process share one PostgreSQL database (READ COMMITTED) and one
Redis: HTTP requests (`api`), Celery workers (`tasks`, `payroll`), the Celery beat
schedules, each of which has to be switched on (`celery_app.py:56, 66`;
`docker-compose.yml` starts no beat), and the payment provider, which answers calls and
sends webhooks.  Four
facts about the code decide almost every interleaving that matters:

* `database.py` builds sessions with `autoflush=False` and
  `expire_on_commit=False`.  An object is read once per session; later selects in
  the same session return the attributes of the first read, and a query inside a
  session does not see the session's own changes until they are flushed.
* hardly a handler locks the rows it reads (`FOR UPDATE` appears in
  `services/event_bus.py`, and for the leave balance in `services/leave_service.py`),
  and a flush writes only the columns that differ from what was loaded.  Checks are
  made on copies that may be stale.
* a flush that fails breaks the session until it is rolled back, and
  `async with db.begin()` on a session that has already run a query always fails.
* what does hold under concurrency rests on unique keys, on the two approvals that
  are never taken back, and on the row locks of the writes themselves.

### Inventory

| Component | State it keeps | Operations | Interacts with |
|---|---|---|---|
| Payroll run (`crud/payroll_crud.py`, `services/payroll_lifecycle_service.py`, `services/payroll_process_policy.py`) | `payroll_runs` (status, execution, lifecycle, totals, meta, final snapshot), `payroll_entries`, `pay_periods.attendance_leave_locked`, lifecycle audit log | create, process, reset, verify, approve, lock, start a batch | attendance (sets the lock), event outbox (unique event), salary batch (guards both ways) |
| Celery payroll (`payroll/tasks.py`, `payroll/finalize.py`) | Redis lock, counter and totals per run; the run's execution status | queue, orchestrate, compute one employee, finalize | payroll run, Redis |
| Payroll inputs (`services/payroll_attendance_*`) | none | summaries, paid days, validation | attendance, leave, payroll run |
| Salary engine and versions (`services/salary_engine_v2.py`, `crud/salary_version_crud.py`, `crud/salary_phase2_crud.py`) | live configuration, effective-dated versions | edit, publish, archive; resolve a bundle, evaluate it | payroll run |
| Salary batch (`api/disbursement_routes.py`, `services/workflow_service.py`, `services/disbursement_service.py`) | `salary_batches` (status, mode, job), `approvals`, `payment_artifacts` | create, approve HR / FINANCE, view (reconciles), bank file, payout, retry | payroll run, payout task |
| Payout (`tasks/payout_tasks.py`, `services/payout_sync_service.py`, `api/webhooks_routes.py`, `utils/celery_dedup.py`, `tasks/banking_ops_tasks.py`) | `salary_batch_items`, `provider_payouts`, `webhook_events`, Redis slot | process, retry, sync a report, recover a stuck batch | provider, salary batch, event outbox |
| Bank accounts (`api/employee_banking_routes.py`, `services/disbursement_batch_items.py`, `services/bank_file_service.py`) | accounts and their verification, branches, batch items | add, judge, choose, write a file | salary batch, payout |
| Attendance and leave (`crud/attendance_crud.py`, `services/leave_service.py`) | attendance rows, leave requests, balances, period lock (read) | mark, bulk mark, calendar marks; file, approve, reject | payroll run, workforce |
| Workforce engine (`services/wf_*`) | raw punches, day results, recompute jobs, freezes, roster plans | ingest, recompute, freeze, roster transitions, allocate a shift | attendance |
| Event outbox (`services/event_bus.py`, `tasks/event_tasks.py`) | `domain_events` | publish, claim, dispatch | every component above |
| HTTP idempotency (`utils/idempotency.py`) | `api_idempotency_keys` | replay, execute, store | payroll and disbursement requests |
| Organisation set-up (`services/wf_setup_service.py`, `services/wf_profile_service.py`, `crud/org_crud.py`) | settings (JSON), profile, flags, policies, set-up marks | onboard, activate, wizard, patch | everything that reads settings |
| Employees (`services/employee_service.py`, `api/employee_route.py`) | `employees` | create, upload, change, delete | payroll run, salary batch |
| Fraud, reconciliation; users, roles, rate limits; reports; audit, mail; encryption; schema and client | records and views | filters, single-statement writes, reads | everything |

The behaviours that are hard, and what makes each component correct:

* **payroll run** - two requests on one run, a reset under a review, reprocessing.
  A reviewed run was computed, a locked run never changes, totals match lines, a
  batch is backed by an approved run, the audit log tells the truth.
* **Celery payroll** - a run is marked before it is sent, lost workers.  A queued run
  ends.
* **salary configuration and engine** - publications that overlap, live edits under a
  payroll of the past, evaluation order, proration.  One version is in force; what is
  published stays; pay is what the definitions say.
* **salary batch** - stale copies around approvals, sends before commits.  No money
  moves without two approvals in order, one channel, one task.
* **payout and bank files** - calls no rollback takes back, redelivery, retries, late
  reports, accounts that change meanwhile.  One transfer per employee, the tables say
  only what happened, all files of a batch agree.
* **attendance, leave, roster, payable days** - check, then act; single-column updates by
  requests and jobs; rules that overwrite one another.  Nothing changes in a locked
  period; balances hold; a further day present never lowers the pay.
* **event outbox, idempotency** - dispatchers that die, the same request twice at once.
  An event is handed over once, also by a dispatcher that dies before it can say so; a
  replay repeats what was executed.
* **set-up and employees** - a dozen commits that call themselves atomic, settings in one
  column that is read and written back, one commit for a whole file.  What is marked
  complete is complete; a setting is lost only to a request that had read the column
  before; an upload is all or nothing.

`PROJECT.json` lists every component with its status, and under "hazards" every
place in this code where one of these goes wrong more easily than a test shows.

## 2. Modules

| Module | What it is |
|---|---|
| `PayrollRun` | a payroll run and the concurrent requests on it |
| `PayrollLifecycle` | abstract: content is free while a draft, frozen from verification on, stages in order |
| `PayrollQueue` | a run that is handed to Celery, and requests on the same run |
| `SalaryBatch` | a salary batch and the concurrent requests on it |
| `Disbursement` | abstract: HR, FINANCE, then bank files or one payout task |
| `Payout` | worker passes, provider, webhooks and recovery for one batch |
| `BankAccounts` | accounts, items and bank files of one batch |
| `SalaryConfig` | the live salary tables, their versions and the bundle of a day |
| `PayEngine` | order, amounts, proration and totals of the engine for one employee |
| `PeriodLock` | the lock of a payroll, for good, and the freeze, which can be released; `WorkDay`, `Leaves` and `PayableDays` extend it |
| `WorkDay` | punches, recompute, marks and jobs on the days of one employee |
| `Leaves` | leave requests and the balance of one employee |
| `Roster` | a roster plan, its states, versions and assignments |
| `PayableDays` | from the rows of a month to paid days and the factor of the wage |
| `EventOutbox`, `IdempotentCalls` | the two services every request relies on |
| `OrgSetup`, `Directory` | the set-up of an organisation; its employees |
| `Bounds` | min, max and subtraction on natural numbers |
| `PayrollRunProofs`, `PayrollRunSerialProofs` | theorems about a payroll run, for any requests and for requests that do not overlap |
| `SalaryBatchProofs`, `PayoutProofs` | theorems about a batch and about its payout |
| `SalaryConfigProofs`, `PayEngineProofs` | theorems about the salary tables and about the engine |
| `WorkforceProofs` | theorems about `WorkDay`, `Leaves`, `Roster` and `PayableDays` |
| `ServicesProofs` | theorems about `OrgSetup`, `Directory`, `BankAccounts`, `EventOutbox` and `IdempotentCalls` |
| `MCPayrollRun`, `MCSalaryBatch`, `MCPayout` | constants and symmetry for TLC |
| `MCSalary`, `MCWorkforce`, `MCServices` | several components that share nothing while they run, in one instance: `focus`, chosen at the start, says which of them a behaviour is about |

**How a request is modelled.**  A session is a record: where it is (`pc`), what it
does, the row it loaded and what it has read since.  An action is everything between
two points where another session's commit may become visible: the load with the
checks made on the loaded object, each later read, and the commit.  A commit writes
the columns that differ from the loaded ones (`Flushed`, `WriteStatus`) onto the row
that is committed then.  The end of a request without a commit is a refusal, an error
or the death of the process: what is not committed is gone.

### PayrollRun and PayrollQueue

`run`, `entries`, `locked`, `batch` and `audit` are the tables; `finalized` is the set
of runs whose `payroll_finalized` event exists, which is what the unique key of the
outbox makes of it.  Amounts are abstracted to the set of lines they sum up: the
header `total` and the stored `entries` are comparable without arithmetic, and the
engine may return any set of lines.

| Action | Code |
|---|---|
| `BeginProcess`, `Gather`, `CommitProcess`, `RollBackProcess` | `POST process`: route, `gather_payroll_inputs` with `assert_payroll_process_allowed` (`ProcessAllowed`), `process_payroll_run`; the rollback is the unique keys of `payroll_entries` and `domain_events` |
| `BeginReset`, `DeleteEntries`, `CommitReset` | `POST reset-for-reprocess` |
| `BeginVerify/Approve/Lock`, `Commit...`, `SnapshotEntries`, `RecordLifecycleAudit` | `services/payroll_lifecycle_service.py`; the audit row is a transaction of its own |
| `DenyLocked` | `deny_if_locked_with_audit` |
| `BeginBatch`, `CommitBatch`, `BatchMoves` | the guard of disbursement and the batch's later states, as far as a run sees them |

The route loads the run before the service does, and the identity map returns that
same object, so the guards on the run inspect the route's copy, while the pay period,
the organisation's settings and the batch columns are read fresh.  Two runs of a
period are allowed, as in the code.  `batch/process` is a sequence of requests.
`add_payroll_entry` has no caller and is left out.

`PayrollQueue` looks at the same run where `PAYROLL_USE_CELERY` is set: `MarkQueued` and
`SendTask` are the two halves of the request, `SkipTask`, `TakeTask`, `StartRun`,
`GatherFails` and `Finalize` the orchestrator, `Write` the end of process and reset.
An employee task dies on its first line (`payroll/tasks.py:47` imports a name that is
not there), so there is no action for it.

### SalaryBatch and BankAccounts

One batch; batches do not share rows.  `row` is `salary_batches`, `approval` who gave
each step, `files` and `tasks` what has left the system.  The workflow is the default
one of two steps.  No approval is ever rejected in the model because no handler can:
the decide endpoint (`api/workflow_routes.py:173`) opens a transaction inside an open
one and always fails.  `EnqueuePayout` sends the task and `CommitPayout` commits;
`LoseCommit` is the failure in between.  The advisory lock and the flush after it give
the row lock `RowFree`.  `RunPayout` and `ReportPayout` are all a batch sees of
`Payout`: some payout state is written.

`BankAccounts` is what a bank file of that batch holds: `AddAccount`, `Judge` with
`CommitVerdict` and `Recode` are the banking endpoints, `Choose` is
`ensure_batch_items_from_payroll`, `WriteLine` and `CommitFiling` are
`generate_bank_file_for_batch`.  The advisory lock is held from before the items are
read until the commit, so `filing` is one record.  A line is an account and the IFSC of
its branch, which `BranchOf` reads for every line anew, but for the branch of the line
before (the session still holds that object); `codes` keeps every code a branch has had.

### Payout

Starts where `CommitPayout` ends.  A pass of a worker is one transaction: `old` is what
it read, `mem` what it has in memory, `new` the payouts it will insert.  It holds the
lock of every item it has changed (`ItemFree`) and of the batch when it has changed
that (`BatchFree`), and `Commit` writes the columns that changed.  `ledger` is the
provider's own account of its transfers, which no rollback touches.

| Action | Code |
|---|---|
| `Start`, `EndAtOnce` | `process_salary_batch`, `retry_failed_items`, `ensure_batch_items_from_payroll` |
| `Skip`, `MissingAccount`, `Check`, `CopyRecorded`, `Hold`, `Pay`, `Refuse`, `LoseAnswer` | the loop of `_run_payout`, one disjunct per way an item can go |
| `Conclude`, `Commit`, `Rollback` | the end of `_run_payout`, the `payout.completed` event, the exception handlers |
| `Crash` | the worker is killed; `task_acks_late` delivers the task again, the Redis slot stays |
| `Settle`, `Sent`, `Webhook`, `Sync` | the provider, its reports, `razorpayx_webhook` |
| `Recover` | `banking.recover_stuck_batch` |

`faults` names what a behaviour allows: `crash` (killed), `error` (an uncaught exception,
also a beneficiary that can not be created), `network` (a lost answer), `hold` (the
fraud engine), `retry` (an operator).  Webhooks and recovery are one transaction and
one action.  A signature that does not verify changes no payout and is left out.
Redis down is left out: it is also the broker.  The slot's two hours are longer than
the redelivery after one hour, so a redelivered task always meets it.

### SalaryConfig and PayEngine

`SalaryConfig` has one template, one group, one component and one derived variable, each
with a live row and a sequence of versions.  A publication reads the entity and its
history, closes what overlaps, and commits; the statement that closes takes its snapshot
before it waits for locks.  `Bundle` is what `payroll_phase2_bundle_loader.py` gives a
payroll of a day, or the error it ends in (`fails`): the live path wants a component of
the template itself, the versioned one is content with a group.

`PayEngine` runs on such a bundle (`setup`): the graph, the depth-first sort with the
order of Python sets left open, evaluation, proration, groups, totals, and the legacy
calculator to compare with.  A percentage is 50 %, the factor of a short month 1/2 and a
formula the sum of the names it reads; a value carries how often the factor went into it.
Nothing in the code keeps names apart, so nothing in the model does: a component and a
variable, or two components, may share a code, and a display name may be the code of
something else or `CTC`.  A definition may be refused (`broken`), of a type without a line
of its own (`system`, `other`), or have no text; a component may have no code; a statutory
group that is enabled raises, because `statutory_pf_engine` is not there, and one without
an engine leaves an error.  A payroll takes a result without errors (`Accepted`).
`signal` says that any formula of the component or of its link, used or left over, names
an attendance scalar, which is what stops the automatic proration.

### WorkDay, Leaves, Roster, PayableDays

`WorkDay` cuts a request at its lock check, its reads and its commit.  A recompute looks
at the lock and the punches (`ReadDay`), reads the row (`ReadRow`) and later writes the
columns that differ from that (`Rewritten`), or inserts a whole row over whatever is there
by then; a job is one more actor of these steps, day after day.  Times are minutes;
the duplicate window, grace, late entry, missing punch, early exit, absence and overtime
rules are applied in any configured order (`Rule`).  `Leaves` follows a request from
filing to approval, where the leave is checked and the balance locked later.  `Roster`
is the state machine with its log, its versions and the events it publishes.
`PayableDays` computes from the tables as they are; its steps are the writes, so that
pay before and after a write can be compared.  The statuses an organisation lists as paid
or unpaid, the lock it may require before payroll, and the rows of other employees, whose
unknown and missing days count into the same sums, are part of it.

### EventOutbox, IdempotentCalls, OrgSetup, Directory

A dispatcher claims with `SKIP LOCKED`, hands over (`HandOver`, which no rollback takes
back) and marks (`Mark`, with the commit); it may stop between the two.  When its
transaction fails, the claimed rows are expired, reading `ev.attempts` raises, and
`mark_failed` never runs: a failed dispatcher ends like a dead one.  An idempotent request
is three transactions.  `OrgSetup` gives every request a list of steps, each of which
reads and commits by itself; a JSON column is a function whose values name the request
that wrote them.  `Merged` puts keys into the column as read, a null replaces a section,
and the wizard, which updates the sections in place, is not written at all when both are
there (`LooksUnchanged`).  `owed` and `unsure` are history: the value each setting was
last given by an answer, and the settings a request of that time may still undo.
`Directory` reads the rows of an upload one by one and commits once.

## 3. Runs

Passing runs:

| Run | What it shows | Bounds |
|---|---|---|
| `payroll_serial` | `LockedRunFrozen`, `TotalsMatchEntries`, `BatchBacked` and the refinement `ImplementsLifecycle` hold while requests do not overlap | 2 runs of one period, 1 session, 1 line, 2 settings |
| `payroll_concurrent` | `ReviewedWereProcessed`, `ProcessOnlyDrafts`, `AuditTruthful` hold however two requests overlap | 1 run, 2 sessions, 2 lines |
| `batch_serial` | `TaskRecorded` and the refinement `ImplementsDisbursement` while requests do not overlap | 2 users, 1 session, 2 files, 2 tasks |
| `batch_concurrent` | `MovesOnlyApproved`, `ApprovedInOrder` however requests overlap, with lost commits and early retries | 2 users, 2 sessions, 2 tasks |
| `payout_overlap` | `TypeOK` (with the limit of attempts), `PaidMeansRecorded`, `RecordedHappened`, `RecordKept`: kills, holds and a retry; or errors and lost answers while two retries pay the same employee | 2 items, 2 workers, 2 transfers per item |
| `payout_once` | `OneTransfer` and, under fairness, `Carried`: two tasks and killed workers do not pay twice while nobody retries, no answer is lost and no exception ends a pass; every employee comes to be tried unless a killed worker leaves its slot behind | 3 items, one without an account, 2 tasks, 2 workers |
| `salary` | `OneVersionInForce`, `PastKept`, `EditsStayOut`, `PublishKeepsPay` of the configuration; `PaidAsDefined`, `ShortMonthReachesPay`, `CalculatorsAgree` of the engine; `FilesAgree` of bank files | 2 publishers, 3 versions, 2 edits, days 0 to 2; every bundle of 2 template components, 1 variable and 2 groups from the definitions in `MCSalary`, those with shared names (`OddSetups`), those that end in an error or nearly (`FaultySetups`); 2 accounts, 2 judgements, 1 edit of a branch, 2 files |
| `workforce` | `WorkforceTypeOK`; `FractionFollowsStatus`, `NoDoubleCount`, `RulesNeverCost`, `LockedDaysKept` of a day; `BalanceHolds`; `PublishedOnce`; `FullMonthPaid`, `AttendancePays` of a month | 2 punches, 2 requests and a job, and 2 further things: marks, lockings, the job; policies of up to 3 rules; 2 leaves, 2 clerks; 3 planners' requests on 1 plan; 3 days, 2 calendars, 4 settings |
| `services` | `HandedOnce` and, under fairness, `EventsEnd`; `ReplayTruthful`; `CompletedIsConfigured`, `SettingsLand`; `UploadsWhole` | 3 events, 2 dispatchers, 2 faults; 2 keys, 2 bodies, 3 calls; 2 administrators, 3 requests, 1 death; 2 clerks, 4 files |

Runs that show the code departing from what it says of itself:

| Run | Statement | What happens |
|---|---|---|
| `payout_double` | an item has one payout | the second completion event with the same status rolls a pass back after it has paid; the next retry pays again |
| `lost_punch` | the recompute builds a day's row from its punches | the second recompute of a day repeats the dedupe key of the first and is rolled back with the new times |
| `queue_stuck` | a queued run completes | the orchestrator skips a run that is queued, which the API has just committed; process and reset refuse it |

### Departures without a run of their own

The passing properties state what remains true beside these.

* *Payroll*: an approval that overlaps approval and lock writes `approved` over
  `locked` (`LockedRunFrozen` is for requests that do not overlap).  A reset run can not
  be processed again: the second completion repeats the unique event.
* *Batch*: a bank file and a payout requested together both pass the check of the mode,
  which looks at a copy read before the lock.  Two payouts requested together each
  enqueue a task (`payout_once` starts from two tasks for this reason).  A GET that
  overlaps approval and payout writes `approved` over `payout_in_progress`.
* *Payout*: the event id of a webhook is the event's name, so the second
  `payout.processed` is dropped.  A task redelivered after a kill meets the slot and is
  skipped (`Orphaned` in `Carried`).  The recomputation after a report does not see the
  report it is made for, so a completed batch may stay `payout_in_progress`;
  `PaidMeansRecorded` states the other direction.
* *Bank files*: an item without an account is frozen as failed, so the advice "fix
  employee banking setup, then retry" (`bank_file_service.py`) never helps once other
  items were filed; a verification taken back later does not stop a second file.  The
  IFSC is read anew for each file: two files of a batch, or even two lines of one, have
  two codes for a branch that was edited in between (`FilesAgree` says how far it goes).
* *Salary*: two first publications at once leave two open versions, and every bundle of
  the entity fails; inactive links are left out by the live path and included by the
  versioned one; a component only a group holds is read live.  A template that has groups
  and no component of its own is refused until its first publication, and paid afterwards.
* *Engine*: the factor can go into a line twice through a derived variable although the
  docstring says "No double proration", and not at all where a formula left over from
  another calculation type names an attendance scalar.  A name in another spelling, a
  display name, and a component that only a group holds give no order.  A code that a
  component and a variable share has the value of the one computed later, which the order
  of sets decides; of two components of one code only the last is paid.  An item of a
  group that has no amount of its own takes the amount of the item before it.  Every
  enabled provident fund group raises: its engine's module does not exist.
* *Attendance*: a holiday marked on a weekly off is subtracted twice; an update or a
  recompute writes single columns over a bulk load it has not read and can leave a present
  half day; a job writes the day it is at after the lock came; the lock a payroll sets is
  never taken back, so a payroll that requires the lock before its first processing can
  not be processed at all; an organisation may list presence as unpaid; the mirror turns a
  marked absence into `P`; a recompute job that meets a recomputed day breaks its session
  and never finishes.
* *Leave, roster*: a leave filed as approved is never deducted, two concurrent approvals
  deduct twice, approval does not look at the lock; `publish_roster_plan` of a draft
  always fails; an archived roster accepts assignments.
* *Services*: claimed events of a dead dispatcher, also those it has handed over, stay in
  `processing` for ever although
  `event_bus.py:54` speaks of a lock that expires; two requests with one key may both
  execute; answers that hold a UUID can not be stored.
* *Set-up, employees*: the wizard stamps `is_setup_complete`, after which `/setup/`
  refuses though there are no departments; completing again adds the industry rules
  again; a section set to null makes the wizard fail; when the settings have both sections
  already, the wizard's own are not written.  A row without a code is a duplicate
  of any employee without one; a clash at the single commit loses the whole upload.

**Why the bounds suffice.**  Handlers relate one row to one stale copy of it, so two
sessions already show every order of one commit between another session's read and
write; a third adds only a second overwrite of the same kind.  Two lines distinguish
"some" from "all" lines; two runs of one period distinguish per-run from per-period
state; two settings make a fingerprint differ.  Two items distinguish "some" from
"all" items in the recomputed status, and a third, without an account, the third way
through the loop.  Two transfers of an item are the first duplicate.  `MaxRetries`
bounds the retries that wait at one time, not how many are asked for in all.
`payout_overlap` also starts from a state the first pass leaves (`OverlapInit`), which
lets two retries and lost answers overlap completely.

Three versions and days 0 to 2 give a version a past, a present and a successor; two
groups that share a component, and one that holds a component of the template, are the
cases in which a component could be paid twice; definitions of A, B and V range over every
kind, in both spellings, so that circles, forward references and references across groups
all occur, and the codes and display names of B and C take every name that another part
has.  Three days hold a working day, a holiday and weekly offs, also on one day.  Two
punches of a kind make a duplicate, and the rules run on every sequence of three over
times before, at and after a boundary.  Any two of two marks, a lock and a job meet the
punches: a bulk load between the read and the write of a recompute, or a lock between the
check and the write of a job, needs no more.  A job runs only
where marks are not mirrored: a mirrored mark is one more punch, and punches and jobs
meet either way.  Three events put one behind an abandoned
batch (`Limit` is 2).  Three requests of two administrators let a wizard die, another
overlap a patch, and both finish.  The four files hold good rows, rows without a code, an
address twice and a code twice.  The safety properties that are proved (section 5) do not
depend on any bound.

Deadlock is checked in the batch runs.  Elsewhere the system may stop: a locked run, a
batch whose tasks are acknowledged, or requests that reached their bound.

**Symmetry** permutes sessions, users, runs, lines, workers, items, publishers, clerks
and planners, none of which the models tell apart; the runs with a liveness property and
the refuting payout runs use none.

## 4. Fairness

* `Payout!FairSpec`: `WF_vars(Work(w))` for every worker.  A live worker goes on with the
  pass it is in and takes the tasks of its queue, which is what a Celery worker process
  does; the provider, operators, kills and webhooks are never assumed to act, and
  `Rollback` counts as work.  `Carried` is checked with kills and without errors and
  lost answers: a kill may leave the slot taken and the batch untried (`Orphaned`), and
  an error consumes the task.
* `EventOutbox!OutboxFairness`: a dispatcher that runs finishes what it holds, or stops.
  That there is one is the work of the beat schedule, which exists only with
  `ENABLE_EVENTS_BEAT` (`celery_app.py:56`, default "false"; nothing in the repository sets
  it): `WF(Claim)` is assumed only where the constant `EventsBeat` is true, and `EventsEnd`
  is claimed only there.  With the default nothing ever starts a dispatcher and events stay
  pending.  Publishing and faults are never assumed.
* `PayrollQueue!QueueFairness`: requests that have started end and Celery workers take
  tasks.  It is as generous as it can be: the run still does not complete.

## 5. Theorems

The proofs hold for any sets of runs, periods, lines, settings, users, sessions, items,
workers, clerks and so on, and for any bounds, under the named assumptions of the modules,
which TLC evaluates in the runs. They fix only what a constant is (a count is a natural
number, a period belongs to every run, a policy is a sequence of rules, a bundle is made
of names), and that feature flags, requests, clerks and punch times are finitely
many. Every inductive invariant below was an invariant of a TLC run before it was proved.

**`PayrollRunProofs`** - `TypeCorrect`, `ReviewedAlwaysProcessed`, `AuditAlwaysTruthful`,
`CopiesAlwaysBacked`, `OnlyDraftsProcessed`. The guards read stale objects, so none of
these is inductive by itself. The argument is that `finalized` only grows and the unique
event admits one computation per run for ever: whatever says "processed" or "reviewed", in
the tables or in a copy, was written after that commit. The inductive invariant therefore
joins the committed state (`ReviewedWereProcessed`, `AuditTruthful`) with what every
session holds (`StaleCopiesBacked`); a session that may still compute and commit finds the
run not in `finalized`, hence untouched, which is `ProcessOnlyDrafts`.

**`PayrollRunSerialProofs`** - `LockedStaysFrozen`, `TotalsAlwaysMatch`,
`BatchAlwaysBacked`, `LifecycleImplemented`, from `Spec /\ []NoOverlap`: no two sessions
hold the same run at once. Without that they are false (section 3), and one client at a
time satisfies it; sessions on different runs overlap freely, although runs of one period
share its lock. The invariant `SInv` adds to the one above what a row says of its lines
and its batch (`Whole`) and, for every session, that what it loaded is still what is
committed (`Current`), which is what a request of another session would break. Each action
then maps to one step of `PayrollLifecycle` or to none.

**`SalaryBatchProofs`** - `TypeCorrect`, `MovesOnlyWhenApproved`, `ApprovalsInOrder`,
`RequestsAlwaysBacked`. Approvals are never taken back, so what backed a copy when it was
read still backs it when the request commits. `IInv` says this of every session
(`AllBacked`): the copy, the status about to be written, and the approval about to be
given, whose giver is not the creator and whose predecessor is committed.
`TaskAlwaysRecorded` and `DisbursementImplemented` need `[]Undisturbed` as well: one
request at a time, no lost commit, no retry of a batch that was not paid out; workers and
reports still come at any time. `Sound` relates status, mode, files and tasks, `Current`
the request in progress to the row, and the refinement reads its stage off the status.

**`PayoutProofs`** - `TypeCorrect`, `PaidAlwaysRecorded`, `RecordedAlwaysHappened`,
`RecordsKept`, `QuietMeansOneTransfer`. The tables alone do not carry the argument: a pass
acts on what it read and what it has in memory, and its transfers stay when it rolls back.
`IInv` says of every pass (`Passes`) that a payout it is about to record has its transfer
in the ledger and no recorded payout beside it, and that what it marks a success is
backed; of the rows (`Rows`) that a recorded payout tells what the ledger holds. No two
passes have written the same item (`OneWriter`), the slot keeps the passes apart that may
build the items (`SlotHeld`), and every pass has a task the broker still holds
(`TasksHeld`). For one transfer, `OnePass` adds that in a quiet behaviour (`Quiet`: no
retry, no lost answer, no exception; kills, redelivery and several tasks remain) only one
pass ever enters, behind the Redis slot, and has at most one transfer for each item it has
been through.

**`SalaryConfigProofs`** - `OneAlwaysInForce`, `PastAlwaysKept`, `EditsAlwaysStayOut`,
`PublishAlwaysKeepsPay`. As long as no two publications of an entity overlapped, its
history is a `Chain` - every version ends before the next begins and only the last is open
-, at most one request is publishing it, and the open rows which that request has read are
still the open rows. The other three are action properties; they follow from which rows an
edit or a publication writes and which rows a bundle of a day reads.

**`PayEngineProofs`** - `PayAlwaysAsDefined`, `ShortMonthAlwaysReachesPay`,
`CalculatorsAlwaysAgree`, for any bundle, names shared in any way, and whatever order a
Python set iterates in (`EngineAssumption` says what kinds of definition there are and
which values they read; `SortedIsList` that `sorted` gives a list). `SortIInv`: path and
order hold no node twice and none in common, each node of the path uses the next
(`Chained`), and a visited node uses only earlier ones (`Before`); a closed path is then a
circle, and a finished order means there is none. `EvalIInv`: no code has two lines, every
line is of the component the code stands for, a code of the template has its line exactly
when it was evaluated, and the items of an evaluated group are paid or queued. `AmountsIInv`
is about the names that cannot change any more (`Stable`: the graph knows all that write
them, and those were evaluated): a line whose definition reads only such names, and a
variable, hold what the definition gives on the amounts as they are now, and stay so
(`LineSettled`, `NameSettled`). `CutsIInv` counts how often the factor went into each value
and each line. The net amounts are compared term by term, the legacy calculator by
induction along the template, with the result of the engine (`PlainResult`).

**`WorkforceProofs`** - `FractionAlwaysFollows`, `LockedDaysAlwaysKept`,
`NeverCountedTwice`, `BalanceAlwaysHolds`, `PublishedAlwaysOnce`, `AttendanceAlwaysPays`,
`FullMonthAlwaysPaid`, `RulesNeverCostPay`, `WorkforceTyped`. That a fraction goes with
its status is an invariant of the rows and of every request's copy (`RowsIInv`) once it is
known of what the rules return, for every sequence of rules: an induction over the rules
that have been applied; a write of single columns keeps it when the row is the one that was
read.  That a lock holds back everybody new is a matter of who is past the check: a job is,
for the one day it is at. `PunchIInv` says of a request between duplicate check and insert
that whatever would be its duplicate either was not seen or is marked. `LeavesIInv`
relates the balance a clerk has locked, the leave he has read and what was deducted;
`RosterIInv` that the versions announced are those from 2 to the plan's. That a punch
never lowers the fraction is an induction along the rules with the relation `Between` of
the day as it is and the day with one more punch: the same grace, and a fraction that is
not lower. Payable days are sums over a period of any length: a mark changes only what its
own row adds (`Remarked`), and the share of days earned grows with them (`ShareGrows`).
What keeps a full month from being paid is then the lock or somebody else's row.
The types (`AllTypes`) count who waits to insert, since what is stored and what waits
stays within the bound together.

**`ServicesProofs`** - `HandedAlwaysOnce`: a claimed event is in the batch of one
dispatcher (`ClaimedOnce`), which `SKIP LOCKED` preserves, and only the head of a batch may
have been handed over without being marked (`HeldCount`).
`FilesAlwaysAgree`: the items, once chosen, never change; what is written of them is drawn
from accounts that were vetted, and each account's payee is fixed. A code in a line was one
its branch had between the beginning of the file and now (`Timed`), so that two files whose
spans meet in a branch that was not edited name one code.
`CompletedAlwaysConfigured`: a request that will stamp the set-up has every step of the
wizard still before it, or somebody did it, and what is done is never undone;
`SettingsAlwaysLand`: who is about to write the settings has read every key that nobody may
undo as it was answered (`LandIInv`), and so puts it back. `UploadsAlwaysWhole`:
numbers of requests are not given out twice, and the rows that wait for the commit are
named by request and row, so that as many are stored as were counted.
`ReplayAlwaysTruthful`: what is stored, and what a request is about to store, was executed
(`StoredWasExecuted`), and the unique key never lets a stored answer be replaced.

Only model-checked: `Carried` and `EventsEnd`, which need fairness and so are out of the
prover's reach, and the three statements that are refuted. Every safety invariant and
action property of the passing runs, and both refinements, are theorems. Some of them have
a condition: the two refinements and the invariants beside them hold of requests that do
not overlap, and say so.

## 6. Not modelled, and the plan

Endpoints that open a transaction inside the one authentication has opened always fail
and change nothing: workflow decisions and delegations (`api/workflow_routes.py:59, 125,
155, 221`), the release of fraud holds (`api/fraud_routes.py:82, 120, 158`), bank
statements (`api/reconciliation_routes.py:50, 273, 292`), redelivery of events
(`api/events_routes.py:71`), beneficiaries (`api/provider_beneficiary_routes.py:40`) and
provider configuration (`api/provider_config_routes.py:45, 102`).  Reconciliation is
therefore unreachable as a whole: no statement is ever there to match.

Left out because nothing calls it: `services/idempotency_service.py`, the creating
functions of `crud/employee_crud.py`, `add_payroll_entry`.  Left out of a component that
is modelled: the overrides of payable days, wages and attendance that are merged into the
inputs; formula syntax, cloning and previews of salary structures; scores and alerts of
the fraud engine; devices, exceptions and the approval inbox of the workforce engine;
the single-statement records of banks, departments, designations and locations.

Left out for good: request filters (authentication, roles, rate limits), read-only
views and reports, mail and notifications, encryption, migrations and the web client.
They keep no state a protocol depends on, or none at all.

What remains, in order:

1. Proofs: that `PayrollRun` keeps the promises of `PayrollLifecycle` which survive
   overlapping requests as a refinement of a weaker abstract specification, and an
   abstract ledger that `Payout` implements.
2. Composition: `SalaryBatch` with `Payout` in place of `RunPayout`/`ReportPayout`, and
   `PayrollRun` with `SalaryBatch` in place of `BatchMoves`, each replacing an
   environment action by the component's own.
