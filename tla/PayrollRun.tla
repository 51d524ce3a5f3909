----------------------------- MODULE PayrollRun -----------------------------
(***************************************************************************)
(* A payroll run from creation to its permanent lock, as the HTTP requests *)
(* of crud/payroll_crud.py and services/payroll_lifecycle_service.py drive *)
(* it when payroll is computed inside the API process.                     *)
(*                                                                         *)
(* A request owns one database session.  It selects the payroll_runs row   *)
(* once: every later select in the same session returns the same object    *)
(* with the attributes of the first one, and the flush at commit writes    *)
(* only the columns whose value differs from the one loaded.  No statement *)
(* locks a row it reads, so any number of requests may hold stale copies.  *)
(* An action is what happens between two points where another session's    *)
(* commit may become visible.                                              *)
(***************************************************************************)
EXTENDS Naturals

CONSTANTS
  Runs,        \* payroll_runs rows
  Periods,     \* pay_periods rows
  PeriodOf,    \* payroll_runs.pay_period_id
  Sessions,    \* concurrent requests
  Lines,       \* (employee, component) pairs the engine may pay
  Settings,    \* values of the fingerprint of hr_settings.payroll
  BatchStates, \* salary_batches.status
  BlockingBatchStates  \* those that stop a run from being processed

ASSUME PeriodAssumption == PeriodOf \in [Runs -> Periods]
ASSUME BatchAssumption == /\ BlockingBatchStates \subseteq BatchStates
                          /\ "none" \notin BatchStates
                          /\ "hr_pending" \in BatchStates

VARIABLES
  run,        \* payroll_runs: the committed row of every run
  entries,    \* payroll_entries: the lines stored for every run
  locked,     \* pay_periods.attendance_leave_locked
  finalized,  \* runs whose payroll_finalized event is in domain_events
  settings,   \* organisations.hr_settings.payroll, now
  batch,      \* status of the run's salary batch, or "none"
  audit,      \* payroll_lifecycle_audit_logs: the actions logged per run
  sess        \* what every request has read and has still to do

vars == <<run, entries, locked, finalized, settings, batch, audit, sess>>
------------------------------------------------------------------------------
Statuses == {"draft", "processed"}
ExecStatuses == {"draft", "queued", "running", "completed", "partial_success",
                 "failed"}
LifecycleStates == {"null", "draft", "verified", "approved", "locked"}
Reviewed == {"verified", "approved", "locked"}

\* execution_meta: the settings it records, and whether it holds the
\* input_snapshot that a replay needs.
Meta == [cfg : Settings, snapshot : BOOLEAN]
NoSnapshot == [frozen |-> FALSE]
FinalSnapshot == [frozen : {TRUE}, lines : SUBSET Lines, total : SUBSET Lines]

\* total is the set of lines that gross_pay_total and net_pay_total sum up.
Row == [status : Statuses, exec : ExecStatuses, life : LifecycleStates,
        total : SUBSET Lines, meta : Meta,
        final : FinalSnapshot \cup {NoSnapshot}]
NoRow == [status |-> "none"]

NewRow(cfg) == [status |-> "draft", exec |-> "draft", life |-> "null",
                total |-> {}, meta |-> [cfg |-> cfg, snapshot |-> FALSE],
                final |-> NoSnapshot]

AuditActions == {"VERIFY_PAYROLL", "APPROVE_PAYROLL", "LOCK_PAYROLL",
                 "MODIFY_DENIED"}
Operations == {"process", "reset", "verify", "approve", "lock", "batch"}

\* loaded: the row is in memory.  read: the other inputs are too (for a reset,
\* the lines are deleted and not committed).  saved: the change is committed
\* and the audit row is not.  done: answered 2xx.  failed: rolled back, 5xx.
Steps == {"loaded", "read", "saved", "done", "failed"}
Idle == [pc |-> "idle"]
Request == [pc : Steps, op : Operations, run : Runs, row : Row,
            cfg : Settings, lines : SUBSET Lines]

TypeOK ==
  /\ run \in [Runs -> Row \cup {NoRow}]
  /\ entries \in [Runs -> SUBSET Lines]
  /\ locked \in [Periods -> BOOLEAN]
  /\ finalized \subseteq Runs
  /\ settings \in Settings
  /\ batch \in [Runs -> BatchStates \cup {"none"}]
  /\ audit \in [Runs -> SUBSET AuditActions]
  /\ sess \in [Sessions -> Request \cup {Idle}]

Init ==
  /\ run = [r \in Runs |-> NoRow]
  /\ entries = [r \in Runs |-> {}]
  /\ locked = [p \in Periods |-> FALSE]
  /\ finalized = {}
  /\ settings \in Settings
  /\ batch = [r \in Runs |-> "none"]
  /\ audit = [r \in Runs |-> {}]
  /\ sess = [s \in Sessions |-> Idle]
------------------------------------------------------------------------------
Exists(r) == run[r].status # "none"
InProgress(row) == row.exec \in {"queued", "running"}

\* The UPDATE a flush sends: the columns where the object differs from what the
\* session loaded, on top of what is committed now.
Flushed(current, loaded, changed) ==
  [c \in DOMAIN current |->
     IF changed[c] = loaded[c] THEN current[c] ELSE changed[c]]

At(s, pc, op) == sess[s].pc = pc /\ sess[s].op = op

\* The session selects the run and holds it; allowed is what the handler checks
\* on the object it holds.
Load(s, r, op, allowed) ==
  /\ sess[s].pc = "idle"
  /\ Exists(r)
  /\ allowed
  /\ sess' = [sess EXCEPT ![s] =
       [pc |-> "loaded", op |-> op, run |-> r, row |-> run[r],
        cfg |-> settings, lines |-> {}]]
  /\ UNCHANGED <<run, entries, locked, finalized, settings, batch, audit>>

Move(s, pc) == sess' = [sess EXCEPT ![s].pc = pc]

CreatePayroll(r) ==
  /\ ~Exists(r)
  /\ run' = [run EXCEPT ![r] = NewRow(settings)]
  /\ UNCHANGED <<entries, locked, finalized, settings, batch, audit, sess>>

ChangeSettings ==
  /\ settings' \in Settings \ {settings}
  /\ UNCHANGED <<run, entries, locked, finalized, batch, audit, sess>>
------------------------------------------------------------------------------
(* POST /{run}/process *)

BeginProcess(s, r) == Load(s, r, "process", run[r].life # "locked")

\* assert_payroll_process_allowed, on the object in memory.
ProcessAllowed(row) ==
  /\ row.status # "processed"
  /\ ~InProgress(row)
  /\ row.meta.cfg = settings

\* gather_payroll_inputs: the batch columns and the settings are read now, the
\* run is the object loaded before.  The engine's lines are any set.
Gather(s) ==
  LET row == sess[s].row  r == sess[s].run IN
  /\ At(s, "loaded", "process")
  /\ batch[r] \notin BlockingBatchStates
  /\ ProcessAllowed(row)
  /\ \E lines \in SUBSET Lines :
       sess' = [sess EXCEPT ![s].pc = "read", ![s].cfg = settings,
                            ![s].lines = lines]
  /\ UNCHANGED <<run, entries, locked, finalized, settings, batch, audit>>

\* Mutant: the event is not deduplicated.
UniqueViolation_EntriesOnly(s) == sess[s].lines \cap entries[sess[s].run] # {}

\* The unique keys of payroll_entries and of domain_events: the failed INSERT is
\* caught where the attendance snapshot is written, and the commit that follows
\* finds the transaction already aborted.
UniqueViolation(s) ==
  \/ sess[s].lines \cap entries[sess[s].run] # {}
  \/ sess[s].run \in finalized

ProcessedRow(row, lines, cfg) ==
  [row EXCEPT !.status = "processed", !.exec = "completed", !.total = lines,
              !.meta = [cfg |-> cfg, snapshot |-> TRUE],
              !.life = IF @ = "null" THEN "draft" ELSE @]

CommitProcess(s) ==
  LET q == sess[s]
      new == ProcessedRow(q.row, q.lines, q.cfg) IN
  /\ At(s, "read", "process")
  /\ ~UniqueViolation(s)
  /\ run' = [run EXCEPT ![q.run] =
               [Flushed(@, q.row, new) EXCEPT !.meta = new.meta]]
  /\ entries' = [entries EXCEPT ![q.run] = @ \cup q.lines]
  /\ locked' = [locked EXCEPT ![PeriodOf[q.run]] = TRUE]
  /\ finalized' = finalized \cup {q.run}
  /\ Move(s, "done")
  /\ UNCHANGED <<settings, batch, audit>>

RollBackProcess(s) ==
  /\ At(s, "read", "process")
  /\ UniqueViolation(s)
  /\ Move(s, "failed")
  /\ UNCHANGED <<run, entries, locked, finalized, settings, batch, audit>>
------------------------------------------------------------------------------
(* POST /{run}/reset-for-reprocess *)

\* Mutant: a reset is refused for a locked run only.
BeginReset_UnlessLocked(s, r) ==
  Load(s, r, "reset", run[r].life # "locked" /\ ~InProgress(run[r]))

\* Mutant: a reset does not look at the lifecycle.
BeginReset_Always(s, r) == Load(s, r, "reset", ~InProgress(run[r]))

BeginReset(s, r) ==
  Load(s, r, "reset", run[r].life \in {"null", "draft"} /\ ~InProgress(run[r]))

\* DELETE removes the lines that are committed when it runs.
DeleteEntries(s) ==
  /\ At(s, "loaded", "reset")
  /\ sess' = [sess EXCEPT ![s].pc = "read", ![s].cfg = settings,
                          ![s].lines = entries[sess[s].run]]
  /\ UNCHANGED <<run, entries, locked, finalized, settings, batch, audit>>

\* Mutant: a reset forgets the totals.
ResetRow_KeepTotals(row, cfg) ==
  [row EXCEPT !.status = "draft", !.exec = "draft", !.life = "draft",
              !.meta = [cfg |-> cfg, snapshot |-> FALSE]]

ResetRow(row, cfg) ==
  [row EXCEPT !.status = "draft", !.exec = "draft", !.total = {},
              !.life = "draft", !.meta = [cfg |-> cfg, snapshot |-> FALSE]]

CommitReset(s) ==
  LET q == sess[s]
      new == ResetRow(q.row, q.cfg) IN
  /\ At(s, "read", "reset")
  /\ run' = [run EXCEPT ![q.run] =
               [Flushed(@, q.row, new) EXCEPT !.meta = new.meta]]
  /\ entries' = [entries EXCEPT ![q.run] = @ \ q.lines]
  /\ Move(s, "done")
  /\ UNCHANGED <<locked, finalized, settings, batch, audit>>
------------------------------------------------------------------------------
(* POST /{run}/lifecycle/verify, approve, lock *)

\* Mutant: verification only looks at the lifecycle.
BeginVerify_AnyStatus(s, r) == Load(s, r, "verify", run[r].life = "draft")

\* Mutant: approval does not need verification.
BeginApprove_Unverified(s, r) ==
  Load(s, r, "approve", run[r].life \in {"draft", "verified"})

BeginVerify(s, r) ==
  Load(s, r, "verify", run[r].status = "processed" /\ run[r].life = "draft")
BeginApprove(s, r) == Load(s, r, "approve", run[r].life = "verified")
BeginLock(s, r) == Load(s, r, "lock", run[r].life = "approved")

Advance(s, life) ==
  LET q == sess[s] IN
  run' = [run EXCEPT ![q.run] = Flushed(@, q.row, [q.row EXCEPT !.life = life])]

CommitVerify(s) ==
  /\ At(s, "loaded", "verify")
  /\ Advance(s, "verified")
  /\ Move(s, "saved")
  /\ UNCHANGED <<entries, locked, finalized, settings, batch, audit>>

CommitApprove(s) ==
  /\ At(s, "loaded", "approve")
  /\ Advance(s, "approved")
  /\ Move(s, "saved")
  /\ UNCHANGED <<entries, locked, finalized, settings, batch, audit>>

\* build_final_snapshot: the header of the object in memory and the lines that
\* are committed now.
SnapshotEntries(s) ==
  /\ At(s, "loaded", "lock")
  /\ sess' = [sess EXCEPT ![s].pc = "read", ![s].lines = entries[sess[s].run]]
  /\ UNCHANGED <<run, entries, locked, finalized, settings, batch, audit>>

CommitLock(s) ==
  LET q == sess[s]
      frozen == [frozen |-> TRUE, lines |-> q.lines, total |-> q.row.total]
      new == [q.row EXCEPT !.life = "locked", !.final = frozen] IN
  /\ At(s, "read", "lock")
  /\ run' = [run EXCEPT ![q.run] =
               [Flushed(@, q.row, new) EXCEPT !.final = frozen]]
  /\ Move(s, "saved")
  /\ UNCHANGED <<entries, locked, finalized, settings, batch, audit>>

ActionOf(op) == CASE op = "verify" -> "VERIFY_PAYROLL"
                  [] op = "approve" -> "APPROVE_PAYROLL"
                  [] OTHER -> "LOCK_PAYROLL"

\* Mutant: the audit row is committed before the lock.
RecordLifecycleAudit_First(s) ==
  /\ At(s, "read", "lock")
  /\ audit' = [audit EXCEPT ![sess[s].run] = @ \cup {"LOCK_PAYROLL"}]
  /\ UNCHANGED <<run, entries, locked, finalized, settings, batch, sess>>

\* The audit row is a second transaction.
RecordLifecycleAudit(s) ==
  /\ sess[s].pc = "saved"
  /\ audit' = [audit EXCEPT ![sess[s].run] = @ \cup {ActionOf(sess[s].op)}]
  /\ Move(s, "done")
  /\ UNCHANGED <<run, entries, locked, finalized, settings, batch>>

\* deny_if_locked_with_audit: process or reset asked for a locked run.
DenyLocked(r) ==
  /\ Exists(r)
  /\ run[r].life = "locked"
  /\ audit' = [audit EXCEPT ![r] = @ \cup {"MODIFY_DENIED"}]
  /\ UNCHANGED <<run, entries, locked, finalized, settings, batch, sess>>
------------------------------------------------------------------------------
(* The salary batch, as far as a payroll run sees it. *)

BeginBatch(s, r) ==
  Load(s, r, "batch",
       /\ run[r].status = "processed"
       /\ run[r].life \in {"approved", "locked"}
       /\ batch[r] = "none")

\* One batch per run: the second INSERT violates the unique key.
CommitBatch(s) ==
  LET r == sess[s].run IN
  /\ At(s, "loaded", "batch")
  /\ IF batch[r] = "none"
       THEN batch' = [batch EXCEPT ![r] = "hr_pending"] /\ Move(s, "done")
       ELSE UNCHANGED batch /\ Move(s, "failed")
  /\ UNCHANGED <<run, entries, locked, finalized, settings, audit>>

BatchMoves(r) ==
  /\ batch[r] # "none"
  /\ \E b \in BatchStates \ {batch[r]} : batch' = [batch EXCEPT ![r] = b]
  /\ UNCHANGED <<run, entries, locked, finalized, settings, audit, sess>>
------------------------------------------------------------------------------
\* The answer is sent, a check refused the request, or the process died: a
\* transaction that is not committed leaves nothing behind.
EndRequest(s) ==
  /\ sess[s].pc # "idle"
  /\ sess' = [sess EXCEPT ![s] = Idle]
  /\ UNCHANGED <<run, entries, locked, finalized, settings, batch, audit>>

Begin(s) == \E r \in Runs :
  \/ BeginProcess(s, r) \/ BeginReset(s, r) \/ BeginVerify(s, r)
  \/ BeginApprove(s, r) \/ BeginLock(s, r) \/ BeginBatch(s, r)

Step(s) ==
  \/ Gather(s) \/ CommitProcess(s) \/ RollBackProcess(s)
  \/ DeleteEntries(s) \/ CommitReset(s)
  \/ CommitVerify(s) \/ CommitApprove(s)
  \/ SnapshotEntries(s) \/ CommitLock(s) \/ RecordLifecycleAudit(s)
  \/ CommitBatch(s) \/ EndRequest(s)

Next ==
  \/ \E s \in Sessions : Begin(s) \/ Step(s)
  \/ \E r \in Runs : CreatePayroll(r) \/ DenyLocked(r) \/ BatchMoves(r)
  \/ ChangeSettings

Spec == Init /\ [][Next]_vars
------------------------------------------------------------------------------
(* What holds however requests interleave. *)

\* A run that has been reviewed, processed or handed to disbursement has a
\* payroll_finalized event, and the attendance of its period is locked: no
\* interleaving of resets, reviews and batches escapes the one computation that
\* published the event.
ReviewedWereProcessed ==
  \A r \in Runs :
    /\ \/ Exists(r) /\ run[r].status = "processed"
       \/ Exists(r) /\ run[r].life \in Reviewed
       \/ batch[r] # "none"
       \/ entries[r] # {}
       => r \in finalized
    /\ r \in finalized => locked[PeriodOf[r]]

\* A request that computes payroll commits only on a run that is still a draft
\* nobody reviewed, has no lines and no batch, whatever its session read before:
\* the guards read stale objects, and the unique keys decide.
ProcessOnlyDrafts ==
  [][\A s \in Sessions :
       LET r == sess[s].run IN
       sess[s].pc = "read" /\ sess[s].op = "process" /\ sess'[s].pc = "done"
         => /\ run[r].status = "draft" /\ run[r].life \notin Reviewed
            /\ entries[r] = {} /\ batch[r] = "none"]_vars

\* The log never claims what did not happen: a LOCK_PAYROLL row is only there
\* with the final snapshot, and no request ever takes a snapshot away again.
AuditTruthful ==
  \A r \in Runs :
    /\ "LOCK_PAYROLL" \in audit[r] => Exists(r) /\ run[r].final # NoSnapshot
    /\ audit[r] \cap {"VERIFY_PAYROLL", "APPROVE_PAYROLL"} # {} => r \in finalized

\* A stale object is never ahead of the database: whatever a session loaded, and
\* whichever review or batch it is about to commit, the run it holds exists, and
\* if the object says processed or reviewed, the event of that computation is
\* still there.  Resets may have undone everything else.
StaleCopiesBacked ==
  \A s \in Sessions : sess[s].pc # "idle" =>
    LET q == sess[s] IN
    /\ Exists(q.run)
    /\ \/ q.row.status = "processed"
       \/ q.row.life \in Reviewed
       \/ q.op \in {"verify", "approve", "lock", "batch"}
       => q.run \in finalized
    /\ q.pc = "saved" => q.op \in {"verify", "approve", "lock"}
    /\ q.pc = "saved" /\ q.op = "lock" => run[q.run].final # NoSnapshot
------------------------------------------------------------------------------
(* What holds while requests on the same run do not overlap. *)

\* Locking is permanent: a run with a final snapshot stays locked and processed,
\* with exactly the lines and totals of the snapshot.
LockedRunFrozen ==
  \A r \in Runs : Exists(r) /\ run[r].final # NoSnapshot =>
    /\ run[r].life = "locked" /\ run[r].status = "processed"
    /\ entries[r] = run[r].final.lines
    /\ run[r].total = run[r].final.total

\* The totals of the header are the sum of the lines that are stored, and a
\* processed run still holds the snapshot of the inputs it was computed from.
TotalsMatchEntries ==
  \A r \in Runs : Exists(r) =>
    /\ run[r].total = entries[r]
    /\ run[r].status = "processed" <=> run[r].meta.snapshot

\* A salary batch is backed by a run that is processed and approved: nothing in
\* the reset handler looks at batches, only the lifecycle keeps it away.
BatchBacked ==
  \A r \in Runs : batch[r] # "none" =>
    run[r].status = "processed" /\ run[r].life \in {"approved", "locked"}

\* The run row and its lines implement the lifecycle the documentation draws.
NoContent == [status |-> "none", lines |-> {}, total |-> {}]
Lifecycle == INSTANCE PayrollLifecycle WITH
  Contents <- {NoContent} \cup
    [status : Statuses, lines : SUBSET Lines, total : SUBSET Lines],
  NoContent <- NoContent,
  stage <- [r \in Runs |-> IF Exists(r) THEN run[r].life ELSE "null"],
  content <- [r \in Runs |->
    IF Exists(r) THEN [status |-> run[r].status, lines |-> entries[r],
                       total |-> run[r].total]
    ELSE NoContent]

\* Requests that do not overlap take the run through the stages in order, and
\* its lines, totals and status are frozen from verification on.
ImplementsLifecycle == Lifecycle!Spec
=============================================================================
