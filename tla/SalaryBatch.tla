---------------------------- MODULE SalaryBatch ----------------------------
(***************************************************************************)
(* One salary batch from its creation to the moment money may move: the    *)
(* HR and FINANCE approvals, the choice between a bank file and a payout   *)
(* through the provider, and the enqueueing of the payout task             *)
(* (api/disbursement_routes.py, services/workflow_service.py,              *)
(* services/disbursement_service.py).                                      *)
(*                                                                         *)
(* A request reads the salary_batches row once, when it starts, and decides*)
(* on that copy.  Approval rows are read where the handler reads them.     *)
(* Batches do not interact, so one of them is modelled, with the default   *)
(* workflow of two steps.                                                  *)
(***************************************************************************)
EXTENDS Naturals

CONSTANTS
  Users,          \* those who may create, approve and pay
  Sessions,       \* concurrent requests
  Pending,        \* an approval nobody has given
  MaxFiles,       \* bound on generated bank files
  MaxTasks,       \* bound on payout tasks sent
  CommitMayFail,  \* may a request end between sending its task and committing?
  EarlyRetry      \* may a retry be asked for before the batch is paid out?

ASSUME UserAssumption == Pending \notin Users
ASSUME BoundAssumption == MaxFiles \in Nat /\ MaxTasks \in Nat
ASSUME CommitAssumption == CommitMayFail \in BOOLEAN /\ EarlyRetry \in BOOLEAN

VARIABLES
  row,       \* salary_batches: status, disbursement_mode, payout_job_id set?
  creator,   \* salary_batches.created_by
  approval,  \* approvals: who approved each step
  files,     \* payment_artifacts of kind bank_file
  tasks,     \* payout.process_salary_batch tasks handed to the broker
  retried,   \* has payout.retry_failed_items been sent?
  sess       \* what every request has read and has still to do

vars == <<row, creator, approval, files, tasks, retried, sess>>
------------------------------------------------------------------------------
PayoutStates == {"payout_in_progress", "paid", "failed"}
Statuses == {"hr_pending", "finance_pending", "approved"} \cup PayoutStates
Modes == {"none", "api", "bank_file"}
Row == [status : Statuses, mode : Modes, job : BOOLEAN]
NoBatch == [status |-> "none"]

ApprovalSteps == {"HR", "FINANCE"}
StepOf(op) == IF op = "approve_hr" THEN "HR" ELSE "FINANCE"

\* loaded: the batch is in memory.  checked: so is a pending approval that may be
\* given.  computed: the new status is decided and not committed.  sent: the
\* payout task is with the broker, mode and job are flushed and not committed.
Idle == [pc |-> "idle"]
Request == [pc : {"loaded", "checked", "computed", "sent"},
            op : {"approve_hr", "approve_finance", "view", "payout", "bank_file"},
            user : Users, row : Row, gives : BOOLEAN, target : Statuses]

TypeOK ==
  /\ row \in Row \cup {NoBatch}
  /\ creator \in Users
  /\ approval \in [ApprovalSteps -> Users \cup {Pending}]
  /\ files \in 0 .. MaxFiles
  /\ tasks \in 0 .. MaxTasks
  /\ retried \in BOOLEAN
  /\ sess \in [Sessions -> Request \cup {Idle}]

Init ==
  /\ row = NoBatch
  /\ creator \in Users
  /\ approval = [k \in ApprovalSteps |-> Pending]
  /\ files = 0
  /\ tasks = 0
  /\ retried = FALSE
  /\ sess = [s \in Sessions |-> Idle]
------------------------------------------------------------------------------
Exists == row.status # "none"
AllApproved(a) == \A k \in ApprovalSteps : a[k] # Pending

\* Mutant: one approval is enough.
Recomputed_Any(status, a) ==
  IF status \in PayoutStates THEN status
  ELSE IF \E k \in ApprovalSteps : a[k] # Pending THEN "approved"
  ELSE status

\* recompute_batch_status_from_approvals, on the status in memory and the
\* approvals the select returns.  No approval is ever rejected: the only handler
\* that rejects opens a transaction inside an open one and always fails.
Recomputed(status, a) ==
  IF status \in PayoutStates THEN status
  ELSE IF AllApproved(a) THEN "approved"
  ELSE IF a["HR"] # Pending THEN "finance_pending"
  ELSE IF status \notin {"approved", "finance_pending"} THEN "hr_pending"
  ELSE status

At(s, pc, ops) == sess[s].pc = pc /\ sess[s].op \in ops

\* The row lock the flush of a payout request holds until it commits.
RowFree(s) == \A t \in Sessions \ {s} : sess[t].pc # "sent"

\* A status is written when it differs from the one loaded.
WriteStatus(q) ==
  row' = IF q.target = q.row.status THEN row ELSE [row EXCEPT !.status = q.target]

CreateSalaryBatch ==
  /\ ~Exists
  /\ row' = [status |-> "hr_pending", mode |-> "none", job |-> FALSE]
  /\ UNCHANGED <<creator, approval, files, tasks, retried, sess>>

Load(s, op, user, allowed) ==
  /\ sess[s].pc = "idle"
  /\ Exists
  /\ allowed
  /\ sess' = [sess EXCEPT ![s] =
       [pc |-> "loaded", op |-> op, user |-> user, row |-> row,
        gives |-> FALSE, target |-> row.status]]
  /\ UNCHANGED <<row, creator, approval, files, tasks, retried>>

End(s) == sess' = [sess EXCEPT ![s] = Idle]
------------------------------------------------------------------------------
(* POST approve/hr, approve/finance *)

BeginApprove(s, op, user) == Load(s, op, user, TRUE)

\* Mutant: the creator may approve.
CheckApproval_Self(s) ==
  LET q == sess[s]  step == StepOf(q.op) IN
  /\ At(s, "loaded", {"approve_hr", "approve_finance"})
  /\ approval[step] = Pending
  /\ IF step = "HR" THEN q.row.status \in {"hr_pending", "finance_pending"}
                    ELSE approval["HR"] # Pending
  /\ sess' = [sess EXCEPT ![s].pc = "checked"]
  /\ UNCHANGED <<row, creator, approval, files, tasks, retried>>

\* The first half of _approve: what it reads and what it refuses.
CheckApproval(s) ==
  LET q == sess[s]  step == StepOf(q.op) IN
  /\ At(s, "loaded", {"approve_hr", "approve_finance"})
  /\ approval[step] = Pending
  /\ q.user # creator
  /\ IF step = "HR" THEN q.row.status \in {"hr_pending", "finance_pending"}
                    ELSE approval["HR"] # Pending
  /\ sess' = [sess EXCEPT ![s].pc = "checked"]
  /\ UNCHANGED <<row, creator, approval, files, tasks, retried>>

\* The flush of the approval, which waits for another request that flushed the
\* same one, and the recomputation that sees it.
Decide(s) ==
  LET q == sess[s]  step == StepOf(q.op) IN
  /\ At(s, "checked", {"approve_hr", "approve_finance"})
  /\ \A t \in Sessions : ~(sess[t].pc = "computed" /\ sess[t].gives
                           /\ StepOf(sess[t].op) = step)
  /\ sess' = [sess EXCEPT ![s].pc = "computed", ![s].gives = TRUE,
       ![s].target = Recomputed(q.row.status, [approval EXCEPT ![step] = q.user])]
  /\ UNCHANGED <<row, creator, approval, files, tasks, retried>>

CommitApproval(s) ==
  LET q == sess[s] IN
  /\ At(s, "computed", {"approve_hr", "approve_finance"})
  /\ q.gives
  /\ RowFree(s)
  /\ WriteStatus(q)
  /\ approval' = [approval EXCEPT ![StepOf(q.op)] = q.user]
  /\ End(s)
  /\ UNCHANGED <<creator, files, tasks, retried>>
------------------------------------------------------------------------------
(* GET of a batch or of all of them; approve/finance when it is already given *)

BeginView(s, user) == Load(s, "view", user, TRUE)

\* reconcile_batch_status.
Reconcile(s) ==
  LET q == sess[s] IN
  /\ \/ At(s, "loaded", {"view"})
     \/ At(s, "loaded", {"approve_finance"}) /\ approval["FINANCE"] # Pending
  /\ sess' = [sess EXCEPT ![s].pc = "computed",
                          ![s].target = Recomputed(q.row.status, approval)]
  /\ UNCHANGED <<row, creator, approval, files, tasks, retried>>

CommitReconciled(s) ==
  LET q == sess[s] IN
  /\ At(s, "computed", {"view", "approve_finance"})
  /\ ~q.gives
  /\ RowFree(s)
  /\ WriteStatus(q)
  /\ End(s)
  /\ UNCHANGED <<creator, approval, files, tasks, retried>>
------------------------------------------------------------------------------
(* POST artifacts/bank-file *)

\* validate_batch_for_bank_file.
BeginBankFile(s, user) ==
  Load(s, "bank_file", user,
       row.mode # "api" /\ row.status \notin {"payout_in_progress", "paid"})

\* reconcile_batch_status and batch_ready_for_bank_file.
ReadyForBankFile(s) ==
  LET q == sess[s]
      target == Recomputed(q.row.status, approval) IN
  /\ At(s, "loaded", {"bank_file"})
  /\ approval["FINANCE"] # Pending
  /\ target = "approved"
  /\ sess' = [sess EXCEPT ![s].pc = "computed", ![s].target = target]
  /\ UNCHANGED <<row, creator, approval, files, tasks, retried>>

\* Mutant: a bank file does not lock the mode.
GenerateBankFile_NoMode(s) ==
  LET q == sess[s] IN
  /\ At(s, "computed", {"bank_file"})
  /\ RowFree(s)
  /\ files < MaxFiles
  /\ WriteStatus(q)
  /\ files' = files + 1
  /\ End(s)
  /\ UNCHANGED <<creator, approval, tasks, retried>>

\* assert_disbursement_mode takes the advisory lock of the batch, looks at the
\* mode in memory and flushes the new one; the artifact commits with it.
GenerateBankFile(s) ==
  LET q == sess[s]
      new == [row EXCEPT !.status = IF q.target = q.row.status THEN @ ELSE q.target,
                         !.mode = IF q.row.mode = "none" THEN "bank_file" ELSE @] IN
  /\ At(s, "computed", {"bank_file"})
  /\ RowFree(s)
  /\ q.row.mode # "api"
  /\ files < MaxFiles
  /\ row' = new
  /\ files' = files + 1
  /\ End(s)
  /\ UNCHANGED <<creator, approval, tasks, retried>>
------------------------------------------------------------------------------
(* POST payout, retry-failed *)

\* validate_batch_for_payout.
BeginPayout(s, user) ==
  Load(s, "payout", user,
       row.status \in {"approved", "failed"} /\ row.mode # "bank_file")

\* assert_disbursement_mode and try_acquire_payout_enqueue_lock take the advisory
\* lock and look at mode and job in memory; the task is sent before the commit.
EnqueuePayout(s) ==
  /\ At(s, "loaded", {"payout"})
  /\ RowFree(s)
  /\ sess[s].row.mode # "bank_file"
  /\ ~sess[s].row.job
  /\ tasks < MaxTasks
  /\ tasks' = tasks + 1
  /\ sess' = [sess EXCEPT ![s].pc = "sent"]
  /\ UNCHANGED <<row, creator, approval, files, retried>>

\* Mutant: the payout does not lock the mode.
CommitPayout_NoMode(s) ==
  /\ At(s, "sent", {"payout"})
  /\ row' = [row EXCEPT !.status = "payout_in_progress", !.job = TRUE]
  /\ End(s)
  /\ UNCHANGED <<creator, approval, files, tasks, retried>>

CommitPayout(s) ==
  LET q == sess[s] IN
  /\ At(s, "sent", {"payout"})
  /\ row' = [row EXCEPT !.status = "payout_in_progress", !.job = TRUE,
                        !.mode = IF q.row.mode = "none" THEN "api" ELSE @]
  /\ End(s)
  /\ UNCHANGED <<creator, approval, files, tasks, retried>>

\* No database write, and no look at the status.
RetryFailed ==
  /\ Exists
  /\ EarlyRetry \/ tasks > 0
  /\ row.mode # "bank_file"
  /\ retried' = TRUE
  /\ UNCHANGED <<row, creator, approval, files, tasks, sess>>

\* A worker runs a task it was sent, any number of times: _run_payout refuses
\* other states and the bank_file mode, and leaves a payout state.
RunPayout ==
  /\ tasks > 0 \/ retried
  /\ row.status \in {"approved", "payout_in_progress", "failed"}
  /\ row.mode # "bank_file"
  /\ \A s \in Sessions : sess[s].pc # "sent"
  /\ \E status \in PayoutStates : row' = [row EXCEPT !.status = status]
  /\ UNCHANGED <<creator, approval, files, tasks, retried, sess>>

\* recompute_batch_status_from_items, when the provider reports on an item.
ReportPayout ==
  /\ tasks > 0 \/ retried
  /\ row.status \in PayoutStates
  /\ \A s \in Sessions : sess[s].pc # "sent"
  /\ \E status \in PayoutStates : row' = [row EXCEPT !.status = status]
  /\ UNCHANGED <<creator, approval, files, tasks, retried, sess>>
------------------------------------------------------------------------------
\* A check refuses the request, or the broker or the process fails: nothing that
\* was flushed is kept.
EndRequest(s) ==
  /\ sess[s].pc \in {"loaded", "checked", "computed"}
  /\ End(s)
  /\ UNCHANGED <<row, creator, approval, files, tasks, retried>>

\* The process fails after the task was sent.
LoseCommit(s) ==
  /\ CommitMayFail
  /\ sess[s].pc = "sent"
  /\ End(s)
  /\ UNCHANGED <<row, creator, approval, files, tasks, retried>>

Begin(s) == \E user \in Users :
  \/ BeginApprove(s, "approve_hr", user) \/ BeginApprove(s, "approve_finance", user)
  \/ BeginView(s, user) \/ BeginBankFile(s, user) \/ BeginPayout(s, user)

Step(s) ==
  \/ CheckApproval(s) \/ Decide(s) \/ CommitApproval(s)
  \/ Reconcile(s) \/ CommitReconciled(s)
  \/ ReadyForBankFile(s) \/ GenerateBankFile(s)
  \/ EnqueuePayout(s) \/ CommitPayout(s)
  \/ EndRequest(s) \/ LoseCommit(s)

Next ==
  \/ CreateSalaryBatch \/ RetryFailed \/ RunPayout \/ ReportPayout
  \/ \E s \in Sessions : Begin(s) \/ Step(s)

Spec == Init /\ [][Next]_vars
------------------------------------------------------------------------------
(* What holds however requests interleave, and although commits fail. *)

\* Money moves on two approvals: a batch is approved or paid, a bank file exists
\* or a payout task was sent only when HR and FINANCE have both approved, whatever
\* copies of the batch the requests decided on.
MovesOnlyApproved ==
  \/ Exists /\ row.status \notin {"hr_pending", "finance_pending"}
  \/ Exists /\ (row.job \/ row.mode # "none")
  \/ files > 0 \/ tasks > 0
  => AllApproved(approval)

\* FINANCE never approves before HR, and the creator approves neither step, also
\* when two requests give the same step.
ApprovedInOrder ==
  /\ approval["FINANCE"] # Pending => approval["HR"] # Pending
  /\ \A k \in ApprovalSteps : approval[k] # creator

\* No request is about to act on approvals that do not exist: a copy that says
\* approved, a status about to be written and a task about to be sent are all
\* covered by approvals that are committed, or by the one the request gives.
RequestsBacked ==
  \A s \in Sessions : sess[s].pc # "idle" =>
    LET q == sess[s]
        given == IF q.gives THEN [approval EXCEPT ![StepOf(q.op)] = q.user]
                            ELSE approval IN
    /\ Exists
    /\ q.row.status \notin {"hr_pending", "finance_pending"} => AllApproved(approval)
    /\ q.target \notin {"hr_pending", "finance_pending"} => AllApproved(given)
    /\ q.pc = "sent" => AllApproved(approval)
------------------------------------------------------------------------------
(* What holds while requests do not overlap, commits do not fail and nobody     *)
(* retries a batch that was never paid out.                                     *)

\* The batch goes through its stages in order, never leaves payout for an earlier
\* one, is enqueued once, and is paid through the provider or exported to a bank
\* file, never both.
Disbursed == INSTANCE Disbursement WITH
  stage <- IF Exists /\ row.status \in PayoutStates THEN "payout" ELSE row.status
ImplementsDisbursement == Disbursed!Spec

\* A task the broker holds is recorded: outside the request that sends it, the
\* batch has a job and is locked to the provider.
TaskRecorded ==
  tasks > 0 /\ (\A s \in Sessions : sess[s].pc # "sent")
    => row.job /\ row.mode = "api"
=============================================================================
