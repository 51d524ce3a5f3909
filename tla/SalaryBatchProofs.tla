-------------------------- MODULE SalaryBatchProofs --------------------------
(***************************************************************************)
(* Theorems about SalaryBatch, for any set of users, any number of         *)
(* overlapping requests, lost commits and early retries; and, at the end,  *)
(* for one request at a time whose commit does not fail, beside any number *)
(* of runs of the payout task and reports of the provider.                 *)
(***************************************************************************)
EXTENDS SalaryBatch, TLAPS

Early == {"hr_pending", "finance_pending"}
Approvals == [ApprovalSteps -> Users \cup {Pending}]

\* The approvals a once request q has committed the one it gives.
Given(q, a) == IF q.gives THEN [a EXCEPT ![StepOf(q.op)] = q.user] ELSE a

\* What a request may rely on when the approvals are a and the creator is c: the
\* copy it holds and the status it is about to write are backed by approvals; one
\* it is about to give is allowed.
Backed(q, a, c) ==
  /\ q.row.status \notin Early => AllApproved(a)
  /\ q.target \notin Early => AllApproved(Given(q, a))
  /\ q.op = "payout" \/ q.pc = "sent" \/ (q.op = "bank_file" /\ q.pc = "computed")
       => AllApproved(a)
  /\ q.pc = "checked" \/ q.gives =>
       /\ q.op \in {"approve_hr", "approve_finance"}
       /\ q.user # c
       /\ q.op = "approve_finance" => a["HR"] # Pending

AllBacked ==
  \A s \in Sessions : sess[s].pc # "idle" =>
    Exists /\ Backed(sess[s], approval, creator)

\* The inductive invariant: approvals never go away, so what backed a copy when it
\* was read still backs it when the request commits.
IInv ==
  /\ TypeOK
  /\ MovesOnlyApproved
  /\ ApprovedInOrder
  /\ AllBacked
------------------------------------------------------------------------------
LEMMA IInvInit == Init => IInv
<1> SUFFICES ASSUME Init PROVE IInv
  OBVIOUS
<1>1. TypeOK
  <2>1. files \in 0 .. MaxFiles /\ tasks \in 0 .. MaxTasks
    BY BoundAssumption DEF Init
  <2>2. approval \in [ApprovalSteps -> Users \cup {Pending}]
    BY DEF Init
  <2> QED
    BY <2>1, <2>2 DEF Init, TypeOK
<1>2. MovesOnlyApproved /\ AllBacked
  BY DEF Init, MovesOnlyApproved, AllBacked, Exists, NoBatch, Idle
<1>3. ApprovedInOrder
  BY UserAssumption DEF Init, ApprovedInOrder, ApprovalSteps
<1> QED
  BY <1>1, <1>2, <1>3 DEF IInv

\* A session that is not idle holds a request.
LEMMA Typed ==
  ASSUME TypeOK, NEW s \in Sessions
  PROVE  /\ sess[s].pc # "idle" => sess[s] \in Request
         /\ \A q \in Request : q.pc # "idle"
         /\ Exists => row \in Row
         /\ \A b \in Row : b.status # "none"
BY DEF TypeOK, Idle, Request, Exists, NoBatch, Row, Statuses, PayoutStates

\* Recomputing from approvals says approved only when all are given.
LEMMA RecomputedBacked ==
  ASSUME NEW status \in Statuses, NEW a \in Approvals
  PROVE  /\ Recomputed(status, a) \in Statuses
         /\ Recomputed(status, a) \notin Early =>
              AllApproved(a) \/ status \notin Early
BY DEF Recomputed, Statuses, PayoutStates, Early

\* Giving an approval takes none away.
LEMMA Grows ==
  ASSUME NEW a \in Approvals, NEW step \in ApprovalSteps, NEW user \in Users
  PROVE  /\ [a EXCEPT ![step] = user] \in Approvals
         /\ \A k \in ApprovalSteps :
              a[k] # Pending => [a EXCEPT ![step] = user][k] # Pending
BY UserAssumption DEF Approvals

\* More approvals keep a request backed.
LEMMA StillBacked ==
  ASSUME NEW q \in Request, NEW c, NEW a \in Approvals, NEW b \in Approvals,
         Backed(q, a, c),
         \A k \in ApprovalSteps : a[k] # Pending => b[k] # Pending
  PROVE  Backed(q, b, c)
<1>1. AllApproved(a) => AllApproved(b)
  BY DEF AllApproved
<1>2. AllApproved(Given(q, a)) => AllApproved(Given(q, b))
  <2>1. CASE q.gives
    <3>1. StepOf(q.op) \in ApprovalSteps /\ q.user \in Users
      BY DEF StepOf, ApprovalSteps, Request
    <3> QED
      BY <2>1, <3>1, UserAssumption DEF AllApproved, Given, Approvals
  <2>2. CASE ~q.gives
    BY <1>1, <2>2 DEF Given
  <2> QED
    BY <2>1, <2>2
<1>3. "HR" \in ApprovalSteps
  BY DEF ApprovalSteps
<1> QED
  BY <1>1, <1>2, <1>3 DEF Backed
------------------------------------------------------------------------------
\* A step of session s that changes what s holds, and may send a task.
LEMMA SessionStep ==
  ASSUME IInv, NEW s \in Sessions, NEW new \in Request \cup {Idle},
         sess' = [sess EXCEPT ![s] = new],
         UNCHANGED <<row, creator, approval, files, retried>>,
         tasks' \in 0 .. MaxTasks, tasks' # tasks => AllApproved(approval),
         new.pc # "idle" => Exists /\ Backed(new, approval, creator)
  PROVE  IInv'
<1>1. TypeOK'
  BY DEF IInv, TypeOK
<1>2. MovesOnlyApproved'
  <2>1. CASE tasks' = tasks
    BY <2>1 DEF IInv, MovesOnlyApproved, Exists, AllApproved
  <2>2. CASE tasks' # tasks
    BY <2>2 DEF MovesOnlyApproved, AllApproved
  <2> QED
    BY <2>1, <2>2
<1>3. ApprovedInOrder'
  BY DEF IInv, ApprovedInOrder
<1>4. AllBacked'
  <2> SUFFICES ASSUME NEW t \in Sessions, sess'[t].pc # "idle"
               PROVE  Exists /\ Backed(sess'[t], approval, creator)
    BY DEF AllBacked, Exists, Backed, Given, AllApproved
  <2>1. sess'[t] = IF t = s THEN new ELSE sess[t]
    BY DEF IInv, TypeOK
  <2> QED
    BY <2>1 DEF IInv, AllBacked
<1> QED
  BY <1>1, <1>2, <1>3, <1>4 DEF IInv

\* A step that writes the batch, without a task or an approval it did not have.
LEMMA RowStep ==
  ASSUME IInv, Exists, row' \in Row,
         row'.status \notin Early => AllApproved(approval),
         row'.job \/ row'.mode # "none" => AllApproved(approval),
         UNCHANGED <<creator, approval, files, tasks, sess>>, retried' \in BOOLEAN
  PROVE  IInv'
<1>1. TypeOK'
  BY DEF IInv, TypeOK
<1>2. MovesOnlyApproved'
  BY DEF IInv, MovesOnlyApproved, Exists, AllApproved, Early
<1>3. ApprovedInOrder'
  BY DEF IInv, ApprovedInOrder
<1>4. Exists'
  BY Typed DEF Exists, Row, Statuses, PayoutStates
<1>5. AllBacked'
  BY <1>4 DEF IInv, AllBacked, Backed, Given, AllApproved
<1> QED
  BY <1>1, <1>2, <1>3, <1>5 DEF IInv

\* A step that writes the batch and perhaps an approval, and ends session s.
LEMMA CommitStep ==
  ASSUME IInv, NEW s \in Sessions, End(s), row' \in Row,
         row'.status \notin Early => AllApproved(approval'),
         row'.job \/ row'.mode # "none" => AllApproved(approval'),
         files' \in 0 .. MaxFiles, files' # files => AllApproved(approval'),
         UNCHANGED <<creator, tasks, retried>>,
         \/ approval' = approval
         \/ \E k \in ApprovalSteps, user \in Users \ {creator} :
              /\ approval' = [approval EXCEPT ![k] = user]
              /\ k = "FINANCE" => approval["HR"] # Pending
  PROVE  IInv'
<1>0. approval \in Approvals
  BY DEF IInv, TypeOK, Approvals
<1>1. /\ approval' \in Approvals
      /\ \A k \in ApprovalSteps : approval[k] # Pending => approval'[k] # Pending
  <2>1. CASE approval' = approval
    BY <1>0, <2>1
  <2>2. ASSUME NEW k \in ApprovalSteps, NEW user \in Users \ {creator},
               approval' = [approval EXCEPT ![k] = user]
        PROVE  /\ approval' \in Approvals
               /\ \A j \in ApprovalSteps :
                    approval[j] # Pending => approval'[j] # Pending
    <3>1. user \in Users
      OBVIOUS
    <3> QED
      BY <1>0, <2>2, <3>1, Grows
  <2> QED
    BY <2>1, <2>2
<1>2. AllApproved(approval) => AllApproved(approval')
  BY <1>1 DEF AllApproved
<1>3. TypeOK'
  BY <1>1 DEF IInv, TypeOK, End, Approvals
<1>4. MovesOnlyApproved'
  <2>1. (tasks > 0 \/ files > 0) => AllApproved(approval)
    BY DEF IInv, MovesOnlyApproved
  <2>2. (tasks' > 0 \/ files' > 0) => AllApproved(approval')
    BY <1>2, <2>1
  <2>3. AllApproved(approval)' <=> AllApproved(approval')
    BY DEF AllApproved
  <2> QED
    BY <2>2, <2>3 DEF MovesOnlyApproved, Exists, Early
<1>5. ApprovedInOrder'
  <2>1. CASE approval' = approval
    BY <2>1 DEF IInv, ApprovedInOrder
  <2>2. CASE \E k \in ApprovalSteps, user \in Users \ {creator} :
               /\ approval' = [approval EXCEPT ![k] = user]
               /\ k = "FINANCE" => approval["HR"] # Pending
    BY <1>0, <2>2, UserAssumption
       DEF IInv, ApprovedInOrder, ApprovalSteps, Approvals
  <2> QED
    BY <2>1, <2>2
<1>6. Exists'
  BY DEF Exists, Row, Statuses, PayoutStates
<1>7. AllBacked'
  <2> SUFFICES ASSUME NEW t \in Sessions, sess'[t].pc # "idle"
               PROVE  Backed(sess'[t], approval', creator)
    BY <1>6 DEF AllBacked, Backed, Given, AllApproved
  <2>1. sess'[t] = sess[t]
    BY DEF End, Idle, IInv, TypeOK
  <2>2. sess[t] \in Request /\ Backed(sess[t], approval, creator)
    BY <2>1, Typed DEF IInv, AllBacked
  <2> QED
    BY <1>0, <1>1, <2>1, <2>2, StillBacked
<1> QED
  BY <1>3, <1>4, <1>5, <1>7 DEF IInv
------------------------------------------------------------------------------
LEMMA IInvNext == IInv /\ [Next]_vars => IInv'
<1> SUFFICES ASSUME IInv, [Next]_vars PROVE IInv'
  OBVIOUS
<1> USE DEF Early, At, Load
<1>0. TypeOK /\ approval \in Approvals
  BY DEF IInv, TypeOK, Approvals
<1>1. CASE CreateSalaryBatch
  <2>1. TypeOK' /\ ApprovedInOrder'
    BY <1>1 DEF IInv, TypeOK, ApprovedInOrder, CreateSalaryBatch, Row, Statuses, Modes
  <2>2. MovesOnlyApproved'
    BY <1>1 DEF IInv, MovesOnlyApproved, CreateSalaryBatch, Exists, AllApproved
  <2>3. AllBacked'
    BY <1>1 DEF IInv, AllBacked, CreateSalaryBatch, Exists
  <2> QED
    BY <2>1, <2>2, <2>3 DEF IInv
<1>2. CASE RetryFailed
  <2>1. Exists /\ row \in Row
    BY <1>0, <1>2 DEF RetryFailed, Exists, TypeOK, NoBatch
  <2> QED
    BY <1>2, <2>1, RowStep DEF RetryFailed, IInv, MovesOnlyApproved
<1>3. CASE RunPayout \/ ReportPayout
  <2>1. row.status \in PayoutStates \cup {"approved"}
    BY <1>3 DEF RunPayout, ReportPayout, PayoutStates
  <2>2. Exists /\ row \in Row
    BY <1>0, <2>1 DEF Exists, TypeOK, NoBatch, PayoutStates
  <2>3. AllApproved(approval)
    BY <2>1, <2>2 DEF IInv, MovesOnlyApproved, PayoutStates
  <2>4. row' \in Row
    BY <1>3, <2>2 DEF RunPayout, ReportPayout, Row, Statuses
  <2>5. UNCHANGED <<creator, approval, files, tasks, sess, retried>>
    BY <1>3 DEF RunPayout, ReportPayout
  <2>6. retried' \in BOOLEAN
    BY <1>0, <2>5 DEF TypeOK
  <2> QED
    BY <2>2, <2>3, <2>4, <2>5, <2>6, RowStep
<1>4. ASSUME NEW s \in Sessions, NEW user \in Users, NEW op,
             op \in {"approve_hr", "approve_finance", "view", "payout", "bank_file"},
             op = "payout" => row.status \notin Early,
             Load(s, op, user, TRUE)
      PROVE  IInv'
  <2> DEFINE new == [pc |-> "loaded", op |-> op, user |-> user, row |-> row,
                     gives |-> FALSE, target |-> row.status]
  <2>1. Exists /\ row \in Row
    BY <1>0, <1>4 DEF Exists, TypeOK, NoBatch
  <2>2. new \in Request
    BY <1>4, <2>1 DEF Request, Row
  <2>3. Backed(new, approval, creator)
    BY <1>4, <2>1 DEF Backed, Given, IInv, MovesOnlyApproved
  <2>4. tasks' \in 0 .. MaxTasks /\ tasks' = tasks
    BY <1>0, <1>4 DEF TypeOK
  <2> HIDE DEF new
  <2> QED
    BY <1>4, <2>1, <2>2, <2>3, <2>4, SessionStep DEF new
<1>5. ASSUME NEW s \in Sessions, sess[s].pc # "idle"
      PROVE  /\ sess[s] \in Request /\ Exists /\ row \in Row
             /\ Backed(sess[s], approval, creator)
  BY <1>0, <1>5, Typed DEF IInv, AllBacked
<1>6. ASSUME NEW s \in Sessions, Step(s)
      PROVE  IInv'
  <2> DEFINE q == sess[s]
  <2>0. q.pc # "idle"
    BY <1>6 DEF Step, CheckApproval, Decide, CommitApproval, Reconcile,
       CommitReconciled, ReadyForBankFile, GenerateBankFile, EnqueuePayout,
       CommitPayout, EndRequest, LoseCommit
  <2>1. /\ q \in Request /\ Exists /\ row \in Row /\ Backed(q, approval, creator)
        /\ tasks \in 0 .. MaxTasks /\ files \in 0 .. MaxFiles
        /\ sess \in [Sessions -> Request \cup {Idle}]
    BY <1>0, <1>5, <2>0 DEF TypeOK
  <2>2. CASE CheckApproval(s)
    <3> DEFINE new == [q EXCEPT !.pc = "checked"]
    <3>1. new \in Request /\ sess' = [sess EXCEPT ![s] = new]
      BY <2>1, <2>2 DEF CheckApproval, Request
    <3>2. Backed(new, approval, creator)
      BY <2>1, <2>2 DEF CheckApproval, Backed, Given, Request, StepOf, IInv,
         MovesOnlyApproved
    <3>3. tasks' = tasks /\ UNCHANGED <<row, creator, approval, files, retried>>
      BY <2>2 DEF CheckApproval
    <3> HIDE DEF new
    <3> QED
      BY <2>1, <3>1, <3>2, <3>3, SessionStep
  <2>3. CASE Decide(s)
    <3> DEFINE step == StepOf(q.op)
               given == [approval EXCEPT ![step] = q.user]
               target == Recomputed(q.row.status, given)
               new == [q EXCEPT !.pc = "computed", !.gives = TRUE, !.target = target]
    <3>1. step \in ApprovalSteps /\ q.user \in Users /\ q.row.status \in Statuses
      BY <2>1 DEF StepOf, ApprovalSteps, Request, Row
    <3>2. /\ given \in Approvals
          /\ \A k \in ApprovalSteps : approval[k] # Pending => given[k] # Pending
      BY <1>0, <3>1, Grows
    <3>3. /\ target \in Statuses
          /\ target \notin Early => AllApproved(given) \/ q.row.status \notin Early
      BY <3>1, <3>2, RecomputedBacked
    <3>4. AllApproved(approval) => AllApproved(given)
      BY <3>2 DEF AllApproved
    <3> HIDE DEF target, given
    <3>5. new \in Request
      BY <2>1, <3>3 DEF Request
    <3>6. sess' = [sess EXCEPT ![s] = new]
      BY <2>1, <2>3 DEF Decide, target, given
    <3>7. Given(new, approval) = given
      BY <2>1 DEF Given, given, Request
    <3>8. Backed(new, approval, creator)
      BY <2>1, <2>3, <3>3, <3>4, <3>7 DEF Decide, Backed, Request
    <3>9. tasks' = tasks /\ UNCHANGED <<row, creator, approval, files, retried>>
      BY <2>3 DEF Decide
    <3> HIDE DEF new
    <3> QED
      BY <2>1, <3>5, <3>6, <3>8, <3>9, SessionStep
  <2>4. CASE CommitApproval(s)
    <3> DEFINE step == StepOf(q.op)
    <3>1. /\ step \in ApprovalSteps /\ q.user \in Users \ {creator} /\ q.gives
          /\ step = "FINANCE" => approval["HR"] # Pending
      BY <2>1, <2>4 DEF CommitApproval, StepOf, ApprovalSteps, Request, Backed
    <3>2. approval' = [approval EXCEPT ![step] = q.user]
      BY <2>4 DEF CommitApproval
    <3>3. approval' = Given(q, approval)
      BY <3>1, <3>2 DEF Given
    <3>4. AllApproved(approval) => AllApproved(approval')
      BY <1>0, <3>1, <3>2, Grows DEF AllApproved
    <3>5. row' \in Row /\ row'.job = row.job /\ row'.mode = row.mode
          /\ row'.status \in {row.status, q.target}
      BY <2>1, <2>4 DEF CommitApproval, WriteStatus, Row, Request
    <3>6. row.status \notin Early \/ row.job \/ row.mode # "none" => AllApproved(approval)
      BY <2>1 DEF IInv, MovesOnlyApproved
    <3>7. q.target \notin Early => AllApproved(approval')
      BY <2>1, <3>3 DEF Backed
    <3>8. UNCHANGED <<creator, tasks, retried>> /\ files' = files /\ End(s)
      BY <2>4 DEF CommitApproval
    <3>9. row'.status \notin Early => AllApproved(approval')
      BY <3>4, <3>5, <3>6, <3>7
    <3>10. row'.job \/ row'.mode # "none" => AllApproved(approval')
      BY <3>4, <3>5, <3>6
    <3> QED
      BY <2>1, <3>1, <3>2, <3>5, <3>8, <3>9, <3>10, CommitStep
  <2>5. CASE Reconcile(s) \/ ReadyForBankFile(s)
    <3> DEFINE target == Recomputed(q.row.status, approval)
               new == [q EXCEPT !.pc = "computed", !.target = target]
    <3>1. /\ target \in Statuses
          /\ target \notin Early => AllApproved(approval) \/ q.row.status \notin Early
      BY <1>0, <2>1, RecomputedBacked DEF Request, Row
    <3> HIDE DEF target
    <3>2. new \in Request
      BY <2>1, <3>1 DEF Request
    <3>3. sess' = [sess EXCEPT ![s] = new]
      BY <2>1, <2>5 DEF Reconcile, ReadyForBankFile, target
    <3>4. Given(new, approval) = Given(q, approval)
      BY <2>1 DEF Given, Request
    <3>5. AllApproved(approval) => AllApproved(Given(q, approval))
      BY <1>0, <2>1, UserAssumption
         DEF Given, AllApproved, Approvals, StepOf, ApprovalSteps, Request
    <3>6. Backed(new, approval, creator)
      BY <2>1, <2>5, <3>1, <3>4, <3>5
         DEF Backed, Request, Reconcile, ReadyForBankFile, target
    <3>7. tasks' = tasks /\ UNCHANGED <<row, creator, approval, files, retried>>
      BY <2>5 DEF Reconcile, ReadyForBankFile
    <3> HIDE DEF new
    <3> QED
      BY <2>1, <3>2, <3>3, <3>6, <3>7, SessionStep
  <2>6. CASE CommitReconciled(s)
    <3>1. row' \in Row /\ row'.job = row.job /\ row'.mode = row.mode
          /\ row'.status \in {row.status, q.target}
      BY <2>1, <2>6 DEF CommitReconciled, WriteStatus, Row, Request
    <3>2. row.status \notin Early \/ row.job \/ row.mode # "none" => AllApproved(approval)
      BY <2>1 DEF IInv, MovesOnlyApproved
    <3>3. q.target \notin Early => AllApproved(approval)
      BY <2>1, <2>6 DEF CommitReconciled, Backed, Given
    <3>4. UNCHANGED <<creator, approval, tasks, retried>> /\ files' = files /\ End(s)
      BY <2>6 DEF CommitReconciled
    <3>5. row'.status \notin Early \/ row'.job \/ row'.mode # "none"
            => AllApproved(approval)
      BY <3>1, <3>2, <3>3
    <3> QED
      BY <2>1, <3>1, <3>4, <3>5, CommitStep
  <2>7. CASE GenerateBankFile(s)
    <3>1. row' \in Row
      BY <2>1, <2>7 DEF GenerateBankFile, Row, Request, Modes
    <3>2. AllApproved(approval)
      BY <2>1, <2>7 DEF GenerateBankFile, Backed
    <3>3. UNCHANGED <<creator, approval, tasks, retried>> /\ End(s)
      BY <2>7 DEF GenerateBankFile
    <3>4. files' \in 0 .. MaxFiles
      BY <2>1, <2>7, BoundAssumption DEF GenerateBankFile
    <3> QED
      BY <3>1, <3>2, <3>3, <3>4, CommitStep
  <2>8. CASE EnqueuePayout(s)
    <3> DEFINE new == [q EXCEPT !.pc = "sent"]
    <3>1. new \in Request /\ sess' = [sess EXCEPT ![s] = new]
      BY <2>1, <2>8 DEF EnqueuePayout, Request
    <3>2. AllApproved(approval)
      BY <2>1, <2>8 DEF EnqueuePayout, Backed
    <3>3. Backed(new, approval, creator)
      BY <2>1, <2>8, <3>2 DEF EnqueuePayout, Backed, Given, Request
    <3>4. UNCHANGED <<row, creator, approval, files, retried>>
      BY <2>8 DEF EnqueuePayout
    <3>5. tasks' \in 0 .. MaxTasks
      BY <2>1, <2>8, BoundAssumption DEF EnqueuePayout
    <3> HIDE DEF new
    <3> QED
      BY <2>1, <3>1, <3>2, <3>3, <3>4, <3>5, SessionStep
  <2>9. CASE CommitPayout(s)
    <3>1. row' \in Row
      BY <2>1, <2>9 DEF CommitPayout, Row, Statuses, PayoutStates, Modes
    <3>2. AllApproved(approval)
      BY <2>1, <2>9 DEF CommitPayout, Backed
    <3>3. UNCHANGED <<creator, approval, tasks, retried>> /\ files' = files /\ End(s)
      BY <2>9 DEF CommitPayout
    <3> QED
      BY <2>1, <3>1, <3>2, <3>3, CommitStep
  <2>10. CASE EndRequest(s) \/ LoseCommit(s)
    <3>1. /\ sess' = [sess EXCEPT ![s] = Idle] /\ tasks' = tasks
          /\ UNCHANGED <<row, creator, approval, files, retried>>
      BY <2>10 DEF EndRequest, LoseCommit, End
    <3>2. Idle.pc = "idle"
      BY DEF Idle
    <3> QED
      BY <2>1, <3>1, <3>2, SessionStep
  <2> QED
    BY <1>6, <2>2, <2>3, <2>4, <2>5, <2>6, <2>7, <2>8, <2>9, <2>10 DEF Step
<1>7. ASSUME NEW s \in Sessions, Begin(s)
      PROVE  IInv'
  <2> PICK user \in Users :
         \/ BeginApprove(s, "approve_hr", user)
         \/ BeginApprove(s, "approve_finance", user)
         \/ BeginView(s, user) \/ BeginBankFile(s, user) \/ BeginPayout(s, user)
    BY <1>7 DEF Begin
  <2>1. CASE BeginPayout(s, user)
    BY <1>4, <2>1 DEF BeginPayout
  <2>2. CASE BeginApprove(s, "approve_hr", user)
    BY <1>4, <2>2 DEF BeginApprove
  <2>3. CASE BeginApprove(s, "approve_finance", user)
    BY <1>4, <2>3 DEF BeginApprove
  <2>4. CASE BeginView(s, user)
    BY <1>4, <2>4 DEF BeginView
  <2>5. CASE BeginBankFile(s, user)
    BY <1>4, <2>5 DEF BeginBankFile
  <2> QED
    BY <2>1, <2>2, <2>3, <2>4, <2>5
<1>8. CASE UNCHANGED vars
  BY <1>8 DEF vars, IInv, TypeOK, MovesOnlyApproved, ApprovedInOrder, AllBacked,
     Exists, AllApproved, Backed, Given
<1> QED
  BY <1>1, <1>2, <1>3, <1>6, <1>7, <1>8 DEF Next
------------------------------------------------------------------------------
LEMMA Invariance == Spec => []IInv
BY IInvInit, IInvNext, PTL DEF Spec

\* The batch, its approvals and every request are well formed.
THEOREM TypeCorrect == Spec => []TypeOK
BY Invariance, PTL DEF IInv

\* However requests overlap and whichever commits are lost, no bank file is made,
\* no payout task sent and no later stage reached without both approvals.
THEOREM MovesOnlyWhenApproved == Spec => []MovesOnlyApproved
BY Invariance, PTL DEF IInv

\* FINANCE approves after HR, and neither approval is the creator's.
THEOREM ApprovalsInOrder == Spec => []ApprovedInOrder
BY Invariance, PTL DEF IInv

\* What every pending request is about to write is covered by approvals.
THEOREM RequestsAlwaysBacked == Spec => []RequestsBacked
<1>1. IInv => RequestsBacked
  <2> SUFFICES ASSUME IInv, NEW s \in Sessions, sess[s].pc # "idle"
               PROVE  /\ Exists
                      /\ sess[s].row.status \notin Early => AllApproved(approval)
                      /\ sess[s].target \notin Early => AllApproved(Given(sess[s], approval))
                      /\ sess[s].pc = "sent" => AllApproved(approval)
    BY DEF RequestsBacked, Early, Given
  <2> QED
    BY DEF IInv, AllBacked, Backed
<1> QED
  BY <1>1, Invariance, PTL
------------------------------------------------------------------------------
(* One request at a time, whose commit does not fail. *)

\* One request is handled at a time, no commit is lost and no retry is asked for before
\* the batch is paid out.  Workers run and reports arrive at any time.
Undisturbed ==
  /\ \A s, t \in Sessions : sess[s].pc # "idle" /\ sess[t].pc # "idle" => s = t
  /\ ~CommitMayFail /\ ~EarlyRetry

\* The status says which approvals are given; the mode says where money went; only
\* the request that sends the task runs ahead of the batch.
Sound ==
  /\ ~Exists => approval["HR"] = Pending /\ files = 0 /\ tasks = 0
  /\ Exists =>
       /\ row.status = "hr_pending" <=> approval["HR"] = Pending
       /\ row.status = "finance_pending" <=>
            approval["HR"] # Pending /\ approval["FINANCE"] = Pending
       /\ row.mode = "api" <=> row.job
       /\ row.mode = "bank_file" <=> files > 0
       /\ row.status \in PayoutStates => row.job
       /\ row.job => tasks = 1
       /\ ~row.job /\ tasks > 0 => \E s \in Sessions : sess[s].pc = "sent"
  /\ retried => tasks > 0

\* What the request in progress holds is the batch, which workers may have moved
\* within payout since it was read.
Current(q) ==
  /\ q.row.mode = row.mode /\ q.row.job = row.job
  /\ \/ q.row.status = row.status
     \/ q.row.status \notin Early /\ row.status \in PayoutStates
  /\ q.pc \in {"loaded", "checked"} => ~q.gives
  /\ q.pc = "checked" => approval[StepOf(q.op)] = Pending
  /\ q.pc = "computed" /\ q.gives =>
       /\ approval[StepOf(q.op)] = Pending
       /\ q.target = IF q.op = "approve_hr" THEN "finance_pending" ELSE "approved"
  /\ q.pc = "computed" /\ ~q.gives => q.target = q.row.status
  /\ q.pc = "computed" /\ q.op = "bank_file" => ~q.gives /\ q.target = "approved"
  /\ q.pc = "sent" => row.status = "approved" /\ row.mode = "none" /\ tasks = 1

\* The inductive invariant of an undisturbed batch.
SerialInv ==
  /\ IInv
  /\ Sound
  /\ \A s \in Sessions : sess[s].pc # "idle" => Current(sess[s])

\* What SalaryBatch substitutes for the stage of Disbursement.
Phase == IF Exists /\ row.status \in PayoutStates THEN "payout" ELSE row.status
Mapped == Disbursed!Next \/ UNCHANGED <<Phase, files, tasks>>
------------------------------------------------------------------------------
\* Recomputing a status that agrees with the approvals changes nothing.
LEMMA RecomputedSame ==
  ASSUME NEW status \in Statuses, NEW a \in Approvals,
         status = "hr_pending" <=> a["HR"] = Pending,
         status = "finance_pending" <=> a["HR"] # Pending /\ a["FINANCE"] = Pending
  PROVE  Recomputed(status, a) = status
BY DEF Recomputed, Statuses, PayoutStates, AllApproved, ApprovalSteps

\* The first approval makes the batch finance_pending, the second approved.
LEMMA RecomputedGiven ==
  ASSUME NEW a \in Approvals, NEW user \in Users
  PROVE  /\ a["FINANCE"] = Pending
              => Recomputed("hr_pending", [a EXCEPT !["HR"] = user]) = "finance_pending"
         /\ a["HR"] # Pending
              => Recomputed("finance_pending", [a EXCEPT !["FINANCE"] = user]) = "approved"
BY UserAssumption DEF Recomputed, PayoutStates, AllApproved, ApprovalSteps, Approvals

LEMMA SerialInit == Init => SerialInv
<1> SUFFICES ASSUME Init PROVE SerialInv
  OBVIOUS
<1>1. \A s \in Sessions : sess[s].pc = "idle"
  BY DEF Init, Idle
<1>2. Sound
  BY DEF Init, Sound, Exists, NoBatch, ApprovalSteps
<1> QED
  BY <1>1, <1>2, IInvInit DEF SerialInv

\* What is known of the request in progress.
LEMMA InProgress ==
  ASSUME SerialInv, Undisturbed, NEW s \in Sessions, sess[s].pc # "idle"
  PROVE  /\ sess[s] \in Request /\ sess[s].row.status \in Statuses
         /\ Exists /\ row \in Row /\ approval \in Approvals
         /\ Backed(sess[s], approval, creator) /\ Current(sess[s]) /\ Sound
         /\ \A t \in Sessions \ {s} : sess[t].pc = "idle"
         /\ sess \in [Sessions -> Request \cup {Idle}]
         /\ tasks \in Nat /\ files \in Nat
         /\ sess[s].pc # "sent" /\ ~row.job => tasks = 0
<1>1. TypeOK /\ Sound /\ Current(sess[s])
  BY DEF SerialInv, IInv
<1>2. /\ sess[s] \in Request /\ row \in Row /\ Exists
      /\ Backed(sess[s], approval, creator)
  BY <1>1, Typed DEF SerialInv, IInv, AllBacked
<1>3. tasks \in Nat /\ files \in Nat
  BY <1>1, BoundAssumption DEF TypeOK
<1>4. \A t \in Sessions \ {s} : sess[t].pc = "idle"
  BY DEF Undisturbed
<1>5. sess[s].pc # "sent" /\ ~row.job => tasks = 0
  BY <1>1, <1>2, <1>3, <1>4 DEF Sound
<1> QED
  BY <1>1, <1>2, <1>3, <1>4, <1>5 DEF TypeOK, Request, Row, Approvals

\* A step of the request in progress that writes nothing but what the request holds.
LEMMA HoldStep ==
  ASSUME SerialInv, Undisturbed, IInv', NEW s \in Sessions, sess[s].pc # "idle",
         sess[s].pc # "sent", NEW new \in Request,
         sess' = [sess EXCEPT ![s] = new],
         UNCHANGED <<row, creator, approval, files, tasks, retried>>, Current(new)
  PROVE  SerialInv' /\ Mapped
<1>1. /\ Exists /\ Sound /\ tasks \in Nat /\ (~row.job => tasks = 0)
      /\ \A t \in Sessions \ {s} : sess[t].pc = "idle"
      /\ sess \in [Sessions -> Request \cup {Idle}]
  BY InProgress
<1>2. sess'[s] = new /\ \A t \in Sessions \ {s} : sess'[t].pc = "idle"
  BY <1>1
<1>3. Sound'
  BY <1>1 DEF Sound, Exists
<1>4. ASSUME NEW t \in Sessions, sess'[t].pc # "idle" PROVE Current(sess[t])'
  <2>1. t = s
    BY <1>2, <1>4
  <2> QED
    BY <1>2, <2>1 DEF Current
<1>5. UNCHANGED <<Phase, files, tasks>>
  BY DEF Phase, Exists
<1> QED
  BY <1>3, <1>4, <1>5 DEF SerialInv, Mapped

\* A step that ends the request in progress.
LEMMA EndStep ==
  ASSUME SerialInv, Undisturbed, IInv', NEW s \in Sessions, sess[s].pc # "idle",
         End(s), Sound'
  PROVE  SerialInv'
<1>1. /\ sess \in [Sessions -> Request \cup {Idle}]
      /\ \A t \in Sessions \ {s} : sess[t].pc = "idle"
  BY InProgress
<1>2. \A t \in Sessions : sess'[t].pc = "idle"
  BY <1>1 DEF End, Idle
<1> QED
  BY <1>2 DEF SerialInv
------------------------------------------------------------------------------
LEMMA SerialBegin ==
  ASSUME SerialInv, Undisturbed, IInv', NEW s \in Sessions, NEW op, NEW user,
         Load(s, op, user, TRUE)
  PROVE  SerialInv' /\ Mapped
<1>1. /\ sess[s].pc = "idle" /\ Exists /\ UNCHANGED <<row, approval, files, tasks, retried>>
      /\ sess' = [sess EXCEPT ![s] =
           [pc |-> "loaded", op |-> op, user |-> user, row |-> row,
            gives |-> FALSE, target |-> row.status]]
  BY DEF Load
<1>2. /\ sess \in [Sessions -> Request \cup {Idle}] /\ Sound
      /\ \A t \in Sessions : sess[t].pc # "idle" => Current(sess[t])
  BY DEF SerialInv, IInv, TypeOK
<1>3. /\ sess'[s].pc = "loaded" /\ sess'[s].row = row /\ ~sess'[s].gives
      /\ \A t \in Sessions \ {s} : sess'[t] = sess[t]
  BY <1>1, <1>2
<1>4. Sound'
  BY <1>1, <1>2, <1>3 DEF Sound, Exists
<1>5. ASSUME NEW t \in Sessions, sess'[t].pc # "idle" PROVE Current(sess[t])'
  <2>1. CASE t = s
    BY <1>1, <1>3, <2>1 DEF Current
  <2>2. CASE t # s
    <3>1. sess'[t] = sess[t] /\ Current(sess[t])
      BY <1>2, <1>3, <1>5, <2>2
    <3> QED
      BY <1>1, <3>1 DEF Current
  <2> QED
    BY <2>1, <2>2
<1>6. UNCHANGED <<Phase, files, tasks>>
  BY <1>1 DEF Phase, Exists
<1> QED
  BY <1>4, <1>5, <1>6 DEF SerialInv, Mapped

LEMMA SerialCheck ==
  ASSUME SerialInv, Undisturbed, IInv', NEW s \in Sessions, CheckApproval(s)
  PROVE  SerialInv' /\ Mapped
<1> DEFINE q == sess[s]
           new == [q EXCEPT !.pc = "checked"]
<1>1. /\ q.pc = "loaded" /\ approval[StepOf(q.op)] = Pending
      /\ sess' = [sess EXCEPT ![s] = new]
      /\ UNCHANGED <<row, creator, approval, files, tasks, retried>>
  BY DEF CheckApproval, At
<1>2. q \in Request /\ Current(q)
  BY <1>1, InProgress
<1>3. new \in Request /\ Current(new)
  BY <1>1, <1>2 DEF Request, Current
<1> HIDE DEF new
<1> QED
  BY <1>1, <1>3, HoldStep

LEMMA SerialDecide ==
  ASSUME SerialInv, Undisturbed, IInv', NEW s \in Sessions, Decide(s)
  PROVE  SerialInv' /\ Mapped
<1> DEFINE q == sess[s]
           step == StepOf(q.op)
           target == Recomputed(q.row.status, [approval EXCEPT ![step] = q.user])
           new == [q EXCEPT !.pc = "computed", !.gives = TRUE, !.target = target]
<1>1. /\ q.pc = "checked" /\ q.op \in {"approve_hr", "approve_finance"}
      /\ sess' = [sess EXCEPT ![s] = new]
      /\ UNCHANGED <<row, creator, approval, files, tasks, retried>>
  BY DEF Decide, At
<1>2. /\ q \in Request /\ q.user \in Users /\ Exists /\ approval \in Approvals
      /\ Current(q) /\ Backed(q, approval, creator) /\ Sound
  BY <1>1, InProgress DEF Request
<1>3. approval[step] = Pending
  BY <1>1, <1>2 DEF Current
<1>4. approval["FINANCE"] # Pending => approval["HR"] # Pending
  BY DEF SerialInv, IInv, ApprovedInOrder
<1>5. target = IF q.op = "approve_hr" THEN "finance_pending" ELSE "approved"
  <2>1. CASE q.op = "approve_hr"
    <3>1. step = "HR" /\ approval["HR"] = Pending /\ approval["FINANCE"] = Pending
      BY <1>3, <1>4, <2>1 DEF StepOf
    <3>2. q.row.status = "hr_pending"
      BY <1>2, <3>1 DEF Sound, Current, PayoutStates
    <3> QED
      BY <1>2, <2>1, <3>1, <3>2, RecomputedGiven
  <2>2. CASE q.op = "approve_finance"
    <3>1. step = "FINANCE" /\ approval["HR"] # Pending /\ approval["FINANCE"] = Pending
      BY <1>1, <1>2, <1>3, <2>2 DEF StepOf, Backed
    <3>2. q.row.status = "finance_pending"
      BY <1>2, <3>1 DEF Sound, Current, PayoutStates
    <3> QED
      BY <1>2, <2>2, <3>1, <3>2, RecomputedGiven
  <2> QED
    BY <1>1, <2>1, <2>2
<1> HIDE DEF target
<1>6. target \in Statuses
  BY <1>5 DEF Statuses
<1>7. /\ new \in Request /\ new.pc = "computed" /\ new.gives = TRUE
      /\ new.target = target /\ new.op = q.op /\ new.row = q.row
  BY <1>2, <1>6 DEF Request
<1> HIDE DEF new
<1>8. Current(new)
  BY <1>1, <1>2, <1>3, <1>5, <1>7 DEF Current
<1> QED
  BY <1>1, <1>7, <1>8, HoldStep

\* Looking at a batch, or asking for a bank file, finds nothing to correct.
LEMMA SerialReconcile ==
  ASSUME SerialInv, Undisturbed, IInv', NEW s \in Sessions,
         Reconcile(s) \/ ReadyForBankFile(s)
  PROVE  SerialInv' /\ Mapped
<1> DEFINE q == sess[s]
           target == Recomputed(q.row.status, approval)
           new == [q EXCEPT !.pc = "computed", !.target = target]
<1>1. /\ q.pc = "loaded" /\ sess' = [sess EXCEPT ![s] = new]
      /\ UNCHANGED <<row, creator, approval, files, tasks, retried>>
      /\ q.op = "bank_file" => target = "approved"
  BY DEF Reconcile, ReadyForBankFile, At
<1>2. /\ q \in Request /\ q.row.status \in Statuses /\ Exists /\ approval \in Approvals
      /\ Current(q) /\ Sound
  BY <1>1, InProgress
<1>3. target = q.row.status
  BY <1>2, RecomputedSame DEF Sound, Current, Early, PayoutStates
<1> HIDE DEF target
<1>4. /\ new \in Request /\ new.pc = "computed" /\ new.gives = q.gives
      /\ new.target = target /\ new.op = q.op /\ new.row = q.row
  BY <1>2, <1>3 DEF Request
<1> HIDE DEF new
<1>5. Current(new)
  BY <1>1, <1>2, <1>3, <1>4 DEF Current
<1> QED
  BY <1>1, <1>4, <1>5, HoldStep

LEMMA SerialApproval ==
  ASSUME SerialInv, Undisturbed, IInv', NEW s \in Sessions, CommitApproval(s)
  PROVE  SerialInv' /\ Mapped
<1> DEFINE q == sess[s]
<1>1. /\ q.pc = "computed" /\ q.op \in {"approve_hr", "approve_finance"} /\ q.gives
      /\ WriteStatus(q) /\ approval' = [approval EXCEPT ![StepOf(q.op)] = q.user]
      /\ End(s) /\ UNCHANGED <<creator, files, tasks, retried>>
  BY DEF CommitApproval, At
<1>2. /\ q \in Request /\ q.user \in Users /\ Exists /\ row \in Row /\ approval \in Approvals
      /\ Current(q) /\ Backed(q, approval, creator) /\ Sound /\ (~row.job => tasks = 0)
      /\ tasks \in Nat
  BY <1>1, InProgress DEF Request
<1>3. approval[StepOf(q.op)] = Pending /\ q.user # Pending
  BY <1>1, <1>2, UserAssumption DEF Current
<1>4. approval["FINANCE"] # Pending => approval["HR"] # Pending
  BY DEF SerialInv, IInv, ApprovedInOrder
<1>5. \/ /\ row.status = "hr_pending" /\ row' = [row EXCEPT !.status = "finance_pending"]
         /\ approval'["HR"] # Pending /\ approval'["FINANCE"] = Pending
      \/ /\ row.status = "finance_pending" /\ row' = [row EXCEPT !.status = "approved"]
         /\ approval'["HR"] # Pending /\ approval'["FINANCE"] # Pending
  <2>1. CASE q.op = "approve_hr"
    <3>1. StepOf(q.op) = "HR" /\ approval["HR"] = Pending /\ approval["FINANCE"] = Pending
      BY <1>3, <1>4, <2>1 DEF StepOf
    <3>2. q.row.status = "hr_pending" /\ row.status = "hr_pending" /\ q.target = "finance_pending"
      BY <1>1, <1>2, <2>1, <3>1 DEF Sound, Current, PayoutStates
    <3>3. approval'["HR"] # Pending /\ approval'["FINANCE"] = Pending
      BY <1>1, <1>2, <1>3, <3>1 DEF Approvals, ApprovalSteps
    <3> QED
      BY <1>1, <3>2, <3>3 DEF WriteStatus
  <2>2. CASE q.op = "approve_finance"
    <3>1. StepOf(q.op) = "FINANCE" /\ approval["HR"] # Pending /\ approval["FINANCE"] = Pending
      BY <1>1, <1>2, <1>3, <2>2 DEF StepOf, Backed
    <3>2. q.row.status = "finance_pending" /\ row.status = "finance_pending"
          /\ q.target = "approved"
      BY <1>1, <1>2, <2>2, <3>1 DEF Sound, Current, PayoutStates
    <3>3. approval'["HR"] # Pending /\ approval'["FINANCE"] # Pending
      BY <1>1, <1>2, <1>3, <3>1 DEF Approvals, ApprovalSteps
    <3> QED
      BY <1>1, <3>2, <3>3 DEF WriteStatus
  <2> QED
    BY <1>1, <2>1, <2>2
<1>6. row'.mode = row.mode /\ row'.job = row.job
  BY <1>2, <1>5 DEF Row
<1>7. row'.status \in {"finance_pending", "approved"}
      /\ (row'.status = "approved" => row.status = "finance_pending")
  BY <1>2, <1>5 DEF Row
<1>8. Sound'
  BY <1>1, <1>2, <1>5, <1>6, <1>7 DEF Sound, Exists, PayoutStates, Row
<1>9. Mapped
  <2>1. Phase = row.status /\ Phase' = row'.status
    BY <1>5, <1>7 DEF Phase, PayoutStates
  <2>2. \/ Phase = "hr_pending" /\ Phase' = "finance_pending"
        \/ Phase = "finance_pending" /\ Phase' = "approved"
    BY <1>2, <1>5, <2>1 DEF Row
  <2> QED
    BY <1>1, <2>2 DEF Mapped, Disbursed!Next, Disbursed!Advance, Phase
<1> QED
  BY <1>1, <1>8, <1>9, EndStep

LEMMA SerialReconciled ==
  ASSUME SerialInv, Undisturbed, IInv', NEW s \in Sessions, CommitReconciled(s)
  PROVE  SerialInv' /\ Mapped
<1> DEFINE q == sess[s]
<1>1. /\ q.pc = "computed" /\ ~q.gives /\ WriteStatus(q) /\ End(s)
      /\ UNCHANGED <<creator, approval, files, tasks, retried>>
  BY DEF CommitReconciled, At
<1>2. Exists /\ Sound /\ Current(q) /\ (~row.job => tasks = 0) /\ tasks \in Nat
  BY <1>1, InProgress
<1>3. row' = row
  BY <1>1, <1>2 DEF WriteStatus, Current
<1>4. Sound'
  BY <1>1, <1>2, <1>3 DEF Sound, Exists
<1>5. Mapped
  BY <1>1, <1>3 DEF Mapped, Phase, Exists
<1> QED
  BY <1>1, <1>4, <1>5, EndStep

LEMMA SerialBankFile ==
  ASSUME SerialInv, Undisturbed, IInv', NEW s \in Sessions, GenerateBankFile(s)
  PROVE  SerialInv' /\ Mapped
<1> DEFINE q == sess[s]
<1>1. /\ q.pc = "computed" /\ q.op = "bank_file" /\ q.row.mode # "api"
      /\ row' = [row EXCEPT !.status = IF q.target = q.row.status THEN @ ELSE q.target,
                            !.mode = IF q.row.mode = "none" THEN "bank_file" ELSE @]
      /\ files' = files + 1 /\ End(s) /\ UNCHANGED <<creator, approval, tasks, retried>>
  BY DEF GenerateBankFile, At
<1>2. /\ Exists /\ row \in Row /\ Sound /\ Current(q) /\ (~row.job => tasks = 0)
      /\ tasks \in Nat /\ files \in Nat
  BY <1>1, InProgress
<1>3. q.target = q.row.status /\ q.row.mode = row.mode /\ q.target = "approved"
  BY <1>1, <1>2 DEF Current
<1>4. row.mode \in {"none", "bank_file"} /\ ~row.job /\ tasks = 0
  BY <1>1, <1>2, <1>3 DEF Row, Modes, Sound
<1>5. row.status = "approved"
  BY <1>2, <1>3, <1>4 DEF Current, Sound
<1>6. row'.status = "approved" /\ row'.mode = "bank_file" /\ row'.job = row.job
  BY <1>1, <1>2, <1>3, <1>4, <1>5 DEF Row
<1>7. Sound'
  BY <1>1, <1>2, <1>4, <1>5, <1>6 DEF Sound, Exists, PayoutStates
<1>8. Mapped
  <2>1. Phase = "approved" /\ Phase' = "approved"
    BY <1>5, <1>6 DEF Phase, PayoutStates
  <2> QED
    BY <1>1, <1>4, <2>1 DEF Mapped, Disbursed!Next, Disbursed!Export, Phase
<1> QED
  BY <1>1, <1>7, <1>8, EndStep

LEMMA SerialEnqueue ==
  ASSUME SerialInv, Undisturbed, IInv', NEW s \in Sessions, EnqueuePayout(s)
  PROVE  SerialInv' /\ Mapped
<1> DEFINE q == sess[s]
<1>1. /\ q.pc = "loaded" /\ q.op = "payout" /\ q.row.mode # "bank_file" /\ ~q.row.job
      /\ tasks' = tasks + 1 /\ sess' = [sess EXCEPT ![s] = [q EXCEPT !.pc = "sent"]]
      /\ UNCHANGED <<row, creator, approval, files, retried>>
  BY DEF EnqueuePayout, At
<1>2. /\ q \in Request /\ Exists /\ row \in Row /\ Sound /\ Current(q)
      /\ Backed(q, approval, creator) /\ (~row.job => tasks = 0)
      /\ sess \in [Sessions -> Request \cup {Idle}] /\ tasks \in Nat /\ files \in Nat
      /\ \A t \in Sessions \ {s} : sess[t].pc = "idle"
  BY <1>1, InProgress
<1>3. row.mode = "none" /\ ~row.job /\ tasks = 0 /\ files = 0
  BY <1>1, <1>2 DEF Current, Sound, Row, Modes
<1>4. row.status = "approved"
  <2>1. approval["HR"] # Pending /\ approval["FINANCE"] # Pending
    BY <1>1, <1>2 DEF Backed, AllApproved, ApprovalSteps
  <2> QED
    BY <1>2, <1>3, <2>1 DEF Sound, Row, Statuses, PayoutStates
<1>5. /\ sess'[s].pc = "sent" /\ sess'[s].row = q.row
      /\ \A t \in Sessions \ {s} : sess'[t].pc = "idle"
  BY <1>2, <1>1 DEF Request
<1>6. tasks' = 1
  BY <1>1, <1>3
<1>7. Sound'
  BY <1>1, <1>2, <1>3, <1>5, <1>6 DEF Sound, Exists
<1>8. Current(sess[s])'
  BY <1>1, <1>2, <1>3, <1>4, <1>5, <1>6 DEF Current
<1>9. SerialInv'
  BY <1>5, <1>7, <1>8 DEF SerialInv
<1>10. Mapped
  <2>1. Phase = "approved" /\ Phase' = "approved"
    BY <1>1, <1>4 DEF Phase, PayoutStates
  <2> QED
    BY <1>1, <1>3, <1>6, <2>1 DEF Mapped, Disbursed!Next, Disbursed!Enqueue, Phase
<1> QED
  BY <1>9, <1>10

LEMMA SerialPayout ==
  ASSUME SerialInv, Undisturbed, IInv', NEW s \in Sessions, CommitPayout(s)
  PROVE  SerialInv' /\ Mapped
<1> DEFINE q == sess[s]
<1>1. /\ q.pc = "sent" /\ End(s) /\ UNCHANGED <<creator, approval, files, tasks, retried>>
      /\ row' = [row EXCEPT !.status = "payout_in_progress", !.job = TRUE,
                            !.mode = IF q.row.mode = "none" THEN "api" ELSE @]
  BY DEF CommitPayout, At
<1>2. /\ Exists /\ row \in Row /\ Sound /\ Current(q) /\ files \in Nat
  BY <1>1, InProgress
<1>3. /\ row.status = "approved" /\ row.mode = "none" /\ q.row.mode = "none"
      /\ tasks = 1 /\ files = 0
  BY <1>1, <1>2 DEF Current, Sound
<1>4. row'.status = "payout_in_progress" /\ row'.mode = "api" /\ row'.job = TRUE
  BY <1>1, <1>2, <1>3 DEF Row
<1>5. Sound'
  BY <1>1, <1>2, <1>3, <1>4 DEF Sound, Exists, PayoutStates
<1>6. Mapped
  <2>1. Phase = "approved" /\ Phase' = "payout"
    BY <1>3, <1>4 DEF Phase, PayoutStates, Exists
  <2> QED
    BY <1>1, <1>3, <2>1 DEF Mapped, Disbursed!Next, Disbursed!Pay, Phase
<1> QED
  BY <1>1, <1>5, <1>6, EndStep

LEMMA SerialEnd ==
  ASSUME SerialInv, Undisturbed, IInv', NEW s \in Sessions, EndRequest(s)
  PROVE  SerialInv' /\ Mapped
<1>1. /\ sess[s].pc \in {"loaded", "checked", "computed"} /\ End(s)
      /\ UNCHANGED <<row, creator, approval, files, tasks, retried>>
  BY DEF EndRequest
<1>2. Exists /\ Sound /\ (~row.job => tasks = 0) /\ tasks \in Nat
  BY <1>1, InProgress
<1>3. Sound'
  BY <1>1, <1>2 DEF Sound, Exists
<1>4. Mapped
  BY <1>1 DEF Mapped, Phase, Exists
<1> QED
  BY <1>1, <1>3, <1>4, EndStep

\* The payout task and the provider move the batch within payout only.
LEMMA SerialWorker ==
  ASSUME SerialInv, Undisturbed, IInv', RunPayout \/ ReportPayout
  PROVE  SerialInv' /\ Mapped
<1>1. PICK status \in PayoutStates :
        /\ row' = [row EXCEPT !.status = status]
        /\ row.status \in {"approved"} \cup PayoutStates
        /\ tasks > 0 \/ retried
        /\ \A s \in Sessions : sess[s].pc # "sent"
        /\ UNCHANGED <<creator, approval, files, tasks, retried, sess>>
  BY DEF RunPayout, ReportPayout, PayoutStates
<1>2. Sound /\ TypeOK /\ tasks \in Nat /\ files \in Nat
  BY BoundAssumption DEF SerialInv, IInv, TypeOK
<1>3. Exists /\ row \in Row
  BY <1>1, <1>2 DEF Exists, PayoutStates, TypeOK, NoBatch
<1>4. tasks > 0 /\ row.job /\ row.mode = "api" /\ files = 0
  BY <1>1, <1>2, <1>3 DEF Sound
<1>5. row'.status = status /\ row'.mode = row.mode /\ row'.job = row.job
  BY <1>1, <1>3 DEF Row
<1>6. Sound'
  BY <1>1, <1>2, <1>3, <1>4, <1>5 DEF Sound, Exists, PayoutStates
<1>7. ASSUME NEW s \in Sessions, sess'[s].pc # "idle" PROVE Current(sess[s])'
  <2>1. Current(sess[s]) /\ sess'[s] = sess[s]
    BY <1>1, <1>7 DEF SerialInv
  <2> QED
    BY <1>1, <1>5, <2>1 DEF Current, Early, PayoutStates
<1>8. Mapped
  <2>1. Phase' = "payout" /\ Phase \in {"approved", "payout"}
    BY <1>1, <1>3, <1>5 DEF Phase, Exists, PayoutStates
  <2>2. CASE Phase = "approved"
    BY <1>1, <1>4, <2>1, <2>2 DEF Mapped, Disbursed!Next, Disbursed!Pay, Phase
  <2>3. CASE Phase = "payout"
    BY <1>1, <2>1, <2>3 DEF Mapped
  <2> QED
    BY <2>1, <2>2, <2>3
<1> QED
  BY <1>6, <1>7, <1>8 DEF SerialInv
------------------------------------------------------------------------------
LEMMA SerialNext ==
  SerialInv /\ Undisturbed /\ [Next]_vars => SerialInv' /\ Mapped
<1> SUFFICES ASSUME SerialInv, Undisturbed, [Next]_vars PROVE SerialInv' /\ Mapped
  OBVIOUS
<1>0. IInv'
  BY IInvNext DEF SerialInv
<1>1. CASE CreateSalaryBatch
  <2>1. /\ ~Exists /\ row' = [status |-> "hr_pending", mode |-> "none", job |-> FALSE]
        /\ UNCHANGED <<creator, approval, files, tasks, retried, sess>>
    BY <1>1 DEF CreateSalaryBatch
  <2>2. Sound /\ \A s \in Sessions : sess[s].pc = "idle"
    BY <2>1 DEF SerialInv, IInv, AllBacked
  <2>3. Sound'
    BY <2>1, <2>2 DEF Sound, Exists, PayoutStates
  <2>4. Phase = "none" /\ Phase' = "hr_pending"
    BY <2>1 DEF Phase, Exists, PayoutStates
  <2>5. Mapped
    BY <2>1, <2>4 DEF Mapped, Disbursed!Next, Disbursed!Advance, Phase
  <2> QED
    BY <1>0, <2>1, <2>2, <2>3, <2>5 DEF SerialInv
<1>2. CASE RetryFailed
  <2>1. /\ tasks > 0 /\ UNCHANGED <<row, creator, approval, files, tasks, sess>>
    BY <1>2 DEF RetryFailed, Undisturbed
  <2>2. Sound'
    BY <2>1 DEF SerialInv, Sound, Exists
  <2>3. Mapped
    BY <2>1 DEF Mapped, Phase, Exists
  <2> QED
    BY <1>0, <2>1, <2>2, <2>3 DEF SerialInv, Current
<1>3. CASE RunPayout \/ ReportPayout
  BY <1>0, <1>3, SerialWorker
<1>4. ASSUME NEW s \in Sessions, Begin(s) PROVE SerialInv' /\ Mapped
  <2>1. PICK op, user : Load(s, op, user, TRUE)
    BY <1>4 DEF Begin, BeginApprove, BeginView, BeginBankFile, BeginPayout, Load
  <2> QED
    BY <1>0, <2>1, SerialBegin
<1>5. ASSUME NEW s \in Sessions, Step(s) PROVE SerialInv' /\ Mapped
  <2>1. ~LoseCommit(s)
    BY DEF LoseCommit, Undisturbed
  <2> QED
    BY <1>0, <1>5, <2>1, SerialCheck, SerialDecide, SerialApproval, SerialReconcile,
       SerialReconciled, SerialBankFile, SerialEnqueue, SerialPayout, SerialEnd DEF Step
<1>6. CASE UNCHANGED vars
  BY <1>0, <1>6 DEF vars, SerialInv, Sound, Current, Exists, Mapped, Phase
<1> QED
  BY <1>1, <1>2, <1>3, <1>4, <1>5, <1>6 DEF Next

LEMMA SerialInvariance == Spec /\ []Undisturbed => []SerialInv
BY SerialInit, SerialNext, PTL DEF Spec

\* While requests do not overlap, commits do not fail and nobody retries a batch that
\* was not paid out, a task the broker holds is recorded: the batch has a job and is
\* locked to the provider.
THEOREM TaskAlwaysRecorded == Spec /\ []Undisturbed => []TaskRecorded
<1>1. SerialInv => TaskRecorded
  <2> SUFFICES ASSUME SerialInv, tasks > 0, \A s \in Sessions : sess[s].pc # "sent"
               PROVE  row.job /\ row.mode = "api"
    BY DEF TaskRecorded
  <2>1. Sound /\ tasks # 0
    BY BoundAssumption DEF SerialInv, IInv, TypeOK
  <2> QED
    BY <2>1 DEF Sound
<1> QED
  BY <1>1, SerialInvariance, PTL

\* Under the same conditions the batch implements what disbursement promises: the stages
\* come in order, the task is sent once, and the batch is paid through the provider or
\* exported to bank files, never both.
THEOREM DisbursementImplemented == Spec /\ []Undisturbed => ImplementsDisbursement
<1>1. Init => Disbursed!Init
  BY DEF Init, Disbursed!Init, NoBatch, Exists
<1>2. SerialInv /\ Undisturbed /\ [Next]_vars => [Disbursed!Next]_<<Phase, files, tasks>>
  BY SerialNext DEF Mapped
<1> QED
  BY <1>1, <1>2, SerialInvariance, PTL
     DEF Spec, ImplementsDisbursement, Disbursed!Spec, Phase
=============================================================================
