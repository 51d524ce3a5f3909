-------------------------- MODULE PayrollRunProofs --------------------------
(***************************************************************************)
(* Theorems about PayrollRun, for any sets of runs, periods, lines,        *)
(* settings, batch states and concurrent sessions.                         *)
(***************************************************************************)
EXTENDS PayrollRun, TLAPS

\* A flush writes a row.
LEMMA FlushedType ==
  ASSUME NEW current \in Row, NEW loaded \in Row, NEW changed \in Row
  PROVE  Flushed(current, loaded, changed) \in Row
BY SMTT(30) DEF Flushed, Row

\* Recording new execution_meta on a row changes that column only.
LEMMA MetaWritten ==
  ASSUME NEW row \in Row, NEW changed \in Row
  PROVE  /\ [row EXCEPT !.meta = changed.meta] \in Row
         /\ [row EXCEPT !.meta = changed.meta].final = row.final
BY DEF Row

\* A new row, a processed row and a reset row are rows.
LEMMA RowTypes ==
  ASSUME NEW row \in Row, NEW cfg \in Settings, NEW lines \in SUBSET Lines
  PROVE  /\ NewRow(cfg) \in Row
         /\ ProcessedRow(row, lines, cfg) \in Row
         /\ ResetRow(row, cfg) \in Row
BY DEF Row, NewRow, ProcessedRow, ResetRow, Statuses, ExecStatuses,
       LifecycleStates, Meta, NoSnapshot

\* The row of a run that exists is a row, and a session that is not idle holds a
\* request.
LEMMA Typed ==
  ASSUME TypeOK
  PROVE  /\ \A r \in Runs : Exists(r) => run[r] \in Row
         /\ \A s \in Sessions : sess[s].pc # "idle" => sess[s] \in Request
         /\ \A row \in Row : row.status # "none"
         /\ \A q \in Request : q.pc \in Steps /\ q.pc # "idle"
BY DEF TypeOK, Exists, NoRow, Idle, Row, Statuses, Request, Steps

\* The invariant that types every state: a request holds a run that exists.
TypeInv ==
  /\ TypeOK
  /\ \A s \in Sessions : sess[s].pc # "idle" => Exists(sess[s].run)

LEMMA TypeInit == Init => TypeInv
BY DEF Init, TypeOK, TypeInv, Idle

LEMMA HeldRunsExist ==
  ASSUME TypeInv,
         \A r \in Runs : Exists(r) => Exists(r)',
         \A t \in Sessions : sess'[t].pc # "idle" =>
           sess[t].pc # "idle" /\ sess'[t].run = sess[t].run
  PROVE  \A t \in Sessions : sess'[t].pc # "idle" => Exists(sess[t].run)'
<1> TAKE t \in Sessions
<1> HAVE sess'[t].pc # "idle"
<1>1. sess[t].run \in Runs /\ Exists(sess[t].run)
  BY Typed DEF TypeInv, Request
<1>2. run'[sess[t].run].status # "none"
  BY <1>1 DEF Exists
<1> QED
  BY <1>2 DEF Exists

LEMMA TypeBegin ==
  ASSUME TypeInv, NEW s \in Sessions, Begin(s)
  PROVE  TypeInv'
<1> USE DEF TypeInv
<1>1. PICK r \in Runs, op \in Operations :
        /\ Exists(r)
        /\ sess' = [sess EXCEPT ![s] =
             [pc |-> "loaded", op |-> op, run |-> r, row |-> run[r],
              cfg |-> settings, lines |-> {}]]
        /\ UNCHANGED <<run, entries, locked, finalized, settings, batch, audit>>
  BY DEF Begin, BeginProcess, BeginReset, BeginVerify, BeginApprove, BeginLock,
         BeginBatch, Load, Operations
<1>2. run[r] \in Row
  BY <1>1, Typed
<1>3. sess' \in [Sessions -> Request \cup {Idle}]
  BY <1>1, <1>2 DEF TypeOK, Request, Steps
<1>4. ASSUME NEW t \in Sessions, sess'[t].pc # "idle"
      PROVE  run'[sess'[t].run].status # "none"
  BY <1>1, <1>4 DEF TypeOK, Exists
<1> QED
  BY <1>1, <1>3, <1>4 DEF TypeOK, Exists

LEMMA TypeStep ==
  ASSUME TypeInv, NEW s \in Sessions, Step(s)
  PROVE  TypeInv'
<1> DEFINE q == sess[s]
<1> USE DEF TypeInv
<1>1. q.pc # "idle"
  BY DEF Step, Gather, CommitProcess, RollBackProcess, DeleteEntries,
         CommitReset, CommitVerify, CommitApprove, SnapshotEntries, CommitLock,
         RecordLifecycleAudit, CommitBatch, EndRequest, At
<1>2. /\ q \in Request /\ q.run \in Runs /\ q.row \in Row
      /\ q.cfg \in Settings /\ q.lines \in SUBSET Lines /\ q.op \in Operations
  BY <1>1, Typed DEF Request
<1>3. Exists(q.run) /\ run[q.run] \in Row
  BY <1>1, <1>2, Typed
<1>4. ASSUME NEW pc \in Steps, NEW cfg \in Settings, NEW lines \in SUBSET Lines,
             sess' = [sess EXCEPT ![s] = [q EXCEPT !.pc = pc, !.cfg = cfg,
                                                   !.lines = lines]]
      PROVE  /\ sess' \in [Sessions -> Request \cup {Idle}]
             /\ \A t \in Sessions : sess'[t].pc # "idle" =>
                  sess[t].pc # "idle" /\ sess'[t].run = sess[t].run
  BY <1>1, <1>2, <1>4 DEF TypeOK, Request
<1>5. ASSUME NEW pc \in Steps, Move(s, pc)
      PROVE  /\ sess' \in [Sessions -> Request \cup {Idle}]
             /\ \A t \in Sessions : sess'[t].pc # "idle" =>
                  sess[t].pc # "idle" /\ sess'[t].run = sess[t].run
  <2>1. sess' = [sess EXCEPT ![s] = [q EXCEPT !.pc = pc]]
    BY <1>5 DEF Move
  <2>2. [q EXCEPT !.pc = pc] \in Request
    BY <1>2 DEF Request
  <2> QED
    BY <1>1, <2>1, <2>2 DEF TypeOK
<1>6. ASSUME NEW row \in Row, run' = [run EXCEPT ![q.run] = row]
      PROVE  /\ run' \in [Runs -> Row \cup {NoRow}]
             /\ \A r \in Runs : Exists(r) => Exists(r)'
  BY <1>2, <1>6, Typed DEF TypeOK, Exists
<1>7. CASE Gather(s)
  <2>1. PICK lines \in SUBSET Lines :
          sess' = [sess EXCEPT ![s].pc = "read", ![s].cfg = settings,
                               ![s].lines = lines]
    BY <1>7 DEF Gather
  <2>2. sess' = [sess EXCEPT ![s] = [q EXCEPT !.pc = "read", !.cfg = settings,
                                              !.lines = lines]]
    BY <2>1
  <2> QED
    BY <1>4, <1>7, <2>2 DEF Gather, TypeOK, Steps, Exists
<1>8. CASE CommitProcess(s)
  <2> DEFINE new == ProcessedRow(q.row, q.lines, q.cfg)
             row == [Flushed(run[q.run], q.row, new) EXCEPT !.meta = new.meta]
  <2>1. new \in Row /\ row \in Row
    <3>1. new \in Row
      BY <1>2, RowTypes
    <3> HIDE DEF new
    <3>2. Flushed(run[q.run], q.row, new) \in Row
      BY <1>2, <1>3, <3>1, FlushedType
    <3> QED
      BY <3>1, <3>2, MetaWritten
  <2>2. run' = [run EXCEPT ![q.run] = row]
    BY <1>8 DEF CommitProcess
  <2>3. /\ entries' \in [Runs -> SUBSET Lines]
        /\ locked' \in [Periods -> BOOLEAN]
        /\ finalized' \subseteq Runs
    BY <1>2, <1>8 DEF CommitProcess, TypeOK
  <2> QED
    BY HeldRunsExist, <1>5, <1>6, <1>8, <2>1, <2>2, <2>3 DEF CommitProcess, TypeOK, Steps
<1>9. CASE RollBackProcess(s)
  BY <1>5, <1>9 DEF RollBackProcess, TypeOK, Steps, Exists
<1>10. CASE DeleteEntries(s)
  <2>1. sess' = [sess EXCEPT ![s] = [q EXCEPT !.pc = "read", !.cfg = settings,
                                              !.lines = entries[q.run]]]
    BY <1>10 DEF DeleteEntries
  <2>2. entries[q.run] \in SUBSET Lines
    BY <1>2 DEF TypeOK
  <2> QED
    BY <1>4, <1>10, <2>1, <2>2 DEF DeleteEntries, TypeOK, Steps, Exists
<1>11. CASE CommitReset(s)
  <2> DEFINE new == ResetRow(q.row, q.cfg)
             row == [Flushed(run[q.run], q.row, new) EXCEPT !.meta = new.meta]
  <2>1. new \in Row /\ row \in Row
    <3>1. new \in Row
      BY <1>2, RowTypes
    <3> HIDE DEF new
    <3>2. Flushed(run[q.run], q.row, new) \in Row
      BY <1>2, <1>3, <3>1, FlushedType
    <3> QED
      BY <3>1, <3>2, MetaWritten
  <2>2. run' = [run EXCEPT ![q.run] = row]
    BY <1>11 DEF CommitReset
  <2>3. entries' \in [Runs -> SUBSET Lines]
    BY <1>2, <1>11 DEF CommitReset, TypeOK
  <2> QED
    BY HeldRunsExist, <1>5, <1>6, <1>11, <2>1, <2>2, <2>3 DEF CommitReset, TypeOK, Steps
<1>12. ASSUME NEW life \in LifecycleStates, Advance(s, life)
       PROVE  /\ run' \in [Runs -> Row \cup {NoRow}]
              /\ \A r \in Runs : Exists(r) => Exists(r)'
  <2> DEFINE new == [q.row EXCEPT !.life = life]
  <2>1. new \in Row
    BY <1>2, <1>12 DEF Row
  <2>2. Flushed(run[q.run], q.row, new) \in Row
    BY <1>2, <1>3, <2>1, FlushedType
  <2> QED
    BY <1>6, <1>12, <2>2 DEF Advance
<1>13. CASE CommitVerify(s) \/ CommitApprove(s)
  BY HeldRunsExist, <1>5, <1>12, <1>13
     DEF CommitVerify, CommitApprove, TypeOK, Steps, LifecycleStates
<1>14. CASE SnapshotEntries(s)
  <2>1. sess' = [sess EXCEPT ![s] = [q EXCEPT !.pc = "read", !.cfg = q.cfg,
                                              !.lines = entries[q.run]]]
    BY <1>2, <1>14 DEF SnapshotEntries, Request
  <2>2. entries[q.run] \in SUBSET Lines
    BY <1>2 DEF TypeOK
  <2>3. /\ sess' \in [Sessions -> Request \cup {Idle}]
        /\ \A t \in Sessions : sess'[t].pc # "idle" =>
             sess[t].pc # "idle" /\ sess'[t].run = sess[t].run
    BY <1>2, <1>4, <2>1, <2>2 DEF Steps
  <2> QED
    BY <1>14, <2>3 DEF SnapshotEntries, TypeOK, Exists
<1>15. CASE CommitLock(s)
  <2> DEFINE frozen == [frozen |-> TRUE, lines |-> q.lines,
                        total |-> q.row.total]
             new == [q.row EXCEPT !.life = "locked", !.final = frozen]
             row == [Flushed(run[q.run], q.row, new) EXCEPT !.final = frozen]
  <2>1. frozen \in FinalSnapshot
    BY <1>2 DEF FinalSnapshot, Row
  <2>2. new \in Row
    BY <1>2, <2>1 DEF Row, LifecycleStates
  <2>3. row \in Row
    BY <1>2, <1>3, <2>1, <2>2, FlushedType DEF Row
  <2>4. run' = [run EXCEPT ![q.run] = row]
    BY <1>15 DEF CommitLock
  <2> QED
    BY HeldRunsExist, <1>5, <1>6, <1>15, <2>3, <2>4 DEF CommitLock, TypeOK, Steps
<1>16. CASE RecordLifecycleAudit(s)
  <2>1. ActionOf(q.op) \in AuditActions
    BY DEF ActionOf, AuditActions
  <2>2. audit' \in [Runs -> SUBSET AuditActions]
    BY <1>2, <1>16, <2>1 DEF RecordLifecycleAudit, TypeOK
  <2> QED
    BY <1>5, <1>16, <2>2 DEF RecordLifecycleAudit, TypeOK, Steps, Exists
<1>17. CASE CommitBatch(s)
  <2>1. batch' \in [Runs -> BatchStates \cup {"none"}]
    BY <1>2, <1>17, BatchAssumption DEF CommitBatch, TypeOK
  <2>2. Move(s, "done") \/ Move(s, "failed")
    BY <1>17 DEF CommitBatch
  <2> QED
    BY <1>5, <1>17, <2>1, <2>2 DEF CommitBatch, TypeOK, Steps, Exists
<1>18. CASE EndRequest(s)
  BY <1>18 DEF EndRequest, TypeOK, Idle, Exists
<1> QED
  BY <1>7, <1>8, <1>9, <1>10, <1>11, <1>13, <1>14, <1>15, <1>16, <1>17, <1>18
     DEF Step

LEMMA TypeNext == TypeInv /\ [Next]_vars => TypeInv'
<1> SUFFICES ASSUME TypeInv, [Next]_vars PROVE TypeInv'
  OBVIOUS
<1> USE DEF TypeInv
<1>1. ASSUME NEW s \in Sessions, Begin(s) PROVE TypeInv'
  BY <1>1, TypeBegin
<1>2. ASSUME NEW s \in Sessions, Step(s) PROVE TypeInv'
  BY <1>2, TypeStep
<1>3. ASSUME NEW r \in Runs, CreatePayroll(r) PROVE TypeInv'
  <2>1. NewRow(settings) \in Row
    BY RowTypes DEF TypeOK, NewRow, Row, Statuses, ExecStatuses,
       LifecycleStates, Meta, NoSnapshot
  <2> QED
    BY <1>3, <2>1, Typed DEF CreatePayroll, TypeOK, Exists
<1>4. ASSUME NEW r \in Runs, DenyLocked(r) PROVE TypeInv'
  BY <1>4 DEF DenyLocked, TypeOK, AuditActions, Exists
<1>5. ASSUME NEW r \in Runs, BatchMoves(r) PROVE TypeInv'
  BY <1>5 DEF BatchMoves, TypeOK, Exists
<1>6. CASE ChangeSettings
  BY <1>6 DEF ChangeSettings, TypeOK, Exists
<1>7. CASE UNCHANGED vars
  BY <1>7 DEF vars, TypeOK, Exists
<1> QED
  BY <1>1, <1>2, <1>3, <1>4, <1>5, <1>6, <1>7 DEF Next

\* Every variable stays in the set its table, log or session declares.
THEOREM TypeCorrect == Spec => []TypeOK
<1>1. TypeInv => TypeOK
  BY DEF TypeInv
<1> QED
  BY <1>1, TypeInit, TypeNext, PTL DEF Spec

------------------------------------------------------------------------------
\* The inductive invariant: the properties of the committed rows hold because
\* nothing a session remembers, however old, is ahead of domain_events.
IInv == /\ TypeInv
        /\ ReviewedWereProcessed
        /\ AuditTruthful
        /\ StaleCopiesBacked

\* Column by column, a flush keeps what is committed or writes what changed.
LEMMA FlushedColumns ==
  ASSUME NEW current \in Row, NEW loaded \in Row, NEW changed \in Row
  PROVE  LET f == Flushed(current, loaded, changed) IN
         /\ f.status = IF changed.status = loaded.status
                         THEN current.status ELSE changed.status
         /\ f.life = IF changed.life = loaded.life
                       THEN current.life ELSE changed.life
         /\ f.final = IF changed.final = loaded.final
                        THEN current.final ELSE changed.final
         /\ f.total = IF changed.total = loaded.total
                        THEN current.total ELSE changed.total
BY SMTT(30) DEF Flushed, Row

LEMMA IInvInit == Init => IInv
BY TypeInit DEF Init, IInv, ReviewedWereProcessed, AuditTruthful,
   StaleCopiesBacked, Exists, NoRow, Idle

\* What one session does to its own run, when it writes the row.
LEMMA CommitEffect ==
  ASSUME IInv, NEW s \in Sessions, sess[s].pc # "idle",
         NEW new \in Row, NEW row \in Row,
         row.status = Flushed(run[sess[s].run], sess[s].row, new).status,
         row.life = Flushed(run[sess[s].run], sess[s].row, new).life,
         run' = [run EXCEPT ![sess[s].run] = row],
         new.status = "processed" \/ new.life \in Reviewed
           => sess[s].run \in finalized',
         finalized \subseteq finalized',
         \A r \in Runs : r \in finalized' => locked'[PeriodOf[r]],
         \A r \in Runs : batch'[r] # "none" \/ entries'[r] # {}
           => r \in finalized'
  PROVE  ReviewedWereProcessed'
<1> DEFINE q == sess[s]
<1>1. /\ q.run \in Runs /\ q.row \in Row /\ run[q.run] \in Row
      /\ run \in [Runs -> Row \cup {NoRow}]
  BY Typed DEF IInv, TypeInv, Request, TypeOK
<1>2. row.status = "processed" \/ row.life \in Reviewed => q.run \in finalized'
  <2> DEFINE now == run[q.run]
  <2>1. now.status = "processed" \/ now.life \in Reviewed => q.run \in finalized
    <3>1. Exists(q.run)
      BY DEF IInv, TypeInv
    <3> QED
      BY <1>1, <3>1 DEF IInv, ReviewedWereProcessed
  <2>2. /\ row.status \in {now.status, new.status}
        /\ row.life \in {now.life, new.life}
    BY <1>1, FlushedColumns
  <2> QED
    BY <2>1, <2>2
<1>3. ASSUME NEW r \in Runs,
             Exists(r)' /\ (run'[r].status = "processed" \/ run'[r].life \in Reviewed)
      PROVE  r \in finalized'
  <2>1. CASE r = q.run
    BY <1>1, <1>2, <1>3, <2>1
  <2>2. CASE r # q.run
    BY <1>1, <1>3, <2>2 DEF IInv, ReviewedWereProcessed, Exists
  <2> QED
    BY <2>1, <2>2
<1> QED
  BY <1>3 DEF ReviewedWereProcessed

\* What a session holds when it takes a step.
LEMMA Holding ==
  ASSUME IInv, NEW s \in Sessions, Step(s)
  PROVE  LET q == sess[s] IN
         /\ q.pc # "idle"
         /\ q \in Request /\ q.run \in Runs /\ q.row \in Row
         /\ q.cfg \in Settings /\ q.lines \in SUBSET Lines
         /\ Exists(q.run) /\ run[q.run] \in Row
<1>1. sess[s].pc # "idle"
  BY DEF Step, Gather, CommitProcess, RollBackProcess, DeleteEntries,
         CommitReset, CommitVerify, CommitApprove, SnapshotEntries, CommitLock,
         RecordLifecycleAudit, CommitBatch, EndRequest, At
<1> QED
  BY <1>1, Typed DEF Request, IInv, TypeInv

\* No write of a row takes a final snapshot away, and a lock leaves one.
LEMMA FinalKept ==
  ASSUME IInv, NEW s \in Sessions, Step(s)
  PROVE  /\ \A r \in Runs : Exists(r) =>
              /\ Exists(r)'
              /\ run[r].final # NoSnapshot => run'[r].final # NoSnapshot
         /\ CommitLock(s) => run'[sess[s].run].final # NoSnapshot
<1> DEFINE q == sess[s]
           Kept == /\ \A r \in Runs : Exists(r) =>
                        /\ run'[r].status # "none"
                        /\ run[r].final # NoSnapshot => run'[r].final # NoSnapshot
                   /\ CommitLock(s) => run'[q.run].final # NoSnapshot
<1>0. SUFFICES Kept
  BY DEF Exists
<1>1. /\ q.run \in Runs /\ q.row \in Row /\ q.cfg \in Settings
      /\ q.lines \in SUBSET Lines /\ run[q.run] \in Row
      /\ run \in [Runs -> Row \cup {NoRow}]
  BY Holding DEF IInv, TypeInv, TypeOK
<1>2. ASSUME NEW row \in Row, run' = [run EXCEPT ![q.run] = row],
             row.final # NoSnapshot \/ row.final = run[q.run].final,
             CommitLock(s) => row.final # NoSnapshot
      PROVE  Kept
  BY <1>1, <1>2, Typed DEF IInv, TypeInv, Exists
<1>3. CASE CommitProcess(s)
  <2> DEFINE new == ProcessedRow(q.row, q.lines, q.cfg)
             f == Flushed(run[q.run], q.row, new)
             row == [f EXCEPT !.meta = new.meta]
  <2>1. new \in Row /\ f \in Row /\ row \in Row
    <3>1. new \in Row
      BY <1>1, RowTypes
    <3> HIDE DEF new
    <3>2. f \in Row
      BY <1>1, <3>1, FlushedType
    <3> QED
      BY <3>1, <3>2, MetaWritten
  <2>2. row.final = f.final /\ new.final = q.row.final
    BY <1>1, <2>1 DEF Row, ProcessedRow
  <2>3. row.final = run[q.run].final
    BY <1>1, <2>1, <2>2, FlushedColumns
  <2>4. ~CommitLock(s)
    BY <1>3 DEF CommitProcess, CommitLock, At
  <2> QED
    BY <1>2, <1>3, <2>1, <2>3, <2>4 DEF CommitProcess
<1>4. CASE CommitReset(s)
  <2> DEFINE new == ResetRow(q.row, q.cfg)
             f == Flushed(run[q.run], q.row, new)
             row == [f EXCEPT !.meta = new.meta]
  <2>1. new \in Row /\ f \in Row /\ row \in Row
    <3>1. new \in Row
      BY <1>1, RowTypes
    <3> HIDE DEF new
    <3>2. f \in Row
      BY <1>1, <3>1, FlushedType
    <3> QED
      BY <3>1, <3>2, MetaWritten
  <2>2. row.final = f.final /\ new.final = q.row.final
    BY <1>1, <2>1 DEF Row, ResetRow
  <2>3. row.final = run[q.run].final
    BY <1>1, <2>1, <2>2, FlushedColumns
  <2>4. ~CommitLock(s)
    BY <1>4 DEF CommitReset, CommitLock, At
  <2> QED
    BY <1>2, <1>4, <2>1, <2>3, <2>4 DEF CommitReset
<1>5. ASSUME NEW life \in Reviewed, Advance(s, life), ~CommitLock(s)
      PROVE  Kept
  <2> DEFINE new == [q.row EXCEPT !.life = life]
             row == Flushed(run[q.run], q.row, new)
  <2>1. new \in Row /\ row \in Row /\ new.final = q.row.final
    BY <1>1, <1>5, FlushedType DEF Row, Reviewed, LifecycleStates
  <2>2. row.final = run[q.run].final
    <3> HIDE DEF new
    <3> QED
      BY <1>1, <2>1, FlushedColumns
  <2> QED
    BY <1>2, <1>5, <2>1, <2>2 DEF Advance
<1>6. CASE CommitVerify(s) \/ CommitApprove(s)
  <2>1. ~CommitLock(s)
    BY <1>6 DEF CommitVerify, CommitApprove, CommitLock, At
  <2> QED
    BY <1>5, <1>6, <2>1 DEF CommitVerify, CommitApprove, Reviewed
<1>7. CASE CommitLock(s)
  <2> DEFINE frozen == [frozen |-> TRUE, lines |-> q.lines,
                        total |-> q.row.total]
             new == [q.row EXCEPT !.life = "locked", !.final = frozen]
             f == Flushed(run[q.run], q.row, new)
             row == [f EXCEPT !.final = frozen]
  <2>1. frozen \in FinalSnapshot
    BY <1>1 DEF FinalSnapshot, Row
  <2>2. new \in Row
    BY <1>1, <2>1 DEF Row, LifecycleStates
  <2>3. f \in Row /\ row \in Row
    BY <1>1, <2>1, <2>2, FlushedType DEF Row
  <2>4. row.final.frozen = TRUE
    BY <2>3 DEF Row
  <2>5. row.final # NoSnapshot
    BY <2>4 DEF NoSnapshot
  <2>6. run' = [run EXCEPT ![q.run] = row]
    BY <1>7 DEF CommitLock
  <2> QED
    BY <1>2, <2>3, <2>5, <2>6
<1>8. CASE UNCHANGED run /\ ~CommitLock(s)
  BY <1>8 DEF Exists
<1> QED
  BY <1>3, <1>4, <1>6, <1>7, <1>8
     DEF Step, Gather, RollBackProcess, DeleteEntries, SnapshotEntries,
         RecordLifecycleAudit, CommitBatch, EndRequest, CommitLock, At

\* A session step preserves what relates the committed tables to the event.
LEMMA IInvStepDb ==
  ASSUME IInv, NEW s \in Sessions, Step(s)
  PROVE  ReviewedWereProcessed' /\ AuditTruthful'
<1> DEFINE q == sess[s]
<1>1. q.pc # "idle"
  BY Holding
<1>2. /\ q.run \in Runs /\ q.row \in Row /\ q.cfg \in Settings
      /\ q.lines \in SUBSET Lines /\ Exists(q.run) /\ run[q.run] \in Row
  BY Holding
<1>3. ASSUME UNCHANGED <<run, entries, locked, finalized, batch, audit>>
      PROVE  ReviewedWereProcessed' /\ AuditTruthful'
  BY <1>3 DEF IInv, ReviewedWereProcessed, AuditTruthful, Exists
<1>4. CASE Gather(s) \/ RollBackProcess(s) \/ DeleteEntries(s)
           \/ SnapshotEntries(s) \/ EndRequest(s)
  BY <1>3, <1>4 DEF Gather, RollBackProcess, DeleteEntries, SnapshotEntries,
     EndRequest
<1>5. ASSUME finalized \subseteq finalized', audit' = audit
      PROVE  AuditTruthful'
  BY <1>5, FinalKept DEF AuditTruthful, IInv
<1>6. CASE CommitProcess(s)
  <2> DEFINE new == ProcessedRow(q.row, q.lines, q.cfg)
             f == Flushed(run[q.run], q.row, new)
             row == [f EXCEPT !.meta = new.meta]
  <2>1. new \in Row /\ f \in Row /\ row \in Row
    BY <1>2, RowTypes, FlushedType DEF Row
  <2>2. row.status = f.status /\ row.life = f.life
    BY <2>1 DEF Row
  <2>5. AuditTruthful'
    BY <1>5, <1>6 DEF CommitProcess
  <2>6. \A r \in Runs : r \in finalized' => locked'[PeriodOf[r]]
    BY <1>2, <1>6, PeriodAssumption
       DEF CommitProcess, IInv, TypeInv, TypeOK, ReviewedWereProcessed
  <2>7. \A r \in Runs : batch'[r] # "none" \/ entries'[r] # {}
          => r \in finalized'
    BY <1>2, <1>6 DEF CommitProcess, IInv, TypeInv, TypeOK, ReviewedWereProcessed
  <2>8. ReviewedWereProcessed'
    BY <1>1, <1>2, <1>6, <2>1, <2>2, <2>6, <2>7, CommitEffect DEF CommitProcess
  <2> QED
    BY <2>5, <2>8
<1>7. CASE CommitReset(s)
  <2> DEFINE new == ResetRow(q.row, q.cfg)
             f == Flushed(run[q.run], q.row, new)
             row == [f EXCEPT !.meta = new.meta]
  <2>1. new \in Row /\ f \in Row /\ row \in Row
    BY <1>2, RowTypes, FlushedType DEF Row
  <2>2. row.status = f.status /\ row.life = f.life
    BY <2>1 DEF Row
  <2>3. new.status = "draft" /\ new.life \notin Reviewed
    BY <1>2 DEF ResetRow, Row, Reviewed
  <2>5. AuditTruthful'
    BY <1>5, <1>7 DEF CommitReset
  <2>6. \A r \in Runs : r \in finalized' => locked'[PeriodOf[r]]
    BY <1>7 DEF CommitReset, IInv, ReviewedWereProcessed
  <2>7. \A r \in Runs : batch'[r] # "none" \/ entries'[r] # {}
          => r \in finalized'
    BY <1>2, <1>7 DEF CommitReset, IInv, TypeInv, TypeOK, ReviewedWereProcessed
  <2>8. ReviewedWereProcessed'
    BY <1>1, <1>2, <1>7, <2>1, <2>2, <2>3, <2>6, <2>7, CommitEffect
       DEF CommitReset
  <2> QED
    BY <2>5, <2>8
<1>8. ASSUME NEW life \in Reviewed, Advance(s, life), q.run \in finalized,
             UNCHANGED <<entries, locked, finalized, batch, audit>>
      PROVE  ReviewedWereProcessed' /\ AuditTruthful'
  <2> DEFINE new == [q.row EXCEPT !.life = life]
             row == Flushed(run[q.run], q.row, new)
  <2>1. new \in Row /\ row \in Row
    BY <1>2, <1>8, FlushedType DEF Row, Reviewed, LifecycleStates
  <2>3. AuditTruthful'
    BY <1>5, <1>8
  <2>4. ReviewedWereProcessed'
    BY <1>1, <1>2, <1>8, <2>1, CommitEffect
       DEF Advance, IInv, ReviewedWereProcessed
  <2> QED
    BY <2>3, <2>4
<1>9. CASE CommitVerify(s) \/ CommitApprove(s)
  <2>1. q.run \in finalized
    BY <1>1, <1>9 DEF CommitVerify, CommitApprove, At, IInv, StaleCopiesBacked
  <2> QED
    BY <1>8, <1>9, <2>1 DEF CommitVerify, CommitApprove, Reviewed
<1>10. CASE CommitLock(s)
  <2> DEFINE frozen == [frozen |-> TRUE, lines |-> q.lines,
                        total |-> q.row.total]
             new == [q.row EXCEPT !.life = "locked", !.final = frozen]
             f == Flushed(run[q.run], q.row, new)
             row == [f EXCEPT !.final = frozen]
  <2>1. frozen \in FinalSnapshot
    BY <1>2 DEF FinalSnapshot, Row
  <2>2. new \in Row
    BY <1>2, <2>1 DEF Row, LifecycleStates
  <2>3. f \in Row /\ row \in Row
    BY <1>2, <2>1, <2>2, FlushedType DEF Row
  <2>4. row.status = f.status /\ row.life = f.life
    BY <2>3 DEF Row
  <2>6. run' = [run EXCEPT ![q.run] = row]
    BY <1>10 DEF CommitLock
  <2>7. AuditTruthful'
    BY <1>5, <1>10 DEF CommitLock
  <2>8. q.run \in finalized
    BY <1>1, <1>10 DEF CommitLock, At, IInv, StaleCopiesBacked
  <2>9. ReviewedWereProcessed'
    BY <1>1, <1>2, <1>10, <2>2, <2>3, <2>4, <2>6, <2>8, CommitEffect
       DEF CommitLock, IInv, ReviewedWereProcessed
  <2> QED
    BY <2>7, <2>9
<1>11. CASE RecordLifecycleAudit(s)
  <2>1. /\ q.run \in finalized
        /\ q.op \in {"verify", "approve", "lock"}
        /\ q.op = "lock" => run[q.run].final # NoSnapshot
    BY <1>1, <1>11 DEF RecordLifecycleAudit, IInv, StaleCopiesBacked
  <2>2. ASSUME NEW r \in Runs
        PROVE  /\ "LOCK_PAYROLL" \in audit'[r] =>
                    Exists(r) /\ run[r].final # NoSnapshot
               /\ audit'[r] \cap {"VERIFY_PAYROLL", "APPROVE_PAYROLL"} # {}
                    => r \in finalized
    <3>1. audit' = [audit EXCEPT ![q.run] = @ \cup {ActionOf(q.op)}]
      BY <1>11 DEF RecordLifecycleAudit
    <3>2. q.op # "lock" => ActionOf(q.op) # "LOCK_PAYROLL"
      BY <2>1 DEF ActionOf
    <3>3. CASE r = q.run
      BY <1>2, <2>1, <3>1, <3>2, <3>3
         DEF IInv, TypeInv, TypeOK, AuditTruthful
    <3>4. CASE r # q.run
      BY <3>1, <3>4 DEF IInv, TypeInv, TypeOK, AuditTruthful
    <3> QED
      BY <3>3, <3>4
  <2> QED
    BY <1>11, <2>2 DEF RecordLifecycleAudit, AuditTruthful, Exists, IInv,
       ReviewedWereProcessed
<1>12. CASE CommitBatch(s)
  <2>1. q.run \in finalized
    BY <1>1, <1>12 DEF CommitBatch, At, IInv, StaleCopiesBacked
  <2> QED
    BY <1>2, <1>12, <2>1 DEF CommitBatch, Exists, IInv, TypeInv, TypeOK,
       ReviewedWereProcessed, AuditTruthful
<1> QED
  BY <1>4, <1>6, <1>7, <1>9, <1>10, <1>11, <1>12 DEF Step

\* A step of one session leaves every session's memory backed.
LEMMA IInvStepSess ==
  ASSUME IInv, NEW s \in Sessions, Begin(s) \/ Step(s)
  PROVE  StaleCopiesBacked'
<1> DEFINE q == sess[s]
           Backed(p) == /\ run'[p.run].status # "none"
                        /\ \/ p.row.status = "processed"
                           \/ p.row.life \in Reviewed
                           \/ p.op \in {"verify", "approve", "lock", "batch"}
                           => p.run \in finalized'
                        /\ p.pc = "saved" => p.op \in {"verify", "approve", "lock"}
                        /\ p.pc = "saved" /\ p.op = "lock"
                             => run'[p.run].final # NoSnapshot
<1>1. SUFFICES ASSUME NEW t \in Sessions, sess'[t].pc # "idle"
               PROVE  Backed(sess'[t])
  BY DEF StaleCopiesBacked, Exists
<1>2. CASE Begin(s)
  <2>1. UNCHANGED <<run, finalized>>
    BY <1>2 DEF Begin, BeginProcess, BeginReset, BeginVerify, BeginApprove,
       BeginLock, BeginBatch, Load
  <2>2. CASE t # s
    <3>1. sess'[t] = sess[t]
      BY <1>2, <2>2 DEF Begin, BeginProcess, BeginReset, BeginVerify,
         BeginApprove, BeginLock, BeginBatch, Load, IInv, TypeInv, TypeOK
    <3> QED
      BY <1>1, <2>1, <3>1 DEF IInv, StaleCopiesBacked, Exists
  <2>3. CASE t = s
    <3>1. PICK r \in Runs, op \in Operations :
            /\ Exists(r)
            /\ op \in {"verify", "approve", "lock", "batch"} =>
                 run[r].status = "processed" \/ run[r].life \in Reviewed
            /\ sess' = [sess EXCEPT ![s] =
                 [pc |-> "loaded", op |-> op, run |-> r, row |-> run[r],
                  cfg |-> settings, lines |-> {}]]
      BY <1>2 DEF Begin, BeginProcess, BeginReset, BeginVerify, BeginApprove,
         BeginLock, BeginBatch, Load, Operations, Reviewed
    <3>2. /\ sess'[s].pc = "loaded" /\ sess'[s].op = op /\ sess'[s].run = r
          /\ sess'[s].row = run[r]
      BY <3>1 DEF IInv, TypeInv, TypeOK
    <3>3. run[r].status = "processed" \/ run[r].life \in Reviewed
            => r \in finalized
      BY <3>1 DEF IInv, ReviewedWereProcessed
    <3> QED
      BY <2>1, <2>3, <3>1, <3>2, <3>3 DEF Exists
  <2> QED
    BY <2>2, <2>3
<1>3. CASE Step(s)
  <2>1. finalized \subseteq finalized'
    BY <1>3 DEF Step, Gather, CommitProcess, RollBackProcess, DeleteEntries,
       CommitReset, CommitVerify, CommitApprove, SnapshotEntries, CommitLock,
       RecordLifecycleAudit, CommitBatch, EndRequest
  <2>2. ASSUME NEW p \in Request, p.run \in Runs, Exists(p.run),
               p.pc = "saved" /\ p.op = "lock" => run[p.run].final # NoSnapshot
        PROVE  /\ run'[p.run].status # "none"
               /\ p.pc = "saved" /\ p.op = "lock"
                    => run'[p.run].final # NoSnapshot
    BY <1>3, <2>2, FinalKept DEF Exists
  <2>3. ASSUME NEW p \in Sessions, sess[p].pc # "idle"
        PROVE  Backed(sess[p])
    <3>1. sess[p] \in Request /\ sess[p].run \in Runs
      BY <2>3, Typed DEF IInv, TypeInv, Request
    <3> QED
      BY <2>1, <2>2, <2>3, <3>1 DEF IInv, StaleCopiesBacked
  <2>4. CASE t # s
    <3>1. sess'[t] = sess[t]
      BY <1>3, <2>4 DEF Step, Gather, CommitProcess, RollBackProcess,
         DeleteEntries, CommitReset, CommitVerify, CommitApprove,
         SnapshotEntries, CommitLock, RecordLifecycleAudit, CommitBatch,
         EndRequest, Move, IInv, TypeInv, TypeOK
    <3> QED
      BY <1>1, <2>3, <3>1
  <2>5. CASE t = s
    <3>1. q.pc # "idle" /\ q \in Request
      BY <1>3, Holding
    <3>2. /\ sess'[s].run = q.run /\ sess'[s].row = q.row /\ sess'[s].op = q.op
          /\ sess'[s].pc = "saved" =>
               \/ CommitVerify(s) \/ CommitApprove(s) \/ CommitLock(s)
      <4>1. CASE Gather(s) \/ DeleteEntries(s) \/ SnapshotEntries(s)
        BY <3>1, <4>1 DEF Gather, DeleteEntries, SnapshotEntries, IInv, TypeInv,
           TypeOK, Request
      <4>2. ASSUME NEW pc \in Steps, Move(s, pc)
            PROVE  /\ sess'[s].run = q.run /\ sess'[s].row = q.row
                   /\ sess'[s].op = q.op /\ sess'[s].pc = pc
        BY <3>1, <4>2 DEF Move, IInv, TypeInv, TypeOK, Request
      <4>3. CASE \/ CommitProcess(s) \/ RollBackProcess(s) \/ CommitReset(s)
                 \/ RecordLifecycleAudit(s) \/ CommitBatch(s)
        <5>1. Move(s, "done") \/ Move(s, "failed")
          BY <4>3 DEF CommitProcess, RollBackProcess, CommitReset,
             RecordLifecycleAudit, CommitBatch
        <5> QED
          BY <4>2, <5>1 DEF Steps
      <4>4. CASE CommitVerify(s) \/ CommitApprove(s) \/ CommitLock(s)
        <5>1. Move(s, "saved")
          BY <4>4 DEF CommitVerify, CommitApprove, CommitLock
        <5> QED
          BY <4>2, <4>4, <5>1 DEF Steps
      <4>5. ~EndRequest(s)
        BY <1>1, <2>5 DEF EndRequest, Idle, IInv, TypeInv, TypeOK
      <4> QED
        BY <1>3, <4>1, <4>3, <4>4, <4>5 DEF Step
    <3>3. /\ CommitVerify(s) => q.op = "verify"
          /\ CommitApprove(s) => q.op = "approve"
          /\ CommitLock(s) => q.op = "lock"
      BY DEF CommitVerify, CommitApprove, CommitLock, At
    <3>4. CommitLock(s) => run'[q.run].final # NoSnapshot
      BY <1>3, FinalKept
    <3>5. Backed(q)
      BY <2>3, <3>1
    <3> QED
      BY <2>5, <3>2, <3>3, <3>4, <3>5
  <2> QED
    BY <2>4, <2>5
<1> QED
  BY <1>2, <1>3

LEMMA IInvNext == IInv /\ [Next]_vars => IInv'
<1> SUFFICES ASSUME IInv, [Next]_vars PROVE IInv'
  OBVIOUS
<1>1. TypeInv'
  BY TypeNext DEF IInv
<1>2. ASSUME NEW s \in Sessions, Step(s)
      PROVE  IInv'
  BY <1>1, <1>2, IInvStepDb, IInvStepSess DEF IInv
<1>3. ASSUME NEW s \in Sessions, Begin(s)
      PROVE  IInv'
  <2>1. UNCHANGED <<run, entries, locked, finalized, batch, audit>>
    BY <1>3 DEF Begin, BeginProcess, BeginReset, BeginVerify, BeginApprove,
       BeginLock, BeginBatch, Load
  <2>2. ReviewedWereProcessed' /\ AuditTruthful'
    BY <2>1 DEF IInv, ReviewedWereProcessed, AuditTruthful, Exists
  <2> QED
    BY <1>1, <1>3, <2>2, IInvStepSess DEF IInv
\* A new run is neither processed nor reviewed, and no session holds it yet.
<1>4. ASSUME NEW r \in Runs, CreatePayroll(r)
      PROVE  IInv'
  <2>1. /\ run' = [run EXCEPT ![r] = NewRow(settings)]
        /\ ~Exists(r)
        /\ UNCHANGED <<entries, locked, finalized, batch, audit, sess>>
    BY <1>4 DEF CreatePayroll
  <2>2. /\ run'[r].status = "draft" /\ run'[r].life \notin Reviewed
        /\ \A x \in Runs \ {r} : run'[x] = run[x]
    BY <2>1 DEF IInv, TypeInv, TypeOK, NewRow, Reviewed
  <2>3. ReviewedWereProcessed'
    BY <2>1, <2>2 DEF IInv, ReviewedWereProcessed, Exists
  <2>4. AuditTruthful'
    BY <2>1, <2>2 DEF IInv, AuditTruthful, Exists
  <2>5. \A s \in Sessions : sess[s].pc # "idle" =>
          sess[s].run \in Runs \ {r}
    BY <2>1, Typed DEF IInv, TypeInv, Request
  <2>6. StaleCopiesBacked'
    BY <2>1, <2>2, <2>5 DEF IInv, StaleCopiesBacked, Exists
  <2> QED
    BY <1>1, <2>3, <2>4, <2>6 DEF IInv
<1>5. ASSUME NEW r \in Runs, DenyLocked(r)
      PROVE  IInv'
  <2>1. \A x \in Runs : audit'[x] \in {audit[x], audit[x] \cup {"MODIFY_DENIED"}}
    BY <1>5 DEF DenyLocked, IInv, TypeInv, TypeOK
  <2>2. AuditTruthful'
    BY <1>5, <2>1 DEF DenyLocked, IInv, AuditTruthful, Exists
  <2> QED
    BY <1>1, <1>5, <2>2 DEF DenyLocked, IInv, ReviewedWereProcessed,
       StaleCopiesBacked, Exists
<1>6. ASSUME NEW r \in Runs, BatchMoves(r)
      PROVE  IInv'
  <2>1. \A x \in Runs : batch'[x] # "none" => batch[x] # "none"
    BY <1>6 DEF BatchMoves, IInv, TypeInv, TypeOK
  <2> QED
    BY <1>1, <1>6, <2>1 DEF BatchMoves, IInv, ReviewedWereProcessed,
       AuditTruthful, StaleCopiesBacked, Exists
<1>7. CASE ChangeSettings \/ UNCHANGED vars
  BY <1>1, <1>7 DEF ChangeSettings, vars, IInv, ReviewedWereProcessed,
     AuditTruthful, StaleCopiesBacked, Exists
<1> QED
  BY <1>2, <1>3, <1>4, <1>5, <1>6, <1>7 DEF Next

LEMMA Inductive == Spec => []IInv
BY IInvInit, IInvNext, PTL DEF Spec

\* However requests interleave, a run that is processed, reviewed, paid out or
\* has lines went through the one computation that published its event, and the
\* attendance of its period is locked.
THEOREM ReviewedAlwaysProcessed == Spec => []ReviewedWereProcessed
<1>1. IInv => ReviewedWereProcessed
  BY DEF IInv
<1> QED
  BY <1>1, Inductive, PTL

\* However requests interleave, the log of reviews only says what happened.
THEOREM AuditAlwaysTruthful == Spec => []AuditTruthful
<1>1. IInv => AuditTruthful
  BY DEF IInv
<1> QED
  BY <1>1, Inductive, PTL

\* However old the objects of a session are, the run it is about to commit a
\* review or a batch for was computed.
THEOREM CopiesAlwaysBacked == Spec => []StaleCopiesBacked
<1>1. IInv => StaleCopiesBacked
  BY DEF IInv
<1> QED
  BY <1>1, Inductive, PTL

\* However requests interleave, payroll is computed for drafts only: never for a
\* run that is processed, reviewed, has lines or is in a salary batch.
THEOREM OnlyDraftsProcessed == Spec => ProcessOnlyDrafts
<1> DEFINE A == \A s \in Sessions :
             LET r == sess[s].run IN
             sess[s].pc = "read" /\ sess[s].op = "process" /\ sess'[s].pc = "done"
               => /\ run[r].status = "draft" /\ run[r].life \notin Reviewed
                  /\ entries[r] = {} /\ batch[r] = "none"
<1>1. IInv /\ [Next]_vars => [A]_vars
  <2> SUFFICES ASSUME IInv, Next, NEW s \in Sessions,
                      sess[s].pc = "read", sess[s].op = "process",
                      sess'[s].pc = "done"
               PROVE  LET r == sess[s].run IN
                      /\ run[r].status = "draft" /\ run[r].life \notin Reviewed
                      /\ entries[r] = {} /\ batch[r] = "none"
    OBVIOUS
  <2> DEFINE r == sess[s].run
  <2>1. /\ r \in Runs /\ Exists(r) /\ run[r] \in Row
    BY Typed DEF IInv, TypeInv, Request
  <2>2. CommitProcess(s)
    <3>1. ASSUME NEW t \in Sessions, t # s, Begin(t) \/ Step(t)
          PROVE  sess'[s] = sess[s]
      BY <3>1 DEF Begin, BeginProcess, BeginReset, BeginVerify, BeginApprove,
         BeginLock, BeginBatch, Load, Step, Gather, CommitProcess,
         RollBackProcess, DeleteEntries, CommitReset, CommitVerify,
         CommitApprove, SnapshotEntries, CommitLock, RecordLifecycleAudit,
         CommitBatch, EndRequest, Move, IInv, TypeInv, TypeOK
    <3>2. ~Begin(s)
      BY DEF Begin, BeginProcess, BeginReset, BeginVerify, BeginApprove,
         BeginLock, BeginBatch, Load
    <3>3. Begin(s) \/ Step(s)
      BY <3>1 DEF Next, CreatePayroll, DenyLocked, BatchMoves, ChangeSettings
    <3>4. ~RollBackProcess(s)
      <4>1. sess \in [Sessions -> Request \cup {Idle}]
        BY DEF IInv, TypeInv, TypeOK
      <4>2. sess[s] \in Request
        BY Typed DEF IInv, TypeInv
      <4>3. [sess[s] EXCEPT !.pc = "failed"].pc = "failed"
        BY <4>2 DEF Request
      <4> QED
        BY <4>1, <4>3 DEF RollBackProcess, Move
    <3>5. ~EndRequest(s)
      BY DEF EndRequest, Idle, IInv, TypeInv, TypeOK
    <3> QED
      BY <3>2, <3>3, <3>4, <3>5 DEF Step, At, Gather, DeleteEntries, CommitReset,
         CommitVerify, CommitApprove, SnapshotEntries, CommitLock,
         RecordLifecycleAudit, CommitBatch
  <2>3. r \notin finalized
    BY <2>2 DEF CommitProcess, UniqueViolation
  <2> QED
    BY <2>1, <2>3 DEF IInv, ReviewedWereProcessed, Row, Statuses
<1> QED
  BY <1>1, Inductive, PTL DEF Spec, ProcessOnlyDrafts
=============================================================================
