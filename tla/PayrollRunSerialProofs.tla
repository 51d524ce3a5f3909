----------------------- MODULE PayrollRunSerialProofs -----------------------
(***************************************************************************)
(* Theorems about PayrollRun while requests on the same run do not         *)
(* overlap: requests on different runs may still be handled at the same    *)
(* time, and settings and batches may change under any of them.            *)
(***************************************************************************)
EXTENDS PayrollRunProofs

\* No two requests hold the same run.
NoOverlap ==
  \A s, t \in Sessions :
    s # t /\ sess[s].pc # "idle" /\ sess[t].pc # "idle" => sess[s].run # sess[t].run

\* The row of a run, with its lines and its batch.
Whole(r) ==
  /\ Exists(r) =>
       /\ run[r].total = entries[r]
       /\ run[r].status = "processed" <=> run[r].meta.snapshot
       /\ run[r].life \in Reviewed => run[r].status = "processed"
       /\ run[r].final # NoSnapshot =>
            /\ run[r].life = "locked"
            /\ entries[r] = run[r].final.lines /\ run[r].total = run[r].final.total
  /\ batch[r] # "none" =>
       Exists(r) /\ run[r].status = "processed" /\ run[r].life \in {"approved", "locked"}
  /\ ~Exists(r) => entries[r] = {}

\* What a request that has not written yet holds is the run as it is, and what it
\* checked still holds of it.
Current(q) ==
  q.pc \in {"loaded", "read"} =>
    /\ q.row = run[q.run]
    /\ q.op = "process" /\ q.pc = "read" => q.row.status # "processed"
    /\ q.op = "reset" => q.row.life \in {"null", "draft"}
    /\ q.op = "verify" => q.row.status = "processed" /\ q.row.life = "draft"
    /\ q.op = "approve" => q.row.life = "verified"
    /\ q.op = "lock" => q.row.life = "approved"
    /\ q.op = "batch" => q.row.status = "processed" /\ q.row.life \in {"approved", "locked"}
    /\ q.op \in {"reset", "lock"} /\ q.pc = "read" => q.lines = entries[q.run]

SInv ==
  /\ IInv
  /\ \A r \in Runs : Whole(r)
  /\ \A s \in Sessions : sess[s].pc # "idle" => Current(sess[s])
------------------------------------------------------------------------------
(* Facts about rows and requests. *)

\* A flush of an object that is the committed row writes exactly what was changed.
LEMMA FlushedSame ==
  ASSUME NEW current \in Row, NEW changed \in Row
  PROVE  Flushed(current, current, changed) = changed
<1>1. /\ DOMAIN current = {"status", "exec", "life", "total", "meta", "final"}
      /\ DOMAIN changed = {"status", "exec", "life", "total", "meta", "final"}
      /\ changed = [c \in DOMAIN changed |-> changed[c]]
  BY DEF Row
<1>2. Flushed(current, current, changed) = [c \in DOMAIN changed |-> changed[c]]
  BY <1>1 DEF Flushed
<1> QED
  BY <1>1, <1>2

LEMMA SameColumn ==
  ASSUME NEW row \in Row
  PROVE  [row EXCEPT !.meta = row.meta] = row /\ [row EXCEPT !.final = row.final] = row
BY DEF Row

\* The columns of a processed and of a reset row.
LEMMA ProcessedColumns ==
  ASSUME NEW row \in Row, NEW cfg \in Settings, NEW lines \in SUBSET Lines, NEW new,
         new = ProcessedRow(row, lines, cfg)
  PROVE  /\ new \in Row /\ new.status = "processed" /\ new.total = lines
         /\ new.final = row.final /\ new.meta = [cfg |-> cfg, snapshot |-> TRUE]
         /\ new.life = IF row.life = "null" THEN "draft" ELSE row.life
<1>1. new \in Row
  BY RowTypes
<1> QED
  BY <1>1 DEF Row, ProcessedRow

LEMMA ResetColumns ==
  ASSUME NEW row \in Row, NEW cfg \in Settings, NEW new, new = ResetRow(row, cfg)
  PROVE  /\ new \in Row /\ new.status = "draft" /\ new.total = {}
         /\ new.final = row.final /\ new.meta = [cfg |-> cfg, snapshot |-> FALSE]
         /\ new.life = "draft"
<1>1. new \in Row
  BY RowTypes
<1> QED
  BY <1>1 DEF Row, ResetRow

LEMMA Held ==
  ASSUME SInv, NEW s \in Sessions, sess[s].pc # "idle"
  PROVE  /\ sess[s] \in Request /\ sess[s].run \in Runs /\ sess[s].row \in Row
         /\ sess[s].cfg \in Settings /\ sess[s].lines \in SUBSET Lines
         /\ Exists(sess[s].run) /\ run[sess[s].run] \in Row
         /\ Current(sess[s]) /\ Whole(sess[s].run)
BY Typed DEF SInv, IInv, TypeInv, Request

\* A step of one request touches its own run only, and no other request holds that run.
LEMMA OwnRunOnly ==
  ASSUME SInv, NoOverlap, IInv', NEW s \in Sessions, NEW r \in Runs,
         sess[s].pc # "idle" => r = sess[s].run,
         sess[s].pc = "idle" => UNCHANGED <<run, entries, batch>>,
         \A x \in Runs \ {r} :
           run'[x] = run[x] /\ entries'[x] = entries[x] /\ batch'[x] = batch[x],
         Whole(r)',
         \A t \in Sessions \ {s} : sess'[t] = sess[t],
         sess'[s].pc # "idle" => Current(sess[s])'
  PROVE  SInv'
<1>1. ASSUME NEW x \in Runs PROVE Whole(x)'
  <2>1. CASE x = r
    BY <2>1
  <2>2. CASE x # r
    BY <2>2 DEF SInv, Whole, Exists
  <2> QED
    BY <2>1, <2>2
<1>2. ASSUME NEW t \in Sessions, sess'[t].pc # "idle" PROVE Current(sess[t])'
  <2>1. CASE t = s
    BY <1>2, <2>1
  <2>2. CASE t # s
    <3>1. sess'[t] = sess[t] /\ sess[t].pc # "idle"
      BY <1>2, <2>2
    <3>2. sess[t].run \in Runs /\ Current(sess[t])
      BY <3>1, Held
    <3>3. run'[sess[t].run] = run[sess[t].run] /\ entries'[sess[t].run] = entries[sess[t].run]
      <4>1. CASE sess[s].pc # "idle"
        BY <2>2, <3>1, <3>2, <4>1 DEF NoOverlap
      <4>2. CASE sess[s].pc = "idle"
        BY <4>2
      <4> QED
        BY <4>1, <4>2
    <3> QED
      BY <3>1, <3>2, <3>3 DEF Current
  <2> QED
    BY <2>1, <2>2
<1> QED
  BY <1>1, <1>2 DEF SInv

LEMMA Moved ==
  ASSUME SInv, NEW s \in Sessions, sess[s].pc # "idle", NEW pc, Move(s, pc)
  PROVE  /\ sess'[s].pc = pc /\ sess'[s].run = sess[s].run /\ sess'[s].op = sess[s].op
         /\ \A t \in Sessions \ {s} : sess'[t] = sess[t]
<1>1. sess \in [Sessions -> Request \cup {Idle}] /\ sess[s] \in Request
  BY Held DEF SInv, IInv, TypeInv, TypeOK
<1>2. sess' = [sess EXCEPT ![s] = [sess[s] EXCEPT !.pc = pc]]
  BY DEF Move
<1> QED
  BY <1>1, <1>2 DEF Request
------------------------------------------------------------------------------
(* The steps that write. *)

LEMMA ProcessWhole ==
  ASSUME SInv, NEW s \in Sessions, CommitProcess(s), NEW r \in Runs, r = sess[s].run
  PROVE  /\ Whole(r)'
         /\ run[r].status = "draft" /\ run[r].life \in {"null", "draft"}
         /\ run' = [run EXCEPT ![r] =
              ProcessedRow(run[r], sess[s].lines, sess[s].cfg)]
         /\ run'[r].life = "draft"
<1> DEFINE q == sess[s]
           new == ProcessedRow(run[r], q.lines, q.cfg)
<1>1. q.pc = "read" /\ q.op = "process" /\ q.pc # "idle"
  BY DEF CommitProcess, At
<1>2. /\ r \in Runs /\ run[r] \in Row /\ q.cfg \in Settings /\ q.lines \in SUBSET Lines
      /\ Exists(r) /\ Current(q) /\ Whole(r)
  BY <1>1, Held
<1>3. q.row = run[r] /\ run[r].status # "processed"
  BY <1>1, <1>2 DEF Current
<1>4. run[r].status = "draft" /\ run[r].life \in {"null", "draft"} /\ run[r].final = NoSnapshot
  BY <1>2, <1>3 DEF Whole, Row, Statuses, LifecycleStates, Reviewed
<1>5. new = ProcessedRow(run[r], q.lines, q.cfg)
  OBVIOUS
<1> HIDE DEF new
<1>6. /\ new \in Row /\ new.status = "processed" /\ new.total = q.lines
      /\ new.final = NoSnapshot /\ new.meta = [cfg |-> q.cfg, snapshot |-> TRUE]
      /\ new.life = "draft"
  BY <1>2, <1>4, <1>5, ProcessedColumns
<1>7. run' = [run EXCEPT ![r] = [Flushed(run[r], q.row, new) EXCEPT !.meta = new.meta]]
      /\ entries' = [entries EXCEPT ![r] = entries[r] \cup q.lines] /\ batch' = batch
  BY <1>3, <1>5 DEF CommitProcess
<1>8. run' = [run EXCEPT ![r] = new]
  <2>1. Flushed(run[r], q.row, new) = new
    BY <1>2, <1>3, <1>6, FlushedSame
  <2>2. [new EXCEPT !.meta = new.meta] = new
    BY <1>6, SameColumn
  <2> QED
    BY <1>7, <2>1, <2>2
<1>9. entries[r] = {} /\ batch[r] = "none"
  BY <1>2 DEF CommitProcess, UniqueViolation, SInv, IInv, ReviewedWereProcessed
<1>10. run'[r] = new /\ entries'[r] = q.lines /\ batch'[r] = "none"
  BY <1>2, <1>7, <1>8, <1>9 DEF SInv, IInv, TypeInv, TypeOK
<1>11. new.meta.snapshot
  BY <1>6
<1>12. Whole(r)'
  BY <1>6, <1>10, <1>11 DEF Whole, Exists, Reviewed
<1> QED
  BY <1>4, <1>5, <1>6, <1>8, <1>10, <1>12

LEMMA ResetWhole ==
  ASSUME SInv, NEW s \in Sessions, CommitReset(s), NEW r \in Runs, r = sess[s].run
  PROVE  /\ Whole(r)' /\ run[r].life \in {"null", "draft"}
         /\ run' = [run EXCEPT ![r] = ResetRow(run[r], sess[s].cfg)]
         /\ run'[r].life = "draft"
<1> DEFINE q == sess[s]
           new == ResetRow(run[r], q.cfg)
<1>1. q.pc = "read" /\ q.op = "reset" /\ q.pc # "idle"
  BY DEF CommitReset, At
<1>2. /\ r \in Runs /\ run[r] \in Row /\ q.cfg \in Settings /\ q.lines \in SUBSET Lines
      /\ Exists(r) /\ Current(q) /\ Whole(r)
  BY <1>1, Held
<1>3. q.row = run[r] /\ run[r].life \in {"null", "draft"} /\ q.lines = entries[r]
  BY <1>1, <1>2 DEF Current
<1>4. run[r].final = NoSnapshot /\ batch[r] = "none"
  BY <1>2, <1>3 DEF Whole
<1>5. new = ResetRow(run[r], q.cfg)
  OBVIOUS
<1> HIDE DEF new
<1>6. /\ new \in Row /\ new.status = "draft" /\ new.total = {}
      /\ new.final = NoSnapshot /\ new.meta = [cfg |-> q.cfg, snapshot |-> FALSE]
      /\ new.life = "draft"
  BY <1>2, <1>4, <1>5, ResetColumns
<1>7. run' = [run EXCEPT ![r] = [Flushed(run[r], q.row, new) EXCEPT !.meta = new.meta]]
      /\ entries' = [entries EXCEPT ![r] = entries[r] \ q.lines] /\ batch' = batch
  BY <1>3, <1>5 DEF CommitReset
<1>8. run' = [run EXCEPT ![r] = new]
  <2>1. Flushed(run[r], q.row, new) = new
    BY <1>2, <1>3, <1>6, FlushedSame
  <2>2. [new EXCEPT !.meta = new.meta] = new
    BY <1>6, SameColumn
  <2> QED
    BY <1>7, <2>1, <2>2
<1>9. run'[r] = new /\ entries'[r] = {} /\ batch'[r] = "none"
  BY <1>2, <1>3, <1>4, <1>7, <1>8 DEF SInv, IInv, TypeInv, TypeOK
<1>10. ~new.meta.snapshot
  BY <1>6
<1>11. Whole(r)'
  BY <1>6, <1>9, <1>10 DEF Whole, Exists, Reviewed
<1> QED
  BY <1>3, <1>5, <1>6, <1>8, <1>9, <1>11

\* Verification and approval change the stage and nothing else.
LEMMA AdvanceWhole ==
  ASSUME SInv, NEW s \in Sessions, sess[s].pc = "loaded", NEW r \in Runs, r = sess[s].run,
         NEW life \in {"verified", "approved"},
         life = "verified" => sess[s].op = "verify",
         life = "approved" => sess[s].op = "approve",
         Advance(s, life), UNCHANGED <<entries, batch>>
  PROVE  /\ Whole(r)'
         /\ run' = [run EXCEPT ![r] = [run[r] EXCEPT !.life = life]]
         /\ life = "verified" => run[r].life = "draft"
         /\ life = "approved" => run[r].life = "verified"
<1> DEFINE q == sess[s]
           new == [run[r] EXCEPT !.life = life]
<1>1. /\ r \in Runs /\ run[r] \in Row /\ Exists(r) /\ Current(q) /\ Whole(r)
  BY Held
<1>2. /\ q.row = run[r]
      /\ life = "verified" => run[r].status = "processed" /\ run[r].life = "draft"
      /\ life = "approved" => run[r].life = "verified"
  BY <1>1 DEF Current
<1>3. /\ new \in Row /\ new.life = life /\ new.status = run[r].status /\ new.total = run[r].total
      /\ new.meta = run[r].meta /\ new.final = run[r].final
  BY <1>1 DEF Row, LifecycleStates
<1>4. run' = [run EXCEPT ![r] = Flushed(run[r], q.row, new)]
  BY <1>2 DEF Advance
<1> HIDE DEF new
<1>5. run' = [run EXCEPT ![r] = new]
  BY <1>1, <1>2, <1>3, <1>4, FlushedSame
<1>6. run'[r] = new /\ entries'[r] = entries[r] /\ batch'[r] = batch[r]
  BY <1>1, <1>5 DEF SInv, IInv, TypeInv, TypeOK
<1>7. run[r].status = "processed" /\ run[r].final = NoSnapshot
  BY <1>1, <1>2 DEF Whole, Reviewed
<1>8. batch[r] = "none"
  BY <1>1, <1>2 DEF Whole
<1>9. Whole(r)'
  BY <1>1, <1>3, <1>6, <1>7, <1>8 DEF Whole, Exists
<1> QED
  BY <1>2, <1>5, <1>9 DEF new

LEMMA LockWhole ==
  ASSUME SInv, NEW s \in Sessions, CommitLock(s), NEW r \in Runs, r = sess[s].run
  PROVE  /\ Whole(r)' /\ run[r].life = "approved"
         /\ \A x \in Runs \ {r} : run'[x] = run[x]
         /\ Exists(r)' /\ run'[r].life = "locked"
         /\ run'[r].status = run[r].status
         /\ run'[r].total = run[r].total
<1> DEFINE q == sess[s]
           frozen == [frozen |-> TRUE, lines |-> q.lines, total |-> q.row.total]
           new == [q.row EXCEPT !.life = "locked", !.final = frozen]
<1>1. q.pc = "read" /\ q.op = "lock" /\ q.pc # "idle"
  BY DEF CommitLock, At
<1>2. /\ r \in Runs /\ run[r] \in Row /\ q.lines \in SUBSET Lines
      /\ Exists(r) /\ Current(q) /\ Whole(r)
  BY <1>1, Held
<1>3. q.row = run[r] /\ run[r].life = "approved" /\ q.lines = entries[r]
  BY <1>1, <1>2 DEF Current
<1>4. run' = [run EXCEPT ![r] = [Flushed(run[r], q.row, new) EXCEPT !.final = frozen]]
      /\ UNCHANGED <<entries, batch>>
  BY DEF CommitLock
<1>5. frozen \in FinalSnapshot /\ frozen.lines = entries[r] /\ frozen.total = run[r].total
  BY <1>2, <1>3 DEF FinalSnapshot, Row
<1> HIDE DEF frozen
<1>6. /\ new \in Row /\ new.life = "locked" /\ new.status = run[r].status
      /\ new.total = run[r].total /\ new.meta = run[r].meta /\ new.final = frozen
  BY <1>2, <1>3, <1>5 DEF Row, LifecycleStates
<1> HIDE DEF new
<1>7. run' = [run EXCEPT ![r] = new]
  <2>1. Flushed(run[r], q.row, new) = new
    BY <1>2, <1>3, <1>6, FlushedSame
  <2>2. [new EXCEPT !.final = frozen] = new
    BY <1>6, SameColumn
  <2> QED
    BY <1>4, <2>1, <2>2
<1>8. run'[r] = new /\ entries'[r] = entries[r] /\ batch'[r] = batch[r]
      /\ \A x \in Runs \ {r} : run'[x] = run[x]
  BY <1>2, <1>4, <1>7 DEF SInv, IInv, TypeInv, TypeOK
<1>9. run[r].status = "processed"
  BY <1>2, <1>3 DEF Whole, Reviewed
<1>10. Whole(r)'
  BY <1>2, <1>5, <1>6, <1>8, <1>9 DEF Whole, Exists
<1>11. Exists(r)'
  BY <1>6, <1>8, <1>9 DEF Exists
<1> QED
  BY <1>3, <1>6, <1>8, <1>10, <1>11
------------------------------------------------------------------------------
(* Every step keeps the invariant. *)

LEMMA SInvInit == Init => SInv
<1> SUFFICES ASSUME Init PROVE SInv
  OBVIOUS
<1>1. \A r \in Runs : Whole(r)
  BY DEF Init, Whole, Exists, NoRow
<1>2. \A s \in Sessions : sess[s].pc = "idle"
  BY DEF Init, Idle
<1> QED
  BY <1>1, <1>2, IInvInit DEF SInv

LEMMA SerialBegin ==
  ASSUME SInv, NoOverlap, IInv', NEW s \in Sessions, Begin(s) PROVE SInv'
<1>1. PICK r \in Runs, op \in Operations :
        /\ sess[s].pc = "idle" /\ Exists(r)
        /\ sess' = [sess EXCEPT ![s] =
             [pc |-> "loaded", op |-> op, run |-> r, row |-> run[r],
              cfg |-> settings, lines |-> {}]]
        /\ UNCHANGED <<run, entries, locked, finalized, settings, batch, audit>>
        /\ op = "reset" => run[r].life \in {"null", "draft"}
        /\ op = "verify" => run[r].status = "processed" /\ run[r].life = "draft"
        /\ op = "approve" => run[r].life = "verified"
        /\ op = "lock" => run[r].life = "approved"
        /\ op = "batch" => run[r].status = "processed" /\ run[r].life \in {"approved", "locked"}
  BY DEF Begin, BeginProcess, BeginReset, BeginVerify, BeginApprove, BeginLock,
     BeginBatch, Load, Operations
<1>2. /\ sess'[s].pc = "loaded" /\ sess'[s].op = op /\ sess'[s].run = r /\ sess'[s].row = run[r]
      /\ \A t \in Sessions \ {s} : sess'[t] = sess[t]
  BY <1>1 DEF SInv, IInv, TypeInv, TypeOK
<1>3. Current(sess[s])'
  BY <1>1, <1>2 DEF Current
<1>4. Whole(r)'
  BY <1>1 DEF SInv, Whole, Exists
<1> QED
  BY <1>1, <1>2, <1>3, <1>4, OwnRunOnly

LEMMA SerialStep ==
  ASSUME SInv, NoOverlap, IInv', NEW s \in Sessions, Step(s) PROVE SInv'
<1>1. sess[s].pc # "idle"
  BY DEF Step, Gather, CommitProcess, RollBackProcess, DeleteEntries,
         CommitReset, CommitVerify, CommitApprove, SnapshotEntries, CommitLock,
         RecordLifecycleAudit, CommitBatch, EndRequest, At
<1>2. PICK r \in Runs : r = sess[s].run
  BY <1>1, Held
<1> DEFINE q == sess[s]
           Alone == /\ \A x \in Runs \ {r} :
                         run'[x] = run[x] /\ entries'[x] = entries[x] /\ batch'[x] = batch[x]
                    /\ Whole(r)'
<1>3. /\ q \in Request /\ q.row \in Row /\ q.cfg \in Settings /\ q.lines \in SUBSET Lines
      /\ Exists(r) /\ run[r] \in Row /\ Current(q) /\ Whole(r)
  BY <1>1, <1>2, Held
<1>4. /\ run \in [Runs -> Row \cup {NoRow}] /\ entries \in [Runs -> SUBSET Lines]
      /\ batch \in [Runs -> BatchStates \cup {"none"}]
      /\ sess \in [Sessions -> Request \cup {Idle}]
  BY DEF SInv, IInv, TypeInv, TypeOK
<1>5. ASSUME UNCHANGED <<run, entries, batch>> PROVE Alone
  BY <1>3, <1>5 DEF Whole, Exists
<1>6. ASSUME NEW pc \in {"done", "failed", "saved"}, Move(s, pc), Alone PROVE SInv'
  <2>1. sess'[s].pc = pc /\ \A t \in Sessions \ {s} : sess'[t] = sess[t]
    BY <1>1, <1>6, Moved
  <2>2. Current(sess[s])'
    BY <2>1 DEF Current
  <2> QED
    BY <1>1, <1>2, <1>6, <2>1, <2>2, OwnRunOnly
<1>7. ASSUME NEW cfg \in Settings, NEW lines \in SUBSET Lines,
             sess' = [sess EXCEPT ![s] = [q EXCEPT !.pc = "read", !.cfg = cfg, !.lines = lines]],
             UNCHANGED <<run, entries, batch>>, q.pc = "loaded",
             q.op = "process" => q.row.status # "processed",
             q.op \in {"reset", "lock"} => lines = entries[r]
      PROVE  SInv'
  <2>1. /\ sess'[s].pc = "read" /\ sess'[s].op = q.op /\ sess'[s].run = r
        /\ sess'[s].row = q.row /\ sess'[s].lines = lines
        /\ \A t \in Sessions \ {s} : sess'[t] = sess[t]
    BY <1>2, <1>3, <1>4, <1>7 DEF Request
  <2>2. Current(sess[s])'
    BY <1>2, <1>3, <1>7, <2>1 DEF Current
  <2> QED
    BY <1>1, <1>2, <1>5, <1>7, <2>1, <2>2, OwnRunOnly
<1>8. CASE Gather(s)
  <2>1. PICK lines \in SUBSET Lines :
          sess' = [sess EXCEPT ![s] = [q EXCEPT !.pc = "read", !.cfg = settings, !.lines = lines]]
    BY <1>8 DEF Gather
  <2>2. settings \in Settings
    BY DEF SInv, IInv, TypeInv, TypeOK
  <2> QED
    BY <1>7, <1>8, <2>1, <2>2 DEF Gather, ProcessAllowed, At
<1>9. CASE DeleteEntries(s)
  <2>1. sess' = [sess EXCEPT ![s] = [q EXCEPT !.pc = "read", !.cfg = settings,
                                              !.lines = entries[r]]]
    BY <1>2, <1>9 DEF DeleteEntries
  <2>2. settings \in Settings /\ entries[r] \in SUBSET Lines
    BY <1>4 DEF SInv, IInv, TypeInv, TypeOK
  <2> QED
    BY <1>7, <1>9, <2>1, <2>2 DEF DeleteEntries, At
<1>10. CASE SnapshotEntries(s)
  <2>1. sess' = [sess EXCEPT ![s] = [q EXCEPT !.pc = "read", !.cfg = q.cfg,
                                              !.lines = entries[r]]]
    BY <1>2, <1>3, <1>10 DEF SnapshotEntries, Request
  <2>2. entries[r] \in SUBSET Lines
    BY <1>4
  <2> QED
    BY <1>3, <1>7, <1>10, <2>1, <2>2 DEF SnapshotEntries, At
<1>11. CASE CommitProcess(s)
  <2>1. Whole(r)'
    BY <1>2, <1>11, ProcessWhole
  <2>2. \A x \in Runs \ {r} : run'[x] = run[x] /\ entries'[x] = entries[x] /\ batch'[x] = batch[x]
    BY <1>2, <1>4, <1>11 DEF CommitProcess
  <2> QED
    BY <1>6, <1>11, <2>1, <2>2 DEF CommitProcess
<1>12. CASE CommitReset(s)
  <2>1. Whole(r)'
    BY <1>2, <1>12, ResetWhole
  <2>2. \A x \in Runs \ {r} : run'[x] = run[x] /\ entries'[x] = entries[x] /\ batch'[x] = batch[x]
    BY <1>2, <1>4, <1>12 DEF CommitReset
  <2> QED
    BY <1>6, <1>12, <2>1, <2>2 DEF CommitReset
<1>13. CASE CommitVerify(s) \/ CommitApprove(s)
  <2>1. PICK life \in {"verified", "approved"} :
          /\ q.pc = "loaded" /\ Advance(s, life)
          /\ life = "verified" => q.op = "verify"
          /\ life = "approved" => q.op = "approve"
    BY <1>13 DEF CommitVerify, CommitApprove, At
  <2>2. UNCHANGED <<entries, batch>> /\ Move(s, "saved")
    BY <1>13 DEF CommitVerify, CommitApprove
  <2>3. Whole(r)'
    BY <1>2, <2>1, <2>2, AdvanceWhole
  <2>4. \A x \in Runs \ {r} : run'[x] = run[x]
    BY <1>2, <1>4, <2>1 DEF Advance
  <2> QED
    BY <1>6, <2>2, <2>3, <2>4
<1>14. CASE CommitLock(s)
  <2>1. Whole(r)' /\ \A x \in Runs \ {r} : run'[x] = run[x]
    BY <1>2, <1>14, LockWhole
  <2> QED
    BY <1>6, <1>14, <2>1 DEF CommitLock
<1>15. CASE RollBackProcess(s) \/ RecordLifecycleAudit(s)
  <2>1. UNCHANGED <<run, entries, batch>> /\ (Move(s, "failed") \/ Move(s, "done"))
    BY <1>15 DEF RollBackProcess, RecordLifecycleAudit
  <2> QED
    BY <1>5, <1>6, <2>1
<1>16. CASE CommitBatch(s)
  <2>1. /\ q.pc = "loaded" /\ q.op = "batch" /\ UNCHANGED <<run, entries>>
        /\ Move(s, "done") \/ Move(s, "failed")
        /\ batch' = batch \/ batch' = [batch EXCEPT ![r] = "hr_pending"]
    BY <1>2, <1>16 DEF CommitBatch, At
  <2>2. run[r].status = "processed" /\ run[r].life \in {"approved", "locked"}
    BY <1>2, <1>3, <2>1 DEF Current
  <2>3. Whole(r)'
    BY <1>3, <2>1, <2>2 DEF Whole, Exists
  <2>4. \A x \in Runs \ {r} : batch'[x] = batch[x]
    BY <1>4, <2>1
  <2> QED
    BY <1>6, <2>1, <2>3, <2>4
<1>17. CASE EndRequest(s)
  <2>1. sess'[s].pc = "idle" /\ \A t \in Sessions \ {s} : sess'[t] = sess[t]
    BY <1>4, <1>17 DEF EndRequest, Idle
  <2>2. UNCHANGED <<run, entries, batch>>
    BY <1>17 DEF EndRequest
  <2> QED
    BY <1>1, <1>2, <1>5, <2>1, <2>2, OwnRunOnly
<1> QED
  BY <1>8, <1>9, <1>10, <1>11, <1>12, <1>13, <1>14, <1>15, <1>16, <1>17 DEF Step

LEMMA SInvNext == SInv /\ NoOverlap /\ [Next]_vars => SInv'
<1> SUFFICES ASSUME SInv, NoOverlap, [Next]_vars PROVE SInv'
  OBVIOUS
<1>1. IInv'
  BY IInvNext DEF SInv
<1>2. ASSUME NEW s \in Sessions, Begin(s) \/ Step(s) PROVE SInv'
  BY <1>1, <1>2, SerialBegin, SerialStep
<1>3. ASSUME NEW r \in Runs, CreatePayroll(r) PROVE SInv'
  <2> DEFINE new == NewRow(settings)
  <2>1. /\ run' = [run EXCEPT ![r] = new] /\ ~Exists(r)
        /\ UNCHANGED <<entries, batch, sess>>
    BY <1>3 DEF CreatePayroll
  <2>2. /\ new.status = "draft" /\ new.life = "null" /\ new.total = {}
        /\ new.final = NoSnapshot /\ ~new.meta.snapshot
    BY DEF NewRow
  <2> HIDE DEF new
  <2>3. run'[r] = new /\ \A x \in Runs \ {r} : run'[x] = run[x]
    BY <2>1 DEF SInv, IInv, TypeInv, TypeOK
  <2>4. entries[r] = {} /\ batch[r] = "none"
    BY <2>1 DEF SInv, Whole
  <2>5. ASSUME NEW x \in Runs PROVE Whole(x)'
    <3>1. CASE x = r
      BY <2>1, <2>2, <2>3, <2>4, <3>1 DEF Whole, Exists, Reviewed
    <3>2. CASE x # r
      BY <2>1, <2>3, <3>2 DEF SInv, Whole, Exists
    <3> QED
      BY <3>1, <3>2
  <2>6. ASSUME NEW s \in Sessions, sess[s].pc # "idle" PROVE Current(sess[s])'
    <3>1. sess[s].run \in Runs /\ sess[s].run # r /\ Current(sess[s])
      BY <2>1, <2>6, Held
    <3> QED
      BY <2>1, <2>3, <3>1 DEF Current
  <2> QED
    BY <1>1, <2>1, <2>5, <2>6 DEF SInv
<1>4. ASSUME NEW r \in Runs, DenyLocked(r) PROVE SInv'
  BY <1>1, <1>4 DEF DenyLocked, SInv, Whole, Current, Exists
<1>5. ASSUME NEW r \in Runs, BatchMoves(r) PROVE SInv'
  <2>1. \A x \in Runs : batch'[x] # "none" => batch[x] # "none"
    BY <1>5 DEF BatchMoves, SInv, IInv, TypeInv, TypeOK
  <2>2. UNCHANGED <<run, entries, sess>>
    BY <1>5 DEF BatchMoves
  <2> QED
    BY <1>1, <2>1, <2>2 DEF SInv, Whole, Current, Exists
<1>6. CASE ChangeSettings
  BY <1>1, <1>6 DEF ChangeSettings, SInv, Whole, Current, Exists
<1>7. CASE UNCHANGED vars
  BY <1>1, <1>7 DEF vars, SInv, Whole, Current, Exists
<1> QED
  BY <1>2, <1>3, <1>4, <1>5, <1>6, <1>7 DEF Next

LEMMA SerialInductive == Spec /\ []NoOverlap => []SInv
BY SInvInit, SInvNext, PTL DEF Spec

\* While requests on the same run do not overlap, a run with a final snapshot stays
\* locked and processed, with exactly the lines and totals of the snapshot.
THEOREM LockedStaysFrozen == Spec /\ []NoOverlap => []LockedRunFrozen
<1>1. SInv => LockedRunFrozen
  BY DEF SInv, Whole, LockedRunFrozen, Reviewed
<1> QED
  BY <1>1, SerialInductive, PTL

\* Under the same condition the totals of the header sum up the lines that are stored,
\* and a processed run holds the snapshot of its inputs.
THEOREM TotalsAlwaysMatch == Spec /\ []NoOverlap => []TotalsMatchEntries
<1>1. SInv => TotalsMatchEntries
  BY DEF SInv, Whole, TotalsMatchEntries
<1> QED
  BY <1>1, SerialInductive, PTL

\* Under the same condition a salary batch is backed by a processed, approved run.
THEOREM BatchAlwaysBacked == Spec /\ []NoOverlap => []BatchBacked
<1>1. SInv => BatchBacked
  BY DEF SInv, Whole, BatchBacked
<1> QED
  BY <1>1, SerialInductive, PTL
------------------------------------------------------------------------------
(* The refinement of the abstract lifecycle. *)

\* What PayrollRun substitutes for the variables of PayrollLifecycle.
Stage == [r \in Runs |-> IF Exists(r) THEN run[r].life ELSE "null"]
Content == [r \in Runs |->
  IF Exists(r) THEN [status |-> run[r].status, lines |-> entries[r], total |-> run[r].total]
  ELSE NoContent]
AllContents == {NoContent} \cup
  [status : Statuses, lines : SUBSET Lines, total : SUBSET Lines]

\* A run that is left alone keeps its stage and its content.
LEMMA OthersMapped ==
  ASSUME NEW r \in Runs, \A x \in Runs \ {r} : run'[x] = run[x] /\ entries'[x] = entries[x]
  PROVE  /\ Stage' = [Stage EXCEPT ![r] = Stage'[r]]
         /\ Content' = [Content EXCEPT ![r] = Content'[r]]
<1>1. \A x \in Runs \ {r} : Stage'[x] = Stage[x] /\ Content'[x] = Content[x]
  BY DEF Stage, Content, Exists
<1> QED
  BY <1>1 DEF Stage, Content

LEMMA UnchangedMapped ==
  ASSUME UNCHANGED <<run, entries>> PROVE UNCHANGED <<Stage, Content>>
BY DEF Stage, Content, Exists

LEMMA MapsToCompute ==
  ASSUME NEW r \in Runs,
         \A x \in Runs \ {r} : run'[x] = run[x] /\ entries'[x] = entries[x],
         Stage[r] \in {"null", "draft"}, Stage'[r] \in {Stage[r], "draft"},
         Content'[r] \in AllContents
  PROVE  Lifecycle!Compute(r)
<1>1. /\ Stage' = [Stage EXCEPT ![r] = Stage'[r]]
      /\ Content' = [Content EXCEPT ![r] = Content'[r]]
  BY OthersMapped
<1>2. \E to \in {Stage[r], "draft"} : Stage' = [Stage EXCEPT ![r] = to]
  BY <1>1
<1>3. \E c \in AllContents : Content' = [Content EXCEPT ![r] = c]
  BY <1>1
<1> QED
  BY <1>2, <1>3 DEF Lifecycle!Compute, Stage, Content, AllContents

LEMMA MapsToReview ==
  ASSUME NEW r \in Runs, NEW from, NEW to,
         \A x \in Runs \ {r} : run'[x] = run[x] /\ entries'[x] = entries[x],
         Stage[r] = from, Stage'[r] = to, Content'[r] = Content[r]
  PROVE  Lifecycle!Review(r, from, to)
<1>1. /\ Stage' = [Stage EXCEPT ![r] = to]
      /\ Content' = [Content EXCEPT ![r] = Content'[r]]
  BY OthersMapped
<1>2. Content' = Content
  BY <1>1 DEF Content
<1> QED
  BY <1>1, <1>2 DEF Lifecycle!Review, Stage, Content

LEMMA LifecycleInit == Init => Lifecycle!Init
<1> SUFFICES ASSUME Init PROVE Lifecycle!Init
  OBVIOUS
<1>1. \A r \in Runs : ~Exists(r)
  BY DEF Init, Exists, NoRow
<1> QED
  BY <1>1 DEF Lifecycle!Init

\* The steps of a request: computing and resetting are Compute, verification, approval
\* and the lock are Review, and the rest leaves stage and content alone.
LEMMA RequestMapped ==
  ASSUME SInv, SInv', NEW s \in Sessions, Step(s)
  PROVE  Lifecycle!Next \/ UNCHANGED <<Stage, Content>>
<1>1. sess[s].pc # "idle"
  BY DEF Step, Gather, CommitProcess, RollBackProcess, DeleteEntries,
         CommitReset, CommitVerify, CommitApprove, SnapshotEntries, CommitLock,
         RecordLifecycleAudit, CommitBatch, EndRequest, At
<1>2. PICK r \in Runs : r = sess[s].run
  BY <1>1, Held
<1>3. /\ Exists(r) /\ run[r] \in Row /\ run \in [Runs -> Row \cup {NoRow}]
      /\ entries \in [Runs -> SUBSET Lines] /\ Stage[r] = run[r].life
      /\ Content[r] = [status |-> run[r].status, lines |-> entries[r], total |-> run[r].total]
  BY <1>1, <1>2, Held DEF SInv, IInv, TypeInv, TypeOK, Stage, Content
<1>4. run'[r] \in Row \cup {NoRow} /\ entries'[r] \in SUBSET Lines
  BY DEF SInv, IInv, TypeInv, TypeOK
<1>5. ASSUME run'[r].life = "draft", run[r].life \in {"null", "draft"}, Exists(r)',
             \A x \in Runs \ {r} : run'[x] = run[x] /\ entries'[x] = entries[x]
      PROVE  Lifecycle!Next
  <2>1. run'[r] \in Row
    BY <1>4, <1>5 DEF Exists, NoRow
  <2>2. Stage'[r] = "draft"
    BY <1>5 DEF Stage
  <2>3. Content'[r] \in AllContents
    BY <1>4, <1>5, <2>1 DEF Content, AllContents, Row
  <2>4. Lifecycle!Compute(r)
    BY <1>3, <1>5, <2>2, <2>3, MapsToCompute
  <2> QED
    BY <2>4 DEF Lifecycle!Next
<1>6. ASSUME NEW to, run'[r].life = to, Exists(r)', entries' = entries,
             \A x \in Runs \ {r} : run'[x] = run[x],
             run'[r].status = run[r].status, run'[r].total = run[r].total
      PROVE  Lifecycle!Review(r, run[r].life, to)
  <2>1. Stage'[r] = to
    BY <1>6 DEF Stage
  <2>2. Content'[r] = Content[r]
    BY <1>3, <1>6 DEF Content
  <2> QED
    BY <1>3, <1>6, <2>1, <2>2, MapsToReview
<1>7. CASE CommitProcess(s)
  <2> DEFINE new == ProcessedRow(run[r], sess[s].lines, sess[s].cfg)
  <2>1. /\ run[r].life \in {"null", "draft"} /\ run'[r].life = "draft"
        /\ run' = [run EXCEPT ![r] = new]
    BY <1>2, <1>7, ProcessWhole
  <2>2. new.status = "processed"
    BY <1>3 DEF ProcessedRow, Row
  <2> HIDE DEF new
  <2>3. Exists(r)' /\ \A x \in Runs \ {r} : run'[x] = run[x] /\ entries'[x] = entries[x]
    BY <1>2, <1>3, <1>7, <2>1, <2>2 DEF CommitProcess, Exists
  <2> QED
    BY <1>5, <2>1, <2>3
<1>8. CASE CommitReset(s)
  <2> DEFINE new == ResetRow(run[r], sess[s].cfg)
  <2>1. /\ run[r].life \in {"null", "draft"} /\ run'[r].life = "draft"
        /\ run' = [run EXCEPT ![r] = new]
    BY <1>2, <1>8, ResetWhole
  <2>2. new.status = "draft"
    BY <1>3 DEF ResetRow, Row
  <2> HIDE DEF new
  <2>3. Exists(r)' /\ \A x \in Runs \ {r} : run'[x] = run[x] /\ entries'[x] = entries[x]
    BY <1>2, <1>3, <1>8, <2>1, <2>2 DEF CommitReset, Exists
  <2> QED
    BY <1>5, <2>1, <2>3
<1>9. CASE CommitVerify(s)
  <2>1. /\ sess[s].pc = "loaded" /\ sess[s].op = "verify" /\ Advance(s, "verified")
        /\ UNCHANGED <<entries, batch>>
    BY <1>9 DEF CommitVerify, At
  <2>2. run' = [run EXCEPT ![r] = [run[r] EXCEPT !.life = "verified"]]
        /\ run[r].life = "draft"
    BY <1>2, <2>1, AdvanceWhole, Zenon
  <2>3. Lifecycle!Review(r, "draft", "verified")
    BY <1>3, <1>6, <2>1, <2>2 DEF Exists, Row
  <2> QED
    BY <2>3 DEF Lifecycle!Next
<1>10. CASE CommitApprove(s)
  <2>1. /\ sess[s].pc = "loaded" /\ sess[s].op = "approve" /\ Advance(s, "approved")
        /\ UNCHANGED <<entries, batch>>
    BY <1>10 DEF CommitApprove, At
  <2>2. run' = [run EXCEPT ![r] = [run[r] EXCEPT !.life = "approved"]]
        /\ run[r].life = "verified"
    BY <1>2, <2>1, AdvanceWhole, Zenon
  <2>3. Lifecycle!Review(r, "verified", "approved")
    BY <1>3, <1>6, <2>1, <2>2 DEF Exists, Row
  <2> QED
    BY <2>3 DEF Lifecycle!Next
<1>11. CASE CommitLock(s)
  <2>1. /\ run[r].life = "approved" /\ \A x \in Runs \ {r} : run'[x] = run[x]
        /\ Exists(r)' /\ run'[r].life = "locked"
        /\ run'[r].status = run[r].status /\ run'[r].total = run[r].total
    BY <1>2, <1>11, LockWhole
  <2>2. Lifecycle!Review(r, "approved", "locked")
    BY <1>6, <1>11, <2>1 DEF CommitLock
  <2> QED
    BY <2>2 DEF Lifecycle!Next
<1>12. CASE \/ Gather(s) \/ RollBackProcess(s) \/ DeleteEntries(s) \/ SnapshotEntries(s)
            \/ RecordLifecycleAudit(s) \/ CommitBatch(s) \/ EndRequest(s)
  <2>1. UNCHANGED <<run, entries>>
    BY <1>12 DEF Gather, RollBackProcess, DeleteEntries, SnapshotEntries,
       RecordLifecycleAudit, CommitBatch, EndRequest
  <2> QED
    BY <2>1, UnchangedMapped
<1> QED
  BY <1>7, <1>8, <1>9, <1>10, <1>11, <1>12 DEF Step

LEMMA LifecycleStep ==
  SInv /\ SInv' /\ [Next]_vars => Lifecycle!Next \/ UNCHANGED <<Stage, Content>>
<1> SUFFICES ASSUME SInv, SInv', [Next]_vars
             PROVE  Lifecycle!Next \/ UNCHANGED <<Stage, Content>>
  OBVIOUS
<1>1. ASSUME NEW s \in Sessions, Begin(s) PROVE UNCHANGED <<run, entries>>
  BY <1>1 DEF Begin, BeginProcess, BeginReset, BeginVerify, BeginApprove, BeginLock,
     BeginBatch, Load
<1>2. ASSUME NEW s \in Sessions, Step(s)
      PROVE  Lifecycle!Next \/ UNCHANGED <<Stage, Content>>
  BY <1>2, RequestMapped
<1>3. ASSUME NEW r \in Runs, CreatePayroll(r) PROVE Lifecycle!Compute(r)
  <2> DEFINE new == NewRow(settings)
  <2>1. run' = [run EXCEPT ![r] = new] /\ ~Exists(r) /\ entries' = entries
    BY <1>3 DEF CreatePayroll
  <2>2. new.status = "draft" /\ new.life = "null" /\ new.total = {}
    BY DEF NewRow
  <2> HIDE DEF new
  <2>3. run'[r] = new /\ \A x \in Runs \ {r} : run'[x] = run[x]
    BY <2>1 DEF SInv, IInv, TypeInv, TypeOK
  <2>4. Stage[r] = "null" /\ Stage'[r] = "null"
    BY <2>1, <2>2, <2>3 DEF Stage, Exists
  <2>5. Content'[r] \in AllContents
    BY <2>1, <2>2, <2>3 DEF Content, AllContents, Exists, Statuses, SInv, IInv, TypeInv, TypeOK
  <2> QED
    BY <2>1, <2>3, <2>4, <2>5, MapsToCompute
<1>4. ASSUME NEW r \in Runs, DenyLocked(r) \/ BatchMoves(r) PROVE UNCHANGED <<run, entries>>
  BY <1>4 DEF DenyLocked, BatchMoves
<1>5. ASSUME ChangeSettings \/ UNCHANGED vars PROVE UNCHANGED <<run, entries>>
  BY <1>5 DEF ChangeSettings, vars
<1> QED
  BY <1>1, <1>2, <1>3, <1>4, <1>5, UnchangedMapped DEF Next, Lifecycle!Next

\* While requests on the same run do not overlap, the stored run implements the lifecycle
\* the documentation draws: draft, verified, approved, locked in that order, and from
\* verification on the lines, the totals and the status never change.
THEOREM LifecycleImplemented == Spec /\ []NoOverlap => ImplementsLifecycle
<1>1. Init => Lifecycle!Init
  BY LifecycleInit
<1>2. SInv /\ SInv' /\ [Next]_vars
        => [Lifecycle!Next]_<<Stage, Content>>
  BY LifecycleStep
<1> QED
  BY <1>1, <1>2, SerialInductive, PTL DEF Spec, ImplementsLifecycle, Lifecycle!Spec, Stage, Content
=============================================================================
