------------------------------ MODULE WorkDay ------------------------------
(***************************************************************************)
(* The attendance of one employee: punches (services/wf_raw_event_service) *)
(* that are turned into the day's row by the recompute                     *)
(* (services/wf_day_result_service, wf_rule_orchestrator, wf_policy_engine,*)
(* wf_shift_engine), marks that HR makes by hand or in bulk                *)
(* (crud/attendance_crud, services/attendance_calendar_service), jobs that *)
(* recompute many days (services/wf_recompute_service), and the lock of    *)
(* the period that all of them check first.                                *)
(*                                                                         *)
(* A request is cut where another may come between its check, its read and *)
(* its commit.  Only punches of type IN and OUT are modelled; anomaly_flag *)
(* and is_locked, which nothing sets, stay false; of the statuses HR may   *)
(* give, P stands for all with a full day_fraction but absence.            *)
(***************************************************************************)
EXTENDS PeriodLock, Bounds, Integers, Sequences, FiniteSets, SequencesExt, FiniteSetsExt

CONSTANTS
  Days,       \* days, as numbers
  Requests,   \* concurrent requests
  Times,      \* minutes of the day at which punches happen
  Policies,   \* sequences of published rules, in order of priority
  Shifts,     \* shift windows a day may have, or NoShift
  MaxPunches, \* bound on stored punches
  MaxMarks,   \* bound on marks by hand or in bulk
  MaxRetries  \* how often a job's task is retried

NoShift == [start |-> 0, end |-> 0, breaks |-> 0]

ASSUME WorkDayAssumption ==
  /\ Times \subseteq Nat \ {0} /\ Times # {} /\ IsFiniteSet(Times) /\ IsFiniteSet(Requests)
  /\ Policies \subseteq Seq([type : STRING, n : Int])
  /\ {MaxPunches, MaxMarks, MaxRetries} \subseteq Nat

VARIABLES
  policy, shift, \* what the organisation has published, the shift of both days
  mirror,        \* is the flag wf_dual_write set?
  raw,           \* raw_attendance_events, oldest first
  att,           \* the attendances row of every day
  recomputed,    \* days with an event wf.AttendanceRecomputed
  missing,       \* days with an open missing_punch exception
  job,           \* the recompute job
  req,           \* what every request, and the job, has read and is about to write
  marks          \* counts marks, for the bound

dayVars == <<policy, shift, mirror, lockVars, raw, att, recomputed, missing, job, req, marks>>
------------------------------------------------------------------------------
None == 0
NoDay == [status |-> "none"]
Idle == [pc |-> "idle"]
Worker == "job"
Actors == Requests \cup {Worker}
NoJob == [pc |-> "none"]
Full == 2  \* day_fraction and payable_fraction in half days
Half == 1

\* A row: first IN and last OUT, status, day_fraction (frac), payable_fraction (pay,
\* unset in a row made by hand), minutes late and of overtime.  History: who wrote it
\* last, and whether an update of it ever met a row it had not read.
Row == [in : Times \cup {None}, out : Times \cup {None}, status : {"P", "HD", "A"},
        frac : {0, Half, Full}, pay : {0, Half, Full, 3}, late : Nat, over : Nat,
        by : {"punch", "hr"}, torn : BOOLEAN]
Unset == 3

DayInit ==
  /\ policy \in Policies /\ shift \in Shifts /\ mirror \in BOOLEAN
  /\ LockInit
  /\ raw = <<>>
  /\ att = [d \in Days |-> NoDay]
  /\ recomputed = {} /\ missing = {}
  /\ job = NoJob
  /\ req = [r \in Actors |-> Idle]
  /\ marks = 0
------------------------------------------------------------------------------
(* What a set of punches makes of a day *)

\* _pair_events
FirstIn(ps) == LET ins == {p.at : p \in {q \in ps : q.type = "IN"}} IN
               IF ins = {} THEN None ELSE Min(ins)
LastOut(ps) == LET outs == {p.at : p \in {q \in ps : q.type = "OUT"}} IN
               IF outs = {} THEN None ELSE Max(outs)

\* Minutes worked: inside the shift less its breaks, or from IN to OUT.
Worked(in, out) ==
  IF in = None \/ out = None THEN 0
  ELSE IF shift = NoShift THEN Minus(out, in)
  ELSE LET inside == Minus(AtMost(out, shift.end), AtLeast(in, shift.start)) IN
       IF inside = 0 THEN 0 ELSE Minus(inside, shift.breaks)

\* Mutant: an odd number of punches is taken for a missing punch-out.
Lone_Odd(ps) == Cardinality(ps) % 2 = 1 /\ \E p \in ps : p.type = "IN"

\* A day without a punch-out: its only punch is an IN.
Lone(ps) == Cardinality(ps) = 1 /\ \A p \in ps : p.type = "IN"

Office == [start |-> 540, end |-> 1080]
Blank == [grace |-> 15, status |-> "P", frac |-> Full, late |-> 0, early |-> 0, over |-> 0]
HalfDay(o) == [o EXCEPT !.status = "HD", !.frac = Half]

\* apply_policy_rules, one rule.  Lateness is measured against office hours, whatever
\* the shift of the day is.
Rule(o, rule, ps) ==
  LET in == FirstIn(ps)
      out == LastOut(ps)
      late == Minus(in, Office.start + o.grace)
      early == Minus(Minus(Office.end, out), o.grace)
      over == Minus(Worked(in, out), rule.n) IN
  CASE rule.type = "grace_time" -> [o EXCEPT !.grace = rule.n]
    [] rule.type = "late_entry" /\ in # None /\ late > 0 ->
         LET noted == [o EXCEPT !.late = AtLeast(o.late, late)] IN
         IF rule.n > 0 /\ late >= rule.n THEN HalfDay(noted) ELSE noted
    [] rule.type = "early_exit" /\ out # None -> [o EXCEPT !.early = AtLeast(o.early, early)]
    [] rule.type = "missing_punch" /\ Lone(ps) /\ rule.n > 0 -> HalfDay(o)
    [] rule.type = "overtime" /\ Worked(in, out) > 0 -> [o EXCEPT !.over = AtLeast(o.over, over)]
    [] rule.type = "absent" /\ in = None /\ out = None -> [o EXCEPT !.status = "A", !.frac = 0]
    [] OTHER -> o

\* run_attendance_pipeline
Outcome(ps) ==
  LET after[n \in 0 .. Len(policy)] == IF n = 0 THEN Blank ELSE Rule(after[n - 1], policy[n], ps)
  IN  after[Len(policy)]

\* Mutant: the fraction that payroll reads is not written.
FromPunches_NoPay(ps, o) ==
  [in |-> FirstIn(ps), out |-> LastOut(ps), status |-> o.status, frac |-> o.frac, pay |-> Unset,
   late |-> o.late, over |-> o.over, by |-> "punch", torn |-> FALSE]

FromPunches(ps, o) ==
  [in |-> FirstIn(ps), out |-> LastOut(ps), status |-> o.status, frac |-> o.frac, pay |-> o.frac,
   late |-> o.late, over |-> o.over, by |-> "punch", torn |-> FALSE]

\* The row a recompute inserts, whatever the day has by then.
Derived(ps) == FromPunches(ps, Outcome(ps))

\* Mutant: a recompute keeps the fraction the day had.
Rewritten_KeepsFraction(row, was, new) == [new EXCEPT !.frac = row.frac]

\* A recompute that has read a row writes the columns in which its own differs from
\* that, onto the row as it is by then.
Rewritten(row, was, new) ==
  [c \in DOMAIN new |->
     CASE c = "by" -> "punch"
       [] c = "torn" -> row # was
       [] c \notin {"by", "torn"} -> IF new[c] # was[c] THEN new[c] ELSE row[c]]
------------------------------------------------------------------------------
(* Punches *)

Stored == Range(raw)

\* The punches a recompute of the day counts, row by row.
Counted(d) ==
  {[type |-> raw[i].type, at |-> raw[i].at, no |-> i] : i \in {k \in DOMAIN raw : raw[k].day = d /\ ~raw[k].dup}}

\* Mutant: only punches that happened before are looked at, though one may arrive late.
Duplicate_Before(d, p) ==
  \E q \in Stored : q.day = d /\ q.type = p.type /\ q.at <= p.at /\ p.at <= q.at + 1

\* Is there a punch of the type within the duplicate window of a minute?
Duplicate(d, p) ==
  \E q \in Stored : q.day = d /\ q.type = p.type /\ q.at <= p.at + 1 /\ p.at <= q.at + 1

Inserting == {r \in Requests : req[r].pc = "insert"}

\* ingest_raw_event, up to its commit.
BeginIngest(r, d, p) ==
  /\ req[r].pc = "idle"
  /\ Len(raw) + Cardinality(Inserting) < MaxPunches
  /\ req' = [req EXCEPT ![r] = [pc |-> "insert", day |-> d, punch |-> p, dup |-> Duplicate(d, p),
                                copy |-> NoDay]]
  /\ UNCHANGED <<policy, shift, mirror, lockVars, raw, att, recomputed, missing, job, marks>>

\* The punch and its event are committed; then the day is recomputed.  While another
\* request is between its check and its insert, duplicates may pass: seen says so.
StorePunch(r) ==
  /\ req[r].pc = "insert"
  /\ raw' = Append(raw,
       [day |-> req[r].day, type |-> req[r].punch.type, at |-> req[r].punch.at, dup |-> req[r].dup,
        seen |-> Inserting = {r}])
  /\ req' = [req EXCEPT ![r] = [pc |-> "recompute", day |-> req[r].day, copy |-> req[r].copy]]
  /\ UNCHANGED <<policy, shift, mirror, lockVars, att, recomputed, missing, job, marks>>

Done(r) == req' = [req EXCEPT ![r] = Idle]

\* What a job makes of a day that it could not recompute.  An error of the database
\* breaks its session: no later item can use it.
Noted(r, fails, breaks) ==
  job' = IF r = Worker /\ fails THEN [job EXCEPT !.failed = @ \cup {req[r].day}, !.broken = @ \/ breaks]
         ELSE job

\* recompute_employee_day: the lock, and the punches.  Whatever goes wrong from here
\* on, a punch stays stored and nobody is told; a job counts it.
ReadDay(r) ==
  LET d == req[r].day IN
  /\ req[r].pc = "recompute"
  /\ IF Unlocked /\ Counted(d) # {}
     THEN req' = [req EXCEPT ![r] = [pc |-> "row", day |-> d, of |-> Counted(d), copy |-> req[r].copy]]
     ELSE Done(r)
  /\ Noted(r, ~Unlocked, FALSE)
  /\ UNCHANGED <<policy, shift, mirror, lockVars, raw, att, recomputed, missing, marks>>

\* The day's row.  A request that has created it goes by the copy in its session.
ReadRow(r) ==
  LET q == req[r] IN
  /\ q.pc = "row"
  /\ req' = [req EXCEPT ![r] = [pc |-> "write", day |-> q.day, of |-> q.of,
                                was |-> IF q.copy # NoDay THEN q.copy ELSE att[q.day]]]
  /\ UNCHANGED <<policy, shift, mirror, lockVars, raw, att, recomputed, missing, job, marks>>

\* Row, exception and event are one commit, and the event has one dedupe key per day:
\* a second recompute of the day is rolled back.
WriteDay(r) ==
  LET q == req[r]
      d == q.day
      again == d \in recomputed IN
  /\ q.pc = "write"
  /\ IF again THEN UNCHANGED <<att, recomputed, missing>>
     ELSE /\ att' = [att EXCEPT ![d] = IF q.was = NoDay THEN Derived(q.of)
                                       ELSE Rewritten(@, q.was, Derived(q.of))]
          /\ recomputed' = recomputed \cup {d}
          /\ missing' = IF Lone(q.of) THEN missing \cup {d} ELSE missing
  /\ Done(r) /\ Noted(r, again, TRUE)
  /\ UNCHANGED <<policy, shift, mirror, lockVars, raw, marks>>
------------------------------------------------------------------------------
(* Marks *)

\* _day_fraction_for_status: an absence has a full fraction here.
FractionOf(s) == IF s = "HD" THEN Half ELSE Full

\* create_attendance, update_attendance, bulk_upsert_attendance, up to the commit: the
\* lock, whether there is a row, and for an update the row itself.
BeginMark(r, how, ds, s) ==
  /\ req[r].pc = "idle"
  /\ marks < MaxMarks
  /\ Unlocked
  /\ how = "create" => \A d \in ds : att[d] = NoDay
  /\ how = "update" => \A d \in ds : att[d] # NoDay
  /\ how # "bulk" => Cardinality(ds) = 1
  /\ req' = [req EXCEPT ![r] =
       [pc |-> "mark", how |-> how, days |-> ds, status |-> s,
        was |-> IF how = "update" THEN att[CHOOSE d \in ds : TRUE] ELSE NoDay]]
  /\ marks' = marks + 1
  /\ UNCHANGED <<policy, shift, mirror, lockVars, raw, att, recomputed, missing, job>>

Marked(s) == [in |-> None, out |-> None, status |-> s, frac |-> FractionOf(s), pay |-> Unset,
              late |-> 0, over |-> 0, by |-> "hr", torn |-> FALSE]

\* apply_org_calendar_marks: the holidays and week-offs of a range are bulk-loaded over
\* whatever their days have, 250 rows at a time.  Every such chunk looks at the lock and
\* is committed for itself.
MarkCalendar(r, ds) == BeginMark(r, "bulk", ds, "P")

\* A bulk load leaves payable_fraction, lateness and overtime as they are.
BulkMarked(row, s) ==
  [row EXCEPT !.in = None, !.out = None, !.status = s, !.frac = FractionOf(s),
              !.by = "hr", !.torn = FALSE]

\* An update writes the columns in which it differs from the row it read.
Updated(row, was, s) ==
  [row EXCEPT !.status = IF s # was.status THEN s ELSE @,
              !.frac = IF FractionOf(s) # was.frac THEN FractionOf(s) ELSE @,
              !.by = "hr", !.torn = @ \/ row # was]

\* The commit; a creation that finds a row by now is refused.
CommitMark(r) ==
  LET q == req[r] IN
  /\ q.pc = "mark"
  /\ IF q.how = "create" /\ \E d \in q.days : att[d] # NoDay THEN UNCHANGED att
     ELSE att' = [d \in Days |->
            CASE d \notin q.days -> att[d]
              [] d \in q.days /\ q.how = "update" -> Updated(att[d], q.was, q.status)
              [] d \in q.days /\ q.how # "update" ->
                   IF att[d] = NoDay THEN Marked(q.status) ELSE BulkMarked(att[d], q.status)]
  /\ req' = [req EXCEPT ![r] =
       IF q.how = "create" /\ mirror /\ att' # att
       THEN [pc |-> "refresh", day |-> CHOOSE d \in q.days : TRUE] ELSE Idle]
  /\ UNCHANGED <<policy, shift, mirror, lockVars, raw, recomputed, missing, job, marks>>

\* A row made by hand is read again, ...
Refresh(r) ==
  /\ req[r].pc = "refresh"
  /\ req' = [req EXCEPT ![r] = [pc |-> "mirror", day |-> req[r].day, copy |-> att[req[r].day]]]
  /\ UNCHANGED <<policy, shift, mirror, lockVars, raw, att, recomputed, missing, job, marks>>

\* ... and (mirror_attendance_to_raw) recorded as a punch-in at the start of the day,
\* which is ingested like any other by the session that holds the row.
MirrorMark(r) ==
  LET p == [type |-> "IN", at |-> Min(Times)]
      d == req[r].day IN
  /\ req[r].pc = "mirror"
  /\ IF Len(raw) + Cardinality(Inserting) < MaxPunches
     THEN req' = [req EXCEPT ![r] = [pc |-> "insert", day |-> d, punch |-> p, dup |-> Duplicate(d, p),
                                     copy |-> req[r].copy]]
     ELSE Done(r)
  /\ UNCHANGED <<policy, shift, mirror, lockVars, raw, att, recomputed, missing, job, marks>>
------------------------------------------------------------------------------
(* Recompute jobs *)

\* create_recompute_job, then a worker takes it.
StartJob(ds) ==
  /\ job = NoJob
  /\ job' = [pc |-> "run", left |-> ds, failed |-> {}, broken |-> FALSE, tries |-> 0, days |-> ds]
  /\ UNCHANGED <<policy, shift, mirror, lockVars, raw, att, recomputed, missing, req, marks>>

\* The next item is recomputed, unless the session is broken.
JobItem(d) ==
  /\ job.pc = "run" /\ d \in job.left /\ req[Worker].pc = "idle"
  /\ job' = [job EXCEPT !.left = @ \ {d}, !.failed = IF job.broken THEN @ \cup {d} ELSE @]
  /\ req' = IF job.broken THEN req
            ELSE [req EXCEPT ![Worker] = [pc |-> "recompute", day |-> d, copy |-> NoDay]]
  /\ UNCHANGED <<policy, shift, mirror, lockVars, raw, att, recomputed, missing, marks>>

\* The final commit, which a broken session refuses: the task is retried some
\* times and then given up, and the job is never marked finished.
EndJob ==
  /\ job.pc = "run" /\ job.left = {} /\ req[Worker].pc = "idle"
  /\ job' = IF ~job.broken THEN [job EXCEPT !.pc = "completed"]
            ELSE IF job.tries < MaxRetries
            THEN [job EXCEPT !.tries = @ + 1, !.left = job.days, !.failed = {}, !.broken = FALSE]
            ELSE [job EXCEPT !.pc = "given up"]
  /\ UNCHANGED <<policy, shift, mirror, lockVars, raw, att, recomputed, missing, req, marks>>
------------------------------------------------------------------------------
DayNext ==
  \/ \E r \in Requests :
       \/ \E d \in Days, k \in {"IN", "OUT"}, t \in Times : BeginIngest(r, d, [type |-> k, at |-> t])
       \/ StorePunch(r)
       \/ \E how \in {"create", "update", "bulk"}, ds \in (SUBSET Days) \ {{}}, s \in {"P", "HD", "A"} :
            BeginMark(r, how, ds, s)
       \/ \E ds \in (SUBSET Days) \ {{}} : MarkCalendar(r, ds)
       \/ CommitMark(r) \/ Refresh(r) \/ MirrorMark(r)
  \/ \E r \in Actors : ReadDay(r) \/ ReadRow(r) \/ WriteDay(r)
  \/ (\E ds \in (SUBSET Days) \ {{}} : StartJob(ds)) \/ (\E d \in Days : JobItem(d)) \/ EndJob
  \/ LockNext
     /\ UNCHANGED <<policy, shift, mirror, raw, att, recomputed, missing, job, req, marks>>

DaySpec == DayInit /\ [][DayNext]_dayVars
------------------------------------------------------------------------------
(* Properties *)

RequestOK(q) ==
  /\ q.pc \in {"idle", "insert", "recompute", "row", "write", "mark", "refresh", "mirror"}
  /\ q.pc \notin {"idle", "mark"} => q.day \in Days
  /\ q.pc \in {"row", "write"} => q.of # {} /\ \A p \in q.of : p.at \in Times
  /\ q.pc = "mark" => q.days # {} /\ (q.how # "bulk" => Cardinality(q.days) = 1)

DayOK(row) ==
  row # NoDay =>
    /\ row.status \in {"P", "HD", "A"} /\ row.frac \in {0, Half, Full}
    /\ row.pay \in {0, Half, Full, Unset} /\ {row.in, row.out} \subseteq Times \cup {None}
    /\ row.by = "punch" => row.pay # Unset

WorkDayTypeOK ==
  /\ \A r \in Actors : RequestOK(req[r])
  /\ \A d \in Days : DayOK(att[d])
  /\ recomputed \cup missing \subseteq Days
  /\ Len(raw) <= MaxPunches

\* Who has passed the check of the lock and has not committed.
Past == {r \in Actors : req[r].pc \in {"row", "write", "mark"}}

\* What payroll was computed on stays as it is: while the period is locked nobody
\* new gets past the check, whether it is a punch, a mark or a job, and only those
\* who were past it when the lock came, a job with the day it was at among them, can
\* still change a day.
LockedDaysKept ==
  [][Closed => /\ (Closed' => Past' \subseteq Past)
               /\ (att' # att => \E r \in Past : req'[r] # req[r])]_dayVars

\* The paid fraction of a day goes with its status (an absence may have either,
\* depending on who wrote it), through punches, jobs, marks and bulk loads in any
\* order; except after an update or a recompute that met a row it had not read: it
\* writes single columns and can leave a present half day.
FractionFollowsStatus ==
  \A d \in Days : att[d] # NoDay /\ ~att[d].torn =>
    /\ att[d].status = "HD" <=> att[d].frac = Half
    /\ att[d].frac = 0 => att[d].status = "A" /\ att[d].by = "punch"
    /\ att[d].by = "punch" => att[d].pay = att[d].frac

\* Two punches of a kind within the window are never both counted, in whichever
\* order a device delivers them, unless one was stored while another request was
\* between its own check and its insert.
NoDoubleCount ==
  \A i, j \in DOMAIN raw :
    /\ i # j /\ ~raw[i].dup /\ ~raw[j].dup
    /\ raw[i].day = raw[j].day /\ raw[i].type = raw[j].type
    /\ raw[i].at <= raw[j].at /\ raw[j].at <= raw[i].at + 1
    => ~raw[i].seen \/ ~raw[j].seen

\* Honest punching never costs: with a punch-in on the day, neither a punch-out nor
\* an earlier or a further punch-in lowers the paid fraction, under every sequence of
\* rules.  (A first punch-in on a day that has only a punch-out can: it is late.)
PunchNeverCosts ==
  raw = <<>> /\ req = [r \in Actors |-> Idle] =>
    \A ps \in SUBSET [type : {"IN", "OUT"}, at : Times] :
      \A p \in [type : {"IN", "OUT"}, at : Times] :
        Cardinality(ps) <= 2 /\ FirstIn(ps) # None =>
          Outcome(ps).frac <= Outcome(ps \cup {p}).frac

\* wf_day_result_service.py: "Build/update attendances row from raw events for one
\* employee-day."  When every request has ended and nothing was ever locked, a row
\* made from punches shows the last punch-out that is counted.
DayUpToDate ==
  Past = {} /\ (\A r \in Actors : req[r].pc = "idle") /\ locks = 0 =>
    \A d \in Days : att[d] # NoDay /\ att[d].by = "punch" => att[d].out = LastOut(Counted(d))
=============================================================================
