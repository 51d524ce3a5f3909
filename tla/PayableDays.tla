---------------------------- MODULE PayableDays ----------------------------
(***************************************************************************)
(* From the attendance of a pay period to the factor salaries are cut by:  *)
(* the rows and approved loss-of-pay leaves of one employee are summed into*)
(* units (services/payroll_attendance_summary_service.py), turned into     *)
(* payable days and a wage factor                                          *)
(* (services/payroll_attendance_calculator.py), and checked before payroll *)
(* (services/payroll_attendance_validation.py).  Everything is computed    *)
(* from the tables as they are; the steps are the writes to the tables, so *)
(* that the computation before and after a write can be compared.          *)
(*                                                                         *)
(* Units count half days.  What sits in day_fraction is what the status    *)
(* implies, except in the row of an absence that the punch engine derived, *)
(* which has fraction 0.                                                   *)
(***************************************************************************)
EXTENDS PeriodLock, Bounds, FiniteSets, FiniteSetsExt

CONSTANTS
  Length,    \* days of the pay period
  Settings,  \* hr_settings["payroll"] an organisation may have
  Calendars, \* its holidays and weekly days off, as sets of days of the period
  LopLeaves  \* loss-of-pay leaves that may be approved: days in the period, days booked

ASSUME PeriodAssumption ==
  /\ Length \in Nat \ {0}
  /\ Settings \subseteq
       [mode : {"calendar", "units"}, total : {"calendar", "minus"}, missing : {"none", "absent"},
        half : BOOLEAN, deduct : BOOLEAN, strict : BOOLEAN, lock : BOOLEAN,
        paid : SUBSET STRING, unpaid : SUBSET STRING]
  /\ Calendars \subseteq [holidays : SUBSET (1 .. Length), weekoffs : SUBSET (1 .. Length)]
  /\ LopLeaves \subseteq [inside : Nat, booked : Nat]

VARIABLES
  settings,
  calendar,
  rows,      \* status of the attendance row of every day, or NoRow
  lop,       \* approved loss-of-pay leaves
  others     \* has another employee an unknown row, or none on a working day?

daysVars == <<settings, calendar, lockVars, rows, lop, others>>
------------------------------------------------------------------------------
Period == 1 .. Length
NoRow == "none"
Statuses == {"P", "A", "A0", "HD", "L", "UL", "H", "WO", "OT", "?"}

DaysTypeOK ==
  /\ settings \in Settings /\ calendar \in Calendars
  /\ rows \in [Period -> Statuses \cup {NoRow}]
  /\ lop \subseteq LopLeaves /\ others \in BOOLEAN

DaysInit ==
  /\ LockInit /\ others = TRUE
  /\ settings \in Settings /\ calendar \in Calendars
  /\ rows = [d \in Period |-> NoRow]
  /\ lop = {}

\* create_attendance, update_attendance, the upsert of a bulk load or of a
\* recompute: a day has one row.
MarkDay(d, s) ==
  /\ Unlocked
  /\ rows' = [rows EXCEPT ![d] = s]
  /\ UNCHANGED <<settings, calendar, lockVars, lop, others>>

\* A loss-of-pay leave is approved; it has no row of its own.
ApproveLop(l) ==
  /\ lop' = lop \cup {l}
  /\ UNCHANGED <<settings, calendar, lockVars, rows, others>>

\* Days of other employees are marked, or somebody joins who has no rows.
MarkOthers ==
  /\ others' = ~others
  /\ UNCHANGED <<settings, calendar, lockVars, rows, lop>>

DaysNext ==
  \/ \E d \in Period, s \in Statuses : MarkDay(d, s)
  \/ \E l \in LopLeaves : ApproveLop(l)
  \/ MarkOthers
  \/ LockNext /\ UNCHANGED <<settings, calendar, rows, lop, others>>

DaysSpec == DaysInit /\ [][DaysNext]_daysVars
------------------------------------------------------------------------------
(* Units *)

\* normalize_attendance_status: the organisation says which statuses are paid leave,
\* and which are unpaid; then come the names everybody knows.
Canon(s) ==
  CASE s \in settings.paid -> "paid_leave"
    [] s \in settings.unpaid \ settings.paid -> "unpaid_leave"
    [] s \notin settings.paid \cup settings.unpaid ->
         CASE s = "P" -> "present" [] s \in {"A", "A0"} -> "absent" [] s = "HD" -> "half_day"
           [] s = "L" -> "paid_leave" [] s = "UL" -> "unpaid_leave" [] s = "H" -> "holiday"
           [] s = "WO" -> "week_off" [] s = "OT" -> "overtime" [] OTHER -> "unknown"

\* What one row adds to the bucket of its canonical status.
RowUnits(s) == CASE s = "A0" -> 0 [] s = "HD" -> 1 [] OTHER -> 2

Units(kind) ==
  SumFunctionOnSet([d \in Period |-> RowUnits(rows[d])],
                   {d \in Period : rows[d] # NoRow /\ Canon(rows[d]) = kind})

\* aggregate_attendance_leave_units: a leave counts with all its days as soon as it
\* touches the period.
LopUnits == SumFunctionOnSet([l \in lop |-> 2 * l.booked], {l \in lop : l.inside > 0})

OffDays == calendar.holidays \cup calendar.weekoffs

\* compute_missing_working_dates
Working ==
  {d \in Period \ OffDays : rows[d] = NoRow \/ Canon(rows[d]) \notin {"holiday", "week_off"}}
Missing == {d \in Working : rows[d] = NoRow}

\* apply_missing_attendance_policy_to_bucket
Absent ==
  Units("absent") + (IF settings.missing = "absent" THEN 2 * Cardinality(Missing) ELSE 0)
------------------------------------------------------------------------------
(* Payable days and the factor *)

\* Mutant: days off are what the rows say, the calendar is not looked at.
FreeUnits_RowsOnly == Units("holiday") + Units("week_off")

\* Of each kind of day off whichever is more, marked rows or calendar days.
FreeUnits ==
  AtLeast(Units("holiday"), 2 * Cardinality(calendar.holidays))
  + AtLeast(Units("week_off"), 2 * Cardinality(calendar.weekoffs \ calendar.holidays))

\* compute_total_working_days
TotalWorking ==
  IF settings.total = "calendar" THEN 2 * Length ELSE Minus(2 * Length, FreeUnits)

Payable ==
  IF settings.mode = "calendar" THEN 2 * Length
  ELSE LET sum == Units("present") + Units("paid_leave") + Units("half_day") IN
       IF TotalWorking > 0 /\ sum > TotalWorking THEN TotalWorking ELSE sum

\* Mutant: days present are lost as well.
Lop_Always == Absent + LopUnits + Units("half_day") + Units("present")

\* Units lost in calendar mode.
Lop == Absent + LopUnits + (IF settings.half THEN Units("half_day") ELSE 0)

\* compute_payroll_attendance_scalars and wage_proration_factor_for_job, as a
\* fraction; without deduction the engine gets no factor, which is a factor of one.
Factor ==
  CASE ~settings.deduct -> [num |-> 1, den |-> 1]
    [] settings.deduct /\ settings.mode = "calendar" -> [num |-> Minus(Payable, Lop), den |-> Payable]
    [] settings.deduct /\ settings.mode = "units" ->
         IF TotalWorking > 0 THEN [num |-> Payable, den |-> TotalWorking]
         ELSE [num |-> 0, den |-> 1]

\* collect_payroll_attendance_validation and assert_payroll_attendance_allowed: what
\* keeps payroll from running.  The rows of all employees count together.
BadRows == Units("unknown") > 0 \/ Missing # {}
LockMissing == settings.lock /\ ~final
Blocked == LockMissing \/ (settings.strict /\ (BadRows \/ others))
------------------------------------------------------------------------------
(* Properties *)

NoMore(f, g) == f.num * g.den <= g.num * f.den
One(f) == f.num = f.den

\* Rows mark as free only days the calendar keeps free, and all or none of those.
OnCalendar ==
  /\ \A d \in Period : rows[d] = "H" => d \in calendar.holidays
  /\ \A d \in Period : rows[d] = "WO" => d \in calendar.weekoffs \ calendar.holidays

\* An employee present on every working day gets the full month in both modes, when
\* some day is a working day and nothing on the days off says otherwise; and whoever
\* keeps that payroll from running, it is not this employee: either the organisation
\* wants a lock that is not there, or it is strict and others have bad rows.
FullMonthPaid ==
  /\ settings.total = "minus" /\ OnCalendar /\ lop = {} /\ Working # {}
  /\ \A d \in Working : Canon(rows[d]) = "present"
  /\ \A d \in Period \ Working :
       rows[d] # NoRow => Canon(rows[d]) \notin {"absent", "half_day", "unknown"}
  => /\ One(Factor)
     /\ Blocked => LockMissing \/ (settings.strict /\ others)

\* Marking a day present never costs the employee anything, whatever was marked, unless
\* the organisation lists presence as unpaid; approving a loss-of-pay leave never raises
\* the pay, and neither does marking a day absent as long as rows call free what the
\* calendar does and the organisation does not list absence as leave.  (A holiday marked
\* on a weekly day off is taken off the working days twice, so any other mark there
\* raises the pay or lowers it.)
AttendancePays ==
  [][rows # rows' \/ lop # lop' =>
     /\ \A d \in Period :
          /\ rows[d] # "P" /\ rows' = [rows EXCEPT ![d] = "P"] /\ Canon("P") # "unpaid_leave"
               => NoMore(Factor, Factor')
          /\ rows' = [rows EXCEPT ![d] = "A"] /\ OnCalendar /\ Canon("A") = "absent"
               => NoMore(Factor', Factor)
     /\ lop # lop' => NoMore(Factor', Factor)]_daysVars
=============================================================================
