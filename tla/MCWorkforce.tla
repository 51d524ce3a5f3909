---------------------------- MODULE MCWorkforce ----------------------------
(* Attendance, leave, rosters and payable days on small instances.  What they *)
(* share, the lock of the period, is in each of them; a behaviour is about    *)
(* one of them, as focus says, or about the rules of attendance alone.        *)
EXTENDS WorkDay, Leaves, Roster, PayableDays, TLC

CONSTANTS r1, r2, c1, c2, m1, m2
VARIABLE focus

Symmetry == Permutations(Requests) \cup Permutations(Clerks) \cup Permutations(Planners)

AllRules(type, n) == [type |-> type, n |-> n]

\* Before, at and well after the start of the office, and its end.
MCTimes == {535, 536, 600}
OneRule == {<<AllRules("missing_punch", 1), AllRules("late_entry", 30)>>}
MCPolicies ==
  OneRule \cup
  {<<a, b, c>> : a \in {AllRules("grace_time", 0), AllRules("absent", 1), AllRules("overtime", 0)},
                 b \in {AllRules("late_entry", n) : n \in {0, 30}} \cup {AllRules("early_exit", 0)},
                 c \in {AllRules("missing_punch", n) : n \in {0, 1}} \cup {AllRules("grace_time", 90)}}
MCShifts == {NoShift, [start |-> 536, end |-> 590, breaks |-> 10]}

Plain == [mode |-> "calendar", total |-> "minus", missing |-> "none", half |-> FALSE,
          deduct |-> TRUE, strict |-> FALSE, lock |-> FALSE, paid |-> {}, unpaid |-> {}]
Unused == [Plain EXCEPT !.total = "calendar", !.deduct = FALSE]
MCSettings ==
  {Plain, [Plain EXCEPT !.missing = "absent", !.half = TRUE],
   [Plain EXCEPT !.mode = "units", !.strict = TRUE, !.paid = {"UL"}],
   [Plain EXCEPT !.mode = "units", !.missing = "absent", !.lock = TRUE, !.unpaid = {"L", "OT"}],
   Unused}
OneOff == [holidays |-> {1}, weekoffs |-> {}]
TwoOff == [holidays |-> {1}, weekoffs |-> {1, 3}]
MCCalendars == {OneOff, TwoOff}
MCLop == {[inside |-> 0, booked |-> 1], [inside |-> 1, booked |-> 4]}

MCInit ==
  /\ focus \in {"day", "rules", "leaves", "roster", "period"}
  /\ \/ focus = "period" /\ settings \in Settings \ {Unused}
        /\ calendar = IF settings.mode = "units" THEN TwoOff ELSE OneOff
     \/ focus # "period" /\ settings = Unused /\ calendar = OneOff
  /\ focus = "leaves" \/ convert = FALSE
  /\ focus \in {"day", "rules"} => \/ focus = "rules" /\ mirror = FALSE
                                   \/ focus = "day" /\ policy \in OneRule /\ shift = NoShift
  /\ focus \in {"day", "rules"} \/ (policy \in OneRule /\ shift = NoShift /\ mirror = FALSE)
  /\ DayInit /\ LeavesInit /\ RosterInit /\ DaysInit

ownDayVars == <<policy, shift, mirror, raw, att, recomputed, missing, job, req, marks>>
ownLeaveVars == <<convert, leaves, consumed, desk>>
ownPeriodVars == <<settings, calendar, rows, lop, others>>

\* Other employees and the lock change where the settings look at them.
WhereItMatters ==
  (others' # others => settings.strict) /\ (lockVars' # lockVars => settings.lock /\ final')

\* Punches come with two further things at most: marks, lockings and a job; a job
\* runs where marks are not mirrored.
AtMostTwo ==
  /\ marks' + locks' + (IF job' = NoJob THEN 0 ELSE 1) <= 2
  /\ mirror => job' = NoJob

MCNext ==
  \/ focus = "day" /\ DayNext /\ AtMostTwo /\ UNCHANGED <<ownLeaveVars, rosterVars, ownPeriodVars, focus>>
  \/ focus = "leaves" /\ LeavesNext /\ UNCHANGED <<ownDayVars, rosterVars, ownPeriodVars, focus>>
  \/ focus = "roster" /\ RosterNext /\ UNCHANGED <<dayVars, ownLeaveVars, ownPeriodVars, focus>>
  \/ focus = "period" /\ DaysNext /\ WhereItMatters
     /\ UNCHANGED <<ownDayVars, ownLeaveVars, rosterVars, focus>>

MCSpec == MCInit /\ [][MCNext]_<<dayVars, ownLeaveVars, rosterVars, ownPeriodVars, focus>>
------------------------------------------------------------------------------
\* The types of the four components.
WorkforceTypeOK == WorkDayTypeOK /\ LeavesTypeOK /\ RosterTypeOK /\ DaysTypeOK

\* PunchNeverCosts, once for every sequence of rules and every shift.
RulesNeverCost == focus = "rules" => PunchNeverCosts
=============================================================================
