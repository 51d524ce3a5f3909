\* The instance of Workforce.cfg.
CONSTANTS
  r1 = r1  r2 = r2  c1 = c1  c2 = c2  m1 = m1  m2 = m2
  Requests = {r1, r2}
  Clerks = {c1, c2}
  Planners = {m1, m2}
  Days = {1}
  Times <- MCTimes
  Policies <- MCPolicies
  Shifts <- MCShifts
  MaxPunches = 2
  MaxMarks = 1
  MaxRetries = 1
  MaxLocks = 1
  LeaveDays = {1, 2, 3}
  MaxLeaves = 2
  Balance = 3
  MaxLog = 7
  MaxAssigned = 1
  Length = 3
  Settings <- MCSettings
  Calendars <- MCCalendars
  LopLeaves <- MCLop
SYMMETRY Symmetry
SPECIFICATION MCSpec
CHECK_DEADLOCK FALSE
INVARIANT DayUpToDate
