\* Two runs of the same pay period, one request at a time.
CONSTANTS
  r1 = r1  r2 = r2  s1 = s1  s2 = s2  p1 = p1  l1 = l1  l2 = l2
  Runs = {r1, r2}
  Periods = {p1}
  PeriodOf <- OnePeriod
  Sessions = {s1}
  Lines = {l1}
  Settings = {"calendar", "units"}
  BatchStates <- MCBatchStates
  BlockingBatchStates <- MCBlocking
SYMMETRY Symmetry
SPECIFICATION Spec
INVARIANTS LockedRunFrozen TotalsMatchEntries BatchBacked
PROPERTY ImplementsLifecycle
CHECK_DEADLOCK FALSE
