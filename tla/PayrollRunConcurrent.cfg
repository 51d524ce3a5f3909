\* One run, two requests that overlap in every way.
CONSTANTS
  r1 = r1  r2 = r2  s1 = s1  s2 = s2  p1 = p1  l1 = l1  l2 = l2
  Runs = {r1}
  Periods = {p1}
  PeriodOf <- OnePeriod
  Sessions = {s1, s2}
  Lines = {l1, l2}
  Settings = {"calendar"}
  BatchStates <- MCBatchStates
  BlockingBatchStates <- MCBlocking
SYMMETRY Symmetry
SPECIFICATION Spec
INVARIANTS ReviewedWereProcessed AuditTruthful
PROPERTY ProcessOnlyDrafts
CHECK_DEADLOCK FALSE
