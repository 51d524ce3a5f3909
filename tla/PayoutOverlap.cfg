\* Two employees, a retry or two that overlap, and everything that may go wrong.
CONSTANTS
  i1 = i1  i2 = i2  i3 = i3  w1 = w1  w2 = w2
  Items = {i1, i2}
  Unbanked = {}
  Workers = {w1, w2}
  NoItem = NoItem
  MaxAttempts = 2
  MaxTransfers = 2
  Enqueued = 1
  MaxRetries = 1
  FaultSets <- MCFaultSets
CHECK_DEADLOCK FALSE
SYMMETRY Symmetry
SPECIFICATION MCSpec
INVARIANTS TypeOK PaidMeansRecorded RecordedHappened
PROPERTY RecordKept
