\* One request at a time beside the payout workers.
CONSTANTS
  u1 = u1  u2 = u2  s1 = s1  s2 = s2
  Users = {u1, u2}
  Sessions = {s1}
  Pending = Pending
  MaxFiles = 2
  MaxTasks = 2
  CommitMayFail = FALSE
  EarlyRetry = FALSE
SYMMETRY Symmetry
SPECIFICATION Spec
INVARIANT TaskRecorded
PROPERTY ImplementsDisbursement
