\* Two requests that overlap in every way; commits may fail.
CONSTANTS
  u1 = u1  u2 = u2  s1 = s1  s2 = s2
  Users = {u1, u2}
  Sessions = {s1, s2}
  Pending = Pending
  MaxFiles = 1
  MaxTasks = 2
  CommitMayFail = TRUE
  EarlyRetry = TRUE
SYMMETRY Symmetry
SPECIFICATION Spec
INVARIANTS MovesOnlyApproved ApprovedInOrder
