\* One worker and two retries, nothing lost and nobody killed.
CONSTANTS
  i1 = i1  i2 = i2  i3 = i3  w1 = w1  w2 = w2
  Items = {i1, i2}
  Unbanked = {}
  Workers = {w1}
  NoItem = NoItem
  MaxAttempts = 3
  MaxTransfers = 2
  Enqueued = 1
  MaxRetries = 1
  FaultSets = {{"retry"}}
CHECK_DEADLOCK FALSE
SPECIFICATION Spec
INVARIANT OneTransfer
