\* The task sent twice, no retry and no lost answer, but killed workers.
CONSTANTS
  i1 = i1  i2 = i2  i3 = i3  w1 = w1  w2 = w2
  Items = {i1, i2, i3}
  Unbanked = {i3}
  Workers = {w1, w2}
  NoItem = NoItem
  MaxAttempts = 2
  MaxTransfers = 2
  Enqueued = 2
  MaxRetries = 0
  FaultSets = {{"crash", "hold"}}
CHECK_DEADLOCK FALSE
SPECIFICATION FairSpec
INVARIANT OneTransfer
PROPERTY Carried
