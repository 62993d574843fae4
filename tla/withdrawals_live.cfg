CONSTANTS
  Execs = {e1, e2}
  Foreign = {}
  Txs = {t1, t2}
  None = none
  MaxBalance = 1
  Minimum = 0
  Cap = 1
  Explicit = {}
  Floor = 1
  Smallest = 1
  Batching = TRUE
  MaxFaults = 0
SPECIFICATION FairSpec
PROPERTIES PendingCompletes
