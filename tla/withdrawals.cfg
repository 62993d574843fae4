CONSTANTS
  Execs = {e1, e2}
  Foreign = {f1}
  Txs = {t1}
  None = none
  MaxBalance = 2
  Minimum = 0
  Cap = 2
  Explicit = {1}
  Floor = 2
  Smallest = 1
  Batching = TRUE
  MaxFaults = 1
SPECIFICATION Spec
SYMMETRY Symmetry
INVARIANTS CompletedIsConfirmed UntrackedCostsFault
PROPERTIES ExecForward
