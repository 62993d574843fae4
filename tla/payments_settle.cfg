CONSTANTS
  Holdings = {h1, h2}
  Requests = {r1, r2}
  Execs = {}
  ForeignTxs = {f1}
  External = ext
  None = none
  Autoflush = FALSE
  MaxCalls = 1
  MaxQueue = 3
  MaxFaults = 0
SPECIFICATION FairSpec
PROPERTIES PaymentSettles
CHECK_DEADLOCK FALSE
