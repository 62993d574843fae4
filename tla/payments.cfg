CONSTANTS
  Holdings = {h1}
  Requests = {r1, r2}
  Execs = {e1, e2}
  ForeignTxs = {}
  External = ext
  None = none
  Autoflush = FALSE
  MaxCalls = 2
  MaxQueue = 3
  MaxFaults = 1
SPECIFICATION Spec
SYMMETRY Symmetry
INVARIANTS OneInFlightPerOrigin ConfirmedIsSettled OneConfirmedPerTx AcceptedAttemptMatches NodeTxIsKnown
PROPERTIES ImplementsLifecycle
CHECK_DEADLOCK FALSE
