CONSTANTS
  t0 = t0
  t1 = t1
  t2 = t2
  a = a
  b = b
  c = c
  d1 = d1
  d2 = d2
  h1 = h1
  h2 = h2
  Txs = {t0, t1, t2}
  Outs = {a, b, c}
  Inputs <- MCInputs
  Creator <- MCCreator
  Value <- MCValue
  Address <- MCAddress
  Foreign = foreign
  Descriptors = {d1, d2}
  DescriptorOf <- MCDescriptorOf
  Change <- MCChange
  Holdings = {h1, h2}
  HoldingOf <- MCHoldingOf
  Primary <- MCPrimary
  Early = {d1}
  Invoices = {i1}
  None = none
  MaxQueue = 2
  MaxFaults = 1
SPECIFICATION Spec
INVARIANTS TypeOK CoinsAreInLedger LedgerAddsUp PaidInvoiceIsCredited MinedCoinsConfirmed
PROPERTIES CoinsForward
CHECK_DEADLOCK FALSE
