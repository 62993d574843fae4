SPECIFICATION Spec
CONSTANTS
    NULL = NULL
    Passphrases = {right, wrong}
    Providers = {p1}
    MaxVersion = 1
    Unreachable = 3
    MaxFaults = 1
    MaxWire = 2
    Refs <- MCRefs
INVARIANTS
    CustodyInv
    RowsHaveSecrets
    NoOrphanSecrets
PROPERTIES
    PolledAgain
CHECK_DEADLOCK FALSE
