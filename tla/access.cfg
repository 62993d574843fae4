SPECIFICATION MCSpec
CONSTANTS
    NULL = NULL
    Right = right
    Passphrases = {right, wrong}
    Refs <- MCRefs
    Tokens = {t1, t2}
    Devices = {d1, d2}
    Clients = {c1}
    TokenTTL = 0
    CacheTTL = 1
    Window = 1
    MaxFailures = 1
INVARIANTS
    AccessInv
PROPERTIES
    RevocationTakesEffect
    RevokedRequestsEnd
