SPECIFICATION Spec
CONSTANTS
    single = single
    multi = multi
    raw = raw
    NULL = NULL
    Ids = {h1, h2}
    Texts = {single, multi, raw}
    ShapeOf <- MCShapeOf
    Items = {i1, i2}
    MaxKeys = 3
    MaxDescs = 2
    MaxFaults = 1
SYMMETRY MCSymmetry
INVARIANTS
    HoldingsInv
    RiskIsReported
    SuggestionWorks
