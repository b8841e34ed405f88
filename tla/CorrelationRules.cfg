SPECIFICATION Spec
CONSTANTS
    h1 = h1
    h2 = h2
    h3 = h3
    i1 = i1
    NoParent = NoParent
    Rows = {r1, r2}
    MinCycles = 2
    MaxDelay = 1
    MaxAcks = 0
    MaxChanges = 1
    MaxRestarts = 0
PROPERTIES
    ResolvedHonestly
    QuietResolvedHonestly
SYMMETRY RowSymmetry
