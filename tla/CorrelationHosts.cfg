SPECIFICATION Spec
CONSTANTS
    h1 = h1
    h2 = h2
    r1 = r1
    r2 = r2
    NoParent = NoParent
    Hosts = {h1, h2}
    Parent <- Chain
    Subnet <- OneSubnet
    Integrations = {}
    HostOf <- AllOnH1
    Signals <- NoSignals
    RuleSeq <- DownRules
    Conditions <- DownConditions
    MinCycles = 2
    ResolveAfter = 1
    MaxDelay = 1
    Ids = {r1, r2}
    MaxAcks = 1
    MaxChanges = 1
    MaxRestarts = 1
INVARIANTS
    TypeOK
    OpenUnique
PROPERTIES
    StreakEndsHonestly
    
    ResolvedHonestly
SYMMETRY RowSymmetry
