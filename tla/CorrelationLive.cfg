SPECIFICATION FairSpec
CONSTANTS
    h1 = h1
    h2 = h2
    r1 = r1
    r2 = r2
    NoParent = NoParent
    Hosts = {h1}
    Parent <- Flat
    Subnet <- OneSubnet
    Integrations = {}
    HostOf <- AllOnH1
    Signals <- NoSignals
    RuleSeq <- DownAndPrecursors
    Conditions <- OneDownConditions
    MinCycles = 2
    ResolveAfter = 1
    MaxDelay = 1
    Ids = {r1, r2}
    MaxAcks = 1
    MaxChanges = 2
    MaxRestarts = 1
PROPERTIES
    OutageReported
    RecoveryResolves
