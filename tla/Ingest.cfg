SPECIFICATION Spec
CONSTANTS
    Ports = {514, 1514}
    NoRelay = 0
    MaxEntries = 2
    MaxBytes = 4
    RelayBatch = 2
    BatchMaxBytes = 2
    FlushInterval = 2
    RetryBackoffMax = 3
    MaxConnections = 1
    Sizes = {1, 3}
    MaxMessages = 3
    MaxStrays = 1
    MaxFailures = 2
    MaxApplies = 2
    QueueMax = 1
    BatchSize = 2
    BufferMax = 2
    MaxConns = 1
    MaxMsg = 3
    MaxInsertFaults = 1
    MaxStops = 1
    Tenants = {1, 2}
    Sites = {1, 2, 3}
    Hosts = {1, 2}
    AllowlistOnly = TRUE
    MaxEdits = 1
    Hashes = {"h1", "h2"}
    MaxSeen = 2
    MaxFails = 1
    MaxRestarts = 1
    MaxPrunes = 1
    Sources = {"host", "addr"}
    HostSources = {"host"}
    Instances = {"a", "b"}
    Weekdays = 2
    Backfill = 2
    MaxHour = 4
    MaxPasses = 1
    Configs = {1, 2}
    MinCycles = 2
    MinSnapshots = 2
    MaxIntegrationEvents = 2
    SourceKinds = {"agent", "proxmox"}
    Handlers = {"h1", "h2"}
    Loads = {1}
    MaxTime = 3
    MaxSamples = 3
    MaxResets = 1
    MaxLost = 1
    Templates = {"t1", "t2"}
    FleetSources = {"s1", "s2"}
    MinHosts = 2
    FleetCycles = 1
    Quiet = 1
    Expiry = 1
    MaxFleetFaults = 1
    NoisyTemplates = {"t1"}
    EventHosts = {1}
    Fleet = 0
    Window = 1
    Minute = 2
    PerMinute = 1
    MinConfidence = 20
    MinOccurrences = 1
    Requests = {"q1"}
    MaxLogged = 2
    MaxEvents = 2
    MaxVerdicts = 1
    MaxPassFaults = 1
INVARIANTS
    TypesOK
    Ingested
    
PROPERTIES
    AtLeastOnce
    DataFlows
