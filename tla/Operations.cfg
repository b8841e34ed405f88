SPECIFICATION Spec
CONSTANTS
    Modes = {"git", "image"}
    Retention = 2
    MaxVersion = 3
    MaxFaults = 2
    N = 3
    LateCopies = {"work"}
    Coincide = FALSE
    MaxDeletes = 1
    MaxCopyFaults = 1
    Streams = {"ping"}
    Probes = {"probe"}
    Jobs = {"job"}
    Grace = 2
    MaxCheckFaults = 3
    Replicas = {"a", "b"}
    ReportKinds = {"digest", "daily"}
    Period = 4
    Guard = 3
    MaxReportFaults = 3
    Customers = {1, 2}
    Pages = {"p"}
    Full = 4
    DiskLevels = {0, 1, 3}
    Lookback = 4
    Budget = 3
    Newest = 1
    Ttl = 1
    MinHistory = 3
    MaxHistory = 4
    Soon = 1
    Later = 2
    MaxDays = 4
    MaxComputed = 2
    MaxForecastFaults = 1
INVARIANTS
    TypesOK
    UpgradeSafe
    
PROPERTIES
    AlarmsEarned
    
