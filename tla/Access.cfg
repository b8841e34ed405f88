SPECIFICATION Spec
CONSTANTS
    Users = {"a", "b"}
    Customers = {1, 2}
    Default = 1
    Directory = {"b"}
    Changes = {"q1", "q2"}
    MaxChanges = 2
    Kinds = {"memory", "redis", "lock"}
    Windows = {2, 4}
    Limit = 1
    Callers = {"c1", "c2"}
    Apart = TRUE
    CleanupEvery = 2
    MaxOutages = 1
    Rules = {"r1", "r2"}
    Syslog = {"r2"}
    Names = {"n1", "n2"}
    Distinct = TRUE
    Required = 2
    Cooldown = 1
    GateWindow = 3
    MaxEvents = 4
    Tenants = {"t1", "t2"}
    LegacyChannels = {"hook"}
    Extra = {"teams"}
    Calls = {"k1", "k2"}
    Window = 1
    MaxNotifyFaults = 1
    Processes = {"p1", "p2"}
    Envs = {"none", "bad", "short"}
    Term = 1
    Grace = 1
    TTL = 1
    MaxLicenceChanges = 2
    BackupUsers = {"u", "v"}
    Existing = {1}
    MaxKeys = 2
    MaxSteps = 5
    Storages = {1, 2}
    Frequency = 1
    KeepRuns = 1
    MaxTime = 3
    MaxRuns = 2
    MaxForgets = 1
    MaxLoads = 1
    DayLen = 8
    WeekLen = 3
    WindowTimes = {47, 48, 50, 52, 53, 55, 56, 57, 59, 61, 62, 63, 64, 66, 70}
    ClockChange = 57
    Clocks = {"kept", "forward", "back"}
    Jump = 3
    DaySets = {{0}, {0, 2}}
    StartTimes = {0, 7}
    Durations = {7, 10}
    Moments = {55, 58, 61}
    MaxDuration = 10
    MaxSpan = 6
    Span = 12
    WindowHosts = {"h"}
    Editors = {"q1", "q2"}
    MaxEdits = 2
    Addresses = {"a1", "a2"}
    PtrNames = {"n1"}
    Scanners = {"job", "q"}
    MaxHosts = 3
    MaxScanChanges = 3
    Ports = {"p1", "p2"}
    PortScanners = {"job", "q"}
    MaxPortChanges = 2
    Mibs = {"m1", "m2"}
    Nodes = {"x", "y"}
    Importers = {"w1", "w2"}
    Configs = {1}
    Interval = 1
    MaxPolls = 2
    MaxMibChanges = 2
    Admins = {"a1", "a2"}
    Operators = {"a1"}
    AiCalls = {"c1"}
    Slots = 1
    Workers = {"w1", "w2"}
    MaxSaves = 2
    MaxSends = 1
    MaxStops = 1
    SecretValues = {"v", "w"}
    Short = {"w"}
    Generic = {}
    Placeholders = {"USER", "SECRET"}
    MaxWords = 2
    MaxAnswer = 4
    MaxDelta = 2
    MaxPlaceholder = 4
INVARIANTS
    TypesOK
    AccountsSafe
    BackupsHold
    

    
