SPECIFICATION Spec
CONSTANTS
    Grace = 1
    ResultWindow = 1
    HostKinds = {"icmp", "agent"}
    MaxHostChanges = 2
    MaxHostFaults = 1
    SetAfter = 3
    ClearAfter = 2
    MaxPortChanges = 2
    MaxPortFaults = 1
    Services = {"s1", "s2"}
    FailReports = 2
    Overlap = FALSE
    MaxEdits = 2
    Nobody = Nobody
    LogKinds = {"journal", "docker", "events", "file"}
    Limit = 1
    Interval = 1
    MaxEntries = 3
    MaxClock = 3
    MaxFails = 1
    MaxRestarts = 1
    MaxRotations = 1
    Machines = {"m1", "m2"}
    MaxReqs = 3
    MaxChanges = 2
    Binaries = {1, 2, 3, 4}
    Scripts = {1}
    Released = {2, 3}
    Foreign = {}
    AgentKinds = {"rust", "script"}
    MaxDeploys = 2
    MaxFlips = 2
    Requests = {"q1", "q2"}
    Addresses = {"a", "b"}
    MaxWrites = 3
    EditsOverlap = TRUE
INVARIANTS
    TypesOK
    UpWasReached
    
    AgentsSafe
PROPERTIES
    AgentsRun
    
