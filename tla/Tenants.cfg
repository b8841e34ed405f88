SPECIFICATION Spec
CONSTANTS
    Deletions = {"r1", "r2"}
    Overlap = FALSE
    MaxRequests = 5
    MaxFailures = 3
    Writers = {"w1"}
    Operators = {"rotate", "upgrade", "destroy"}
    QuietStart = TRUE
    MaxKey = 3
    MaxWrite = 2
    Procs = {"p1", "p2"}
    MaxGrants = 2
    MaxFlips = 1
    Tenants = {1, 2, 3}
    Kinds = {"per_tenant", "fleet"}
    Parallel = 2
    First = {2}
    MinActive = 2
    Stuck = {1}
    MaxChanges = 2
    Total = 3
    TenantCap = 2
    MaxQueue = 2
    Customers = {1, 2}
    ScopeTasks = {"k1", "k2"}
    Conns = {"c1"}
    Bindings = {0, 1}
    MaxStatements = 6
    ReadUsers = {"u1", "u2"}
    Main = "main"
    Apart = TRUE
    Filters = FALSE
    MaxReadFaults = 2
    Streams = {"s1"}
    Multi = FALSE
    Period = 2
    QueueMax = 1
    MaxTime = 6
    MaxAccessChanges = 1
    MaxStreamFaults = 1
INVARIANTS
    TypesOK
    
    
    SlotsExact
    Isolated
PROPERTIES
    SupportEnds
    
