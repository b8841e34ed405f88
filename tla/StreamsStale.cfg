SPECIFICATION Spec
CONSTANTS
    Tenants = {1, 2}
    Conns = {"c1"}
    Multi = TRUE
    Period = 2
    QueueMax = 1
    MaxTime = 6
    MaxChanges = 2
    MaxFaults = 1
INVARIANT StreamsFollow
