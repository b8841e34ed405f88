SPECIFICATION Spec
CONSTANTS
 Templates = {"t1","t2"}
 Sources = {"h1","h2"}
 MinHosts = 2
 MinCycles = 2
 Quiet = 1
 Expiry = 1
 MaxTime = 3
 MaxFaults = 1
INVARIANT FleetReported
