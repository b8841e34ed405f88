SPECIFICATION Spec
CONSTANTS
  Instances = {a, b, c}
  None = None
  TTL = 9
  Renew = 1
  MaxLatency = 2
  MaxMisses = 1
  MaxStops = 2
INVARIANTS TypeOK OnlyHolderRuns HandOver
