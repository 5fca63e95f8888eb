SPECIFICATION FairSpec
CONSTANTS
  Agent = agent
  Service = {s1}
  NoService = NoService
  MaxStarts = 2
  Value = {v1, v2}
  None = None
  Mixed = Mixed
  Request = {r1, r2}
  Asks <- MCAsks
  MaxFaults = 1
  r1 = r1
  r2 = r2
  v1 = v1
  v2 = v2
INVARIANTS
  ShutdownClean
  CallbacksServed
  AgentFirst
  
  Settled
PROPERTIES
  
  Registers
CHECK_DEADLOCK FALSE
