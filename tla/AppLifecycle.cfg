\* Two concurrent calls, each a start_app or a stop; two instance names, one fault.
SPECIFICATION AppSpec
CONSTANTS
  Name <- MCName
  Vm <- MCVm
  ParseVm <- MCParseVm
  Registrable <- MCRegistrable
  Reported <- MCReported
  Watcher <- MCWatcher
  Capacity = 1
  NoEntry = NoEntry
  Caller = {c1, c2}
  Request = {"stop"}
  AgentName = "givc-chrome-vm"
  VmService = "microvm@chrome-vm"
  AppVm = "chrome-vm"
  Instance <- MCInstance
  MaxFaults = 1
SYMMETRY Symmetry
INVARIANTS
  
  ManagedHasAgent
  RunningStaysKnown
