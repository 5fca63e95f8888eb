\* The VM crashes once while its agent is registered.
SPECIFICATION FairAppSpec
CONSTANTS
  Name <- MCName
  Vm <- MCVm
  ParseVm <- MCParseVm
  Registrable <- MCRegistrable
  Reported <- MCReported
  Watcher <- MCWatcher
  Capacity = 1
  NoEntry = NoEntry
  Caller = {c1}
  Request = {"stop", "pause", "resume"}
  AgentName = "givc-chrome-vm"
  VmService = "microvm@chrome-vm"
  AppVm = "chrome-vm"
  Instance <- MCInstance
  MaxFaults = 1
PROPERTIES
  VmRecovered
