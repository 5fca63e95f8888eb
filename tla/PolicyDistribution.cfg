SPECIFICATION FairSpec
CONSTANTS
  Vm = {v1, v2}
  File = {"proxy", "usb"}
  Vms <- MCVms
  Urls = {"proxy"}
  Polls = TRUE
  Retries = 0
  MaxCommits = 2
  MaxFaults = 1
INVARIANTS
  TypeOK
  
  HeadIsStored
PROPERTIES
  NoRollback
  
