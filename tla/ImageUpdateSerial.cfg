\* One invocation at a time, with crashes, failed commands and reboots.
SPECIFICATION Spec
CONSTANTS
  Proc = {p1}
  Inode = {i1}
  None = None
  Version <- LegacyHost
  Hash = {h1}
  NoHash = NoHash
  NoRevision = NoRevision
  MaxEmptyId = 2
  MaxFaults = 4
  Undersized = {"root"}
INVARIANTS
  TypeOK
  ActiveSlotUnique
  BootEntriesBacked
  InstallDelivers
  RemoveDelivers
  EmptyNameFree
