\* An install cut off before its UKI is in place is never resumed.
SPECIFICATION Spec
CONSTANTS
  Proc = {p1}
  Inode = {i1}
  None = None
  Version <- LegacyHost
  Hash = {h1}
  NoHash = NoHash
  NoRevision = NoRevision
  MaxEmptyId = 2
  MaxFaults = 4
  Undersized = {"root"}
INVARIANT NothingToDoIsBootable
