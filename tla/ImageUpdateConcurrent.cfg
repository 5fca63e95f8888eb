\* Two invocations that interleave, on a host with two images.
SPECIFICATION Spec
SYMMETRY Symmetry
CONSTANTS
  Proc = {p1, p2}
  Inode = {i1, i2}
  None = None
  Version <- ImageHost
  Hash = {h1, h2}
  NoHash = NoHash
  NoRevision = NoRevision
  MaxEmptyId = 1
  MaxFaults = 1
  Undersized = {}
INVARIANTS
  ActiveSlotUnique
  SlotHoldsItsImage
  ExclusiveUnlessRaced
PROPERTIES
  BootedSlotUntouched
  
