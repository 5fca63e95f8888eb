\* One watcher against every sequence of registry operations; the channel keeps
\* two events, so that a replacement fills it and a cascade of three overflows it.
SPECIFICATION FairSpec
CONSTANTS
  Name <- MCName
  Vm <- MCVm
  ParseVm <- MCParseVm
  Registrable <- MCRegistrable
  Reported <- MCReported
  Watcher = {w1}
  Capacity = 2
  NoEntry = NoEntry
INVARIANTS
  WatchersCurrent
PROPERTIES
  
  WatchersCatchUp
