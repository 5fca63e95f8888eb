\* Two bytes one way and one the other, in chunks of two at most; one failure.
SPECIFICATION FairSpec
CONSTANTS
  MaxBytes <- MCMaxBytes
  ChunkSize = 2
  Window = 1
  SockCap = 1
  MaxFaults = 1
INVARIANT TypeOK
PROPERTIES
  PipeSpec
  Released
  CloseReaches
CHECK_DEADLOCK FALSE
