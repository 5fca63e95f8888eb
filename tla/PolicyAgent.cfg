\* Two uploads at a time of two payloads for two policies, with two faults.
SPECIFICATION Spec
SYMMETRY Symmetry
CONSTANTS
  Call = {c1, c2}
  Policy <- MCPolicy
  Deployed <- MCDeployed
  Payload = {x1, x2}
  MaxFaults = 2
  None = None
  Torn = Torn
  NoSha = NoSha
  Unknown = Unknown
INVARIANTS
  RecordedIsInstalled
PROPERTIES
  KnownUnlessTorn
