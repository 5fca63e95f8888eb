\* Two invocations at a time, two tags of which prune keeps one.
SPECIFICATION Spec
SYMMETRY Symmetry
CONSTANTS
  Proc = {p1, p2}
  Tag = {t1, t2}
  v1 = v1
  v2 = v2
  Version <- MCVersion
  Artifact <- MCArtifact
  Name <- MCName
  FileName <- MCFileName
  Keep = 1
  None = None
  Torn = Torn
  MaxCommands = 4
  MaxFaults = 1
INVARIANTS
  RemoteComplete
  ManifestVouches
  InstallsManifest
  LastPulledSurvives
CHECK_DEADLOCK FALSE
