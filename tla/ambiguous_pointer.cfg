\* The PUT of the pointer takes effect but is reported as failed.
CONSTANTS
  v1 = v1
  v2 = v2
  v3 = v3
  Publishers = {w}
  Operators = {w}
  Versions = {v1, v2}
  Paths <- SmallPaths
  ManifestPath = 3
  IndexPath = 1
  Artifacts <- SmallArtifacts
  ReleaseIds = {1}
  MaxWorkers = 2
  FaultKinds = {"pointer_ack"}
  MaxFaults = 1
  Republishing = FALSE
  None = None
  Corrupt = Corrupt
SPECIFICATION Spec
INVARIANT CleanupNeverOfLive
