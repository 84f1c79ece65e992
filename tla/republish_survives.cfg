\* publish is run again on a dist that has been published: what survives it.
CONSTANTS
  v1 = v1
  v2 = v2
  v3 = v3
  Publishers = {w}
  Operators = {w}
  Versions = {v1, v2}
  Paths <- SmallPaths
  ManifestPath = 3
  IndexPath = 1
  Artifacts <- SmallArtifacts
  ReleaseIds = {1, 2}
  MaxWorkers = 2
  FaultKinds = {"lost", "ack", "corrupt", "get", "crash"}
  MaxFaults = 2
  Republishing = TRUE
  None = None
  Corrupt = Corrupt
SPECIFICATION Spec
PROPERTY PointerToReadable
