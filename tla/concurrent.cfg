\* The hourly publication and an operator's rollback at the same time.
CONSTANTS
  v1 = v1
  v2 = v2
  v3 = v3
  Publishers = {w}
  Operators = {o}
  Versions = {v1, v2}
  Paths <- SmallPaths
  ManifestPath = 3
  IndexPath = 1
  Artifacts <- SmallArtifacts
  ReleaseIds = {1}
  MaxWorkers = 2
  FaultKinds = {"lost", "ack", "corrupt", "get", "crash"}
  MaxFaults = 2
  Republishing = FALSE
  None = None
  Corrupt = Corrupt
SPECIFICATION Spec
INVARIANT PublishedIntact
PROPERTIES LatestFromIntact ImplementsPointer
