\* One command at a time, a publication or a rollback, with every fault but an
\* ambiguous or corrupt PUT of the pointer.
CONSTANTS
  v1 = v1
  v2 = v2
  v3 = v3
  Publishers = {w}
  Operators = {w}
  Versions = {v1, v2}
  Paths <- MCPaths
  ManifestPath = 5
  IndexPath = 1
  Artifacts <- MCArtifacts
  ReleaseIds = {1}
  MaxWorkers = 2
  FaultKinds = {"lost", "ack", "corrupt", "get", "crash"}
  MaxFaults = 3
  Republishing = FALSE
  None = None
  Corrupt = Corrupt
SPECIFICATION FairSpec
INVARIANTS TypeOK PublishedIntact PublicReleaseIsLive CleanedUp
PROPERTIES PointerLast PublicStaysPublic CommandsEnd PublishesOnceFaultsStop
