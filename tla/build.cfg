\* Two builds, the second of which may fail anywhere, with two workers.
CONSTANTS
  ads = ads
  whitelist = whitelist
  google = google
  Kinds <- MCKinds
  Workers = 2
  FaultKinds = {"fails", "silent", "other", "garbage", "error", "crash"}
  MaxBuilds = 2
  MaxFaults = 2
  None = None
SPECIFICATION FairSpec
INVARIANTS WorkersEndFirst DistComplete DatasetsKeptApart ReleasedArchiveMatches
PROPERTY BuildEnds
CHECK_DEADLOCK FALSE
