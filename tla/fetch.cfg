\* Sources of every kind, two at a time, while upstreams move on and requests fail.
CONSTANTS
  aireps = aireps
  jutsu = jutsu
  itdog = itdog
  overlay = overlay
  f = f
  g = g
  commit = commit
  t1 = t1
  t2 = t2
  t3 = t3
  Releases = {aireps, jutsu}
  Branches = {itdog}
  Locals = {overlay}
  Files <- MCFiles
  Rolling = {jutsu}
  Pinned = {jutsu}
  Synced = aireps
  Registries <- MCRegistries
  Commit = commit
  Tags <- MCTags
  MaxRetries = 1
  MaxChanges = 2
  MaxFaults = 2
  None = None
SPECIFICATION FairSpec
INVARIANTS ObjectsMatchRevision OnlyStaleLeftOut
PROPERTIES LoadsWhole FetchEnds FetchesOnceSettled
CHECK_DEADLOCK FALSE
