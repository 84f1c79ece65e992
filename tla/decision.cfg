\* Two sources and a configuration that drops one, over a sequence of runs.
CONSTANTS
  a = a
  b = b
  c = c
  ads = ads
  geo = geo
  y1 = y1
  y2 = y2
  Sources = {a, b}
  Categories = {ads, geo}
  Feeds <- BothFeeds
  Contents <- MCContents
  Worlds <- MCWorlds
  Policies = {y1, y2}
  SourcesOf <- BothOf
  SourceRemovals <- DropB
  ScopeChanges <- ReaddB
  Ratio <- Half
  SizeRatio <- Half
  Floor <- Half
  MaxStale = 1
  MaxChanges = 4
  MaxFaults = 1
  Overlapping = FALSE
  None = None
SPECIFICATION FairSpec
PROPERTIES EnoughRemains CatchesUp LockoutStays
