\* Three sources of one size, one of which may be stale at a time; rollbacks at any time.
CONSTANTS
  a = a
  b = b
  c = c
  ads = ads
  geo = geo
  y1 = y1
  y2 = y2
  Sources = {a, b, c}
  Categories = {ads}
  Feeds <- ThirdFeeds
  Contents <- ThirdContents
  Worlds <- ThirdWorld
  Policies = {y1, y2}
  SourcesOf <- ThirdOf
  SourceRemovals = {}
  ScopeChanges = {}
  Ratio <- Half
  SizeRatio <- Half
  Floor <- Half
  MaxStale = 1
  MaxChanges = 6
  MaxFaults = 2
  Overlapping = TRUE
  None = None
SPECIFICATION FairSpec
PROPERTY QuarantineHeals
