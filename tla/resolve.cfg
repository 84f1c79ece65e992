\* Up to three networks, or two rules of other kinds, in categories of every tier.
CONSTANTS
  ru = ru
  ya = ya
  lan = lan
  spy = spy
  blocked = blocked
  inside = inside
  trackers = trackers
  mspy = mspy
  mblocked = mblocked
  mru = mru
  moutside = moutside
  mtrackers = mtrackers
  mnew = mnew
  keyword = keyword
  dotted = dotted
  single = single
  Inputs <- MCInputs
  Mapping <- MCMapping
  Tier <- MCTier
  PatternHosts <- MCPatternHosts
  Dotless = single
  Dotted = {dotted}
  Hosts <- MCHosts
  Width = 3
  DefaultRoutes <- MCDefaults
  Required <- MCRequired
  Minimum <- MCMinimum
SPECIFICATION Spec
INVARIANTS OwnersWin NetworksExact RemovalsAreReported IndexesMatchPairwise NoneUnresolved SupersetFailsOnlyWhenDiverging ServerCoversLite
CHECK_DEADLOCK FALSE
