\* The swaps of `build`, with one backup directory, and of `fetch`, with one for each run.
CONSTANTS
  MaxRuns = 4
  FaultKinds = {"oserror", "crash"}
  MaxFaults = 3
  None = None
  Partial = Partial
SPECIFICATION FairSpec
INVARIANTS DestinationIsLast FailureKeepsTree LastTreeSurvives
PROPERTY InstallsOnceFaultsStop
CHECK_DEADLOCK FALSE
