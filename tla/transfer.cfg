\* Two clients of one key, any number of calls, failures and timeouts.
CONSTANTS
  Clients = {w, o}
  Values = {v1, v2}
  Attempts = 2
  None = None
  Partial = Partial
SPECIFICATION Spec
INVARIANTS SettledStays ReadsWhole
PROPERTY ImplementsStore
