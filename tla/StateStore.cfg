SPECIFICATION FairSpec
CONSTANTS
  o1 = o1
  o2 = o2
  k1 = k1
  a1 = a1
  v1 = v1
  v2 = v2
  None = None
  Flusher = Flusher
  Reconnector = Reconnector
  Overrides = {k1}
  AutoChains = {a1}
  Values = {v1}
  Operators = {o1}
  Backups <- MCBackups
  MaxOps = 2
  MaxFlushes = 1
  MaxCrashes = 1
INVARIANTS AcknowledgedIsKept RefusedLeavesNoTrace
PROPERTY FileCatchesUp
