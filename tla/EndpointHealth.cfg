SPECIFICATION FairSpec
CONSTANTS
  r1 = r1
  r2 = r2
  w1 = w1
  w2 = w2
  Requests = {r1, r2}
  Workers = {w1, w2}
  CooldownTable <- MCCooldownTable
  ErrorWindow = 1
  DecayInterval = 2
  FaultsBeforeCooling = 2
  ProbationPassesRequired = 2
  RetryAfters = {2}
  AdminCooldowns = {1}
  Snapshots <- MCSnapshots
  MaxStrikes = 2
  MaxTime = 4
INVARIANTS ProbeSlot RetryAfterHonoured
PROPERTIES CoolingEnds ReturnIsEarned CooldownNeverCutShort OneStrikePerCooling
