SPECIFICATION MCFairSpec
CONSTANTS
  u1 = u1
  u2 = u2
  c1 = c1
  c2 = c2
  c3 = c3
  r1 = r1
  r2 = r2
  r3 = r3
  e1 = e1
  e2 = e2
  e3 = e3
  Enabled = TRUE
  MaxPercent = 40
  MaxConcurrent = 1
  BatchLimit = 2
  Chains = {c1, c2}
  Urls = {u1, u2}
  ChainOf <- MCChainOf
  Capacity = 1
  KickCapacity = 1
  MaxConcurrency = 2
  Width = 4
  RecentDepth = 1
  TraceLookback = 4
  BlockWalk = 1
  MinHead = 5
  Interval = 1
  Window = 3
  MaxHead = 6
  MaxFaults = 2
  Candidates = {u1, u2, e1, e2}
  Rank <- MCRank
  Untracked = {e2}
  Sample = 3
  MinActive = 1
  Tolerance = 1
  Permits = 2
  Ceiling = 9
  MaxMisses = 1
  Refreshers = {"loop", "request"}
  Manual = {"request"}
  Size <- MCSize
  MaxRestarts = 1
  Endpoints = {e1, e2, e3}
  Liars = {e3}
  Confirmations = 1
  MaxLag = 1
  MaxReorg = 2
  MaxHeight = 3
  MaxReorgs = 1
  MaxKept = 1
  Served = {c1, c2}
  Paid = {u1, u2}
  Defaults <- MCDefaults
  MaxSections = 2
  MaxListed = 2
  Chosen = {"flight", "scheduler", "archive", "list", "http"}
  Requests = {r1}
  MaxPrimaries = 1
  Callers = {c1, c2}
  MaxClears = 2
  ListFaults = 1
  MaxWrong = 1
  MaxLevel = 2
  Https = {r1}
  MaxEvents = 2
PROPERTIES
  EveryEndpointProbed VerdictSettles CatalogConverges NewestArrives
  ShutdownEnds FollowersReturn
