SPECIFICATION Spec
CONSTANTS
  c1 = c1
  c2 = c2
  o1 = o1
  o2 = o2
  Scanner = scanner
  Chains = {c1}
  Rank <- Order
  Operators = {o1}
  Commands = {"pin", "unpin", "enable", "disable", "settings"}
  Documents = {}
  Offers = {{}}
  MaxChains = 1
  PromoteAfter = 1
  ProbeBatch = 1
  MaxCommands = 2
  MaxFaults = 0
  MaxRestarts = 0
  MaxChanges = 0
INVARIANT WishIsStored
