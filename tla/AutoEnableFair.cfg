SPECIFICATION FairSpec
CONSTANTS
  c1 = c1
  c2 = c2
  o1 = o1
  o2 = o2
  Scanner = scanner
  Chains = {c1, c2}
  Rank <- Order
  Operators = {}
  Commands = {}
  Documents = {}
  Offers = {{}, {c1}, {c2}, {c1, c2}}
  MaxChains = 2
  PromoteAfter = 2
  ProbeBatch = 1
  MaxCommands = 0
  MaxFaults = 2
  MaxRestarts = 1
  MaxChanges = 1
PROPERTIES QualifiedIsEnabled
