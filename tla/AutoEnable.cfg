SPECIFICATION Spec
CONSTANTS
  c1 = c1
  c2 = c2
  o1 = o1
  o2 = o2
  Scanner = scanner
  Chains = {c1}
  Rank <- Order
  Operators = {o1, o2}
  Commands = {"pin", "unpin", "disable", "settings"}
  Documents <- Backups
  Offers = {{c1}}
  MaxChains = 1
  PromoteAfter = 1
  ProbeBatch = 1
  MaxCommands = 2
  MaxFaults = 1
  MaxRestarts = 1
  MaxChanges = 0
SYMMETRY Symmetry
INVARIANT AutoIsStored
 
