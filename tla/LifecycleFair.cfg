SPECIFICATION FairSpec
CONSTANTS
  c1 = c1
  c2 = c2
  operator = operator
  sweeper = sweeper
  refresher = refresher
  Clients = {c1}
  Operators = {operator}
  Sweepers = {}
  Refreshers = {refresher}
  Commands = {"demote", "autoPin", "autoUnpin", "disable"}
  ConfigPinned = FALSE
  IdleSeconds = 1
  Grace = 1
  MaxTime = 1
  MaxCommands = 3
PROPERTIES ResolveEnds PinSettles PoolReturns
