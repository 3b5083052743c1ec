SPECIFICATION Spec

CONSTANTS
  c1 = c1
  c2 = c2
  operator = operator
  sweeper = sweeper
  refresher = refresher
  Clients = {c1}
  Operators = {operator}
  Sweepers = {sweeper}
  Refreshers = {}
  Commands = {"pin", "unpin", "enable", "disable", "activate", "demote", "autoPin", "autoUnpin"}
  ConfigPinned = FALSE
  IdleSeconds = 1
  Grace = 1
  MaxTime = 3
  MaxCommands = 1

INVARIANT OneInside
PROPERTY RecentNotDemoted
