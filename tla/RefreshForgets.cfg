SPECIFICATION Spec
CONSTANTS
  u1 = u1
  u2 = u2
  None = None
  Urls = {u1}
  ConfigDisabled = {}
  ConfigExtra = {}
  StaleGrace = 1
  MaxEvents = 3

PROPERTY RefreshKeepsHealth
