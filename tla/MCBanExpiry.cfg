CONSTANTS
  ip1 = ip1
  ip2 = ip2
  c1 = c1
  c2 = c2
  Ips <- MCIps
  Clients <- MCClients
  Durations <- MCDurations
  MaxTime = 3
  MaxBuffer = 2
SPECIFICATION Spec

PROPERTY QueuedUnbanLifts
CHECK_DEADLOCK FALSE
