SPECIFICATION GatewayFairSpec
CONSTANTS
  Nodes = {n1, n2}
  Accounts = {a1}
  Sockets = {s1, s2}
  Nobody = Nobody
  MaxAuths = 1
  MaxBanned = 1
  MaxFailures = 1
INVARIANTS GatewayTypeOK SessionsFollowSockets
PROPERTIES PresenceSettles
CHECK_DEADLOCK FALSE
