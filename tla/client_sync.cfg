SPECIFICATION SyncSpec
CONSTANTS
  Peers = {p1, p2}
  Own = own
  Alike = {p2}
  Hosts = {h1}
  NoHost = NoHost
  MaxChanges = 4
  MaxFaults = 2
  MaxTries = 1
  MaxErrorToReconnect = 3
  MaxReconnectInterval = 30
 
PROPERTIES RoutesConverge PeersConvergeUndisturbed
CHECK_DEADLOCK FALSE
