SPECIFICATION LinksSpec
CONSTANTS
  \* PeerUpgrade
  Sides = {a, b}
  None = None
  Relayed = Relayed
  MaxStreams = 2
  \* TcpRelay
  Clients = {a, b}
  Workers = 1
  MaxConns = 4
  \* FuncCall
  Callers = {sync, p2p}
  FuncNames = {"ping", "data"}
  MaxCalls = 3
  Nobody = Nobody
INVARIANTS
  
  RelayedToDestination
  ReplyIsForThisCall LoopNeverBlocks
PROPERTIES
   ConnectionsServed EveryCallReturns
CHECK_DEADLOCK FALSE
