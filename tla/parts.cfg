SPECIFICATION PartsSpec
CONSTANTS
  a = a  b = b
  \* RouterTrie
  V4Bits = 1
  V6Bits = 2
  MaxDepth = 2
  Routes <- MCRoutes
  Shared <- MCShared
  Addresses <- MCAddresses
  Writers = {a, b}
  Readers = {r1}
  Walkers = {k1}
  MaxOps = 3
  Nil = Nil
  \* PacketBatch
  BatchInputs <- MCBatchInputs
  RxBatchSize = 128
  RxMTU = 1500
  \* IPAllocator
  Word = 32
  Octet = 4
  Networks <- MCNetworks
  FixedIPs = {1, 2, 9, 26, 31}
  Clients = {a, b, c}
  NoLease = NoLease
  \* TokenBucket
  Threads = {a, b}
  RateNum = 3
  RateDen = 2
  Burst = 2
  Requests = {1, 2}
  MaxTime = 2
  \* Fragments
  Lengths = {2, 3, 5, 9}
  MaxPayloadSize = 2
  IdSpace = 2
  CountSpace = 4
  MaxSends = 3
  \* RelayMeter
  Proxies = {a, b}
  Rate = 10
  Chunk = 21
  MaxClock = 6
  MaxSamples = 2
  \* NetworkAdmin
  NetworkIds = {n1}
  Cidrs = {c1, c2, bad}
  BadCidr = bad
  NoRow = NoRow
  Handlers = {a, b, c}
  MaxRestarts = 1
  \* HubTx
  Dests = {a, b}
  NoRoute = NoRoute
  NoTx = NoTx
  Relay = Relay
  P2P = P2P
  BatchSize = 2
  MaxTxEventBuf = 2
  PoolSize = 8
  MaxPackets = 3
  MaxTrouble = 1
  \* HubRx
  Streams = {a, b}
  MaxRxEventBuf = 2
  RxPoolSize = 5
  MaxMessages = 3
  MaxRxFaults = 2
CONSTRAINT OneObserver
SYMMETRY Swap
INVARIANTS
  
  NoStaleRoute StableRouteFound 
  PacketsArriveInOrder BuffersApart
   HostAddressesOnly
  NeverOverGrants
  DeliveredWhole ArrivedIsDelivered
  NetworkCountsOnce
  RunningAsStored
  EventOwnedOnce WrittenInOrder HubNeverStuck
  
PROPERTY TrieIsTable
CHECK_DEADLOCK FALSE
