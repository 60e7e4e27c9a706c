-------------------------------- MODULE MCParts --------------------------------
(* The parts whose questions are about safety, in one run: each behaviour   *)
(* is one of one part, the others rest at an initial state of theirs.       *)
EXTENDS RouterDigest, PacketBatch, IPAllocator, TokenBucket, Fragments, RelayMeter,
        NetworkAdmin, HubTx, HubRx, TLC

CONSTANTS a, b

VARIABLE subject

(* Writers, callers, proxies, handlers, destinations and streams named a    *)
(* and b are interchangeable in every part.                                 *)
Swap == Permutations({a, b})

(* A host route that two goroutines write at once, and an IPv6 host route,  *)
(* at the depth where a traversal gives up, below a shorter prefix.         *)
MCRoutes == {<<"v4", 0>>, <<"v6", 1>>, <<"v6", 1, 0>>}
MCShared == {<<"v4", 0>>}
MCAddresses == {<<"v4", 0>>, <<"v6", 1, 0>>}

(* A lookup and a traversal change nothing the other sees, so one of them   *)
(* at a time is enough.                                                     *)
OneObserver ==
  (\A r \in Readers : look[r].pc = "idle") \/ (\A k \in Walkers : walk[k].pc = "idle")

(* Batches around the sizes at which a layer's overhead no longer fits the  *)
(* frame, around the compression threshold and around the packet limit.     *)
Full(n) == [i \in 1..n |-> 1500]
MCBatchInputs ==
  {Full(43) \o <<x>> : x \in {895, 896, 922, 923, 938, 939}}
  \cup {Full(21) \o <<x>> : x \in {1210, 1211}}
  \cup {Full(6) \o <<x>> : x \in {1223, 1224}}
  \cup {[i \in 1..n |-> 40] : n \in {1, 128, 129}}

(* Pools of a /29, a /30 and a /31, in addresses of five bits. *)
MCNetworks == {[ip |-> 8, size |-> 8], [ip |-> 4, size |-> 4], [ip |-> 14, size |-> 2]}

allVars == <<vars, pktVars, poolVars, bucketVars, fragVars, meterVars, adminVars, hubVars, rxVars>>

PartsInit ==
  /\ subject \in {"router", "batch", "pool", "bucket", "fragments", "meter", "admin", "hub", "rx"}
  /\ Init /\ PktInit /\ PoolInit /\ BucketInit /\ FragInit /\ MeterInit /\ AdminInit /\ HubInit /\ RxInit
  /\ subject # "batch" => packets = <<40>> /\ ~pktOpts.encrypt /\ ~pktOpts.compress
  /\ subject # "pool" => ipnet.size = 8
  /\ subject # "admin" => \A n \in NetworkIds : row[n] = NoRow
  /\ subject # "rx" => writer = "plain"

(* One part takes a step. *)
Only(part) == subject = part /\ UNCHANGED subject

RouterPart == Only("router") /\ Next
  /\ UNCHANGED <<pktVars, poolVars, bucketVars, fragVars, meterVars, adminVars, hubVars, rxVars>>
BatchPart == Only("batch") /\ PktNext
  /\ UNCHANGED <<vars, poolVars, bucketVars, fragVars, meterVars, adminVars, hubVars, rxVars>>
PoolPart == Only("pool") /\ PoolNext
  /\ UNCHANGED <<vars, pktVars, bucketVars, fragVars, meterVars, adminVars, hubVars, rxVars>>
BucketPart == Only("bucket") /\ BucketNext
  /\ UNCHANGED <<vars, pktVars, poolVars, fragVars, meterVars, adminVars, hubVars, rxVars>>
FragmentsPart == Only("fragments") /\ FragNext
  /\ UNCHANGED <<vars, pktVars, poolVars, bucketVars, meterVars, adminVars, hubVars, rxVars>>
MeterPart == Only("meter") /\ MeterNext
  /\ UNCHANGED <<vars, pktVars, poolVars, bucketVars, fragVars, adminVars, hubVars, rxVars>>
AdminPart == Only("admin") /\ AdminNext
  /\ UNCHANGED <<vars, pktVars, poolVars, bucketVars, fragVars, meterVars, hubVars, rxVars>>
HubPart == Only("hub") /\ HubNext
  /\ UNCHANGED <<vars, pktVars, poolVars, bucketVars, fragVars, meterVars, adminVars, rxVars>>
RxPart == Only("rx") /\ RxNext
  /\ UNCHANGED <<vars, pktVars, poolVars, bucketVars, fragVars, meterVars, adminVars, hubVars>>

PartsNext ==
  \/ RouterPart \/ BatchPart \/ PoolPart \/ BucketPart \/ FragmentsPart \/ MeterPart
  \/ AdminPart \/ HubPart \/ RxPart

PartsSpec == PartsInit /\ [][PartsNext]_<<subject, allVars>>

(* The types of every part, with the bounds of its queues and counters: no  *)
(* more tokens than the burst, no longer queue than its channel, no sleep   *)
(* longer than an interval, objects only for CIDRs that parse.              *)
PartsTypeOK ==
  /\ TypeOK /\ PktTypeOK /\ PoolTypeOK /\ BucketTypeOK /\ FragTypeOK
  /\ MeterTypeOK /\ AdminTypeOK /\ HubTypeOK /\ RxTypeOK

================================================================================
