------------------------------ MODULE IPAllocator ------------------------------
(***************************************************************************)
(* The address pool of a network, common/addresses/ip_pool.go.  Every      *)
(* operation holds the pool's mutex, so each is one step.  An address is   *)
(* its value on 32 bits: Word stands for 2^32 and Octet for the 256 values *)
(* of the last byte, which the pool treats apart from the others.          *)
(***************************************************************************)
EXTENDS Integers, FiniteSets

CONSTANTS Word,      \* number of addresses
          Octet,     \* number of values of the last byte
          Networks,  \* the network of the pool: [ip, size], from its CIDR
          FixedIPs,  \* the FixedIP settings of devices
          Clients,   \* callers that lease an address
          NoLease

PoolAddresses == 0..(Word - 1)

ASSUME PoolAssumption ==
  /\ Word \in Nat
  /\ Octet \in Nat /\ Octet >= 4
  /\ \A n \in Networks :
       /\ n.ip \in PoolAddresses /\ n.size \in Nat \ {0} /\ n.ip + n.size <= Word
  /\ FixedIPs \subseteq Nat \ {0}
  /\ NoLease \notin PoolAddresses

VARIABLES
  ipnet,     \* the network of the CIDR
  startIP, endIP, totalIPs,
  allocated, \* the addresses given out
  lease,     \* the address each client believes to hold
  answer     \* what the last call returned: "ok" or the error

poolVars == <<ipnet, startIP, endIP, totalIPs, allocated, lease, answer>>

(* The last byte of the first address becomes 1, that of the last 254,     *)
(* whatever the mask.                                                       *)
StartAvailable(n) == (n.ip - (n.ip % Octet)) + 1

EndAvailable(n) ==
  LET broadcast == n.ip + n.size - 1
  IN (broadcast - (broadcast % Octet)) + Octet - 2

calculateIPRangeSize(first, end) == IF first > end THEN 0 ELSE end - first + 1

(* NewIPAllocator *)
PoolInit ==
  /\ ipnet \in Networks
  /\ startIP = StartAvailable(ipnet)
  /\ endIP = EndAvailable(ipnet)
  /\ totalIPs = calculateIPRangeSize(startIP, endIP)
  /\ allocated = {}
  /\ lease = [c \in Clients |-> NoLease]
  /\ answer = "ok"

-------------------------------------------------------------------------------
poolConfig == <<ipnet, startIP, endIP, totalIPs>>

Grant(c, ip) ==
  /\ allocated' = allocated \cup {ip}
  /\ lease' = [lease EXCEPT ![c] = ip]
  /\ answer' = "ok"

Refuse(error) ==
  /\ answer' = error
  /\ UNCHANGED <<allocated, lease>>

(* One thousand draws from the range: a free address, or none found.        *)
AssignRandom(c) ==
  /\ lease[c] = NoLease
  /\ IF Cardinality(allocated) >= totalIPs
     THEN Refuse("no available IP addresses")
     ELSE \/ \E ip \in (startIP..endIP) \ allocated : Grant(c, ip)
          \/ /\ (startIP..endIP) \cap allocated # {}
             /\ Refuse("failed to find available IP address")
  /\ UNCHANGED poolConfig

OffsetUnmasked(c, fixed) ==
  /\ lease[c] = NoLease
  /\ LET ip == (startIP + fixed) % Word IN
     IF ip > endIP THEN Refuse("offset is out of range") ELSE Grant(c, ip)
  /\ UNCHANGED poolConfig

(* The offset and the sum are taken on 32 bits; only the upper end is       *)
(* checked.                                                                 *)
AssignByOffset(c, fixed) ==
  /\ lease[c] = NoLease
  /\ LET ip == (startIP + fixed) % Word IN
     IF ip > endIP THEN Refuse("offset is out of range")
     ELSE IF ip \in allocated THEN Refuse("already allocated")
     ELSE Grant(c, ip)
  /\ UNCHANGED poolConfig

SpecificBelowEnd(c, ip) ==
  /\ lease[c] = NoLease
  /\ IF ip \in allocated THEN Refuse("already allocated")
     ELSE IF ip > endIP THEN Refuse("out of range")
     ELSE Grant(c, ip)
  /\ UNCHANGED poolConfig

AssignSpecific(c, ip) ==
  /\ lease[c] = NoLease
  /\ IF ip \notin ipnet.ip..(ipnet.ip + ipnet.size - 1) THEN Refuse("not within network")
     ELSE IF ip \in allocated THEN Refuse("already allocated")
     ELSE IF ip < startIP \/ ip > endIP THEN Refuse("out of range")
     ELSE Grant(c, ip)
  /\ UNCHANGED poolConfig

ReleaseIP(c) ==
  /\ lease[c] # NoLease
  /\ lease' = [lease EXCEPT ![c] = NoLease]
  /\ IF lease[c] \in allocated
     THEN allocated' = allocated \ {lease[c]} /\ answer' = "ok"
     ELSE answer' = "not allocated" /\ UNCHANGED allocated
  /\ UNCHANGED poolConfig

(* What Bytes writes and LoadFromData uses: the rest of the pool is         *)
(* derived again from the CIDR.                                             *)
Bytes == [network |-> ipnet, allocated |-> allocated]

LoadFromData(data) ==
  /\ startIP' = StartAvailable(data.network)
  /\ endIP' = EndAvailable(data.network)
  /\ totalIPs' = calculateIPRangeSize(startIP', endIP')
  /\ allocated' = data.allocated

Reload ==
  /\ LoadFromData(Bytes)
  /\ UNCHANGED <<ipnet, lease, answer>>

PoolNext ==
  \/ \E c \in Clients :
       \/ AssignRandom(c)
       \/ \E fixed \in FixedIPs : AssignByOffset(c, fixed)
       \/ \E ip \in PoolAddresses : AssignSpecific(c, ip)
       \/ ReleaseIP(c)
  \/ Reload

PoolSpec == PoolInit /\ [][PoolNext]_poolVars

-------------------------------------------------------------------------------
(* Types; the range and its size, computed without a sign, stay natural     *)
(* numbers, and the bitmap marks addresses of the word's width.             *)
PoolTypeOK ==
  /\ ipnet \in Networks
  /\ startIP \in Nat /\ endIP \in Nat /\ totalIPs \in Nat
  /\ allocated \subseteq PoolAddresses
  /\ lease \in [Clients -> PoolAddresses \cup {NoLease}]

(* No two clients hold one address, whichever of the three operations gave  *)
(* it, and every held address stays marked until it is released, also       *)
(* across a save and a load of the pool (allocated is the only record of    *)
(* who may use an address).                                                 *)
LeasesDistinct ==
  /\ \A c \in Clients : lease[c] # NoLease => lease[c] \in allocated
  /\ \A c, d \in Clients : lease[c] = lease[d] /\ lease[c] # NoLease => c = d

(* The addresses that a fixed offset reaches by overflowing 32 bits. *)
Overflowed ==
  {(startIP + fixed) % Word : fixed \in {f \in FixedIPs : startIP + f >= Word}}

(* An address given out by a pool for a mask of at most 24 bits is a host   *)
(* address of the network, neither the first nor the last, unless it is a   *)
(* fixed offset that overflows 32 bits (only the upper end is checked).     *)
HostAddressesOnly ==
  ipnet.ip % Octet = 0 /\ ipnet.size % Octet = 0 =>
    \A ip \in allocated \ Overflowed :
      ipnet.ip < ip /\ ip < ipnet.ip + ipnet.size - 1

===============================================================================
