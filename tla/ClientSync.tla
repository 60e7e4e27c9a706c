------------------------------ MODULE ClientSync -------------------------------
(***************************************************************************)
(* How a client follows the server: the sync loop and its reconnection     *)
(* (vnet/client/sync_router.go, client.go) against the tables that the     *)
(* server's functions ping, get_router_data, get_p2p_relay_mapping and     *)
(* register_p2p_peer read and write.  A remote call is one step that       *)
(* answers or fails (module FuncCall).  The routing table is compared by   *)
(* its digest (module RouterTrie shows that equal digests mean equal       *)
(* tables), the peer mapping by a version number.                          *)
(***************************************************************************)
EXTENDS Integers, Sequences

CONSTANTS Peers, Own,   \* addresses: other clients and this one
          Alike,        \* peers whose text has Own's text as a prefix
          Hosts, NoHost,\* p2p identities
          MaxChanges,   \* bound on what other clients do
          MaxFaults,    \* bound on lost links and failed calls
          MaxTries,     \* bound on failed reconnections
          MaxErrorToReconnect,
          MaxReconnectInterval

ASSUME SyncAssumption ==
  /\ Alike \subseteq Peers /\ Own \notin Peers /\ NoHost \notin Hosts
  /\ MaxErrorToReconnect \in Nat \ {0} /\ MaxReconnectInterval \in Nat \ {0}

VARIABLES
  \* the server
  routes,    \* keys of the network's router
  sessions,  \* addresses in Server.sessions
  peer,      \* the registered p2p peer of each session
  bump,      \* sessions that stored a peer and have yet to raise the version
  version,   \* peerMappingVersion
  \* the client
  phase,     \* where the sync or reconnect loop is
  link,      \* whether its control connection works
  pong,      \* answer of the last ping
  errCount, tries, interval,
  table,     \* keys of the hub's router
  dests,     \* those with a destination; the others route nowhere
  peerMapping, peerMappingVersion,
  host,      \* whether the p2p host exists
  panicked,
  \* history
  changes, faults,
  disturbed  \* the last mapping was lost, or read while a session was leaving

serverVars == <<routes, sessions, peer, bump, version>>
clientVars == <<phase, link, pong, errCount, tries, interval, table, dests,
                peerMapping, peerMappingVersion, host, panicked>>
syncVars == <<serverVars, clientVars, changes, faults, disturbed>>

NoPong == [table |-> {}, version |-> 0]

(* run has succeeded: a session, its route, an empty hub. *)
SyncInit ==
  /\ routes = {Own} /\ sessions = {Own} /\ peer = [ip \in Peers \cup {Own} |-> NoHost]
  /\ bump = {} /\ version = 0
  /\ phase = "first" /\ link = "up" /\ pong = NoPong
  /\ errCount = 0 /\ tries = 0 /\ interval = 1
  /\ table = {} /\ dests = {}
  /\ peerMapping = [ip \in {} |-> NoHost] /\ peerMappingVersion = 0
  /\ host = FALSE /\ panicked = FALSE
  /\ changes = 0 /\ faults = 0 /\ disturbed = FALSE

-------------------------------------------------------------------------------
(* Other clients' sessions, as handleSession runs them. *)
Join(ip) ==
  /\ changes < MaxChanges
  /\ ip \in Peers /\ ip \notin sessions
  /\ changes' = changes + 1
  /\ sessions' = sessions \cup {ip}
  /\ routes' = routes \cup {ip}
  /\ UNCHANGED <<peer, bump, version, clientVars, faults, disturbed>>

(* register_p2p_peer stores the peer of a session once, *)
RegisterPeer(ip, h) ==
  /\ changes < MaxChanges
  /\ ip \in Peers \cap routes /\ peer[ip] = NoHost
  /\ changes' = changes + 1
  /\ peer' = [peer EXCEPT ![ip] = h]
  /\ bump' = bump \cup {ip}
  /\ UNCHANGED <<routes, sessions, version, clientVars, faults, disturbed>>

(* then raises the version. *)
RegisterBump(ip) ==
  /\ ip \in bump
  /\ bump' = bump \ {ip}
  /\ version' = version + 1
  /\ UNCHANGED <<routes, sessions, peer, clientVars, changes, faults, disturbed>>

(* The end of a session: Release withdraws the route, the version is raised *)
Release(ip) ==
  /\ ip \in routes
  /\ IF ip = Own THEN link = "down" /\ UNCHANGED changes
     ELSE changes < MaxChanges /\ changes' = changes + 1
  /\ routes' = routes \ {ip}
  /\ version' = version + 1
  /\ UNCHANGED <<sessions, peer, bump, clientVars, faults, disturbed>>

Leaving == sessions \ routes

(* and only then the session, with its peer, leaves the server. *)
Delete(ip) ==
  /\ ip \in Leaving
  /\ sessions' = sessions \ {ip}
  /\ peer' = [peer EXCEPT ![ip] = NoHost]
  /\ UNCHANGED <<routes, bump, version, clientVars, changes, faults, disturbed>>

-------------------------------------------------------------------------------
LinkDown ==
  /\ faults < MaxFaults
  /\ link = "up"
  /\ phase \notin {"reconnect", "connect"}
  /\ link' = "down"
  /\ faults' = faults + 1
  /\ UNCHANGED <<serverVars, phase, pong, errCount, tries, interval, table, dests,
                 peerMapping, peerMappingVersion, host, panicked, changes, disturbed>>

Answered == link = "up" /\ UNCHANGED faults

Fails == IF link = "down" THEN UNCHANGED faults
         ELSE faults < MaxFaults /\ faults' = faults + 1

RoutePhase(remote) == IF remote # table THEN "routes" ELSE "peers"

TooMany(n) == n >= MaxErrorToReconnect

Ping ==
  /\ phase \in {"first", "ping"}
  /\ \/ /\ Answered
        /\ pong' = [table |-> routes, version |-> version]
        /\ phase' = RoutePhase(routes)
        /\ errCount' = 0
     \/ /\ Fails
        /\ errCount' = IF phase = "first" THEN errCount ELSE errCount + 1
        /\ phase' = IF TooMany(errCount') THEN "reconnect" ELSE "ping"
        /\ UNCHANGED pong
  /\ UNCHANGED <<serverVars, link, tries, interval, table, dests, peerMapping,
                 peerMappingVersion, host, panicked, changes, disturbed>>

KeepRemoved(data) ==
  /\ table' = table \cup data
  /\ dests' = dests \cup {ip \in data \ table : ip # Own /\ ip \notin Alike}

(* updateRouter: destinations for the new routes; an address that starts    *)
(* like the own one gets none; the destinations of the others are closed.   *)
updateRouter(data) ==
  /\ table' = data
  /\ dests' = (dests \cap data) \cup {ip \in data \ table : ip # Own /\ ip \notin Alike}

SyncRoutes ==
  /\ phase = "routes"
  /\ \/ Answered /\ updateRouter(routes)
     \/ Fails /\ UNCHANGED <<table, dests>>
  /\ phase' = "peers"
  /\ UNCHANGED <<serverVars, link, pong, errCount, tries, interval, peerMapping,
                 peerMappingVersion, host, panicked, changes, disturbed>>

(* What get_p2p_relay_mapping answers, the own address left out. *)
Mapping == [ip \in {p \in sessions \ {Own} : peer[p] # NoHost} |-> peer[ip]]

(* The p2p host is asked for its id when a known peer is met again. *)
Known == DOMAIN peerMapping \cap DOMAIN Mapping

SyncPeers ==
  /\ phase = "peers" /\ peerMappingVersion # pong.version
  /\ \/ /\ Answered
        /\ IF Known # {} /\ ~host
           THEN panicked' = TRUE /\ UNCHANGED peerMapping
           ELSE peerMapping' = Mapping /\ UNCHANGED panicked
        /\ disturbed' = (Leaving # {})
     \/ Fails /\ disturbed' = TRUE /\ UNCHANGED <<peerMapping, panicked>>
  /\ peerMappingVersion' = pong.version
  /\ phase' = "ping"
  /\ UNCHANGED <<serverVars, link, pong, errCount, tries, interval, table, dests, host, changes>>

PeersCurrent ==
  /\ phase = "peers" /\ peerMappingVersion = pong.version
  /\ phase' = "ping"
  /\ UNCHANGED <<serverVars, link, pong, errCount, tries, interval, table, dests, peerMapping,
                 peerMappingVersion, host, panicked, changes, faults, disturbed>>

(* connectP2PSignalingServer, next to the sync loop: the host first, then   *)
(* the registration of the own peer, unless the signaling server or the     *)
(* call fails.                                                              *)
SetupP2P(h) ==
  /\ phase \in {"first", "ping", "routes", "peers"}
  /\ ~host /\ link = "up"
  /\ host' = TRUE
  /\ \/ /\ Answered
        /\ peer' = [peer EXCEPT ![Own] = h]
        /\ bump' = bump \cup {Own}
     \/ Fails /\ UNCHANGED <<peer, bump>>
  /\ UNCHANGED <<routes, sessions, version, phase, link, pong, errCount, tries, interval, table,
                 dests, peerMapping, peerMappingVersion, panicked, changes, disturbed>>

-------------------------------------------------------------------------------
(* Sixty-four bits as four limbs of sixteen, the lowest first. *)
Limb == 65536
Int64(n) == <<n, 0, 0, 0>>

Plus64(a, b) ==
  LET s1 == a[1] + b[1]
      s2 == a[2] + b[2] + s1 \div Limb
      s3 == a[3] + b[3] + s2 \div Limb
      s4 == a[4] + b[4] + s3 \div Limb
  IN <<s1 % Limb, s2 % Limb, s3 % Limb, s4 % Limb>>

Negative64(a) == a[4] >= Limb \div 2

(* The pair a, b of the loop of fib after its step i. *)
fibPair[i \in Nat] ==
  IF i < 2 THEN <<Int64(1), Int64(1)>>
  ELSE LET p == fibPair[i - 1] IN <<p[2], Plus64(p[1], p[2])>>

(* The interval after a failed attempt: fib, capped; -1 stands for every    *)
(* negative number, for which Sleep returns at once.                        *)
Backoff(n) ==
  LET b == fibPair[n][2] IN
  IF Negative64(b) THEN -1
  ELSE IF b[2] > 0 \/ b[3] > 0 \/ b[4] > 0 \/ b[1] > MaxReconnectInterval
  THEN MaxReconnectInterval
  ELSE b[1]

KeepDests ==
  /\ table' = {}
  /\ peerMapping' = [ip \in {} |-> NoHost] /\ peerMappingVersion' = 0
  /\ host' = FALSE
  /\ UNCHANGED dests

KeepVersion ==
  /\ table' = {} /\ dests' = {}
  /\ peerMapping' = [ip \in {} |-> NoHost]
  /\ host' = FALSE
  /\ UNCHANGED peerMappingVersion

(* Hub, destinations, mapping, version and p2p host are dropped. *)
ReleaseAll ==
  /\ table' = {} /\ dests' = {}
  /\ peerMapping' = [ip \in {} |-> NoHost] /\ peerMappingVersion' = 0
  /\ host' = FALSE

StartReconnect ==
  /\ phase = "reconnect"
  /\ ReleaseAll
  /\ phase' = "connect"
  /\ disturbed' = FALSE
  /\ UNCHANGED <<serverVars, link, pong, errCount, tries, interval, panicked, changes, faults>>

(* An attempt fails before or after the handshake made a session. *)
ReconnectFails ==
  /\ phase = "connect"
  /\ tries < MaxTries
  /\ tries' = tries + 1
  /\ interval' = Backoff(tries + 2)
  /\ phase' = "reconnect"
  /\ \/ UNCHANGED <<routes, sessions>>
     \/ routes' = routes \cup {Own} /\ sessions' = sessions \cup {Own}
  /\ UNCHANGED <<peer, bump, version, link, pong, errCount, table, dests, peerMapping,
                 peerMappingVersion, host, panicked, changes, faults, disturbed>>

(* run: a new session with the client's address, new loops. *)
Reconnected ==
  /\ phase = "connect"
  /\ link' = "up"
  /\ routes' = routes \cup {Own}
  /\ sessions' = sessions \cup {Own}
  /\ peer' = [peer EXCEPT ![Own] = NoHost]
  /\ bump' = bump \ {Own}
  /\ phase' = "first" /\ errCount' = 0 /\ tries' = 0 /\ interval' = 1
  /\ UNCHANGED <<version, pong, table, dests, peerMapping, peerMappingVersion, host,
                 panicked, changes, faults, disturbed>>

ServerNext ==
  \E ip \in Peers \cup {Own} :
    \/ Join(ip) \/ RegisterBump(ip) \/ Release(ip) \/ Delete(ip)
    \/ \E h \in Hosts : RegisterPeer(ip, h)

ClientStep == Ping \/ SyncRoutes \/ SyncPeers \/ PeersCurrent \/ StartReconnect

ClientNext ==
  \/ ClientStep \/ LinkDown \/ ReconnectFails \/ Reconnected
  \/ \E h \in Hosts : SetupP2P(h)

SyncNext == ~panicked /\ (ServerNext \/ ClientNext)

(* The loops run, sessions that are leaving leave, and an attempt to        *)
(* reconnect succeeds in the end.                                           *)
SyncFairness ==
  /\ WF_syncVars(~panicked /\ ClientStep)
  /\ WF_syncVars(~panicked /\ Reconnected)
  /\ \A ip \in Peers \cup {Own} :
       WF_syncVars(~panicked /\ (RegisterBump(ip) \/ Delete(ip)))

SyncSpec == SyncInit /\ [][SyncNext]_syncVars /\ SyncFairness

-------------------------------------------------------------------------------
(* Every route the hub knows leads to a destination, except the own address *)
(* and those that merely start like it, which route nowhere.                *)
RoutesLeadSomewhere == dests = table \ ({Own} \cup Alike)

(* Whatever joins, leaves or fails, the client's routes end up as the       *)
(* server's: a lost answer or link is made good by a later round or a       *)
(* reconnection (syncRouterLoop, reconnectLoop).                            *)
RoutesConverge == <>[](panicked \/ table = routes)

(* The peer mapping ends up as the server's, unless an answer with the      *)
(* mapping was lost or was read while a session was leaving: the version is *)
(* taken over in either case and the mapping not asked for again.           *)
PeersConvergeUndisturbed == <>[](panicked \/ disturbed \/ peerMapping = Mapping)

===============================================================================
