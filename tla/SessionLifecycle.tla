-------------------------- MODULE SessionLifecycle --------------------------
(***************************************************************************)
(* The life of a client session in the vnet server.                        *)
(*                                                                         *)
(* Every accepted connection gets a goroutine (Server.handleSession) that  *)
(* shakes hands, takes an address from the pool of a network, enters the   *)
(* session in three tables, serves transports, and finally releases what   *)
(* it took.  The tables are shared with the goroutines of the other        *)
(* sessions, with the status loop that drops silent sessions and with the  *)
(* administrator's StopNetwork:                                            *)
(*                                                                         *)
(*   pool      the addresses a network's IPAllocator has handed out        *)
(*   devices   Network.sessions, keyed by the device's CIDR                *)
(*   route     the /32 entries of a network's Router                       *)
(*   sessions  Server.sessions, keyed by IP only, over all networks        *)
(*                                                                         *)
(* One action is one access to shared state; every access is atomic in the *)
(* code (sync.Map, a mutex, or an atomic store).                           *)
(***************************************************************************)
EXTENDS Naturals, FiniteSets

CONSTANTS
  Sessions,    \* the connections accepted during the run
  Nets,        \* network instances (*Network), never reused
  Addrs,       \* the addresses of a pool (every network has the same CIDR)
  IdOf,        \* the network id of an instance
  FixedIP,     \* the sub-device's Settings.FixedIP, None for a random address
  Proto,       \* the transport of a connection, "tcp" or "quic"
  Resumers,    \* the connections whose request may name a last session
  MaxStops,    \* bound: how often the administrator stops a network
  None

ASSUME ConstantTypes ==
  /\ None \notin Sessions \cup Nets \cup Addrs
  /\ FixedIP \in [Sessions -> Addrs \cup {None}]
  /\ Proto \in [Sessions -> {"tcp", "quic"}]
  /\ Resumers \subseteq Sessions
  /\ MaxStops \in Nat

VARIABLES
  registry,    \* NetworkManager.networks: the running instances
  pool,        \* pairs <<network, address>> marked as allocated
  devices,     \* Network.sessions
  route,       \* Network.router
  sessions,    \* Server.sessions
  pc,          \* where handleSession(s) stands
  net,         \* Session.network
  addr,        \* Session.IP and DispatchedDevice.CIDR
  target,      \* whom handler s is stopping or releasing: its last session or s
  stopped,     \* the sessions whose sig channel is closed
  metered,     \* the sessions whose quota field is set
  conn,        \* the control connection: open, gone (client left) or closed
  lastPing,    \* the last_ping entry of Session.storage
  loop,        \* where checkStatusLoop stands
  admin,       \* where StopNetwork stands
  panicked,    \* a goroutine panicked: the process is gone
  stops,       \* how many networks were stopped (bounds the model)
  released     \* history: how often the address of s was given back

tables  == <<pool, devices, route, sessions>>
private == <<net, addr, target, metered>>
outside == <<registry, loop, admin, stops>>
vars    == <<tables, private, outside, pc, stopped, conn, lastPing, panicked,
             released>>

-----------------------------------------------------------------------------
Keys == Nets \X Addrs

Labels == {"receive", "stop", "close", "commit", "forget", "free", "unroute",
           "assign", "quotas", "store", "route", "quota", "serve",
           "unregister", "done", "failed", "abandoned"}

\* The steps of Session.Release.
Releasing == {"commit", "forget", "free", "unroute"}

\* The key of s in the tables of its network.
Key(s) == <<net[s], addr[s]>>

\* The response with the session id is sent: the client may name it later.
Known(s) ==
  \/ pc[s] \in {"store", "route", "quota", "serve", "unregister", "done",
                "abandoned"}
  \/ pc[s] \in Releasing /\ target[s] = s

\* The process lives and handler s stands at l.
At(s, l) == ~panicked /\ pc[s] = l

Goto(s, l) == pc' = [pc EXCEPT ![s] = l]

idleLoop  == [pc |-> "idle", key |-> None, sess |-> None]
idleAdmin == [pc |-> "idle", net |-> None, todo |-> {}, sess |-> None,
              present |-> {}]

Init ==
  /\ registry \in {{n} : n \in Nets}
  /\ pool = {}
  /\ devices = [k \in Keys |-> None]
  /\ route = [k \in Keys |-> None]
  /\ sessions = [a \in Addrs |-> None]
  /\ pc = [s \in Sessions |-> "receive"]
  /\ net = [s \in Sessions |-> None]
  /\ addr = [s \in Sessions |-> None]
  /\ target = [s \in Sessions |-> None]
  /\ stopped = {}
  /\ metered = {}
  /\ conn = [s \in Sessions |-> "open"]
  /\ lastPing = [s \in Sessions |-> "none"]
  /\ loop = idleLoop
  /\ admin = idleAdmin
  /\ panicked = FALSE
  /\ stops = 0
  /\ released = [s \in Sessions |-> 0]
-----------------------------------------------------------------------------
(* The handshake: Server.handshake and sNetwork.AcquireDevice.             *)

\* Mutant of Receive: SetNetwork is missing.
\* The request arrives, the network is looked up, and SessionById searches it
\* for the session the client had before.
Receive(s) ==
  /\ At(s, "receive") /\ conn[s] = "open"
  /\ \E n \in registry, last \in {None} \cup {l \in Sessions : Known(l)} :
       /\ last # None => s \in Resumers
       /\ net' = [net EXCEPT ![s] = n]
       /\ IF \E a \in Addrs : last # None /\ devices[<<n, a>>] = last
            THEN /\ target' = [target EXCEPT ![s] = last]
                 /\ Goto(s, "stop")
            ELSE /\ Goto(s, "assign")
                 /\ UNCHANGED target
  /\ UNCHANGED <<tables, outside, addr, metered, stopped, conn, lastPing,
                 panicked, released>>

\* Timeout, malformed request, unknown key or device, no running network:
\* the connection is closed before anything was taken.
HandshakeFails(s) ==
  /\ At(s, "receive")
  /\ conn' = [conn EXCEPT ![s] = "closed"]
  /\ Goto(s, "failed")
  /\ UNCHANGED <<tables, private, outside, stopped, lastPing, panicked, released>>

\* A panic of a goroutine of the vnet server ends the process.
Panic ==
  /\ panicked' = TRUE
  /\ UNCHANGED <<tables, private, outside, pc, stopped, conn, lastPing, released>>

\* Mutant of StopLast: the last session is released without being stopped.
StopLastSkipped(s) ==
  /\ At(s, "stop")
  /\ Goto(s, "commit")
  /\ UNCHANGED <<tables, private, outside, stopped, conn, lastPing, panicked,
                 released>>

\* Session.Stop on the last session, first half: is sig closed already?
StopLast(s) ==
  /\ At(s, "stop")
  /\ Goto(s, IF target[s] \in stopped THEN "commit" ELSE "close")
  /\ UNCHANGED <<tables, private, outside, stopped, conn, lastPing, panicked,
                 released>>

\* Session.Stop, second half: close(s.sig) panics on a closed channel.
CloseLast(s) ==
  /\ At(s, "close")
  /\ IF target[s] \in stopped
       THEN Panic
       ELSE /\ stopped' = stopped \cup {target[s]}
            /\ Goto(s, "commit")
            /\ UNCHANGED <<tables, private, outside, conn, lastPing, panicked,
                           released>>

-----------------------------------------------------------------------------
(* Session.Release, run by a handler for itself or for its last session.   *)

\* quota.CommitUsage through a nil quota is a nil dereference.
Commit(s) ==
  /\ At(s, "commit")
  /\ IF target[s] \in metered
       THEN /\ Goto(s, "forget")
            /\ UNCHANGED <<tables, private, outside, stopped, conn, lastPing,
                           panicked, released>>
       ELSE Panic

\* ReleaseDevice: Network.sessions.Delete by key, whoever is stored there ...
Forget(s) ==
  /\ At(s, "forget")
  /\ devices' = [devices EXCEPT ![Key(target[s])] = None]
  /\ Goto(s, "free")
  /\ UNCHANGED <<pool, route, sessions, private, outside, stopped, conn,
                 lastPing, panicked, released>>

\* Mutant of Free: ReleaseDevice does not call ReleaseIP.
FreeSkipped(s) ==
  /\ At(s, "free")
  /\ released' = [released EXCEPT ![target[s]] = @ + 1]
  /\ Goto(s, "unroute")
  /\ UNCHANGED <<tables, private, outside, stopped, conn, lastPing, panicked>>

\* ... and ReleaseIP; releasing a free address only logs an error.
Free(s) ==
  /\ At(s, "free")
  /\ pool' = pool \ {Key(target[s])}
  /\ released' = [released EXCEPT ![target[s]] = @ + 1]
  /\ Goto(s, "unroute")
  /\ UNCHANGED <<devices, route, sessions, private, outside, stopped, conn,
                 lastPing, panicked>>

\* Mutant of Unroute: the route is left in the table.
UnrouteKeepsRoute(s) ==
  /\ At(s, "unroute")
  /\ conn' = [conn EXCEPT ![target[s]] = "closed"]
  /\ Goto(s, IF target[s] = s THEN "unregister" ELSE "assign")
  /\ UNCHANGED <<tables, private, outside, stopped, lastPing, panicked, released>>

\* Mutant of Unroute: the connection stays open.
UnrouteKeepsConn(s) ==
  /\ At(s, "unroute")
  /\ route' = [route EXCEPT ![Key(target[s])] = None]
  /\ Goto(s, IF target[s] = s THEN "unregister" ELSE "assign")
  /\ UNCHANGED <<pool, devices, sessions, private, outside, stopped, conn,
                 lastPing, panicked, released>>

\* Router.UnRegister by key and CloseWithError; a handler that released its
\* last session goes on with its own login.
Unroute(s) ==
  /\ At(s, "unroute")
  /\ route' = [route EXCEPT ![Key(target[s])] = None]
  /\ conn' = [conn EXCEPT ![target[s]] = "closed"]
  /\ Goto(s, IF target[s] = s THEN "unregister" ELSE "assign")
  /\ UNCHANGED <<pool, devices, sessions, private, outside, stopped, lastPing,
                 panicked, released>>

-----------------------------------------------------------------------------
(* The rest of AcquireDevice.                                              *)

\* Mutant of Assign: an allocated address is handed out again.
AssignUnchecked(s) ==
  /\ At(s, "assign")
  /\ \E a \in Addrs :
       /\ FixedIP[s] \in {None, a}
       /\ pool' = pool \cup {<<net[s], a>>}
       /\ addr' = [addr EXCEPT ![s] = a]
  /\ Goto(s, "quotas")
  /\ UNCHANGED <<devices, route, sessions, net, target, metered, outside,
                 stopped, conn, lastPing, panicked, released>>

\* AssignByOffset for a fixed address, AssignRandom otherwise; both hand out
\* an address that is not allocated.
Assign(s) ==
  /\ At(s, "assign")
  /\ \E a \in Addrs :
       /\ FixedIP[s] \in {None, a}
       /\ <<net[s], a>> \notin pool
       /\ pool' = pool \cup {<<net[s], a>>}
       /\ addr' = [addr EXCEPT ![s] = a]
  /\ Goto(s, "quotas")
  /\ UNCHANGED <<devices, route, sessions, net, target, metered, outside,
                 stopped, conn, lastPing, panicked, released>>

\* GetDeviceById fails, the fixed address is taken, the pool is exhausted, or
\* the thousand random attempts all hit allocated addresses.
AssignFails(s) ==
  /\ At(s, "assign")
  /\ conn' = [conn EXCEPT ![s] = "closed"]
  /\ Goto(s, "failed")
  /\ UNCHANGED <<tables, private, outside, stopped, lastPing, panicked, released>>

\* Reading the bandwidth or the traffic quota fails: the address stays taken.
QuotasFail(s) ==
  /\ At(s, "quotas")
  /\ conn' = [conn EXCEPT ![s] = "closed"]
  /\ Goto(s, "failed")
  /\ UNCHANGED <<tables, private, outside, stopped, lastPing, panicked, released>>

\* RegisterSession; the handshake then fills in the session and answers.
RegisterSession(s) ==
  /\ At(s, "quotas")
  /\ devices' = [devices EXCEPT ![Key(s)] = s]
  /\ Goto(s, "store")
  /\ UNCHANGED <<pool, route, sessions, private, outside, stopped, conn,
                 lastPing, panicked, released>>

-----------------------------------------------------------------------------
(* handleSession after the handshake.                                      *)

\* s.sessions.Store(ss.IP, ss)
Store(s) ==
  /\ At(s, "store")
  /\ sessions' = [sessions EXCEPT ![addr[s]] = s]
  /\ Goto(s, "route")
  /\ UNCHANGED <<pool, devices, route, private, outside, stopped, conn,
                 lastPing, panicked, released>>

\* Router().Register(ip/32, ss)
Route(s) ==
  /\ At(s, "route")
  /\ route' = [route EXCEPT ![Key(s)] = s]
  /\ Goto(s, "quota")
  /\ UNCHANGED <<pool, devices, sessions, private, outside, stopped, conn,
                 lastPing, panicked, released>>

\* The accept loop ends and the deferred Release starts.
Leave(s) ==
  /\ target' = [target EXCEPT ![s] = s]
  /\ Goto(s, "commit")
  /\ UNCHANGED <<tables, net, addr, metered, outside, stopped, conn, lastPing,
                 panicked, released>>

\* GetQuotaAdaptor and quota.New succeed; from here Release is deferred.
Meter(s) ==
  /\ At(s, "quota")
  /\ metered' = metered \cup {s}
  /\ Goto(s, "serve")
  /\ UNCHANGED <<tables, net, addr, target, outside, stopped, conn, lastPing,
                 panicked, released>>

\* Mutant of MeterFails: Release is deferred before the quota is there.
MeterFailsReleases(s) == At(s, "quota") /\ Leave(s)

\* GetQuotaAdaptor fails: plain return.  quota.New fails: the connection is
\* closed.  Neither path undoes a registration.
MeterFails(s) ==
  /\ At(s, "quota")
  /\ conn' \in {conn, [conn EXCEPT ![s] = "closed"]}
  /\ Goto(s, "abandoned")
  /\ UNCHANGED <<tables, private, outside, stopped, lastPing, panicked, released>>

\* sig is closed.  A tcp handler selects on it in AcceptTransport, a quic
\* handler only looks at it between two accepted streams.
ExitStopped(s) == At(s, "serve") /\ s \in stopped /\ Leave(s)

\* quic: AcceptStream fails once the connection is gone.
ExitLost(s) ==
  At(s, "serve") /\ Proto[s] = "quic" /\ conn[s] # "open" /\ Leave(s)

\* tcp: an error of some other connection's dispatch arrives on acceptErr.
ExitAcceptErr(s) == At(s, "serve") /\ Proto[s] = "tcp" /\ Leave(s)

\* s.sessions.Delete(ss.IP) after Release, whoever is stored there.
Unregister(s) ==
  /\ At(s, "unregister")
  /\ sessions' = [sessions EXCEPT ![addr[s]] = None]
  /\ Goto(s, "done")
  /\ UNCHANGED <<pool, devices, route, private, outside, stopped, conn,
                 lastPing, panicked, released>>

-----------------------------------------------------------------------------
(* The client and the clock.                                               *)

\* funcPing, run by handleFuncCallLoop while the connection lasts.
Ping(s) ==
  /\ ~panicked /\ conn[s] = "open"
  /\ \/ pc[s] = "serve"
     \/ pc[s] \in Releasing /\ target[s] = s
  /\ lastPing' = [lastPing EXCEPT ![s] = "fresh"]
  /\ UNCHANGED <<tables, private, outside, pc, stopped, conn, panicked, released>>

\* Ten seconds go by without a ping.
Expire(s) ==
  /\ ~panicked /\ lastPing[s] = "fresh"
  /\ lastPing' = [lastPing EXCEPT ![s] = "stale"]
  /\ UNCHANGED <<tables, private, outside, pc, stopped, conn, panicked, released>>

\* The client disconnects or disappears.
ClientLeaves(s) ==
  /\ ~panicked /\ conn[s] = "open"
  /\ conn' = [conn EXCEPT ![s] = "gone"]
  /\ UNCHANGED <<tables, private, outside, pc, stopped, lastPing, panicked,
                 released>>

-----------------------------------------------------------------------------
(* checkStatusLoop.                                                        *)

\* Mutant of CheckStatus: the session is deleted without being stopped.
\* Range meets a session whose last ping is too old and calls Stop on it.  A
\* session without a last_ping entry is skipped: the time of the visit is
\* stored under the key ip, which nobody reads.
CheckStatus(a) ==
  /\ ~panicked /\ loop.pc = "idle"
  /\ sessions[a] # None /\ lastPing[sessions[a]] = "stale"
  /\ loop' = [pc |-> IF sessions[a] \in stopped THEN "delete" ELSE "close",
              key |-> a, sess |-> sessions[a]]
  /\ UNCHANGED <<tables, private, registry, admin, stops, pc, stopped, conn,
                 lastPing, panicked, released>>

\* Mutant of StatusClose: Stop does not close sig.
StatusCloseNothing ==
  /\ ~panicked /\ loop.pc = "close"
  /\ loop' = [loop EXCEPT !.pc = "delete"]
  /\ UNCHANGED <<tables, private, registry, admin, stops, pc, stopped, conn,
                 lastPing, panicked, released>>

\* Stop on the silent session, second half.
StatusClose ==
  /\ ~panicked /\ loop.pc = "close"
  /\ IF loop.sess \in stopped
       THEN Panic
       ELSE /\ stopped' = stopped \cup {loop.sess}
            /\ loop' = [loop EXCEPT !.pc = "delete"]
            /\ UNCHANGED <<tables, private, registry, admin, stops, pc, conn,
                           lastPing, panicked, released>>

\* s.sessions.Delete(ip), whoever is stored there by now.
StatusDelete ==
  /\ ~panicked /\ loop.pc = "delete"
  /\ sessions' = [sessions EXCEPT ![loop.key] = None]
  /\ loop' = idleLoop
  /\ UNCHANGED <<pool, devices, route, private, registry, admin, stops, pc,
                 stopped, conn, lastPing, panicked, released>>

-----------------------------------------------------------------------------
(* The administrator: StopNetwork (DeleteNetwork and UpdateNetwork do the  *)
(* same to a running instance) and StartNetwork.                           *)

\* Network.Stop ranges over the devices: the keys present now, and perhaps
\* some that are stored while it runs.  present is history: who was there.
StopNetwork(n) ==
  /\ ~panicked /\ admin.pc = "idle" /\ n \in registry /\ stops < MaxStops
  /\ LET there == {a \in Addrs : devices[<<n, a>>] # None}
     IN  \E extra \in SUBSET Addrs :
           admin' = [pc |-> "range", net |-> n, todo |-> there \cup extra,
                     sess |-> None,
                     present |-> {devices[<<n, a>>] : a \in there}]
  /\ stops' = stops + 1
  /\ UNCHANGED <<tables, private, registry, loop, pc, stopped, conn, lastPing,
                 panicked, released>>

\* Mutant of AdminVisit: the callback returns false and Range stops.
AdminVisitOnce(a) ==
  /\ ~panicked /\ admin.pc = "range" /\ a \in admin.todo
  /\ LET s == devices[<<admin.net, a>>]
     IN  admin' = [admin EXCEPT
                     !.todo = {},
                     !.pc = IF s = None \/ s \in stopped THEN @ ELSE "close",
                     !.sess = s]
  /\ UNCHANGED <<tables, private, registry, loop, stops, pc, stopped, conn,
                 lastPing, panicked, released>>

\* One call of the Range callback: Stop on the session stored under the key.
AdminVisit(a) ==
  /\ ~panicked /\ admin.pc = "range" /\ a \in admin.todo
  /\ LET s == devices[<<admin.net, a>>]
     IN  admin' = [admin EXCEPT
                     !.todo = @ \ {a},
                     !.pc = IF s = None \/ s \in stopped THEN @ ELSE "close",
                     !.sess = s]
  /\ UNCHANGED <<tables, private, registry, loop, stops, pc, stopped, conn,
                 lastPing, panicked, released>>

\* Stop, second half.  The request runs under the HTTP server, which recovers
\* a panic and answers with an error: Range and RemoveNetwork do not go on.
AdminClose ==
  /\ ~panicked /\ admin.pc = "close"
  /\ stopped' = stopped \cup {admin.sess}
  /\ admin' = IF admin.sess \in stopped
                THEN idleAdmin
                ELSE [admin EXCEPT !.pc = "range"]
  /\ UNCHANGED <<tables, private, registry, loop, stops, pc, conn, lastPing,
                 panicked, released>>

\* RemoveNetwork once Network.Stop has returned.
AdminRemove ==
  /\ ~panicked /\ admin.pc = "range" /\ admin.todo = {}
  /\ registry' = registry \ {admin.net}
  /\ admin' = idleAdmin
  /\ UNCHANGED <<tables, private, loop, stops, pc, stopped, conn, lastPing,
                 panicked, released>>

\* StartNetwork: a new instance, with an empty pool, router and device table,
\* when no instance of that id is registered.
StartNetwork(n) ==
  /\ ~panicked /\ admin.pc = "idle"
  /\ \A m \in registry : IdOf[m] # IdOf[n]
  /\ \A s \in Sessions : net[s] # n
  /\ registry' = registry \cup {n}
  /\ UNCHANGED <<tables, private, loop, admin, stops, pc, stopped, conn,
                 lastPing, panicked, released>>

-----------------------------------------------------------------------------
\* The steps a handler goroutine takes without waiting for anybody.
HandlerStep(s) ==
  \/ StopLast(s) \/ CloseLast(s)
  \/ Commit(s) \/ Forget(s) \/ Free(s) \/ Unroute(s)
  \/ Assign(s) \/ AssignFails(s) \/ QuotasFail(s) \/ RegisterSession(s)
  \/ Store(s) \/ Route(s) \/ Meter(s) \/ MeterFails(s)
  \/ Unregister(s)

StatusStep == StatusClose \/ StatusDelete \/ \E a \in Addrs : CheckStatus(a)

AdminStep ==
  \/ AdminClose \/ AdminRemove
  \/ \E a \in Addrs : AdminVisit(a)
  \/ \E n \in Nets : StopNetwork(n) \/ StartNetwork(n)

ClientStep(s) ==
  Receive(s) \/ HandshakeFails(s) \/ Ping(s) \/ Expire(s) \/ ClientLeaves(s)

Next ==
  \/ \E s \in Sessions :
       \/ ClientStep(s) \/ HandlerStep(s)
       \/ ExitStopped(s) \/ ExitLost(s) \/ ExitAcceptErr(s)
  \/ StatusStep
  \/ AdminStep

Spec == Init /\ [][Next]_vars

\* Goroutines that can run do run, the status loop comes by again and again,
\* and a client that left sends no more pings.
Fairness ==
  /\ \A s \in Sessions :
       /\ WF_vars(HandlerStep(s))
       /\ WF_vars(Proto[s] = "tcp" /\ ExitStopped(s))
       /\ WF_vars(ExitLost(s))
       /\ WF_vars(conn[s] # "open" /\ Expire(s))
  /\ \A a \in Addrs : SF_vars(CheckStatus(a))
  /\ WF_vars(StatusClose \/ StatusDelete)

FairSpec == Spec /\ Fairness

-----------------------------------------------------------------------------
(* Types of the sessions' records, of the shared tables and of what the     *)
(* status loop and the administrator are looking at.                        *)
TypeOK ==
  /\ registry \subseteq Nets
  /\ pool \subseteq Keys
  /\ devices \in [Keys -> Sessions \cup {None}]
  /\ route \in [Keys -> Sessions \cup {None}]
  /\ sessions \in [Addrs -> Sessions \cup {None}]
  /\ pc \in [Sessions -> Labels]
  /\ net \in [Sessions -> Nets \cup {None}]
  /\ addr \in [Sessions -> Addrs \cup {None}]
  /\ target \in [Sessions -> Sessions \cup {None}]
  /\ stopped \subseteq Sessions
  /\ metered \subseteq Sessions
  /\ conn \in [Sessions -> {"open", "gone", "closed"}]
  /\ lastPing \in [Sessions -> {"none", "fresh", "stale"}]
  /\ loop \in [pc : {"idle", "close", "delete"}, key : Addrs \cup {None},
               sess : Sessions \cup {None}]
  /\ admin \in [pc : {"idle", "range", "close"}, net : Nets \cup {None},
                todo : SUBSET Addrs, sess : Sessions \cup {None},
                present : SUBSET Sessions]
  /\ panicked \in BOOLEAN
  /\ stops \in Nat
  /\ released \in [Sessions -> Nat]

-----------------------------------------------------------------------------
(* Properties.                                                             *)

\* s took its address from the pool and nobody has given it back yet.
Holds(s) == addr[s] # None /\ released[s] = 0

\* The pool never hands an address to a session while another one holds it,
\* and an address is marked as allocated exactly while somebody holds it.
\* Two goroutines may assign (device.go AcquireDevice) and release (session.go
\* Release) at the same time; only the allocator's map separates them.
UniqueAddress ==
  /\ \A s, t \in Sessions :
       Holds(s) /\ Holds(t) /\ s # t => Key(s) # Key(t)
  /\ pool = {Key(s) : s \in {x \in Sessions : Holds(x)}}

\* The same with clients that name their last session: a login then releases
\* that session's address (device.go:35) and so does the session's own handler
\* (server.go:258).  As long as no address was given back twice, addresses
\* have one holder; the second release is the only way to lose that.
UniqueUnlessReleasedTwice ==
  (\A s \in Sessions : released[s] <= 1) => UniqueAddress

\* Once handleSession(s) has run its deferred cleanup, s is in none of the
\* three tables: no packet is routed, no status check made and no usage
\* committed for a session that is over, whatever other sessions did to the
\* entries under the same key meanwhile.
NoDangling ==
  \A s \in Sessions : pc[s] = "done" =>
    /\ \A k \in Keys : devices[k] # s /\ route[k] # s
    /\ \A a \in Addrs : sessions[a] # s

\* s is in every table it registered itself in.
Registered(s) ==
  /\ Key(s) \in pool
  /\ devices[Key(s)] = s
  /\ route[Key(s)] = s
  /\ sessions[addr[s]] = s

\* A session that serves transports and has not been told to stop is fully
\* registered, provided no other session ever had its address: the status
\* loop, a login that replaces it and StopNetwork all stop a session before
\* they take it out of a table.
RegisteredUntilStopped ==
  \A s \in Sessions :
    /\ pc[s] = "serve" /\ s \notin stopped
    /\ \A t \in Sessions \ {s} : addr[t] # addr[s]
    => Registered(s)

\* Without a login that names a last session and without StopNetwork, the
\* status loop is the only caller of Session.Stop and handleSession the only
\* caller of Release: no goroutine closes a closed channel or commits through
\* a nil quota.
NoPanic == ~panicked

\* When Network.Stop returns, every session that was in the network's device
\* table when it began has been stopped or has left the table by itself.
StopReachesAll ==
  admin.pc = "range" /\ admin.todo = {} =>
    \A s \in admin.present :
      s \in stopped \/ \A k \in Keys : devices[k] # s

\* What the comment of handleSession's cleanup says, "unregister session"
\* (server.go:262), without the proviso on addresses: the cleanup of one
\* session leaves the other sessions registered.
CleanupKeepsOthers ==
  \A s \in Sessions : pc[s] = "serve" /\ s \notin stopped => Registered(s)

\* A client that pinged once and then disappeared is noticed: the status loop
\* or the transport ends the session and its handler releases everything.
GoneIsReleased ==
  \A s \in Sessions :
    pc[s] = "serve" /\ conn[s] = "gone" /\ lastPing[s] # "none"
      ~> panicked \/ pc[s] = "done"

\* "make sure the session could be removed if no ping packet received"
\* (server.go:126): the same for a client that never pinged.
SilentIsReleased ==
  \A s \in Sessions :
    pc[s] = "serve" /\ conn[s] = "gone" /\ lastPing[s] = "none"
      ~> panicked \/ pc[s] = "done"

\* A session that was replaced by a new login of its client ends: Stop closes
\* sig, which a tcp handler waits for, and Release closes the connection,
\* which a quic handler waits for.
ReplacedEnds ==
  \A s \in Sessions :
    pc[s] = "serve" /\ released[s] > 0
      ~> panicked \/ pc[s] = "done"

=============================================================================
