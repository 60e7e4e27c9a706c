-------------------------------- MODULE TcpRelay -------------------------------
(***************************************************************************)
(* How TCP connections reach the part of the server that serves them       *)
(* (vnet/server/server_tcp.go, server.go): the accept loop hands each one  *)
(* to a pool of workers; a worker reads the first packet and gives a       *)
(* control connection to Accept, keeps a receive connection with its       *)
(* session, and gives a transmit connection to the session of its source,  *)
(* which negotiates the destination and relays what it reads to the        *)
(* receive connection of the destination's session.                        *)
(***************************************************************************)
EXTENDS Integers, Sequences, FiniteSets

CONSTANTS Clients,   \* addresses
          Workers,   \* size of the pool
          MaxConns   \* bound on connections dialled

ASSUME RelayAssumption == Workers \in Nat \ {0} /\ MaxConns \in Nat

Conns == 1..MaxConns
NoConn == 0

VARIABLES
  kind,      \* data connection -> <<source, destination>>; control: <<>>
  at,        \* connection -> where it is
  gone,      \* connections that their client has closed
  backlog,   \* connections the listener has not accepted yet
  submitting,\* the one the accept loop is handing to the pool
  owner,     \* control connection -> the client that dialled it
  session,   \* addresses in Server.sessions (their routes with them)
  rxOf,      \* address -> receive connection kept with its session
  target     \* relayed connection -> receive connection it writes to

relayVars == <<kind, at, gone, backlog, submitting, owner, session, rxOf, target>>

RelayInit ==
  /\ kind = [c \in Conns |-> <<>>] /\ at = [c \in Conns |-> "unused"] /\ gone = {}
  /\ backlog = <<>> /\ submitting = NoConn
  /\ owner = [c \in Conns |-> {}]
  /\ session = {} /\ rxOf = [ip \in Clients |-> NoConn]
  /\ target = [c \in Conns |-> NoConn]

Source(c) == kind[c][1]
Dest(c) == kind[c][2]
IsControl(c) == kind[c] = <<>>
Move(c, place) == at' = [at EXCEPT ![c] = place]
In(place) == {c \in Conns : at[c] = place}
Unused(c) == at[c] = "unused" /\ \A d \in 1..c - 1 : at[d] # "unused"

-------------------------------------------------------------------------------
(* Setup and Dial of the client: the connection and its first packet. *)
DialControl(c, ip) ==
  /\ Unused(c) /\ ip \notin session
  /\ \A d \in Conns : ip \in owner[d] => at[d] \in {"closed", "leaked"}
  /\ owner' = [owner EXCEPT ![c] = {ip}]
  /\ Move(c, "backlog")
  /\ backlog' = Append(backlog, c)
  /\ UNCHANGED <<kind, gone, submitting, session, rxOf, target>>

DialData(c, src, dst) ==
  /\ Unused(c) /\ src \in session
  /\ kind' = [kind EXCEPT ![c] = <<src, dst>>]
  /\ Move(c, "backlog")
  /\ backlog' = Append(backlog, c)
  /\ UNCHANGED <<gone, submitting, owner, session, rxOf, target>>

(* No ack within three seconds: the client closes its end. *)
AckTimeout(c) ==
  /\ at[c] \in {"backlog", "submit", "first", "handover", "leaked"} /\ c \notin gone
  /\ gone' = gone \cup {c}
  /\ UNCHANGED <<kind, at, backlog, submitting, owner, session, rxOf, target>>

-------------------------------------------------------------------------------
AcceptConn ==
  /\ submitting = NoConn /\ backlog # <<>>
  /\ submitting' = Head(backlog)
  /\ backlog' = Tail(backlog)
  /\ Move(Head(backlog), "submit")
  /\ UNCHANGED <<kind, gone, owner, session, rxOf, target>>

Busy == In("first") \cup In("handover")

OneWorkerLess == submitting # NoConn /\ Cardinality(Busy) < Workers - 1

(* Submit waits for a free worker. *)
FreeWorker == submitting # NoConn /\ Cardinality(Busy) < Workers

Submit ==
  /\ FreeWorker
  /\ Move(submitting, "first")
  /\ submitting' = NoConn
  /\ UNCHANGED <<kind, gone, backlog, owner, session, rxOf, target>>

(* No first packet in time: the worker returns, the connection stays open. *)
FirstTimeout(c) ==
  /\ at[c] = "first"
  /\ Move(c, "leaked")
  /\ UNCHANGED <<kind, gone, backlog, submitting, owner, session, rxOf, target>>

KeepEveryConn(c) ==
  IF Dest(c) \notin session
  THEN Move(c, "closed") /\ UNCHANGED rxOf
  ELSE /\ Move(c, IF Source(c) = Dest(c) THEN "rx" ELSE "handover")
       /\ rxOf' = [rxOf EXCEPT ![Dest(c)] = c]

(* A data connection needs a session of its destination: it becomes the     *)
(* receive connection of that session or waits for the source's session.    *)
DispatchData(c) ==
  IF Dest(c) \notin session
  THEN Move(c, "closed") /\ UNCHANGED rxOf
  ELSE IF Source(c) = Dest(c)
  THEN Move(c, "rx") /\ rxOf' = [rxOf EXCEPT ![Dest(c)] = c]
  ELSE Move(c, "handover") /\ UNCHANGED rxOf

dispatch(c) ==
  /\ at[c] = "first"
  /\ IF IsControl(c) THEN Move(c, "handover") /\ UNCHANGED rxOf ELSE DispatchData(c)
  /\ UNCHANGED <<kind, gone, backlog, submitting, owner, session, target>>

(* Accept takes it, the client logs in, the session is stored with a fresh  *)
(* storage; a client that has given up gets none.                           *)
Accept(c, ip) ==
  /\ at[c] = "handover" /\ IsControl(c) /\ owner[c] = {ip}
  /\ IF c \in gone
     THEN Move(c, "closed") /\ UNCHANGED <<session, rxOf>>
     ELSE /\ Move(c, "control")
          /\ session' = session \cup {ip}
          /\ rxOf' = [rxOf EXCEPT ![ip] = NoConn]
  /\ UNCHANGED <<kind, gone, backlog, submitting, owner, target>>

(* Every session takes from the channel of its own address. *)
OwnChannel(c) == Source(c) \in session

AcceptTransport(c) ==
  /\ at[c] = "handover" /\ ~IsControl(c) /\ OwnChannel(c)
  /\ Move(c, "negotiate")
  /\ UNCHANGED <<kind, gone, backlog, submitting, owner, session, rxOf, target>>

(* The destination's route is looked up and the result acknowledged.        *)
negotiation(c) ==
  /\ at[c] = "negotiate"
  /\ Move(c, IF c \notin gone /\ Dest(c) \in session THEN "acked" ELSE "closed")
  /\ UNCHANGED <<kind, gone, backlog, submitting, owner, session, rxOf, target>>

(* Without a receive connection handleTransport returns and leaves the      *)
(* acknowledged connection open.                                            *)
GetDstTransportWriter(c) ==
  IF rxOf[Dest(c)] = NoConn
  THEN Move(c, "orphan") /\ UNCHANGED target
  ELSE Move(c, "relay") /\ target' = [target EXCEPT ![c] = rxOf[Dest(c)]]

handleTransport(c) ==
  /\ at[c] = "acked"
  /\ GetDstTransportWriter(c)
  /\ UNCHANGED <<kind, gone, backlog, submitting, owner, session, rxOf>>

(* The relay ends: the source closed or its session is over. *)
RelayEnds(c) ==
  /\ at[c] = "relay"
  /\ Move(c, "closed")
  /\ UNCHANGED <<kind, gone, backlog, submitting, owner, session, rxOf, target>>

EndSession(ip) ==
  /\ ip \in session
  /\ session' = session \ {ip}
  /\ at' = [c \in Conns |-> IF at[c] = "control" /\ ip \in owner[c] THEN "closed" ELSE at[c]]
  /\ UNCHANGED <<kind, gone, backlog, submitting, owner, rxOf, target>>

ServerStep(c) ==
  \/ dispatch(c) \/ AcceptTransport(c) \/ negotiation(c) \/ handleTransport(c)
  \/ \E ip \in Clients : Accept(c, ip)

RelayNext ==
  \/ AcceptConn \/ Submit
  \/ \E c \in Conns : ServerStep(c) \/ FirstTimeout(c) \/ AckTimeout(c) \/ RelayEnds(c)
  \/ \E c \in Conns, ip \in Clients : DialControl(c, ip)
  \/ \E c \in Conns, src, dst \in Clients : DialData(c, src, dst)
  \/ \E ip \in Clients : EndSession(ip)

(* The loops and workers of the server run. *)
RelayFairness ==
  /\ WF_relayVars(AcceptConn) /\ WF_relayVars(Submit)
  /\ \A c \in Conns : WF_relayVars(ServerStep(c))

RelaySpec == RelayInit /\ [][RelayNext]_relayVars /\ RelayFairness

-------------------------------------------------------------------------------
(* Traffic for an address is only ever written to a connection which the    *)
(* client of that address dialled to receive on, across sessions that end   *)
(* and come back.                                                           *)
RelayedToDestination ==
  \A c \in In("relay") : kind[target[c]] = <<Dest(c), Dest(c)>>

(* A connection is served in the end, unless the pool is full of ones that  *)
(* wait for a source without a session, or its first packet did not come.   *)
ConnectionsServed ==
  \A c \in Conns :
    at[c] = "backlog" ~>
      \/ at[c] \in {"control", "rx", "relay", "orphan", "closed", "leaked"}
      \/ \E d \in In("handover") : ~IsControl(d) /\ Source(d) \notin session

===============================================================================
