------------------------------ MODULE NetworkAdmin -----------------------------
(***************************************************************************)
(* The management of networks: the handlers of the HTTP interface create,  *)
(* start, stop, update and delete a network                                *)
(* (manager/server/internal/logic/network/network.go) in the database and  *)
(* in the registry of running networks (vnet/server/network_mgr.go).       *)
(* Handlers run concurrently and hold no lock between their steps, a call  *)
(* of the database may fail, and a restart of the process keeps only the   *)
(* database and starts every network in it (manager/server/server.go).     *)
(***************************************************************************)
EXTENDS Integers, Sequences

CONSTANTS NetworkIds,     \* ids
          Cidrs, BadCidr, \* the address ranges stored; BadCidr does not parse
          Handlers,     \* handlers, each runs once
          NoRow,
          MaxRestarts

ASSUME AdminAssumption ==
  /\ NoRow \notin Cidrs /\ BadCidr \in Cidrs
  /\ MaxRestarts \in Nat

NoObject == 0
Kinds == {"create", "start", "stop", "delete", "update"}
Steps == {"insert", "running", "load", "register", "check", "lookup", "halt", "remove", "store"}

VARIABLES
  row,       \* network -> its CIDR in the database
  made,      \* network -> the CIDRs of the *Network objects made for it so far
  registry,  \* NetworkManager.networks: network -> which of them is registered
  halted,    \* network -> those whose sessions were stopped, or died with the process
  op,        \* request -> its handler and network
  handlerAt, \* request -> its next step
  cidrSeen,  \* request -> the CIDR it read or stored
  found,     \* request -> the object it looked up
  restarts,
  overlap    \* networks that two requests worked on at a time, since the restart

adminVars == <<row, made, registry, halted, op, handlerAt, cidrSeen, found, restarts, overlap>>

UnderWay(n) == {r \in Handlers : handlerAt[r] \in Steps /\ op[r].net = n}
Goto(r, label) == handlerAt' = [handlerAt EXCEPT ![r] = label]
Fails(r) == Goto(r, "end") /\ UNCHANGED <<row, cidrSeen>>

(* StartAllNetworks: an object for every row whose CIDR parses. *)
Startable(n) == row[n] \notin {NoRow, BadCidr}

Started(before) ==
  [n \in NetworkIds |-> IF Startable(n) THEN Append(before[n], row[n]) ELSE before[n]]
Registered(before) ==
  [n \in NetworkIds |-> IF Startable(n) THEN Len(before[n]) + 1 ELSE NoObject]

NoneMade == [n \in NetworkIds |-> <<>>]

AdminInit ==
  /\ row \in [NetworkIds -> Cidrs \cup {NoRow}]
  /\ made = Started(NoneMade) /\ registry = Registered(NoneMade)
  /\ halted = [n \in NetworkIds |-> {}]
  /\ op = [r \in Handlers |-> [kind |-> "start", net |-> CHOOSE n \in NetworkIds : TRUE]]
  /\ handlerAt = [r \in Handlers |-> "new"]
  /\ cidrSeen = [r \in Handlers |-> NoRow]
  /\ found = [r \in Handlers |-> NoObject]
  /\ restarts = 0 /\ overlap = {}

(* A request arrives. CreateNetwork makes an id nobody has. *)
FirstStep(kind) ==
  CASE kind = "create" -> "insert" [] kind = "start" -> "running"
    [] kind = "stop" -> "lookup" [] OTHER -> "check"

BeginRequest(r, kind, n) ==
  /\ handlerAt[r] = "new"
  /\ kind = "create" => /\ row[n] = NoRow
                        /\ \A q \in Handlers : handlerAt[q] = "new" \/ op[q].net # n
  /\ op' = [op EXCEPT ![r] = [kind |-> kind, net |-> n]]
  /\ Goto(r, FirstStep(kind))
  /\ overlap' = IF UnderWay(n) = {} THEN overlap ELSE overlap \cup {n}
  /\ UNCHANGED <<row, made, registry, halted, cidrSeen, found, restarts>>

(* CreateNetwork inserts the row, *)
Insert(r, cidr) ==
  /\ handlerAt[r] = "insert"
  /\ \/ /\ row' = [row EXCEPT ![op[r].net] = cidr]
        /\ cidrSeen' = [cidrSeen EXCEPT ![r] = cidr]
        /\ Goto(r, "register")
     \/ Fails(r)
  /\ UNCHANGED <<made, registry, halted, op, found, restarts, overlap>>

(* StartNetwork refuses a running network *)
CheckNotRunning(r) ==
  /\ handlerAt[r] = "running"
  /\ Goto(r, IF registry[op[r].net] = NoObject THEN "load" ELSE "end")
  /\ UNCHANGED <<row, made, registry, halted, op, cidrSeen, found, restarts, overlap>>

(* and reads the row, GetNetworkById; *)
Load(r) ==
  /\ handlerAt[r] = "load"
  /\ \/ /\ row[op[r].net] # NoRow
        /\ cidrSeen' = [cidrSeen EXCEPT ![r] = row[op[r].net]]
        /\ Goto(r, "register")
        /\ UNCHANGED row
     \/ Fails(r)
  /\ UNCHANGED <<made, registry, halted, op, found, restarts, overlap>>

(* both make the object, unless NewNetwork rejects the CIDR, and register   *)
(* it under its id, over whatever is registered there.                      *)
RegisterNetwork(r) ==
  /\ handlerAt[r] = "register"
  /\ IF cidrSeen[r] = BadCidr
     THEN UNCHANGED <<made, registry>>
     ELSE /\ made' = [made EXCEPT ![op[r].net] = Append(@, cidrSeen[r])]
          /\ registry' = [registry EXCEPT ![op[r].net] = Len(made[op[r].net]) + 1]
  /\ Goto(r, "end")
  /\ UNCHANGED <<row, halted, op, cidrSeen, found, restarts, overlap>>

(* DeleteNetwork and UpdateNetwork want the row to exist; *)
CheckRow(r) ==
  /\ handlerAt[r] = "check"
  /\ \/ row[op[r].net] # NoRow /\ Goto(r, "lookup") /\ UNCHANGED <<row, cidrSeen>>
     \/ Fails(r)
  /\ UNCHANGED <<made, registry, halted, op, found, restarts, overlap>>

(* they and StopNetwork look the object up, *)
UpdatesAtOnce(r) ==
  IF op[r].kind = "update" THEN "store"
  ELSE IF registry[op[r].net] # NoObject THEN "halt"
  ELSE IF op[r].kind = "stop" THEN "end" ELSE "store"

AfterLookup(r) ==
  IF registry[op[r].net] # NoObject THEN "halt"
  ELSE IF op[r].kind = "stop" THEN "end" ELSE "store"

LookupNetwork(r) ==
  /\ handlerAt[r] = "lookup"
  /\ found' = [found EXCEPT ![r] = registry[op[r].net]]
  /\ Goto(r, AfterLookup(r))
  /\ UNCHANGED <<row, made, registry, halted, op, cidrSeen, restarts, overlap>>

(* stop its sessions, *)
Halt(r) ==
  /\ handlerAt[r] = "halt"
  /\ halted' = [halted EXCEPT ![op[r].net] = @ \cup {found[r]}]
  /\ Goto(r, "remove")
  /\ UNCHANGED <<row, made, registry, op, cidrSeen, found, restarts, overlap>>

(* take whatever is registered under the id out of the registry, *)
RemoveNetwork(r) ==
  /\ handlerAt[r] = "remove"
  /\ registry' = [registry EXCEPT ![op[r].net] = NoObject]
  /\ Goto(r, IF op[r].kind = "stop" THEN "end" ELSE "store")
  /\ UNCHANGED <<row, made, halted, op, cidrSeen, found, restarts, overlap>>

(* and delete the row or update it, if it is still there.                   *)
Store(r, cidr) ==
  /\ handlerAt[r] = "store"
  /\ \/ /\ row' = [row EXCEPT ![op[r].net] =
                     IF op[r].kind = "delete" \/ @ = NoRow THEN NoRow ELSE cidr]
        /\ Goto(r, "end")
        /\ UNCHANGED cidrSeen
     \/ Fails(r)
  /\ UNCHANGED <<made, registry, halted, op, found, restarts, overlap>>

(* The process dies and comes back; if the rows can be listed, every        *)
(* network is started before the first request is served.                   *)
Restart ==
  /\ restarts < MaxRestarts
  /\ restarts' = restarts + 1
  /\ halted' = [n \in NetworkIds |-> DOMAIN made[n]]
  /\ \/ made' = Started(made) /\ registry' = Registered(made)
     \/ registry' = [n \in NetworkIds |-> NoObject] /\ UNCHANGED made
  /\ handlerAt' = [r \in Handlers |-> IF handlerAt[r] \in Steps THEN "end" ELSE handlerAt[r]]
  /\ overlap' = {}
  /\ UNCHANGED <<row, op, cidrSeen, found>>

AdminNext ==
  \/ Restart
  \/ \E r \in Handlers :
       \/ CheckNotRunning(r) \/ Load(r) \/ RegisterNetwork(r)
       \/ CheckRow(r) \/ LookupNetwork(r) \/ Halt(r) \/ RemoveNetwork(r)
       \/ \E cidr \in Cidrs : Insert(r, cidr) \/ Store(r, cidr)
       \/ \E n \in NetworkIds, kind \in Kinds : BeginRequest(r, kind, n)

AdminSpec == AdminInit /\ [][AdminNext]_adminVars

-------------------------------------------------------------------------------
(* Objects are made, by a handler or at a restart, only from CIDRs that     *)
(* parse, and what is registered or halted has been made.                   *)
AdminTypeOK ==
  /\ row \in [NetworkIds -> Cidrs \cup {NoRow}]
  /\ made \in [NetworkIds -> Seq(Cidrs \ {BadCidr})]
  /\ \A n \in NetworkIds : registry[n] \in 0..Len(made[n]) /\ halted[n] \subseteq DOMAIN made[n]
  /\ handlerAt \in [Handlers -> Steps \cup {"new", "end"}]

(* As long as the requests on a network come one after the other, a running *)
(* network is one of the database and has the address range stored there,   *)
(* whichever database call failed and wherever the process was restarted.   *)
RunningAsStored ==
  \A n \in NetworkIds :
    n \notin overlap /\ UnderWay(n) = {} /\ registry[n] # NoObject =>
      made[n][registry[n]] = row[n]

(* Nor is an object left running outside the registry, where no request can *)
(* stop it any more, or stopped inside it, where no session can resume.     *)
RegistryIsRunning ==
  \A n \in NetworkIds :
    n \notin overlap /\ UnderWay(n) = {} =>
      DOMAIN made[n] \ halted[n] = {registry[n]} \ {NoObject}

===============================================================================
