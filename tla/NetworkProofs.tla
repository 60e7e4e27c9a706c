---------------------------- MODULE NetworkProofs -----------------------------
(*****************************************************************************)
(* Proofs about networks and the control messages of their clients: any      *)
(* number of networks, requests and restarts keep what runs as it is         *)
(* stored (NetworkAdmin), and messages of any number and length cross a      *)
(* connection in fragments of any size (Fragments).                          *)
(*****************************************************************************)
EXTENDS NetworkAdmin, Fragments, FiniteSetTheorems, TLAPS

AtWork(r) == handlerAt[r] \in Steps
Live(n) == DOMAIN made[n] \ halted[n]

AdminTypes ==
  /\ row \in [NetworkIds -> Cidrs \cup {NoRow}]
  /\ made \in [NetworkIds -> Seq(Cidrs \ {BadCidr})]
  /\ registry \in [NetworkIds -> Nat] /\ \A n \in NetworkIds : registry[n] \in 0..Len(made[n])
  /\ halted \in [NetworkIds -> SUBSET Nat] /\ \A n \in NetworkIds : halted[n] \subseteq DOMAIN made[n]
  /\ handlerAt \in [Handlers -> Steps \cup {"new", "end"}]
  /\ DOMAIN op = Handlers /\ cidrSeen \in [Handlers -> Cidrs \cup {NoRow}]
  /\ found \in [Handlers -> Nat]
  /\ \A r \in Handlers : AtWork(r) => op[r].net \in NetworkIds
  /\ \A r \in Handlers : handlerAt[r] = "register" => cidrSeen[r] \in Cidrs
  /\ \A r \in Handlers : handlerAt[r] \in {"halt", "remove"} => found[r] \in DOMAIN made[op[r].net]

(* Requests on a network without an overlap are one. *)
OneRequest ==
  \A r, q \in Handlers :
    AtWork(r) /\ AtWork(q) /\ op[r].net = op[q].net /\ op[r].net \notin overlap => r = q

(* The registry names what is live, made as the row says, *)
Tidy(n) ==
  /\ Live(n) = {registry[n]} \ {NoObject}
  /\ registry[n] # NoObject => made[n][registry[n]] = row[n]

(* except between the two steps that stop and remove an object. *)
Between(n) == \E r \in Handlers : handlerAt[r] = "remove" /\ op[r].net = n

TidyUnlessBetween ==
  \A n \in NetworkIds : n \notin overlap =>
    IF Between(n) THEN Live(n) = {} ELSE Tidy(n)

(* What a request has found out stays true while it is alone.               *)
StillTrue ==
  \A r \in Handlers : AtWork(r) /\ op[r].net \notin overlap =>
    LET n == op[r].net IN
    /\ handlerAt[r] \in {"insert", "load", "register", "store"} => registry[n] = NoObject
    /\ handlerAt[r] = "register" => row[n] = cidrSeen[r]
    /\ handlerAt[r] = "halt" => found[r] = registry[n]

AdminIInv == AdminTypes /\ OneRequest /\ TidyUnlessBetween /\ StillTrue

LEMMA AdminInitInv == AdminInit => AdminIInv
  <1> SUFFICES ASSUME AdminInit PROVE AdminIInv
    OBVIOUS
  <1> USE AdminAssumption DEF NoObject
  <1>1. ASSUME NEW n \in NetworkIds
        PROVE  /\ row[n] \in Cidrs \cup {NoRow} /\ halted[n] = {}
               /\ made[n] \in Seq(Cidrs \ {BadCidr}) /\ registry[n] \in 0..Len(made[n])
               /\ Tidy(n)
    <2>1. row[n] \in Cidrs \cup {NoRow} /\ halted[n] = {} /\ NoneMade[n] = <<>>
      BY DEF AdminInit, NoneMade
    <2>2. CASE Startable(n)
      <3>1. made[n] = Append(<<>>, row[n]) /\ row[n] \in Cidrs \ {BadCidr}
        BY Zenon, <2>1, <2>2 DEF AdminInit, Started, Startable
      <3>2. registry[n] = 1
        BY <2>1, <2>2 DEF AdminInit, Registered
      <3>3. /\ made[n] \in Seq(Cidrs \ {BadCidr}) /\ Len(made[n]) = 1
            /\ DOMAIN made[n] = {1} /\ made[n][1] = row[n]
        BY <3>1
      <3> QED
        BY <2>1, <3>2, <3>3 DEF Tidy, Live
    <2>3. CASE ~Startable(n)
      <3>1. made[n] = <<>> /\ registry[n] = 0
        BY <2>1, <2>3 DEF AdminInit, Started, Registered
      <3>2. made[n] \in Seq(Cidrs \ {BadCidr}) /\ Len(made[n]) = 0 /\ DOMAIN made[n] = {}
        BY <3>1
      <3> QED
        BY <2>1, <3>1, <3>2 DEF Tidy, Live
    <2> QED
      BY <2>2, <2>3
  <1>2. \A r \in Handlers : handlerAt[r] = "new" /\ ~AtWork(r)
    BY DEF AdminInit, AtWork, Steps
  <1>3. AdminTypes
    <2>1. made = [n \in NetworkIds |-> made[n]] /\ registry = [n \in NetworkIds |-> registry[n]]
      BY DEF AdminInit, Started, Registered
    <2>2. \A n \in NetworkIds : made[n] \in Seq(Cidrs \ {BadCidr}) /\ registry[n] \in 0..Len(made[n])
      BY <1>1
    <2>3. made \in [NetworkIds -> Seq(Cidrs \ {BadCidr})] /\ registry \in [NetworkIds -> Nat]
      BY <2>1, <2>2
    <2> QED
      BY <1>1, <1>2, <2>2, <2>3 DEF AdminInit, AdminTypes
  <1>4. OneRequest /\ StillTrue
    BY <1>2 DEF OneRequest, StillTrue
  <1>5. TidyUnlessBetween
    <2>1. \A n \in NetworkIds : ~Between(n)
      BY <1>2 DEF Between
    <2> QED
      BY <1>1, <2>1 DEF TidyUnlessBetween
  <1> QED
    BY <1>3, <1>4, <1>5 DEF AdminIInv

(* A step of a request leaves the other networks alone. *)
Alone(r) ==
  /\ op' = op /\ overlap' = overlap
  /\ \A q \in Handlers \ {r} : handlerAt'[q] = handlerAt[q] /\ cidrSeen'[q] = cidrSeen[q]
                               /\ found'[q] = found[q]
  /\ \A n \in NetworkIds \ {op[r].net} :
       row'[n] = row[n] /\ made'[n] = made[n] /\ registry'[n] = registry[n] /\ halted'[n] = halted[n]

LEMMA AloneKeeps ==
  ASSUME AdminIInv, NEW r \in Handlers, AtWork(r), Alone(r), AdminTypes',
         op[r].net \notin overlap =>
           /\ IF handlerAt'[r] = "remove" THEN Live(op[r].net)' = {} ELSE Tidy(op[r].net)'
           /\ handlerAt'[r] \in {"insert", "load", "register", "store"} => registry'[op[r].net] = NoObject
           /\ handlerAt'[r] = "register" => row'[op[r].net] = cidrSeen'[r]
           /\ handlerAt'[r] = "halt" => found'[r] = registry'[op[r].net]
  PROVE  AdminIInv'
  <1> DEFINE m == op[r].net
  <1>1. m \in NetworkIds
    BY DEF AdminIInv, AdminTypes
  <1>2. \A q \in Handlers : AtWork(q)' => AtWork(q)
    BY DEF Alone, AtWork
  <1>3. OneRequest'
    BY <1>2 DEF AdminIInv, OneRequest, Alone
  <1>4. TidyUnlessBetween'
    <2> SUFFICES ASSUME NEW n \in NetworkIds, n \notin overlap
                 PROVE  IF Between(n)' THEN Live(n)' = {} ELSE Tidy(n)'
      BY DEF TidyUnlessBetween, Alone
    <2>1. CASE n = m
      <3>1. \A q \in Handlers : handlerAt'[q] = "remove" /\ op[q].net = n => q = r
        BY <2>1 DEF AdminIInv, OneRequest, Alone, AtWork, Steps
      <3>2. Between(n)' <=> handlerAt'[r] = "remove"
        BY <2>1, <3>1 DEF Between, Alone
      <3> QED
        BY <2>1, <3>2 DEF Alone, Tidy, Live
    <2>2. CASE n # m
      <3>1. Between(n)' <=> Between(n)
        BY <2>2 DEF Between, Alone
      <3>2. (Live(n)' = Live(n)) /\ (Tidy(n)' <=> Tidy(n))
        BY <2>2 DEF Alone, Live, Tidy
      <3> QED
        BY <3>1, <3>2 DEF AdminIInv, TidyUnlessBetween
    <2> QED
      BY <2>1, <2>2
  <1>5. StillTrue'
    <2> SUFFICES ASSUME NEW q \in Handlers, AtWork(q)', op[q].net \notin overlap
                 PROVE  /\ handlerAt'[q] \in {"insert", "load", "register", "store"} =>
                             registry'[op[q].net] = NoObject
                        /\ handlerAt'[q] = "register" => row'[op[q].net] = cidrSeen'[q]
                        /\ handlerAt'[q] = "halt" => found'[q] = registry'[op[q].net]
      BY DEF StillTrue, Alone
    <2>1. CASE q = r
      BY <2>1
    <2>2. CASE q # r
      <3>1. AtWork(q) /\ op[q].net # m /\ op[q].net \in NetworkIds
        BY <2>2, <1>2 DEF AdminIInv, AdminTypes, OneRequest
      <3> QED
        BY <2>2, <3>1 DEF Alone, AdminIInv, StillTrue
    <2> QED
      BY <2>1, <2>2
  <1> QED
    BY <1>3, <1>4, <1>5 DEF AdminIInv

(* Registering appends an object; the ones made before stay. *)
LEMMA RegisterKeeps ==
  ASSUME AdminIInv, NEW r \in Handlers, RegisterNetwork(r)
  PROVE  AdminIInv'
  <1> USE AdminAssumption DEF NoObject
  <1> DEFINE n == op[r].net
  <1>1. n \in NetworkIds /\ AtWork(r) /\ cidrSeen[r] \in Cidrs
    BY DEF RegisterNetwork, AdminIInv, AdminTypes, AtWork, Steps
  <1>2. handlerAt' = [handlerAt EXCEPT ![r] = "end"]
    BY DEF RegisterNetwork, Goto
  <1>3. n \notin overlap => registry[n] = 0 /\ row[n] = cidrSeen[r] /\ Tidy(n)
    <2> HAVE n \notin overlap
    <2>1. ~Between(n)
      BY <1>1 DEF Between, AdminIInv, OneRequest, RegisterNetwork, AtWork, Steps
    <2> QED
      BY <1>1, <2>1 DEF RegisterNetwork, AdminIInv, TidyUnlessBetween, StillTrue
  <1>4. handlerAt'[r] = "end" /\ \A q \in Handlers \ {r} : handlerAt'[q] = handlerAt[q]
    BY <1>2 DEF AdminIInv, AdminTypes
  <1>5. CASE cidrSeen[r] = BadCidr
    <2>1. UNCHANGED <<made, registry, row, halted, op, cidrSeen, found, overlap>>
      BY <1>5 DEF RegisterNetwork
    <2>2. AdminTypes'
      BY <1>2, <1>4, <2>1 DEF AdminIInv, AdminTypes, AtWork, Steps
    <2>3. Alone(r)
      BY <1>4, <2>1 DEF Alone
    <2>4. Tidy(n)' <=> Tidy(n)
      BY <2>1 DEF Tidy, Live
    <2> QED
      BY <1>1, <1>3, <1>4, <2>2, <2>3, <2>4, AloneKeeps
  <1>6. CASE cidrSeen[r] # BadCidr
    <2>1. /\ made' = [made EXCEPT ![n] = Append(made[n], cidrSeen[r])]
          /\ registry' = [registry EXCEPT ![n] = Len(made[n]) + 1]
          /\ UNCHANGED <<row, halted, op, cidrSeen, found, overlap>>
      BY <1>6 DEF RegisterNetwork
    <2>2. made[n] \in Seq(Cidrs \ {BadCidr}) /\ halted[n] \subseteq DOMAIN made[n]
      BY <1>1 DEF AdminIInv, AdminTypes
    <2> DEFINE longer == Append(made[n], cidrSeen[r])
    <2>3. /\ longer \in Seq(Cidrs \ {BadCidr}) /\ Len(longer) = Len(made[n]) + 1
          /\ longer[Len(made[n]) + 1] = cidrSeen[r] /\ Len(made[n]) \in Nat
          /\ DOMAIN longer = DOMAIN made[n] \cup {Len(made[n]) + 1}
          /\ Len(made[n]) + 1 \notin DOMAIN made[n]
      BY <1>1, <1>6, <2>2
    <2>4. /\ made'[n] = longer /\ registry'[n] = Len(made[n]) + 1
          /\ \A m \in NetworkIds \ {n} : made'[m] = made[m] /\ registry'[m] = registry[m]
          /\ made' \in [NetworkIds -> Seq(Cidrs \ {BadCidr})]
          /\ registry' \in [NetworkIds -> Nat]
      <3> HIDE DEF longer
      <3> QED
        BY <1>1, <2>1, <2>3 DEF AdminIInv, AdminTypes, longer
    <2> HIDE DEF longer
    <2>5. AdminTypes'
      <3>1. \A m \in NetworkIds : registry'[m] \in 0..Len(made'[m]) /\ halted'[m] \subseteq DOMAIN made'[m]
        <4> TAKE m \in NetworkIds
        <4>1. CASE m = n
          BY <1>1, <2>1, <2>2, <2>3, <2>4, <4>1
        <4>2. CASE m # n
          BY <2>1, <2>4, <4>2 DEF AdminIInv, AdminTypes
        <4> QED
          BY <4>1, <4>2
      <3>2. \A m \in NetworkIds : DOMAIN made[m] \subseteq DOMAIN made'[m]
        BY SMTT(30), <2>3, <2>4
      <3>3. \A q \in Handlers : handlerAt'[q] \in {"halt", "remove"} => found'[q] \in DOMAIN made'[op'[q].net]
        BY <1>4, <2>1, <3>2 DEF AdminIInv, AdminTypes, AtWork, Steps
      <3> QED
        BY <1>2, <1>4, <2>1, <2>4, <3>1, <3>3 DEF AdminIInv, AdminTypes, AtWork, Steps
    <2>6. Alone(r)
      BY <1>4, <2>1, <2>4 DEF Alone
    <2>7. n \notin overlap => Tidy(n)'
      BY <1>1, <1>3, <2>1, <2>2, <2>3, <2>4 DEF Tidy, Live
    <2> QED
      BY <1>1, <1>4, <2>5, <2>6, <2>7, AloneKeeps
  <1> QED
    BY <1>5, <1>6

(* The other steps of a request make no object. *)
LEMMA RequestKeeps ==
  ASSUME AdminIInv, NEW r \in Handlers, NEW cidr \in Cidrs,
         \/ Insert(r, cidr) \/ CheckNotRunning(r) \/ Load(r) \/ CheckRow(r)
         \/ LookupNetwork(r) \/ Halt(r) \/ RemoveNetwork(r) \/ Store(r, cidr)
  PROVE  AdminIInv'
  <1> USE AdminAssumption DEF NoObject
  <1> DEFINE n == op[r].net
             Others == \A q \in Handlers \ {r} : handlerAt'[q] = handlerAt[q]
  <1>1. AtWork(r) /\ UNCHANGED <<made, op, overlap>>
    BY DEF Insert, CheckNotRunning, Load, CheckRow, LookupNetwork, Halt, RemoveNetwork, Store, AtWork, Steps
  <1>2. n \in NetworkIds
    BY <1>1 DEF AdminIInv, AdminTypes
  <1>3. n \notin overlap => IF handlerAt[r] = "remove" THEN Live(n) = {} ELSE Tidy(n)
    <2> HAVE n \notin overlap
    <2>1. Between(n) <=> handlerAt[r] = "remove"
      BY <1>1 DEF Between, AdminIInv, OneRequest, AtWork, Steps
    <2> QED
      BY <1>2, <2>1 DEF AdminIInv, TidyUnlessBetween
  <1>4. CASE Insert(r, cidr)
    <2>1. /\ UNCHANGED <<registry, halted, found>> /\ handlerAt[r] = "insert" /\ Others
          /\ handlerAt' \in [Handlers -> Steps \cup {"new", "end"}]
          /\ \/ /\ row' = [row EXCEPT ![n] = cidr] /\ cidrSeen' = [cidrSeen EXCEPT ![r] = cidr]
                /\ handlerAt'[r] = "register"
             \/ UNCHANGED <<row, cidrSeen>> /\ handlerAt'[r] = "end"
      BY Zenon, <1>4 DEF Insert, Fails, Goto, AdminIInv, AdminTypes, Steps
    <2>2. AdminTypes'
      <3>1. row' \in [NetworkIds -> Cidrs \cup {NoRow}]
        <4>1. row \in [NetworkIds -> Cidrs \cup {NoRow}]
          BY DEF AdminIInv, AdminTypes
        <4> QED
          BY <1>2, <2>1, <4>1
      <3>3. cidrSeen' \in [Handlers -> Cidrs \cup {NoRow}]
        <4>1. cidrSeen \in [Handlers -> Cidrs \cup {NoRow}]
          BY DEF AdminIInv, AdminTypes
        <4> QED
          BY <2>1, <4>1
      <3>2. \A q \in Handlers : handlerAt'[q] = "register" => cidrSeen'[q] \in Cidrs
        BY <2>1 DEF AdminIInv, AdminTypes
      <3> QED
        BY <1>1, <2>1, <3>1, <3>2, <3>3 DEF AdminIInv, AdminTypes, AtWork, Steps
    <2>3. Alone(r)
      BY <1>1, <1>2, <2>1 DEF Alone, AdminIInv, AdminTypes
    <2>4. n \notin overlap => registry[n] = 0 /\ Tidy(n)
      BY <1>1, <1>3, <2>1 DEF AdminIInv, StillTrue
    <2>5. n \notin overlap => Tidy(n)' /\ (handlerAt'[r] = "register" => row'[n] = cidrSeen'[r])
      BY <1>1, <1>2, <2>1, <2>4 DEF Tidy, Live, AdminIInv, AdminTypes
    <2> QED
      BY <1>1, <2>1, <2>2, <2>3, <2>4, <2>5, AloneKeeps
  <1>5. CASE CheckNotRunning(r)
    <2>1. /\ UNCHANGED <<row, registry, halted, cidrSeen, found>> /\ handlerAt[r] = "running" /\ Others
          /\ handlerAt' \in [Handlers -> Steps \cup {"new", "end"}]
          /\ handlerAt'[r] = IF registry[n] = 0 THEN "load" ELSE "end"
      BY <1>5 DEF CheckNotRunning, Goto, AdminIInv, AdminTypes, Steps
    <2>2. AdminTypes' /\ Alone(r)
      BY SMTT(30), <1>1, <1>2, <2>1 DEF AdminIInv, AdminTypes, AtWork, Steps, Alone
    <2>3. n \notin overlap => Tidy(n)'
      BY <1>1, <1>3, <2>1 DEF Tidy, Live
    <2> QED
      BY <1>1, <2>1, <2>2, <2>3, AloneKeeps
  <1>6. CASE Load(r)
    <2>1. /\ UNCHANGED <<row, registry, halted, found>> /\ handlerAt[r] = "load" /\ Others
          /\ handlerAt' \in [Handlers -> Steps \cup {"new", "end"}]
          /\ \/ /\ row[n] # NoRow /\ cidrSeen' = [cidrSeen EXCEPT ![r] = row[n]]
                /\ handlerAt'[r] = "register"
             \/ UNCHANGED cidrSeen /\ handlerAt'[r] = "end"
      BY Zenon, <1>6 DEF Load, Fails, Goto, AdminIInv, AdminTypes, Steps
    <2>2. AdminTypes'
      BY ZenonT(30), <1>1, <1>2, <2>1 DEF AdminIInv, AdminTypes, AtWork, Steps
    <2>3. Alone(r)
      BY <1>1, <1>2, <2>1 DEF Alone, AdminIInv, AdminTypes
    <2>4. n \notin overlap => registry[n] = 0 /\ Tidy(n)
      BY <1>1, <1>3, <2>1 DEF AdminIInv, StillTrue
    <2>5. n \notin overlap => Tidy(n)' /\ (handlerAt'[r] = "register" => row'[n] = cidrSeen'[r])
      BY <1>1, <1>2, <2>1, <2>4 DEF Tidy, Live, AdminIInv, AdminTypes
    <2> QED
      BY <1>1, <2>1, <2>2, <2>3, <2>4, <2>5, AloneKeeps
  <1>7. CASE CheckRow(r)
    <2>1. /\ UNCHANGED <<row, registry, halted, cidrSeen, found>> /\ handlerAt[r] = "check" /\ Others
          /\ handlerAt' \in [Handlers -> Steps \cup {"new", "end"}]
          /\ handlerAt'[r] \in {"lookup", "end"}
      BY ZenonT(30), <1>7 DEF CheckRow, Fails, Goto, AdminIInv, AdminTypes, Steps
    <2>2. AdminTypes' /\ Alone(r)
      BY <1>1, <1>2, <2>1 DEF AdminIInv, AdminTypes, AtWork, Steps, Alone
    <2>3. n \notin overlap => Tidy(n)'
      BY <1>1, <1>3, <2>1 DEF Tidy, Live
    <2> QED
      BY <1>1, <2>1, <2>2, <2>3, AloneKeeps
  <1>8. CASE LookupNetwork(r)
    <2>1. /\ UNCHANGED <<row, registry, halted, cidrSeen>> /\ handlerAt[r] = "lookup" /\ Others
          /\ found' = [found EXCEPT ![r] = registry[n]]
          /\ handlerAt' \in [Handlers -> Steps \cup {"new", "end"}]
          /\ handlerAt'[r] \in {"halt", "store", "end"}
          /\ handlerAt'[r] = "halt" => registry[n] # 0
          /\ handlerAt'[r] = "store" => registry[n] = 0
      BY <1>8 DEF LookupNetwork, AfterLookup, Goto, AdminIInv, AdminTypes, Steps
    <2>2. registry[n] \in Nat /\ (registry[n] # 0 => registry[n] \in DOMAIN made[n])
      BY <1>2 DEF AdminIInv, AdminTypes
    <2>3. found' \in [Handlers -> Nat] /\ found'[r] = registry[n]
          /\ \A q \in Handlers \ {r} : found'[q] = found[q]
      BY <2>1, <2>2 DEF AdminIInv, AdminTypes
    <2>4. AdminTypes' /\ Alone(r)
      BY <1>1, <1>2, <2>1, <2>2, <2>3 DEF AdminIInv, AdminTypes, AtWork, Steps, Alone
    <2>5. n \notin overlap => Tidy(n)'
      BY SMTT(30), <1>1, <1>3, <2>1 DEF Tidy, Live
    <2> QED
      BY <1>1, <2>1, <2>3, <2>4, <2>5, AloneKeeps
  <1>9. CASE Halt(r)
    <2>1. /\ UNCHANGED <<row, registry, cidrSeen, found>> /\ handlerAt[r] = "halt" /\ Others
          /\ halted' = [halted EXCEPT ![n] = halted[n] \cup {found[r]}]
          /\ handlerAt' \in [Handlers -> Steps \cup {"new", "end"}]
          /\ handlerAt'[r] = "remove"
      BY <1>9 DEF Halt, Goto, AdminIInv, AdminTypes, Steps
    <2>2. found[r] \in DOMAIN made[n] /\ found[r] \in Nat
      BY <2>1 DEF AdminIInv, AdminTypes
    <2>3. /\ halted' \in [NetworkIds -> SUBSET Nat] /\ halted'[n] = halted[n] \cup {found[r]}
          /\ \A m \in NetworkIds \ {n} : halted'[m] = halted[m]
      BY <1>2, <2>1, <2>2 DEF AdminIInv, AdminTypes
    <2>4. AdminTypes'
      BY SMTT(30), <1>1, <1>2, <2>1, <2>2, <2>3 DEF AdminIInv, AdminTypes, AtWork, Steps
    <2>5. Alone(r)
      BY ZenonT(30), <1>1, <2>1, <2>3 DEF Alone
    <2>6. n \notin overlap => found[r] = registry[n] /\ Tidy(n)
      BY SMTT(30), <1>1, <1>3, <2>1 DEF AdminIInv, StillTrue
    <2>7. n \notin overlap => Live(n)' = {}
      BY SMTT(30), <1>1, <2>3, <2>6 DEF Tidy, Live
    <2> QED
      BY <1>1, <2>1, <2>4, <2>5, <2>7, AloneKeeps
  <1>10. CASE RemoveNetwork(r)
    <2>1. /\ UNCHANGED <<row, halted, cidrSeen, found>> /\ handlerAt[r] = "remove" /\ Others
          /\ registry' = [registry EXCEPT ![n] = 0]
          /\ handlerAt' \in [Handlers -> Steps \cup {"new", "end"}]
          /\ handlerAt'[r] \in {"end", "store"}
      BY <1>10 DEF RemoveNetwork, Goto, AdminIInv, AdminTypes, Steps
    <2>2. /\ registry' \in [NetworkIds -> Nat] /\ registry'[n] = 0
          /\ \A m \in NetworkIds \ {n} : registry'[m] = registry[m]
      BY <1>2, <2>1 DEF AdminIInv, AdminTypes
    <2>3. \A m \in NetworkIds : Len(made[m]) \in Nat
      BY DEF AdminIInv, AdminTypes
    <2>4. AdminTypes'
      BY SMTT(30), <1>1, <1>2, <2>1, <2>2, <2>3 DEF AdminIInv, AdminTypes, AtWork, Steps
    <2>5. Alone(r)
      BY SMTT(30), <1>1, <2>1, <2>2 DEF Alone
    <2>6. n \notin overlap => Tidy(n)'
      BY ZenonT(30), <1>1, <1>3, <2>1, <2>2 DEF Tidy, Live
    <2> QED
      BY ZenonT(30), <1>1, <2>1, <2>2, <2>4, <2>5, <2>6, AloneKeeps
  <1>11. CASE Store(r, cidr)
    <2>1. /\ UNCHANGED <<registry, halted, cidrSeen, found>> /\ handlerAt[r] = "store" /\ Others
          /\ handlerAt' \in [Handlers -> Steps \cup {"new", "end"}] /\ handlerAt'[r] = "end"
          /\ row' \in [NetworkIds -> Cidrs \cup {NoRow}]
          /\ \A m \in NetworkIds \ {n} : row'[m] = row[m]
      <3>1. \/ row' = row
            \/ \E c \in Cidrs \cup {NoRow} : row' = [row EXCEPT ![n] = c]
        BY <1>11 DEF Store, Fails
      <3>2. /\ row' \in [NetworkIds -> Cidrs \cup {NoRow}]
            /\ \A m \in NetworkIds \ {n} : row'[m] = row[m]
        <4>1. row \in [NetworkIds -> Cidrs \cup {NoRow}]
          BY DEF AdminIInv, AdminTypes
        <4> QED
          BY <1>2, <3>1, <4>1
      <3> QED
        BY <1>11, <3>2 DEF Store, Fails, Goto, AdminIInv, AdminTypes, Steps
    <2>2. AdminTypes'
      BY <1>1, <1>2, <2>1 DEF AdminIInv, AdminTypes, AtWork, Steps
    <2>3. Alone(r)
      BY <1>1, <2>1 DEF Alone
    <2>4. n \notin overlap => registry[n] = 0 /\ Tidy(n)
      BY SMTT(30), <1>1, <1>3, <2>1 DEF AdminIInv, StillTrue
    <2>5. n \notin overlap => Tidy(n)'
      BY <1>1, <2>1, <2>4 DEF Tidy, Live
    <2> QED
      BY SMTT(30), <1>1, <2>1, <2>2, <2>3, <2>5, AloneKeeps
  <1> QED
    BY <1>4, <1>5, <1>6, <1>7, <1>8, <1>9, <1>10, <1>11

(* A request that begins on a quiet network knows nothing yet, except that  *)
(* a created network has no row, so that nothing can be registered.         *)
LEMMA BeginKeeps ==
  ASSUME AdminIInv, NEW r \in Handlers, NEW n \in NetworkIds, NEW asked \in Kinds,
         BeginRequest(r, asked, n)
  PROVE  AdminIInv'
  <1> USE AdminAssumption DEF NoObject
  <1>1. /\ handlerAt[r] = "new" /\ ~AtWork(r)
        /\ UNCHANGED <<row, made, registry, halted, cidrSeen, found>>
        /\ op' = [op EXCEPT ![r] = [kind |-> asked, net |-> n]]
        /\ asked = "create" => row[n] = NoRow
    BY DEF BeginRequest, AtWork, Steps
  <1>2. /\ handlerAt' \in [Handlers -> Steps \cup {"new", "end"}]
        /\ handlerAt'[r] \in {"insert", "running", "lookup", "check"}
        /\ handlerAt'[r] = "insert" => asked = "create"
        /\ \A q \in Handlers \ {r} : handlerAt'[q] = handlerAt[q]
    BY DEF BeginRequest, FirstStep, Goto, Kinds, AdminIInv, AdminTypes, Steps
  <1>3. /\ DOMAIN op' = Handlers /\ op'[r].net = n
        /\ \A q \in Handlers \ {r} : op'[q] = op[q]
    BY <1>1 DEF AdminIInv, AdminTypes
  <1>4. /\ overlap \subseteq overlap' /\ overlap' \subseteq overlap \cup {n}
        /\ n \notin overlap' => \A q \in Handlers : ~(AtWork(q) /\ op[q].net = n)
    BY DEF BeginRequest, UnderWay, AtWork
  <1>5. AdminTypes'
    BY <1>1, <1>2, <1>3 DEF AdminIInv, AdminTypes, AtWork, Steps
  <1>6. OneRequest'
    BY SMTT(30), <1>1, <1>2, <1>3, <1>4 DEF AdminIInv, OneRequest, AtWork, Steps
  <1>7. TidyUnlessBetween'
    <2> SUFFICES ASSUME NEW m \in NetworkIds, m \notin overlap'
                 PROVE  IF Between(m)' THEN Live(m)' = {} ELSE Tidy(m)'
      BY DEF TidyUnlessBetween
    <2>1. Between(m)' <=> Between(m)
      BY <1>1, <1>2, <1>3 DEF Between
    <2>2. Live(m)' = Live(m) /\ (Tidy(m)' <=> Tidy(m))
      BY <1>1 DEF Live, Tidy
    <2> QED
      BY <1>4, <2>1, <2>2 DEF AdminIInv, TidyUnlessBetween
  <1>8. StillTrue'
    <2> SUFFICES ASSUME NEW q \in Handlers, AtWork(q)', op'[q].net \notin overlap'
                 PROVE  /\ handlerAt'[q] \in {"insert", "load", "register", "store"} =>
                             registry[op'[q].net] = NoObject
                        /\ handlerAt'[q] = "register" => row[op'[q].net] = cidrSeen[q]
                        /\ handlerAt'[q] = "halt" => found[q] = registry[op'[q].net]
      BY <1>1 DEF StillTrue
    <2>1. CASE q = r
      <3>1. n \notin overlap /\ ~Between(n)
        BY <1>3, <1>4, <2>1 DEF Between, AtWork, Steps
      <3>2. Tidy(n)
        BY <3>1 DEF AdminIInv, TidyUnlessBetween
      <3>3. registry[n] # 0 => made[n][registry[n]] \in Cidrs
        BY DEF AdminIInv, AdminTypes
      <3>4. handlerAt'[r] = "insert" => registry[n] = 0
        BY <1>1, <1>2, <3>2, <3>3 DEF Tidy
      <3> QED
        BY <1>2, <1>3, <2>1, <3>4
    <2>2. CASE q # r
      BY <1>2, <1>3, <1>4, <2>2 DEF AdminIInv, StillTrue, AtWork
    <2> QED
      BY <2>1, <2>2
  <1> QED
    BY <1>5, <1>6, <1>7, <1>8 DEF AdminIInv

(* A restart ends every request and starts from the rows. *)
LEMMA RestartKeeps ==
  ASSUME AdminIInv, Restart
  PROVE  AdminIInv'
  <1> USE AdminAssumption DEF NoObject
  <1>1. /\ UNCHANGED <<row, op, cidrSeen, found>> /\ overlap' = {}
        /\ halted' = [n \in NetworkIds |-> DOMAIN made[n]]
    BY DEF Restart
  <1>2. /\ handlerAt' \in [Handlers -> Steps \cup {"new", "end"}]
        /\ \A r \in Handlers : handlerAt'[r] \in {"new", "end"}
    BY DEF Restart, AdminIInv, AdminTypes
  <1>3. ASSUME NEW n \in NetworkIds
        PROVE  /\ made'[n] \in Seq(Cidrs \ {BadCidr}) /\ registry'[n] \in 0..Len(made'[n])
               /\ halted'[n] \subseteq DOMAIN made'[n] /\ halted'[n] \subseteq Nat
               /\ Tidy(n)'
    <2>1. /\ made[n] \in Seq(Cidrs \ {BadCidr}) /\ row[n] \in Cidrs \cup {NoRow}
          /\ Len(made[n]) \in Nat /\ DOMAIN made[n] = 1..Len(made[n])
          /\ halted'[n] = DOMAIN made[n]
      BY <1>1 DEF AdminIInv, AdminTypes
    <2>2. CASE made'[n] = Append(made[n], row[n]) /\ registry'[n] = Len(made[n]) + 1
               /\ row[n] \in Cidrs \ {BadCidr}
      <3>1. /\ made'[n] \in Seq(Cidrs \ {BadCidr}) /\ Len(made'[n]) = Len(made[n]) + 1
            /\ made'[n][Len(made[n]) + 1] = row[n]
            /\ DOMAIN made'[n] = DOMAIN made[n] \cup {Len(made[n]) + 1}
            /\ Len(made[n]) + 1 \notin DOMAIN made[n]
        BY <2>1, <2>2
      <3> QED
        BY <1>1, <2>1, <2>2, <3>1 DEF Tidy, Live
    <2>3. CASE made'[n] = made[n] /\ registry'[n] = 0
      BY <1>1, <2>1, <2>3 DEF Tidy, Live
    <2>4. \/ made'[n] = Append(made[n], row[n]) /\ registry'[n] = Len(made[n]) + 1
               /\ row[n] \in Cidrs \ {BadCidr}
          \/ made'[n] = made[n] /\ registry'[n] = 0
      BY <2>1 DEF Restart, Started, Registered, Startable
    <2> QED
      BY <2>2, <2>3, <2>4
  <1>4. made' \in [NetworkIds -> Seq(Cidrs \ {BadCidr})]
    <2>1. made' = [n \in NetworkIds |-> made'[n]]
      BY DEF Restart, Started, AdminIInv, AdminTypes
    <2> QED
      BY <1>3, <2>1
  <1>5. registry' \in [NetworkIds -> Nat]
    <2>1. registry' = [n \in NetworkIds |-> registry'[n]]
      BY DEF Restart, Registered
    <2> QED
      BY <1>3, <2>1
  <1>6. AdminTypes'
    BY ZenonT(30), <1>1, <1>2, <1>3, <1>4, <1>5 DEF AdminIInv, AdminTypes, AtWork, Steps
  <1>7. OneRequest' /\ StillTrue' /\ TidyUnlessBetween'
    BY <1>2, <1>3 DEF OneRequest, StillTrue, TidyUnlessBetween, AtWork, Steps, Between
  <1> QED
    BY <1>6, <1>7 DEF AdminIInv

LEMMA AdminInvariant == AdminSpec => []AdminIInv
  <1>1. AdminIInv /\ [AdminNext]_adminVars => AdminIInv'
    <2> SUFFICES ASSUME AdminIInv, [AdminNext]_adminVars PROVE AdminIInv'
      OBVIOUS
    <2>1. CASE Restart
      BY <2>1, RestartKeeps
    <2>2. CASE \E r \in Handlers : RegisterNetwork(r)
      BY <2>2, RegisterKeeps
    <2>3. CASE \E r \in Handlers, cidr \in Cidrs : Insert(r, cidr) \/ Store(r, cidr)
      BY <2>3, RequestKeeps
    <2>4. CASE \E r \in Handlers : \/ CheckNotRunning(r) \/ Load(r) \/ CheckRow(r)
                                   \/ LookupNetwork(r) \/ Halt(r) \/ RemoveNetwork(r)
      BY <2>4, RequestKeeps, AdminAssumption
    <2>5. CASE \E r \in Handlers, n \in NetworkIds, asked \in Kinds : BeginRequest(r, asked, n)
      BY <2>5, BeginKeeps
    <2>6. CASE UNCHANGED adminVars
      BY <2>6 DEF adminVars, AdminIInv, AdminTypes, OneRequest, TidyUnlessBetween, StillTrue,
                  AtWork, Live, Tidy, Between
    <2> QED
      BY <2>1, <2>2, <2>3, <2>4, <2>5, <2>6 DEF AdminNext
  <1> QED
    BY <1>1, AdminInitInv, PTL DEF AdminSpec

(* Networks managed by one request at a time run with the range the         *)
(* database holds for them, however requests fail and the process restarts. *)
THEOREM NetworksRunAsStored == AdminSpec => []RunningAsStored
  <1>1. AdminIInv => RunningAsStored
    <2> SUFFICES ASSUME AdminIInv, NEW n \in NetworkIds, n \notin overlap, UnderWay(n) = {},
                        registry[n] # NoObject
                 PROVE  made[n][registry[n]] = row[n]
      BY DEF RunningAsStored
    <2>1. ~Between(n)
      BY DEF Between, UnderWay, Steps
    <2> QED
      BY <2>1 DEF AdminIInv, TidyUnlessBetween, Tidy
  <1> QED
    BY <1>1, AdminInvariant, PTL

(* And the registry names exactly the object that runs: none is left behind *)
(* by a stop, an update, a deletion or a restart.                           *)
THEOREM RegistryNamesTheRunning == AdminSpec => []RegistryIsRunning
  <1>1. AdminIInv => RegistryIsRunning
    <2> SUFFICES ASSUME AdminIInv, NEW n \in NetworkIds, n \notin overlap, UnderWay(n) = {}
                 PROVE  DOMAIN made[n] \ halted[n] = {registry[n]} \ {NoObject}
      BY DEF RegistryIsRunning
    <2>1. ~Between(n)
      BY DEF Between, UnderWay, Steps
    <2> QED
      BY <2>1 DEF AdminIInv, TidyUnlessBetween, Tidy, Live
  <1> QED
    BY <1>1, AdminInvariant, PTL

-------------------------------------------------------------------------------
(* A datagram that Send makes. *)
Formed(d) ==
  \/ \E n \in Nat, len \in Lengths : len <= MaxPayloadSize /\ d = Whole(n, len)
  \/ \E n \in Nat, len \in Lengths, id \in 0..(IdSpace - 1) :
       \E i \in 0..(FragmentCount(len) - 1) : len > MaxPayloadSize /\ d = Fragment(n, len, id, i)

(* How far the counter c has gone since it was at id, if it has not wrapped. *)
Ahead(id, c) == IF id <= c THEN c - id ELSE c - id + IdSpace

OnTheWire == flight \cup seen

WireInv ==
  /\ messageIDCounter \in 0..(IdSpace - 1) /\ sends \in Nat
  /\ flight \cap seen = {}
  /\ \A d \in OnTheWire : Formed(d) /\ d.msg <= sends
  /\ \A d \in OnTheWire : ~d.plain => sends - d.msg >= Ahead(d.id, messageIDCounter)

(* Datagrams of one message agree; messages with one id are far apart. *)
IdInv ==
  \A d, e \in OnTheWire :
    /\ d.msg = e.msg => d.len = e.len /\ d.id = e.id
    /\ ~d.plain /\ ~e.plain /\ d.id = e.id /\ d.msg < e.msg => e.msg - d.msg >= IdSpace

PartialInv ==
  \A id \in DOMAIN partial :
    /\ partial[id] \in [count : Nat, fragments : SUBSET seen] /\ partial[id].fragments # {}
    /\ \A f \in partial[id].fragments : ~f.plain /\ f.id = id /\ f.count = partial[id].count
    /\ \A f, g \in partial[id].fragments : f.index = g.index => f = g

JoinedInv ==
  \A result \in joined :
    /\ result \subseteq seen
    /\ \A f, g \in result : f.index = g.index => f = g
    /\ \A f, g \in result : f = g \/ (~f.plain /\ ~g.plain /\ f.id = g.id)
    /\ \A f \in result : Cardinality(result) = f.count

(* What came of the message of d is collected, or was returned. *)
Mine(d) == {e \in seen : e.msg = d.msg}
Returned(d) == \E result \in joined : result # {} /\ result \subseteq Mine(d)
Waiting(d) == d.id \in DOMAIN partial /\ partial[d.id].fragments = Mine(d)

ArriveInv ==
  \A d \in seen :
    \/ Returned(d)
    \/ ~d.plain /\ IdShared(d)
    \/ ~d.plain /\ Waiting(d) /\ Cardinality(Mine(d)) # d.count

FragIInv == WireInv /\ IdInv /\ PartialInv /\ JoinedInv /\ ArriveInv

-------------------------------------------------------------------------------
(* A message is cut into a number of fragments. *)
LEMMA CountNat == \A len \in Lengths : FragmentCount(len) \in Nat
  BY FragmentAssumption DEF FragmentCount

(* Enough fragments are counted, if a count can say how many there are. *)
LEMMA CountCovers ==
  ASSUME NEW len \in Lengths, len <= MaxPayloadSize * (CountSpace - 1)
  PROVE  FragmentCount(len) * MaxPayloadSize >= len
  <1> DEFINE M == MaxPayloadSize
             q == (len + M - 1) \div M
  <1>1. M \in Nat \ {0} /\ CountSpace \in Nat \ {0} /\ len \in Nat \ {0}
    BY FragmentAssumption
  <1>2. q \in Nat /\ M * q <= len + M - 1 /\ len + M - 1 < M * q + M
    BY <1>1
  <1>3. len <= M * q
    <2> HIDE DEF q
    <2> QED
      BY <1>1, <1>2
  <1>4. q < CountSpace
    <2> HIDE DEF q
    <2>1. SUFFICES ASSUME q >= CountSpace PROVE FALSE
      BY <1>1, <1>2
    <2>2. M * CountSpace <= M * q
      BY <1>1, <1>2, <2>1
    <2>3. M * (CountSpace - 1) = M * CountSpace - M
      BY <1>1
    <2> QED
      BY <1>1, <1>2, <2>2, <2>3
  <1>5. FragmentCount(len) = q
    BY <1>1, <1>2, <1>4 DEF FragmentCount
  <1> QED
    BY <1>1, <1>2, <1>3, <1>5

(* What a datagram says about its message. *)
LEMMA DatagramFields ==
  ASSUME NEW d, Formed(d)
  PROVE  /\ d.msg \in Nat /\ d.len \in Lengths
         /\ d.plain <=> d.len <= MaxPayloadSize
         /\ d.plain => d = Whole(d.msg, d.len) /\ d.count = 1
         /\ ~d.plain => /\ d.id \in 0..(IdSpace - 1) /\ d.count = FragmentCount(d.len)
                        /\ d = Fragment(d.msg, d.len, d.id, d.index)
  <1>1. ASSUME NEW n \in Nat, NEW len \in Lengths, len <= MaxPayloadSize, d = Whole(n, len)
        PROVE  /\ d.msg = n /\ d.len = len /\ d.plain /\ d.count = 1
    BY <1>1 DEF Whole
  <1>2. ASSUME NEW n \in Nat, NEW len \in Lengths, NEW id \in 0..(IdSpace - 1), NEW i,
               len > MaxPayloadSize, d = Fragment(n, len, id, i)
        PROVE  /\ d.msg = n /\ d.len = len /\ ~d.plain /\ d.id = id /\ d.index = i
               /\ d.count = FragmentCount(len)
    BY <1>2 DEF Fragment
  <1>3. \A len \in Lengths : len > MaxPayloadSize <=> ~(len <= MaxPayloadSize)
    BY FragmentAssumption
  <1> QED
    BY <1>1, <1>2, <1>3 DEF Formed

(* A message, its id and an index determine the datagram. *)
LEMMA SameDatagram ==
  ASSUME NEW d, NEW e, Formed(d), Formed(e), d.msg = e.msg, d.len = e.len, d.id = e.id,
         d.index = e.index
  PROVE  d = e
  BY DatagramFields

-------------------------------------------------------------------------------
(* The counter moves on by one. *)
LEMMA CounterStep ==
  ASSUME NEW c \in 0..(IdSpace - 1)
  PROVE  /\ nextMessageID(c) \in 0..(IdSpace - 1)
         /\ Ahead(nextMessageID(c), nextMessageID(c)) = 0
         /\ Ahead(nextMessageID(c), c) = IdSpace - 1
         /\ \A id \in 0..(IdSpace - 1) :
              /\ Ahead(id, c) \in Nat /\ Ahead(id, nextMessageID(c)) \in Nat
              /\ Ahead(id, nextMessageID(c)) <= Ahead(id, c) + 1
  <1>1. IdSpace \in Nat \ {0}
    BY FragmentAssumption
  <1>2. nextMessageID(c) = IF c = IdSpace - 1 THEN 0 ELSE c + 1
    BY <1>1 DEF nextMessageID
  <1> QED
    BY <1>1, <1>2 DEF Ahead

(* What Send puts on the wire: datagrams of a new message under one id. *)
LEMMA SendWire ==
  ASSUME WireInv, NEW len \in Lengths, Send(len)
  PROVE  \E new, id :
           /\ flight' = flight \cup new /\ sends' = sends + 1 /\ UNCHANGED <<partial, joined, seen>>
           /\ \A d \in new : Formed(d) /\ d.msg = sends + 1 /\ d.len = len /\ d.id = id
           /\ \/ messageIDCounter' = messageIDCounter /\ \A d \in new : d.plain
              \/ messageIDCounter' = nextMessageID(messageIDCounter) /\ id = messageIDCounter'
  <1>1. sends' = sends + 1 /\ sends \in Nat /\ UNCHANGED <<partial, joined, seen>>
    BY DEF Send, WireInv
  <1>2. CASE len <= MaxPayloadSize
    <2>1. flight' = flight \cup {Whole(sends + 1, len)} /\ messageIDCounter' = messageIDCounter
      BY <1>1, <1>2 DEF Send
    <2>2. Formed(Whole(sends + 1, len))
      BY <1>1, <1>2 DEF Formed
    <2>3. /\ Whole(sends + 1, len).msg = sends + 1 /\ Whole(sends + 1, len).len = len
          /\ Whole(sends + 1, len).id = 0 /\ Whole(sends + 1, len).plain
      BY DEF Whole
    <2>4. PICK new, id : new = {Whole(sends + 1, len)} /\ id = 0
      BY Zenon
    <2>5. \A d \in new : Formed(d) /\ d.msg = sends + 1 /\ d.len = len /\ d.id = id /\ d.plain
      BY <2>2, <2>3, <2>4
    <2>6. flight' = flight \cup new
      BY <2>1, <2>4
    <2> QED
      BY <1>1, <2>1, <2>5, <2>6, Zenon
  <1>3. CASE ~(len <= MaxPayloadSize)
    <2>1. PICK id : id = nextMessageID(messageIDCounter)
      OBVIOUS
    <2>2. id \in 0..(IdSpace - 1) /\ messageIDCounter' = id
      BY <1>3, <2>1, CounterStep DEF Send, WireInv
    <2>3. PICK accepted \in 0..FragmentCount(len) :
            flight' = flight \cup {Fragment(sends + 1, len, id, i) : i \in 0..(accepted - 1)}
      BY <1>1, <1>3, <2>2 DEF Send
    <2>4. ASSUME NEW i \in 0..(accepted - 1)
          PROVE  /\ Formed(Fragment(sends + 1, len, id, i))
                 /\ Fragment(sends + 1, len, id, i).msg = sends + 1
                 /\ Fragment(sends + 1, len, id, i).len = len
                 /\ Fragment(sends + 1, len, id, i).id = id
      <3>1. i \in 0..(FragmentCount(len) - 1) /\ len > MaxPayloadSize
        BY <1>3, <2>3, CountNat, FragmentAssumption
      <3>2. Formed(Fragment(sends + 1, len, id, i))
        BY <1>1, <2>2, <3>1 DEF Formed
      <3> QED
        BY <3>2 DEF Fragment
    <2>5. \A d \in {Fragment(sends + 1, len, id, i) : i \in 0..(accepted - 1)} :
            Formed(d) /\ d.msg = sends + 1 /\ d.len = len /\ d.id = id
      BY <2>4, Zenon
    <2>6. PICK new : new = {Fragment(sends + 1, len, id, i) : i \in 0..(accepted - 1)}
      BY Zenon
    <2> QED
      BY <1>1, <2>1, <2>2, <2>3, <2>5, <2>6, Zenon
  <1> QED
    BY <1>2, <1>3

(* Send keeps the wire as it should be: the id of a new message was last    *)
(* used IdSpace messages ago.                                               *)
LEMMA SendInv ==
  ASSUME WireInv, IdInv, NEW len \in Lengths, Send(len)
  PROVE  WireInv' /\ IdInv'
  <1>1. PICK new, id :
           /\ flight' = flight \cup new /\ sends' = sends + 1 /\ UNCHANGED <<partial, joined, seen>>
           /\ \A d \in new : Formed(d) /\ d.msg = sends + 1 /\ d.len = len /\ d.id = id
           /\ \/ messageIDCounter' = messageIDCounter /\ \A d \in new : d.plain
              \/ messageIDCounter' = nextMessageID(messageIDCounter) /\ id = messageIDCounter'
    BY SendWire
  <1>2. PICK c \in 0..(IdSpace - 1) : c = messageIDCounter
    BY DEF WireInv
  <1>3. sends \in Nat /\ OnTheWire' = OnTheWire \cup new
    BY <1>1 DEF WireInv, OnTheWire
  <1>4. \A d \in OnTheWire' : Formed(d) /\ d.msg \in Nat
    BY <1>1, <1>3, DatagramFields DEF WireInv
  <1>5. \A d \in OnTheWire : d.msg <= sends
    BY DEF WireInv
  <1>6. \A d \in OnTheWire' : ~d.plain => d.id \in 0..(IdSpace - 1)
    BY <1>4, DatagramFields
  <1>7. \A d \in OnTheWire : ~d.plain => sends - d.msg >= Ahead(d.id, c)
    BY <1>2 DEF WireInv
  <1>8. IdSpace \in Nat \ {0}
    BY FragmentAssumption
  <1>9. WireInv'
    <2>1. messageIDCounter' \in 0..(IdSpace - 1) /\ sends' \in Nat
      BY <1>1, <1>2, <1>3, CounterStep
    <2>2. flight' \cap seen' = {}
      BY <1>1, <1>3, <1>5 DEF WireInv, OnTheWire
    <2>3. \A d \in OnTheWire' : Formed(d) /\ d.msg <= sends'
      BY <1>1, <1>3, <1>4, <1>5
    <2>4. ASSUME NEW d \in OnTheWire', ~d.plain
          PROVE  sends' - d.msg >= Ahead(d.id, messageIDCounter')
      <3>1. CASE d \in OnTheWire
        <4>1. /\ d.msg \in Nat /\ d.id \in 0..(IdSpace - 1) /\ sends - d.msg >= Ahead(d.id, c)
          BY <1>4, <1>6, <1>7, <2>4, <3>1
        <4>2. /\ Ahead(d.id, c) \in Nat /\ Ahead(d.id, nextMessageID(c)) \in Nat
              /\ Ahead(d.id, nextMessageID(c)) <= Ahead(d.id, c) + 1
          BY <4>1, CounterStep
        <4> QED
          BY <1>1, <1>2, <1>3, <4>1, <4>2
      <3>2. CASE d \in new
        <4>1. messageIDCounter' = nextMessageID(c) /\ d.id = nextMessageID(c) /\ d.msg = sends + 1
          BY <1>1, <1>2, <2>4, <3>2
        <4>2. Ahead(nextMessageID(c), nextMessageID(c)) = 0
          BY CounterStep
        <4> QED
          BY <1>1, <1>3, <4>1, <4>2
      <3> QED
        BY <1>3, <3>1, <3>2
    <2> QED
      BY <2>1, <2>2, <2>3, <2>4 DEF WireInv
  <1>10. IdInv'
    <2>1. ASSUME NEW d \in OnTheWire', NEW e \in OnTheWire', d.msg = e.msg
          PROVE  d.len = e.len /\ d.id = e.id
      <3>1. d \in new <=> e \in new
        BY <1>1, <1>3, <1>4, <1>5, <2>1
      <3> QED
        BY <1>1, <1>3, <2>1, <3>1 DEF IdInv
    <2>2. ASSUME NEW d \in OnTheWire', NEW e \in OnTheWire', ~d.plain, ~e.plain, d.id = e.id,
                 d.msg < e.msg
          PROVE  e.msg - d.msg >= IdSpace
      <3>1. CASE e \in OnTheWire
        <4>1. d \in OnTheWire
          BY <1>1, <1>3, <1>4, <1>5, <2>2, <3>1
        <4> QED
          BY <2>2, <3>1, <4>1 DEF IdInv
      <3>2. CASE e \in new
        <4>1. d \in OnTheWire /\ e.msg = sends + 1 /\ d.id = nextMessageID(c)
          BY <1>1, <1>2, <1>3, <2>2, <3>2
        <4>2. sends - d.msg >= IdSpace - 1
          BY <1>7, <2>2, <4>1, CounterStep
        <4> QED
          BY <1>3, <1>4, <1>8, <4>1, <4>2
      <3> QED
        BY <1>3, <3>1, <3>2
    <2> QED
      BY <2>1, <2>2 DEF IdInv
  <1> QED
    BY <1>9, <1>10

-------------------------------------------------------------------------------
(* Neither losing nor receiving a datagram adds to the wire. *)
LEMMA ArrivalWire ==
  ASSUME WireInv, IdInv, NEW d \in flight, flight' = flight \ {d}, seen' \in {seen, seen \cup {d}},
         UNCHANGED <<messageIDCounter, sends>>
  PROVE  WireInv' /\ IdInv'
  <1>1. OnTheWire' \subseteq OnTheWire
    BY DEF OnTheWire
  <1>2. flight' \cap seen' = {}
    BY DEF WireInv
  <1>3. WireInv'
    BY <1>1, <1>2 DEF WireInv
  <1> QED
    BY <1>1, <1>3 DEF IdInv

(* A fragment goes with those collected for its id. *)
LEMMA CollectedFragments ==
  ASSUME PartialInv, NEW d, Formed(d), NEW msg, msg = Collected(d)
  PROVE  /\ msg \in [count : Nat, fragments : SUBSET seen]
         /\ \A f \in msg.fragments : ~f.plain /\ f.id = d.id /\ f.count = msg.count
         /\ \A f, g \in msg.fragments : f.index = g.index => f = g
  <1>1. CASE d.id \in DOMAIN partial
    BY <1>1 DEF PartialInv, Collected
  <1>2. CASE d.id \notin DOMAIN partial
    <2>1. d.count = 1 \/ (d.len \in Lengths /\ d.count = FragmentCount(d.len))
      BY DatagramFields
    <2>2. d.count \in Nat
      <3>1. CASE d.count = 1
        BY <3>1
      <3>2. CASE d.len \in Lengths /\ d.count = FragmentCount(d.len)
        BY <3>2, CountNat, Zenon
      <3> QED
        BY <2>1, <3>1, <3>2
    <2>3. msg = [count |-> d.count, fragments |-> {}]
      BY <1>2 DEF Collected
    <2> QED
      BY <2>2, <2>3
  <1> QED
    BY SMTT(30), <1>1, <1>2

(* Replacing the fragments of an unfinished message keeps its count. *)
LEMMA KeptFragments ==
  ASSUME NEW S, NEW msg \in [count : Nat, fragments : SUBSET S], NEW fragments
  PROVE  LET kept == [msg EXCEPT !.fragments = fragments] IN
         /\ kept \in [count : Nat, fragments : {fragments}]
         /\ kept.fragments = fragments /\ kept.count = msg.count
  BY Zenon

(* A datagram that arrives leaves unfinished and returned messages well     *)
(* formed.                                                                  *)
LEMMA ReceivePartial ==
  ASSUME WireInv, PartialInv, JoinedInv, NEW d \in flight, ReceiveDatagram(d)
  PROVE  PartialInv' /\ JoinedInv'
  <1>1. seen' = seen \cup {d} /\ Formed(d)
    BY DEF ReceiveDatagram, WireInv, OnTheWire
  <1>2. ASSUME NEW result, joined' = joined \cup {result}, result \subseteq seen',
               \A f, g \in result : f.index = g.index => f = g,
               \A f, g \in result : f = g \/ (~f.plain /\ ~g.plain /\ f.id = g.id),
               \A f \in result : Cardinality(result) = f.count
        PROVE  JoinedInv'
    BY <1>1, <1>2 DEF JoinedInv
  <1>3. ASSUME joined' = joined PROVE JoinedInv'
    BY SMTT(30), <1>1, <1>3 DEF JoinedInv
  <1>4. ASSUME partial' = partial PROVE PartialInv'
    BY <1>1, <1>4 DEF PartialInv
  <1>5. CASE d.plain
    <2>1. joined' = joined \cup {{d}} /\ partial' = partial
      BY <1>5 DEF ReceiveDatagram
    <2>2. Cardinality({d}) = 1 /\ d.count = 1
      BY Zenon, <1>1, <1>5, FS_Singleton, DatagramFields
    <2>3. PICK result : result = {d}
      BY Zenon
    <2>4. JoinedInv'
      <3>1. \A f \in result : f = d
        BY <2>3
      <3>2. result \subseteq seen' /\ joined' = joined \cup {result}
        BY <1>1, <2>1, <2>3
      <3>3. \A f \in result : Cardinality(result) = f.count
        BY <2>2, <2>3, <3>1
      <3>4. \A f, g \in result : f = g
        BY <3>1, Zenon
      <3>5. \A r \in joined' : r \in joined \/ r = result
        BY <3>2
      <3> QED
        BY <1>1, <3>2, <3>3, <3>4, <3>5 DEF JoinedInv
    <2> QED
      BY <1>4, <2>1, <2>4
  <1>6. CASE ~d.plain
    <2>1. PICK msg : msg = Collected(d)
      OBVIOUS
    <2>2. PICK fragments : fragments = msg.fragments \cup {d}
      BY Zenon
    <2>3. /\ msg \in [count : Nat, fragments : SUBSET seen]
          /\ \A f \in msg.fragments : f \in seen /\ ~f.plain /\ f.id = d.id /\ f.count = msg.count
      BY <1>1, <2>1, CollectedFragments
    <2>4. \A f, g \in msg.fragments : f.index = g.index => f = g
      BY <1>1, <2>1, CollectedFragments
    <2>5. ASSUME partial' = Drop(d.id) PROVE PartialInv'
      BY <1>1, <2>5 DEF PartialInv, Drop
    <2>6. CASE d.count # msg.count
      BY <1>3, <1>6, <2>1, <2>5, <2>6 DEF ReceiveDatagram, addFragment
    <2>7. CASE d.count = msg.count /\ \E f \in msg.fragments : f.index = d.index
      BY <1>3, <1>4, <1>6, <2>1, <2>7 DEF ReceiveDatagram, addFragment
    <2>8. CASE d.count = msg.count /\ \A f \in msg.fragments : f.index # d.index
      <3>1. /\ fragments \subseteq seen' /\ fragments # {}
            /\ \A f, g \in fragments : f.index = g.index => f = g
            /\ \A f \in fragments : ~f.plain /\ f.id = d.id /\ f.count = d.count
        BY <1>1, <1>6, <2>2, <2>3, <2>4, <2>8
      <3>2. CASE Cardinality(fragments) = d.count
        <4>1. partial' = Drop(d.id) /\ joined' = joined \cup {fragments}
          BY <1>6, <2>1, <2>2, <2>8, <3>2 DEF ReceiveDatagram, addFragment
        <4>2. \A f, g \in fragments : f = g \/ (~f.plain /\ ~g.plain /\ f.id = g.id)
          BY <3>1
        <4>3. \A f \in fragments : Cardinality(fragments) = f.count
          BY <3>1, <3>2
        <4> QED
          BY <1>2, <2>5, <3>1, <4>1, <4>2, <4>3
      <3>3. CASE Cardinality(fragments) # d.count
        <4>1. PICK kept : kept = [msg EXCEPT !.fragments = fragments]
          BY Zenon
        <4>2. partial' = Keep(d.id, kept) /\ joined' = joined
          BY <1>6, <2>1, <2>2, <2>8, <3>3, <4>1 DEF ReceiveDatagram, addFragment
        <4>3. /\ kept \in [count : Nat, fragments : {fragments}]
              /\ kept.fragments = fragments /\ kept.count = msg.count
          BY <2>3, <4>1, KeptFragments
        <4>4. \A id \in DOMAIN partial' : \/ id = d.id /\ partial'[id] = kept
                                          \/ id \in DOMAIN partial /\ partial'[id] = partial[id]
          BY SMTT(30), <4>2 DEF Keep
        <4>5. PartialInv'
          BY <1>1, <2>3, <2>8, <3>1, <4>3, <4>4 DEF PartialInv
        <4> QED
          BY <1>3, <4>2, <4>5
      <3> QED
        BY <3>2, <3>3
    <2> QED
      BY <2>6, <2>7, <2>8
  <1> QED
    BY <1>5, <1>6

(* The messages that came whole stay returned, the others stay collected,   *)
(* and the message of the fragment goes on.                                 *)
LEMMA ReceiveArrives ==
  ASSUME WireInv, IdInv, PartialInv, ArriveInv, NEW d \in flight, ReceiveDatagram(d)
  PROVE  ArriveInv'
  <1>1. /\ seen' = seen \cup {d} /\ d \notin seen
        /\ \A e \in seen' : Formed(e)
        /\ \A e, f \in seen' : e.msg = f.msg => e.len = f.len /\ e.id = f.id
    BY DEF ReceiveDatagram, WireInv, IdInv, OnTheWire
  <1>2. \A e, f \in seen' : e.msg = f.msg => (e.plain <=> f.plain) /\ e.count = f.count
    BY <1>1, DatagramFields
  <1>3. joined \subseteq joined'
    BY DEF ReceiveDatagram, addFragment
  <1>4. \A e \in seen : Returned(e) => Returned(e)'
    BY <1>1, <1>3 DEF Returned, Mine
  <1>5. \A e \in seen : IdShared(e) => IdShared(e)'
    BY <1>1 DEF IdShared
  <1>6. CASE d.plain
    <2>1. joined' = joined \cup {{d}} /\ partial' = partial
      BY <1>6 DEF ReceiveDatagram
    <2>2. Returned(d)'
      BY Zenon, <1>1, <2>1 DEF Returned, Mine
    <2>3. ASSUME NEW e \in seen, ~e.plain, Waiting(e), Cardinality(Mine(e)) # e.count
          PROVE  Waiting(e)' /\ Cardinality(Mine(e)') # e.count
      <3>1. Mine(e)' = Mine(e)
        BY <1>1, <1>2, <1>6, <2>3 DEF Mine
      <3> QED
        BY <2>1, <2>3, <3>1 DEF Waiting
    <2> QED
      BY <1>1, <1>4, <1>5, <2>2, <2>3 DEF ArriveInv
  <1>7. CASE ~d.plain
    <2>1. PICK msg : msg = Collected(d)
      BY Zenon
    <2>2. PICK fragments : fragments = msg.fragments \cup {d}
      BY Zenon
    <2>3. \/ partial' = partial
          \/ partial' = Drop(d.id)
          \/ \E kept : partial' = Keep(d.id, kept)
      BY <1>7, Zenon DEF ReceiveDatagram, addFragment
    <2>4. \A id \in DOMAIN partial : id # d.id => id \in DOMAIN partial' /\ partial'[id] = partial[id]
      BY <2>3 DEF Drop, Keep
    <2>5. ASSUME NEW e \in seen, e.id # d.id, ~e.plain, Waiting(e), Cardinality(Mine(e)) # e.count
          PROVE  Waiting(e)' /\ Cardinality(Mine(e)') # e.count
      <3>1. Mine(e)' = Mine(e)
        BY <1>1, <2>5 DEF Mine
      <3> QED
        BY <2>4, <2>5, <3>1 DEF Waiting
    <2>6. ASSUME NEW e \in seen, ~e.plain, e.id = d.id, e.msg # d.msg PROVE IdShared(e)'
      BY SMTT(30), <1>1, <1>7, <2>6 DEF IdShared
    <2>7. ASSUME NEW e \in seen, e.msg = d.msg
          PROVE  /\ Mine(e)' = Mine(d)' /\ e.count = d.count /\ ~e.plain
                 /\ IdShared(e)' <=> IdShared(d)'
                 /\ Returned(e)' <=> Returned(d)'
                 /\ Waiting(e)' <=> Waiting(d)'
      <3>1. e \in seen' /\ d \in seen' /\ e.id = d.id /\ Mine(e)' = Mine(d)'
        BY SMTT(30), <1>1, <2>7 DEF Mine
      <3> QED
        BY <1>2, <1>7, <2>7, <3>1 DEF IdShared, Returned, Waiting
    <2>8. ASSUME ~IdShared(d)' PROVE Returned(d)' \/ (Waiting(d)' /\ Cardinality(Mine(d)') # d.count)
      <3>1. \A f \in seen : ~f.plain /\ f.id = d.id => f.msg = d.msg
        BY <1>1, <2>8 DEF IdShared
      <3>2. ASSUME NEW e \in seen, e.msg = d.msg, Returned(e) PROVE Returned(d)'
        BY <1>4, <2>7, <3>2
      <3>3. CASE \A e \in seen : e.msg = d.msg => ~Returned(e)
        <4>1. msg.fragments = Mine(d) /\ msg.count = d.count
          <5>1. ASSUME NEW e \in seen, e.msg = d.msg
                PROVE  Waiting(e) /\ Mine(e) = Mine(d) /\ e.id = d.id /\ e.count = d.count /\ e \in Mine(d)
            <6>1. e.id = d.id /\ e.count = d.count /\ ~e.plain
              BY <1>1, <1>2, <1>7, <5>1
            <6>2. ~IdShared(e)
              BY <3>1, <5>1, <6>1 DEF IdShared
            <6> QED
              BY Zenon, <3>3, <5>1, <6>1, <6>2 DEF ArriveInv, Mine
          <5>2. CASE \E e \in seen : e.msg = d.msg
            <6>1. PICK e \in Mine(d) : d.id \in DOMAIN partial /\ partial[d.id].fragments = Mine(d)
                                      /\ e.count = d.count
              BY <5>1, <5>2 DEF Waiting
            <6>2. msg = partial[d.id]
              BY <2>1, <6>1 DEF Collected
            <6> QED
              BY <6>1, <6>2 DEF PartialInv
          <5>3. CASE \A e \in seen : e.msg # d.msg
            <6>1. Mine(d) = {} /\ d.id \notin DOMAIN partial
              BY <3>1, <5>3 DEF Mine, PartialInv
            <6>2. msg = [count |-> d.count, fragments |-> {}]
              BY <2>1, <6>1 DEF Collected
            <6> QED
              BY <6>1, <6>2
          <5> QED
            BY <5>2, <5>3
        <4>2. Mine(d)' = fragments
          BY <1>1, <2>2, <4>1 DEF Mine
        <4>3. ASSUME NEW f \in msg.fragments PROVE f.index # d.index
          BY <1>1, <4>1, SameDatagram DEF Mine
        <4>4. CASE Cardinality(fragments) = d.count
          <5>1. fragments \in joined'
            BY <1>7, <2>1, <2>2, <4>1, <4>3, <4>4 DEF ReceiveDatagram, addFragment
          <5>2. fragments # {} /\ fragments \subseteq Mine(d)'
            BY <2>2, <4>2
          <5> QED
            BY <5>1, <5>2, Zenon DEF Returned, Mine
        <4>5. CASE Cardinality(fragments) # d.count
          <5>1. partial' = Keep(d.id, [msg EXCEPT !.fragments = fragments])
            BY <1>7, <2>1, <2>2, <4>1, <4>3, <4>5 DEF ReceiveDatagram, addFragment
          <5>2. [msg EXCEPT !.fragments = fragments].fragments = fragments
            BY <1>1, <2>1, CollectedFragments, KeptFragments
          <5>3. d.id \in DOMAIN partial' /\ partial'[d.id].fragments = fragments
            BY Zenon, <5>1, <5>2 DEF Keep
          <5> QED
            BY <4>2, <4>5, <5>3 DEF Waiting
        <4> QED
          BY <4>4, <4>5
      <3>4. CASE \E e \in seen : e.msg = d.msg /\ Returned(e)
        BY SMTT(30), <3>2, <3>4
      <3> QED
        BY <3>3, <3>4
    <2>9. ASSUME NEW e \in seen
          PROVE  \/ Returned(e)'
                 \/ ~e.plain /\ IdShared(e)'
                 \/ ~e.plain /\ Waiting(e)' /\ Cardinality(Mine(e)') # e.count
      <3>1. CASE e.msg = d.msg
        BY SMTT(30), <2>7, <2>8, <3>1
      <3>2. CASE e.msg # d.msg
        BY <1>4, <1>5, <2>5, <2>6, <3>2 DEF ArriveInv
      <3> QED
        BY <3>1, <3>2
    <2> QED
      BY <1>1, <1>7, <2>8, <2>9 DEF ArriveInv
  <1> QED
    BY <1>6, <1>7

(* Every send, loss and arrival keeps the invariant. *)
LEMMA FragStep == FragIInv /\ [FragNext]_fragVars => FragIInv'
  <1> SUFFICES ASSUME FragIInv, [FragNext]_fragVars PROVE FragIInv'
    OBVIOUS
  <1> USE DEF FragIInv
  <1>1. ASSUME UNCHANGED <<partial, joined, seen>> PROVE PartialInv' /\ JoinedInv' /\ ArriveInv'
    BY ZenonT(30), <1>1 DEF PartialInv, JoinedInv, ArriveInv, Returned, Waiting, Mine, IdShared
  <1>2. ASSUME NEW len \in Lengths, Send(len) PROVE FragIInv'
    BY <1>1, <1>2, SendInv DEF Send
  <1>3. ASSUME NEW d \in flight, Lose(d) PROVE FragIInv'
    BY <1>1, <1>3, ArrivalWire DEF Lose
  <1>4. ASSUME NEW d \in flight, ReceiveDatagram(d) PROVE FragIInv'
    <2>1. WireInv' /\ IdInv'
      BY <1>4, ArrivalWire DEF ReceiveDatagram
    <2> QED
      BY <1>4, <2>1, ReceivePartial, ReceiveArrives
  <1>5. CASE UNCHANGED fragVars
    BY <1>1, <1>5 DEF fragVars, WireInv, IdInv, OnTheWire
  <1> QED
    BY <1>2, <1>3, <1>4, <1>5 DEF FragNext

(* FragIInv is an invariant of the connection. *)
LEMMA FragInvariant == FragSpec => []FragIInv
  <1>1. FragInit => FragIInv
    BY FragmentAssumption
       DEF FragInit, FragIInv, WireInv, IdInv, OnTheWire, PartialInv, JoinedInv, ArriveInv
  <1> QED
    BY <1>1, FragStep, PTL DEF FragSpec

(* For any lengths, datagram sizes, id spaces and counts, and whatever is   *)
(* lost or reordered: what Receive returns has each index once, comes from  *)
(* one message unless the ids have wrapped in between, and misses no part   *)
(* of a message whose fragments a count can number.                         *)
THEOREM MessagesWhole == FragSpec => []DeliveredWhole
  <1>1. FragIInv => DeliveredWhole
    <2> SUFFICES ASSUME FragIInv, NEW result \in joined
                 PROVE  /\ \A f, g \in result : f.index = g.index => f = g
                        /\ \A f, g \in result :
                             f.msg # g.msg => f.msg - g.msg >= IdSpace \/ g.msg - f.msg >= IdSpace
                        /\ \A f \in result : f.len <= MaxPayloadSize * (CountSpace - 1) =>
                             Cardinality(result) * MaxPayloadSize >= f.len
      BY DEF DeliveredWhole
    <2>1. /\ result \subseteq OnTheWire
          /\ \A f, g \in result : f.index = g.index => f = g
          /\ \A f, g \in result : f = g \/ (~f.plain /\ ~g.plain /\ f.id = g.id)
          /\ \A f \in result : Cardinality(result) = f.count
      BY DEF FragIInv, JoinedInv, OnTheWire
    <2>2. \A f \in result : Formed(f)
      BY <2>1 DEF FragIInv, WireInv
    <2>3. ASSUME NEW f \in result, NEW g \in result, f.msg # g.msg
          PROVE  f.msg - g.msg >= IdSpace \/ g.msg - f.msg >= IdSpace
      <3>1. f.msg \in Nat /\ g.msg \in Nat /\ ~f.plain /\ ~g.plain /\ f.id = g.id
        BY <2>1, <2>2, <2>3, DatagramFields
      <3> QED
        BY <2>1, <2>3, <3>1 DEF FragIInv, IdInv
    <2>4. ASSUME NEW f \in result, f.len <= MaxPayloadSize * (CountSpace - 1)
          PROVE  Cardinality(result) * MaxPayloadSize >= f.len
      <3>1. CASE f.plain
        <4>1. f.count = 1 /\ f.len <= MaxPayloadSize /\ f.len \in Lengths
          BY <2>2, <3>1, DatagramFields
        <4> QED
          BY <2>1, <4>1, FragmentAssumption
      <3>2. CASE ~f.plain
        <4>1. f.count = FragmentCount(f.len) /\ f.len \in Lengths
          BY <2>2, <3>2, DatagramFields
        <4> QED
          BY <2>1, <2>4, <4>1, CountCovers
      <3> QED
        BY <3>1, <3>2
    <2> QED
      BY <2>1, <2>3, <2>4
  <1> QED
    BY <1>1, FragInvariant, PTL

(* And a message all of whose fragments arrive is returned, in whatever     *)
(* order they come, unless another message of its id came too.              *)
THEOREM ArrivedMessagesReturned == FragSpec => []ArrivedIsDelivered
  <1>1. FragIInv => ArrivedIsDelivered
    <2> SUFFICES ASSUME FragIInv, NEW d \in seen, d.plain \/ ~IdShared(d),
                        Cardinality({e \in seen : e.msg = d.msg}) = d.count
                 PROVE  \E result \in joined : Sources(result) = {d.msg}
      BY DEF ArrivedIsDelivered
    <2>1. Cardinality(Mine(d)) = d.count
      BY DEF Mine
    <2>2. Returned(d)
      BY <2>1 DEF FragIInv, ArriveInv
    <2>3. PICK result \in joined : result # {} /\ result \subseteq Mine(d)
      BY <2>2 DEF Returned
    <2>4. Sources(result) = {d.msg}
      BY <2>3 DEF Sources, Mine
    <2> QED
      BY <2>4
  <1> QED
    BY <1>1, FragInvariant, PTL

===============================================================================
