------------------------------ MODULE RouterTrie ------------------------------
(***************************************************************************)
(* The lock-free router of common/router/router.go: two binary tries, one  *)
(* for IPv4 and one for IPv6, whose nodes hold four atomics (zero, one,    *)
(* leaf, target).  Goroutines call Register and UnRegister, look packets   *)
(* up and list the table, each as a sequence of atomic loads and stores    *)
(* that interleave freely.                                                 *)
(*                                                                         *)
(* A node is named by its path, <<"v4">> or <<"v6">> followed by the bits  *)
(* that lead to it.  This loses nothing: a child pointer is only ever      *)
(* written by CompareAndSwap from nil, so a path has one node for ever.    *)
(* The value of the n-th call is n, so a value names its registration.     *)
(***************************************************************************)
EXTENDS Naturals, Sequences, FiniteSets

CONSTANTS V4Bits,    \* 32 in the code
          V6Bits,    \* 128 in the code
          MaxDepth,  \* 128, the depth at which a traversal gives up
          Routes,    \* the prefixes that are registered, as node paths
          Shared,    \* those that several goroutines may write at a time
          Addresses, \* the addresses looked up, as node paths of full length
          Writers, Readers, Walkers,
          MaxOps,    \* bound on the calls to Register and UnRegister
          Nil

Bits(tree) == IF tree = "v4" THEN V4Bits ELSE V6Bits

Paths(tree) ==
  UNION {{<<tree>> \o b : b \in [1..n -> {0, 1}]} : n \in 0..Bits(tree)}

AllNodes == Paths("v4") \cup Paths("v6")

Depth(n) == Len(n) - 1

ASSUME RoutesAssumption == Shared \subseteq Routes /\ Routes \subseteq AllNodes

ASSUME TrieAssumption ==
  /\ V4Bits \in Nat \ {0} /\ V6Bits \in Nat \ {0} /\ MaxDepth \in Nat /\ MaxOps \in Nat
  /\ Nil \notin AllNodes /\ Nil \notin 1..MaxOps

ASSUME AddressesAssumption ==
  \A a \in Addresses : a \in AllNodes /\ Depth(a) = Bits(a[1])

VARIABLES
  nodes,   \* the nodes that are linked into the tries
  leaf,    \* TrieNode.leaf
  target,  \* TrieNode.target: Nil or the value pointed to
  job,     \* the call to Register or UnRegister of each writer
  look,    \* the lookup of each reader
  walk,    \* the Range of each walker
  ops,     \* number of Register and UnRegister calls begun
  (* history *)
  settled, \* routes whose last call was a Register that ran alone and returned
  finished,\* values whose Register returned, per route
  dead     \* values replaced or removed by a later call that returned

trie == <<nodes, leaf, target>>
history == <<settled, finished, dead>>
vars == <<trie, job, look, walk, ops, history>>

NoJob == [pc |-> "idle", prefix |-> Nil, at |-> Nil, val |-> Nil,
          alone |-> TRUE, prior |-> {}]
NoLook == [pc |-> "idle", ip |-> Nil, at |-> Nil, best |-> Nil, from |-> Nil,
           final |-> FALSE, kept |-> {}, gone |-> {}]
NoWalk == [pc |-> "idle", stack |-> <<>>, keys |-> {}, kept |-> {}, gone |-> {}]

Child(n, path) == SubSeq(path, 1, Len(n) + 1)

(* Node p lies on the way from the root to n. *)
OnWayTo(p, n) == Len(p) <= Len(n) /\ SubSeq(p, 1, Len(p)) = SubSeq(n, 1, Len(p))

-------------------------------------------------------------------------------
(* NewRouter: two roots and nothing else. *)
Init ==
  /\ nodes = {<<"v4">>, <<"v6">>}
  /\ leaf = [n \in AllNodes |-> FALSE]
  /\ target = [n \in AllNodes |-> Nil]
  /\ job = [w \in Writers |-> NoJob]
  /\ look = [r \in Readers |-> NoLook]
  /\ walk = [k \in Walkers |-> NoWalk]
  /\ ops = 0
  /\ settled = {}
  /\ finished = [p \in Routes |-> {}]
  /\ dead = {}

Busy(p) == {w \in Writers : job[w].prefix = p}

(* The walk of a writer reaches node n. *)
Arrive(j, n) ==
  [j EXCEPT !.at = n, !.pc = IF n = j.prefix THEN "leaf" ELSE "walk"]

Begin(w, p, v) ==
  /\ job[w].pc = "idle"
  /\ ops < MaxOps
  /\ p \in Shared \/ Busy(p) = {}
  /\ ops' = ops + 1
  /\ job' = [x \in Writers |->
       IF x = w
       THEN Arrive([NoJob EXCEPT !.prefix = p, !.val = v, !.alone = Busy(p) = {},
                                 !.prior = finished[p]], <<p[1]>>)
       ELSE [job[x] EXCEPT !.alone = @ /\ job[x].prefix # p]]
  /\ settled' = settled \ {p}
  /\ look' = [r \in Readers |-> [look[r] EXCEPT !.kept = @ \ {p}]]
  /\ walk' = [k \in Walkers |-> [walk[k] EXCEPT !.kept = @ \ {p}]]
  /\ UNCHANGED <<trie, finished, dead>>

(* Register: choose the tree by the address family and walk from its root. *)
Register(w) == \E p \in Routes : Begin(w, p, ops + 1)

(* UnRegister: the same, without a value. *)
UnRegister(w) == \E p \in Routes : Begin(w, p, Nil)

IsInsert(w) == job[w].val # Nil

(* The next child is loaded; when it is missing an insert goes on to link   *)
(* it, and a removal returns.                                               *)
LoadChild(w) ==
  LET next == Child(job[w].at, job[w].prefix) IN
  /\ job[w].pc = "walk"
  /\ job' = [job EXCEPT ![w] =
       IF next \in nodes THEN Arrive(@, next)
       ELSE [@ EXCEPT !.pc = IF IsInsert(w) THEN "cas" ELSE "ret"]]
  /\ UNCHANGED trie

PlainStoreChild(w) ==
  LET next == Child(job[w].at, job[w].prefix)
      cut == {n \in nodes : OnWayTo(next, n)} IN
  /\ job[w].pc = "cas"
  /\ nodes' = (nodes \ cut) \cup {next}
  /\ leaf' = [n \in AllNodes |-> leaf[n] /\ n \notin cut]
  /\ job' = [job EXCEPT ![w] = Arrive(@, next)]
  /\ UNCHANGED target

(* CompareAndSwap(nil, next), then the child whoever linked it. *)
CasChild(w) ==
  LET next == Child(job[w].at, job[w].prefix) IN
  /\ job[w].pc = "cas"
  /\ nodes' = nodes \cup {next}
  /\ job' = [job EXCEPT ![w] = Arrive(@, next)]
  /\ UNCHANGED <<leaf, target>>

StoreLeaf(w) ==
  /\ job[w].pc = "leaf"
  /\ leaf' = [leaf EXCEPT ![job[w].at] = IsInsert(w)]
  /\ job' = [job EXCEPT ![w].pc = "target"]
  /\ UNCHANGED <<nodes, target>>

StoreTarget(w) ==
  /\ job[w].pc = "target"
  /\ target' = [target EXCEPT ![job[w].at] = job[w].val]
  /\ job' = [job EXCEPT ![w].pc = "ret"]
  /\ UNCHANGED <<nodes, leaf>>

Working(w, tree, insert) ==
  /\ job[w].pc # "idle"
  /\ job[w].prefix[1] = tree
  /\ IsInsert(w) = insert

InsertStep(w) == LoadChild(w) \/ CasChild(w) \/ StoreLeaf(w) \/ StoreTarget(w)
RemoveStep(w) == LoadChild(w) \/ StoreLeaf(w) \/ StoreTarget(w)

insertIPv4(w) == Working(w, "v4", TRUE) /\ InsertStep(w)
insertIPv6(w) == Working(w, "v6", TRUE) /\ InsertStep(w)
ClearLeafOnly(w) ==
  /\ Working(w, "v4", FALSE)
  /\ \/ LoadChild(w)
     \/ /\ job[w].pc = "leaf"
        /\ leaf' = [leaf EXCEPT ![job[w].at] = FALSE]
        /\ job' = [job EXCEPT ![w].pc = "ret"]
        /\ UNCHANGED <<nodes, target>>

removeIPv4(w) == Working(w, "v4", FALSE) /\ RemoveStep(w)
removeIPv6(w) == Working(w, "v6", FALSE) /\ RemoveStep(w)

(* The call returns to its caller; what it displaced is dead from here on. *)
Return(w) ==
  LET j == job[w] IN
  /\ j.pc = "ret"
  /\ job' = [job EXCEPT ![w] = NoJob]
  /\ settled' = IF IsInsert(w) /\ j.alone THEN settled \cup {j.prefix} ELSE settled
  /\ finished' = [finished EXCEPT ![j.prefix] =
                    IF IsInsert(w) THEN @ \cup {j.val} ELSE @]
  /\ dead' = dead \cup j.prior
  /\ UNCHANGED <<trie, look, walk, ops>>

-------------------------------------------------------------------------------
(* Route and RouteString: from the root of the address's tree, remember the *)
(* deepest live node on the path, one atomic load at a time.                *)
Route(r, ip) ==
  /\ look[r].pc = "idle"
  /\ look' = [look EXCEPT ![r] =
       [NoLook EXCEPT !.pc = "leaf", !.ip = ip, !.at = <<ip[1]>>,
          !.kept = {p \in settled : OnWayTo(p, ip)}, !.gone = dead]]
  /\ UNCHANGED <<trie, job, walk, ops, history>>

AfterCheck(l) == [l EXCEPT !.pc = IF l.final THEN "done" ELSE "child"]

LookLeaf(r) ==
  /\ look[r].pc = "leaf"
  /\ look' = [look EXCEPT ![r] =
       IF leaf[@.at] THEN [@ EXCEPT !.pc = "target"] ELSE AfterCheck(@)]

LookTarget(r) ==
  LET l == look[r] IN
  /\ l.pc = "target"
  /\ look' = [look EXCEPT ![r] =
       IF target[l.at] = Nil THEN AfterCheck(l)
       ELSE AfterCheck([l EXCEPT !.best = target[l.at], !.from = l.at])]

SkipFinalCheck(r, bits) ==
  LET l == look[r]
      next == Child(l.at, l.ip) IN
  /\ l.pc = "child"
  /\ look' = [look EXCEPT ![r] =
       IF next \in nodes
       THEN [l EXCEPT !.at = next, !.pc = IF Depth(next) = bits THEN "done" ELSE "leaf"]
       ELSE [l EXCEPT !.pc = "done"]]

(* A missing child ends the loop; so does the full length.  Either way the  *)
(* last node is checked once more.                                          *)
LookChild(r, bits) ==
  LET l == look[r]
      next == Child(l.at, l.ip) IN
  /\ l.pc = "child"
  /\ look' = [look EXCEPT ![r] =
       IF next \in nodes
       THEN [l EXCEPT !.at = next, !.pc = "leaf", !.final = Depth(next) = bits]
       ELSE [l EXCEPT !.pc = "leaf", !.final = TRUE]]

Lookup(r, tree) ==
  /\ look[r].pc # "idle"
  /\ look[r].ip[1] = tree
  /\ LookLeaf(r) \/ LookTarget(r) \/ LookChild(r, Bits(tree))
  /\ UNCHANGED <<trie, job, walk, ops, history>>

lookupIPv4(r) == Lookup(r, "v4")
lookupIPv6(r) == Lookup(r, "v6")

Routed(r) ==
  /\ look[r].pc = "done"
  /\ look' = [look EXCEPT ![r] = NoLook]
  /\ UNCHANGED <<trie, job, walk, ops, history>>

-------------------------------------------------------------------------------
(* Range: a depth-first traversal of both trees.  The stack holds the       *)
(* pending calls of collectRoutes with the load each will make next.        *)
RangeRoutes(k) ==
  /\ walk[k].pc = "idle"
  /\ walk' = [walk EXCEPT ![k] =
       [NoWalk EXCEPT !.pc = "run", !.kept = settled, !.gone = dead,
          !.stack = <<<<<<"v4">>, "leaf">>, <<<<"v6">>, "leaf">>>>]]
  /\ UNCHANGED <<trie, job, look, ops, history>>

TooDeep(n) == Depth(n) >= MaxDepth

Descend(n, bit) ==
  IF Append(n, bit) \in nodes THEN <<<<Append(n, bit), "leaf">>>> ELSE <<>>

collectRoutes(k) ==
  LET top == Head(walk[k].stack)
      n == top[1]
      rest == Tail(walk[k].stack)
      Then(s) == walk' = [walk EXCEPT ![k].stack = s] IN
  /\ walk[k].pc = "run"
  /\ walk[k].stack # <<>>
  /\ \/ /\ top[2] = "leaf" /\ TooDeep(n)
        /\ Then(rest)
     \/ /\ top[2] = "leaf" /\ ~TooDeep(n)
        /\ Then(<<<<n, IF leaf[n] THEN "target" ELSE "zero">>>> \o rest)
     \/ /\ top[2] = "target"
        /\ walk' = [walk EXCEPT ![k].stack = <<<<n, "zero">>>> \o rest,
             ![k].keys = IF target[n] = Nil THEN @ ELSE @ \cup {<<n, target[n]>>}]
     \/ /\ top[2] = "zero"
        /\ Then(Descend(n, 0) \o <<<<n, "one">>>> \o rest)
     \/ /\ top[2] = "one"
        /\ Then(Descend(n, 1) \o rest)
  /\ UNCHANGED <<trie, job, look, ops, history>>

(* Keys: the addresses that Range listed. *)
Keys(k) == {e[1] : e \in walk[k].keys}

Ranged(k) ==
  /\ walk[k].pc = "run"
  /\ walk[k].stack = <<>>
  /\ walk' = [walk EXCEPT ![k] = NoWalk]
  /\ UNCHANGED <<trie, job, look, ops, history>>

-------------------------------------------------------------------------------
Next ==
  \/ \E w \in Writers : Register(w) \/ UnRegister(w) \/ Return(w)
  \/ \E w \in Writers :
       /\ insertIPv4(w) \/ insertIPv6(w) \/ removeIPv4(w) \/ removeIPv6(w)
       /\ UNCHANGED <<look, walk, ops, history>>
  \/ \E r \in Readers : \E ip \in Addresses : Route(r, ip)
  \/ \E r \in Readers : lookupIPv4(r) \/ lookupIPv6(r) \/ Routed(r)
  \/ \E k \in Walkers : RangeRoutes(k) \/ collectRoutes(k) \/ Ranged(k)

Spec == Init /\ [][Next]_vars

-------------------------------------------------------------------------------
(* Types; the tries hold only nodes for bit strings of at most the width of *)
(* an address.                                                              *)
TypeOK ==
  /\ nodes \subseteq AllNodes
  /\ leaf \in [AllNodes -> BOOLEAN]
  /\ target \in [AllNodes -> 1..MaxOps \cup {Nil}]
  /\ \A w \in Writers : job[w].pc \in {"idle", "walk", "cas", "leaf", "target", "ret"}
  /\ \A r \in Readers : look[r].pc \in {"idle", "leaf", "target", "child", "done"}
  /\ settled \subseteq Routes
  /\ ops \in 0..MaxOps

(* A lookup never returns a target that a later Register or UnRegister of   *)
(* its prefix had replaced or removed before the lookup began, whichever    *)
(* goroutines were writing at the time (lookupIPv4 and lookupIPv6 load leaf *)
(* and target separately, and the writers store them separately); and a     *)
(* Range lists none that had been before it began.                          *)
NoStaleRoute ==
  /\ \A r \in Readers :
       look[r].pc = "done" /\ look[r].best # Nil =>
         /\ look[r].best \notin look[r].gone
         /\ OnWayTo(look[r].from, look[r].ip)
  /\ \A k \in Walkers : \A e \in walk[k].keys : e[2] \notin walk[k].gone

(* A lookup finds a target at least as specific as every prefix of the      *)
(* address that stayed registered from its start to its end: no concurrent  *)
(* insertion or removal elsewhere in the trie hides a stable route.  Range  *)
(* lists every such route whose prefix is shorter than the depth at which   *)
(* collectRoutes gives up.                                                  *)
StableRouteFound ==
  /\ \A r \in Readers : look[r].pc = "done" =>
       \A p \in look[r].kept : look[r].best # Nil /\ Len(look[r].from) >= Len(p)
  /\ \A k \in Walkers : walk[k].pc = "run" /\ walk[k].stack = <<>> =>
       {p \in walk[k].kept : Depth(p) < MaxDepth} \subseteq Keys(k)

(* Outside the shared prefixes the trie is a table whose calls take effect  *)
(* at one moment: an insertion when it stores its target, a removal when it *)
(* clears leaf or finds no node to clear.                                   *)
Alone == Routes \ Shared

TableCall(w) ==
  IF job[w].pc = "idle" \/ job[w].prefix \in Shared
  THEN [prefix |-> Nil, val |-> Nil, applied |-> FALSE]
  ELSE [prefix |-> job[w].prefix, val |-> job[w].val,
        applied |-> \/ job[w].pc = "ret"
                    \/ job[w].pc = "target" /\ ~IsInsert(w)]

Table == INSTANCE RouteTable WITH
  Entries <- Alone, Callers <- Writers, Targets <- 1..MaxOps, None <- Nil,
  table <- [p \in Alone |-> IF leaf[p] THEN target[p] ELSE Nil],
  call <- [w \in Writers |-> TableCall(w)]

(* The trie implements the route table on the prefixes one goroutine writes *)
(* at a time, whatever happens on the others.                               *)
TrieIsTable == Table!TableSpec

===============================================================================
