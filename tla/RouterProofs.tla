----------------------------- MODULE RouterProofs -----------------------------
(*****************************************************************************)
(* Proofs about RouterTrie, for any width of an address, any routes and any  *)
(* number of goroutines: the trie of the router holds the table it was given *)
(* on the prefixes that one goroutine writes at a time, a lookup finds the   *)
(* longest prefix, and the digest of a table of hosts stands for no other    *)
(* table (RouterDigest).                                                     *)
(*****************************************************************************)
EXTENDS RouterDigest, SeqFoldProofs

Below(m, n) == Len(m) <= Len(n) /\ \A i \in 1..Len(m) : m[i] = n[i]

Values == 1..MaxOps
Jobs == [pc : {"idle", "walk", "cas", "leaf", "target", "ret"},
         prefix : Routes \cup {Nil}, at : AllNodes \cup {Nil}, val : Values \cup {Nil},
         alone : BOOLEAN, prior : SUBSET Values]

TrieTypes ==
  /\ nodes \subseteq AllNodes
  /\ leaf \in [AllNodes -> BOOLEAN]
  /\ target \in [AllNodes -> Values \cup {Nil}]
  /\ job \in [Writers -> Jobs]
  /\ ops \in 0..MaxOps
  /\ finished \in [Routes -> SUBSET Values]

(* A trie is closed under shorter prefixes, and what is not linked is bare. *)
TrieShape ==
  /\ {<<"v4">>, <<"v6">>} \subseteq nodes
  /\ \A n \in nodes : \A m \in AllNodes : Below(m, n) => m \in nodes
  /\ \A n \in AllNodes \ nodes : ~leaf[n] /\ target[n] = Nil

(* Where a call stands on its path. *)
OnPath(j) ==
  IF j.pc = "idle" THEN j.prefix = Nil /\ j.val = Nil
  ELSE /\ j.prefix \in Routes
       /\ j.at \in nodes /\ Below(j.at, j.prefix)
       /\ j.pc \in {"walk", "cas"} => j.at # j.prefix
       /\ j.pc \in {"leaf", "target"} => j.at = j.prefix
       /\ j.pc = "cas" => j.val # Nil
       /\ j.pc = "ret" /\ j.val # Nil => j.at = j.prefix

PathInv == TrieTypes /\ TrieShape /\ \A w \in Writers : OnPath(job[w])

(* A call that met no other on its prefix leaves what it stored. *)
Company(w) ==
  /\ job[w].prefix \notin Shared => job[w].alone
  /\ job[w].alone =>
       /\ \A x \in Writers \ {w} : job[x].prefix # job[w].prefix
       /\ job[w].val # Nil /\ job[w].pc \in {"target", "ret"} => leaf[job[w].prefix]
       /\ job[w].val # Nil /\ job[w].pc = "ret" => target[job[w].prefix] = job[w].val
       /\ job[w].val = Nil /\ job[w].pc = "target" => ~leaf[job[w].prefix]

AloneInv ==
  /\ \A w \in Writers : job[w].pc # "idle" => Company(w)
  /\ \A p \in Alone :
       \/ leaf[p] \/ target[p] = Nil
       \/ \E w \in Writers : job[w].prefix = p /\ job[w].pc = "target" /\ job[w].val = Nil
  /\ \A p \in settled : p \in Routes /\ leaf[p] /\ target[p] # Nil /\ Busy(p) = {}

-------------------------------------------------------------------------------
(* Sequences with the same elements are equal. *)
LEMMA SeqEqual ==
  ASSUME NEW S, NEW s \in Seq(S), NEW t \in Seq(S), Len(s) = Len(t),
         \A i \in 1..Len(s) : s[i] = t[i]
  PROVE  s = t
  OBVIOUS

(* A node is a family followed by bits, no more of them than an address has. *)
LEMMA NodeShape ==
  ASSUME NEW n \in AllNodes
  PROVE  /\ n \in Seq({"v4", "v6", 0, 1}) /\ Len(n) \in Nat \ {0}
         /\ n[1] \in {"v4", "v6"} /\ Len(n) <= Bits(n[1]) + 1
         /\ \A i \in 2..Len(n) : n[i] \in {0, 1}
  <1> DEFINE Syms == {"v4", "v6", 0, 1}
  <1>a. PICK t \in {"v4", "v6"} : n \in Paths(t)
    BY Zenon DEF AllNodes
  <1>b. PICK c \in 0..Bits(t) : \E b \in [1..c -> {0, 1}] : n = <<t>> \o b
    BY <1>a, Zenon DEF Paths
  <1>1. PICK b \in [1..c -> {0, 1}] : n = <<t>> \o b
    BY <1>b
  <1>2. Bits(t) \in Nat /\ c \in Nat
    BY TrieAssumption DEF Bits
  <1>3. b \in Seq(Syms) /\ Len(b) = c /\ <<t>> \in Seq(Syms) /\ Len(<<t>>) = 1
    BY <1>2
  <1>4. n \in Seq(Syms) /\ Len(n) = c + 1 /\ n[1] = t /\ \A i \in 2..Len(n) : n[i] = b[i - 1]
    BY <1>1, <1>2, <1>3
  <1> QED
    BY <1>2, <1>4

(* A first part of a node is a node above it. *)
LEMMA CutNode ==
  ASSUME NEW n \in AllNodes, NEW m \in 1..Len(n)
  PROVE  /\ SubSeq(n, 1, m) \in AllNodes /\ Len(SubSeq(n, 1, m)) = m
         /\ Below(SubSeq(n, 1, m), n) /\ \A i \in 1..m : SubSeq(n, 1, m)[i] = n[i]
  <1> DEFINE c == SubSeq(n, 1, m)
             b == [i \in 1..(m - 1) |-> n[i + 1]]
             t == n[1]
  <1>1. m \in Nat /\ m >= 1 /\ m <= Len(n) /\ Len(n) \in Nat /\ n \in Seq({"v4", "v6", 0, 1})
    BY NodeShape
  <1>2. c \in Seq({"v4", "v6", 0, 1}) /\ Len(c) = m /\ \A i \in 1..m : c[i] = n[i]
    BY <1>1
  <1>3. t \in {"v4", "v6"} /\ Bits(t) \in Nat /\ m - 1 \in 0..Bits(t)
    BY <1>1, NodeShape, TrieAssumption DEF Bits
  <1>4. b \in [1..(m - 1) -> {0, 1}]
    BY <1>1, NodeShape
  <1>5. c = <<t>> \o b
    <2>1. b \in Seq({0, 1}) /\ Len(b) = m - 1
      BY <1>1, <1>4
    <2>2. <<t>> \o b \in Seq({"v4", "v6", 0, 1}) /\ Len(<<t>> \o b) = m
      BY <1>1, <1>3, <2>1
    <2>3. \A i \in 1..m : (<<t>> \o b)[i] = c[i]
      BY <1>1, <1>2, <2>1
    <2> QED
      BY <1>2, <2>2, <2>3, SeqEqual
  <1>6. c \in AllNodes
    <2> HIDE DEF c, b, t
    <2>1. c \in {<<t>> \o x : x \in [1..(m - 1) -> {0, 1}]}
      BY <1>4, <1>5, Zenon
    <2>2. c \in Paths(t)
      BY <1>3, <2>1, Zenon DEF Paths
    <2> QED
      BY <1>3, <2>2, Zenon DEF AllNodes
  <1> QED
    BY <1>1, <1>2, <1>6 DEF Below

(* Only one node of its length lies on the way to a node. *)
LEMMA SameNode ==
  ASSUME NEW m \in AllNodes, NEW n \in AllNodes, Below(m, n), Len(m) = Len(n)
  PROVE  m = n
  <1>1. m \in Seq({"v4", "v6", 0, 1}) /\ n \in Seq({"v4", "v6", 0, 1})
    BY NodeShape
  <1> QED
    BY <1>1, SeqEqual DEF Below

(* Below, which compares bit by bit, is OnWayTo on nodes.  *)
LEMMA BelowPrefix ==
  ASSUME NEW m \in AllNodes, NEW n \in AllNodes
  PROVE  OnWayTo(m, n) <=> Below(m, n)
  <1> DEFINE Syms == {"v4", "v6", 0, 1}
  <1>1. m \in Seq(Syms) /\ n \in Seq(Syms) /\ Len(m) \in Nat /\ Len(n) \in Nat
    BY NodeShape
  <1> HIDE DEF Syms
  <1>2. ASSUME Len(m) <= Len(n)
        PROVE  SubSeq(m, 1, Len(m)) = SubSeq(n, 1, Len(m)) <=> \A i \in 1..Len(m) : m[i] = n[i]
    <2> DEFINE u == SubSeq(m, 1, Len(m))
               v == SubSeq(n, 1, Len(m))
    <2>1. /\ u \in Seq(Syms) /\ v \in Seq(Syms) /\ Len(u) = Len(m) /\ Len(v) = Len(m)
          /\ \A i \in 1..Len(m) : u[i] = m[i] /\ v[i] = n[i]
      BY <1>1, <1>2
    <2> HIDE DEF u, v
    <2>2. u = v <=> \A i \in 1..Len(u) : u[i] = v[i]
      BY <2>1, SeqEqual
    <2>3. u = v <=> \A i \in 1..Len(m) : m[i] = n[i]
      BY <2>1, <2>2
    <2> QED
      BY <2>3 DEF u, v
  <1> QED
    BY <1>2 DEF OnWayTo, Below

(* Below is an order, total on the way to one node. *)
LEMMA BelowOrder ==
  ASSUME NEW m \in AllNodes, NEW n \in AllNodes, NEW p \in AllNodes
  PROVE  /\ Below(m, m)
         /\ Below(m, n) /\ Below(n, p) => Below(m, p)
         /\ Below(m, p) /\ Below(n, p) /\ Len(m) <= Len(n) => Below(m, n)
         /\ Below(m, n) /\ m # n => Len(m) < Len(n)
  <1>1. Len(m) \in Nat /\ Len(n) \in Nat /\ Len(p) \in Nat
    BY NodeShape
  <1>2. Below(m, n) /\ m # n => Len(m) < Len(n)
    BY <1>1, SameNode DEF Below
  <1> QED
    BY <1>1, <1>2 DEF Below

(* The next node on the way to p. *)
LEMMA NextNode ==
  ASSUME NEW n \in AllNodes, NEW p \in AllNodes, Below(n, p), Len(n) < Len(p)
  PROVE  /\ Child(n, p) \in AllNodes /\ Len(Child(n, p)) = Len(n) + 1
         /\ Below(Child(n, p), p) /\ Below(n, Child(n, p))
         /\ p[Len(n) + 1] \in {0, 1} /\ Child(n, p) = Append(n, p[Len(n) + 1])
  <1> DEFINE Syms == {"v4", "v6", 0, 1}
             c == Child(n, p)
             d == Append(n, p[Len(n) + 1])
  <1>1. /\ n \in Seq(Syms) /\ Len(n) \in Nat \ {0} /\ Len(p) \in Nat
        /\ Len(n) + 1 \in 1..Len(p) /\ p[Len(n) + 1] \in {0, 1}
    BY NodeShape
  <1>2. /\ c \in AllNodes /\ Len(c) = Len(n) + 1 /\ Below(c, p)
        /\ \A i \in 1..(Len(n) + 1) : c[i] = p[i]
    BY <1>1, CutNode DEF Child
  <1>3. c \in Seq(Syms)
    BY <1>2, NodeShape
  <1>4. d \in Seq(Syms) /\ Len(d) = Len(n) + 1 /\ \A i \in 1..(Len(n) + 1) : d[i] = p[i]
    BY <1>1 DEF Below
  <1>5. c = d
    BY <1>2, <1>3, <1>4, SeqEqual
  <1>6. Below(n, c)
    BY <1>1, <1>2 DEF Below
  <1> QED
    BY <1>1, <1>2, <1>5, <1>6

(* The roots of both tries are nodes. *)
LEMMA RootNodes ==
  ASSUME NEW t \in {"v4", "v6"} PROVE <<t>> \in AllNodes
  <1>1. 0 \in 0..Bits(t)
    BY TrieAssumption DEF Bits
  <1> DEFINE b == [i \in 1..0 |-> 0]
  <1>2. b \in [1..0 -> {0, 1}] /\ <<t>> = <<t>> \o b
    OBVIOUS
  <1> HIDE DEF b
  <1>3. <<t>> \in {<<t>> \o x : x \in [1..0 -> {0, 1}]}
    BY <1>2, Zenon
  <1>4. <<t>> \in Paths(t)
    BY <1>1, <1>3, Zenon DEF Paths
  <1> QED
    BY <1>4, Zenon DEF AllNodes

(* The way to a node begins at the root of its family. *)
LEMMA Roots ==
  ASSUME NEW p \in AllNodes
  PROVE  /\ <<p[1]>> \in AllNodes /\ <<p[1]>> \in {<<"v4">>, <<"v6">>}
         /\ Len(<<p[1]>>) = 1 /\ Below(<<p[1]>>, p)
  <1>1. /\ p \in Seq({"v4", "v6", 0, 1}) /\ Len(p) \in Nat \ {0} /\ 1 \in 1..Len(p)
        /\ p[1] \in {"v4", "v6"}
    BY NodeShape
  <1>2. Below(<<p[1]>>, p) /\ Len(<<p[1]>>) = 1
    BY <1>1 DEF Below
  <1> QED
    BY <1>1, <1>2, RootNodes

-------------------------------------------------------------------------------
(* The steps: a call begins, moves or returns, or something only looks.     *)
Move(w) ==
  /\ job[w].pc # "idle"
  /\ LoadChild(w) \/ (IsInsert(w) /\ CasChild(w)) \/ StoreLeaf(w) \/ StoreTarget(w)
  /\ UNCHANGED <<look, walk, ops, history>>

Begins == \E w \in Writers, p \in Routes : Begin(w, p, ops + 1) \/ Begin(w, p, Nil)

Lookups ==
  /\ UNCHANGED <<trie, job, walk, ops, history>>
  /\ \E r \in Readers : \/ \E ip \in Addresses : Route(r, ip)
                        \/ Lookup(r, "v4") \/ Lookup(r, "v6") \/ Routed(r)

Walks ==
  /\ UNCHANGED <<trie, job, look, ops, history>>
  /\ \E k \in Walkers : RangeRoutes(k) \/ collectRoutes(k) \/ Ranged(k)

(* Every step begins, moves or ends a call of a writer, or only reads the   *)
(* trie.                                                                    *)
LEMMA NextSteps ==
  [Next]_vars => \/ Begins \/ (\E w \in Writers : Move(w) \/ Return(w))
                 \/ Lookups \/ Walks \/ UNCHANGED vars
  <1> SUFFICES ASSUME Next
               PROVE  Begins \/ (\E w \in Writers : Move(w) \/ Return(w)) \/ Lookups \/ Walks
    OBVIOUS
  <1>1. ASSUME NEW w \in Writers, Register(w) \/ UnRegister(w) PROVE Begins
    BY <1>1, Zenon DEF Register, UnRegister, Begins
  <1>2. ASSUME NEW w \in Writers,
               insertIPv4(w) \/ insertIPv6(w) \/ removeIPv4(w) \/ removeIPv6(w),
               UNCHANGED <<look, walk, ops, history>>
        PROVE  Move(w)
    BY <1>2, Zenon DEF insertIPv4, insertIPv6, removeIPv4, removeIPv6, InsertStep, RemoveStep,
                       Working, Move
  <1>3. ASSUME NEW r \in Readers,
               (\E ip \in Addresses : Route(r, ip)) \/ lookupIPv4(r) \/ lookupIPv6(r) \/ Routed(r)
        PROVE  Lookups
    BY <1>3, Zenon DEF lookupIPv4, lookupIPv6, Lookups, Route, Lookup, Routed
  <1>4. ASSUME NEW k \in Walkers, RangeRoutes(k) \/ collectRoutes(k) \/ Ranged(k)
        PROVE  Walks
    BY <1>4, Zenon DEF Walks, RangeRoutes, collectRoutes, Ranged
  <1> QED
    BY <1>1, <1>2, <1>3, <1>4 DEF Next

(* Arriving at a node changes where a call stands and nothing else of it. *)
LEMMA ArriveJob ==
  ASSUME NEW j \in Jobs, NEW n \in AllNodes
  PROVE  /\ Arrive(j, n) \in Jobs
         /\ Arrive(j, n).at = n /\ Arrive(j, n).pc = IF n = j.prefix THEN "leaf" ELSE "walk"
         /\ Arrive(j, n).prefix = j.prefix /\ Arrive(j, n).val = j.val
         /\ Arrive(j, n).alone = j.alone /\ Arrive(j, n).prior = j.prior
  <1>1. Arrive(j, n) \in Jobs
    BY Zenon DEF Arrive, Jobs
  <1> QED
    BY <1>1, Zenon DEF Arrive, Jobs

(* What Begin makes of the calls. *)
LEMMA BeginJob ==
  ASSUME TrieTypes, NEW w \in Writers, NEW p \in Routes, NEW v \in Values \cup {Nil}, Begin(w, p, v)
  PROVE  /\ job' \in [Writers -> Jobs]
         /\ job'[w].prefix = p /\ job'[w].val = v /\ job'[w].at = <<p[1]>>
         /\ job'[w].alone = (Busy(p) = {}) /\ job'[w].prior = finished[p]
         /\ job'[w].pc = IF <<p[1]>> = p THEN "leaf" ELSE "walk"
         /\ \A x \in Writers \ {w} :
              /\ job'[x].prefix = job[x].prefix /\ job'[x].val = job[x].val
              /\ job'[x].at = job[x].at /\ job'[x].pc = job[x].pc /\ job'[x].prior = job[x].prior
              /\ job'[x].alone = (job[x].alone /\ job[x].prefix # p)
  <1> DEFINE b == Busy(p) = {}
             f == finished[p]
             start == [NoJob EXCEPT !.prefix = p, !.val = v, !.alone = b, !.prior = f]
             root == <<p[1]>>
  <1>1. job' = [x \in Writers |-> IF x = w THEN Arrive(start, root)
                                  ELSE [job[x] EXCEPT !.alone = @ /\ job[x].prefix # p]]
    BY Zenon DEF Begin
  <1>2. f \in SUBSET Values /\ b \in BOOLEAN /\ root \in AllNodes
    BY Roots, RoutesAssumption DEF TrieTypes
  <1> HIDE DEF b, f, root
  <1>3. NoJob \in Jobs
    BY DEF NoJob, Jobs
  <1>4. start \in Jobs
    BY <1>2, <1>3, Zenon DEF Jobs
  <1>5. start.prefix = p /\ start.val = v /\ start.alone = b /\ start.prior = f
    BY <1>3, Zenon DEF Jobs
  <1> HIDE DEF start
  <1>6. ASSUME NEW x \in Writers \ {w}
        PROVE  /\ job'[x] \in Jobs
               /\ job'[x].prefix = job[x].prefix /\ job'[x].val = job[x].val
               /\ job'[x].at = job[x].at /\ job'[x].pc = job[x].pc /\ job'[x].prior = job[x].prior
               /\ job'[x].alone = (job[x].alone /\ job[x].prefix # p)
    <2>1. job[x] \in Jobs /\ job'[x] = [job[x] EXCEPT !.alone = @ /\ job[x].prefix # p]
      BY <1>1 DEF TrieTypes
    <2> QED
      BY <2>1, Zenon DEF Jobs
  <1>7. job'[w] = Arrive(start, root)
    BY <1>1
  <1>8. job'[w] \in Jobs
    BY <1>2, <1>4, <1>7, ArriveJob
  <1>9. job' \in [Writers -> Jobs]
    BY <1>1, <1>6, <1>8, Zenon
  <1>10. /\ job'[w].prefix = p /\ job'[w].val = v /\ job'[w].at = root
         /\ job'[w].alone = b /\ job'[w].prior = f
         /\ job'[w].pc = IF root = p THEN "leaf" ELSE "walk"
    BY <1>2, <1>4, <1>5, <1>7, ArriveJob
  <1> QED
    BY <1>6, <1>9, <1>10 DEF b, f, root

(* The four ways a call moves on. *)
Down(w) ==
  LET next == Child(job[w].at, job[w].prefix) IN
  /\ job[w].pc \in {"walk", "cas"}
  /\ nodes' = nodes \cup {next}
  /\ job'[w].at = next
  /\ job'[w].pc = IF next = job[w].prefix THEN "leaf" ELSE "walk"
  /\ UNCHANGED <<leaf, target>>

Missing(w) ==
  /\ job[w].pc = "walk"
  /\ Child(job[w].at, job[w].prefix) \notin nodes
  /\ job'[w].at = job[w].at
  /\ job'[w].pc = IF IsInsert(w) THEN "cas" ELSE "ret"
  /\ UNCHANGED trie

Leafed(w) ==
  /\ job[w].pc = "leaf" /\ job'[w].pc = "target" /\ job'[w].at = job[w].at
  /\ leaf' = [leaf EXCEPT ![job[w].prefix] = IsInsert(w)]
  /\ UNCHANGED <<nodes, target>>

Targeted(w) ==
  /\ job[w].pc = "target" /\ job'[w].pc = "ret" /\ job'[w].at = job[w].at
  /\ target' = [target EXCEPT ![job[w].prefix] = job[w].val]
  /\ UNCHANGED <<nodes, leaf>>

SameCall(w) ==
  /\ job'[w].prefix = job[w].prefix /\ job'[w].val = job[w].val
  /\ job'[w].alone = job[w].alone /\ job'[w].prior = job[w].prior

(* A call that walks stands properly above its prefix. *)
LEMMA OnTheWay ==
  ASSUME PathInv, NEW w \in Writers, job[w].pc \in {"walk", "cas"}
  PROVE  /\ job[w].prefix \in AllNodes /\ job[w].at \in AllNodes
         /\ Below(job[w].at, job[w].prefix) /\ Len(job[w].at) < Len(job[w].prefix)
  <1>1. OnPath(job[w]) /\ job[w].pc # "idle"
    BY DEF PathInv
  <1>2. /\ job[w].prefix \in AllNodes /\ job[w].at \in AllNodes
        /\ Below(job[w].at, job[w].prefix) /\ job[w].at # job[w].prefix
    BY <1>1, RoutesAssumption DEF OnPath, PathInv, TrieTypes
  <1> QED
    BY <1>2, BelowOrder

(* A move is one of the four, of one call that stays the same call. *)
LEMMA MoveJob ==
  ASSUME PathInv, NEW w \in Writers, Move(w)
  PROVE  /\ job' \in [Writers -> Jobs] /\ \A x \in Writers \ {w} : job'[x] = job[x]
         /\ SameCall(w)
         /\ Down(w) \/ Missing(w) \/ Leafed(w) \/ Targeted(w)
  <1> DEFINE next == Child(job[w].at, job[w].prefix)
  <1>1. job[w] \in Jobs /\ job \in [Writers -> Jobs] /\ OnPath(job[w])
    BY DEF PathInv, TrieTypes
  <1>2. job[w].pc \in {"walk", "cas"} => next \in AllNodes
    BY OnTheWay, NextNode
  <1> HIDE DEF next
  <1>3. ASSUME job[w].pc \in {"walk", "cas"}, job' = [job EXCEPT ![w] = Arrive(job[w], next)],
               nodes' = nodes \cup {next}, UNCHANGED <<leaf, target>>
        PROVE  job' \in [Writers -> Jobs] /\ SameCall(w) /\ Down(w)
    <2>1. job'[w] = Arrive(job[w], next)
      BY <1>1, <1>3
    <2> QED
      BY <1>1, <1>2, <1>3, <2>1, ArriveJob DEF SameCall, Down, next
  <1>4. CASE LoadChild(w)
    <2>1. CASE next \in nodes
      <3>1. nodes' = nodes \cup {next}
        BY <1>4, <2>1, Zenon DEF LoadChild, trie
      <3> QED
        BY <1>3, <1>4, <2>1, <3>1 DEF LoadChild, trie, next
    <2>2. CASE next \notin nodes
      <3>1. job' = [job EXCEPT ![w] = [@ EXCEPT !.pc = IF IsInsert(w) THEN "cas" ELSE "ret"]]
        BY <1>4, <2>2 DEF LoadChild, next
      <3>2. [job[w] EXCEPT !.pc = IF IsInsert(w) THEN "cas" ELSE "ret"] \in Jobs
        BY <1>1, Zenon DEF Jobs
      <3>3. job' \in [Writers -> Jobs] /\ SameCall(w) /\ \A x \in Writers \ {w} : job'[x] = job[x]
        BY <1>1, <3>1, <3>2 DEF SameCall, Jobs
      <3>4. Missing(w)
        BY <1>1, <1>4, <2>2, <3>1 DEF Missing, LoadChild, next, Jobs
      <3> QED
        BY <3>3, <3>4
    <2> QED
      BY <2>1, <2>2
  <1>5. CASE CasChild(w)
    BY <1>1, <1>3, <1>5 DEF CasChild, next
  <1>6. CASE StoreLeaf(w)
    <2>1. job' = [job EXCEPT ![w] = [@ EXCEPT !.pc = "target"]]
      BY <1>6 DEF StoreLeaf
    <2>2. [job[w] EXCEPT !.pc = "target"] \in Jobs
      BY <1>1, Zenon DEF Jobs
    <2>3. job' \in [Writers -> Jobs] /\ SameCall(w) /\ \A x \in Writers \ {w} : job'[x] = job[x]
      BY <1>1, <2>1, <2>2 DEF SameCall, Jobs
    <2>4. Leafed(w)
      BY Zenon, <1>1, <1>6, <2>1 DEF StoreLeaf, Leafed, OnPath, Jobs
    <2> QED
      BY <2>3, <2>4
  <1>7. CASE StoreTarget(w)
    <2>1. job' = [job EXCEPT ![w] = [@ EXCEPT !.pc = "ret"]]
      BY <1>7 DEF StoreTarget
    <2>2. [job[w] EXCEPT !.pc = "ret"] \in Jobs
      BY <1>1, Zenon DEF Jobs
    <2>3. job' \in [Writers -> Jobs] /\ SameCall(w) /\ \A x \in Writers \ {w} : job'[x] = job[x]
      BY <1>1, <2>1, <2>2 DEF SameCall, Jobs
    <2>4. Targeted(w)
      BY Zenon, <1>1, <1>7, <2>1 DEF StoreTarget, Targeted, OnPath, Jobs
    <2> QED
      BY <2>3, <2>4
  <1> QED
    BY <1>4, <1>5, <1>6, <1>7 DEF Move

(* A call that returns leaves its goroutine idle. *)
LEMMA ReturnJob ==
  ASSUME TrieTypes, NEW w \in Writers, Return(w)
  PROVE  /\ job' \in [Writers -> Jobs] /\ \A x \in Writers \ {w} : job'[x] = job[x]
         /\ job'[w].pc = "idle" /\ job'[w].prefix = Nil /\ job'[w].val = Nil
  <1>1. NoJob \in Jobs /\ NoJob.pc = "idle" /\ NoJob.prefix = Nil /\ NoJob.val = Nil
    BY DEF NoJob, Jobs
  <1> QED
    BY <1>1 DEF Return, TrieTypes

(* Every step keeps PathInv. *)
LEMMA PathStep == PathInv /\ [Next]_vars => PathInv'
  <1> SUFFICES ASSUME PathInv, [Next]_vars PROVE PathInv'
    OBVIOUS
  <1>1. TrieTypes /\ TrieShape /\ \A x \in Writers : OnPath(job[x])
    BY DEF PathInv
  <1>2. ASSUME NEW w \in Writers, NEW p \in Routes, NEW v \in {ops + 1, Nil}, Begin(w, p, v)
        PROVE  PathInv'
    <2>0. ops < MaxOps /\ ops' = ops + 1 /\ UNCHANGED <<trie, finished>>
      BY <1>2, Zenon DEF Begin
    <2>1. v \in Values \cup {Nil} /\ ops' \in 0..MaxOps /\ UNCHANGED <<trie, finished>>
      BY <1>1, <2>0, TrieAssumption DEF TrieTypes, Values
    <2>2. TrieTypes' /\ TrieShape'
      BY <1>1, <1>2, <2>1, BeginJob DEF TrieTypes, TrieShape, trie
    <2>3. ASSUME NEW x \in Writers \ {w} PROVE OnPath(job[x])'
      BY <1>1, <1>2, <2>1, BeginJob DEF OnPath, trie
    <2>4. OnPath(job[w])'
      <3>1. /\ job'[w].prefix = p /\ job'[w].at = <<p[1]>>
            /\ job'[w].pc = IF <<p[1]>> = p THEN "leaf" ELSE "walk"
        BY <1>1, <1>2, <2>1, BeginJob
      <3>2. <<p[1]>> \in nodes' /\ Below(<<p[1]>>, p)
        BY <1>1, <2>1, Roots, RoutesAssumption DEF trie, TrieShape
      <3> QED
        BY <3>1, <3>2 DEF OnPath
    <2> QED
      BY <2>2, <2>3, <2>4, Zenon DEF PathInv
  <1>3. ASSUME NEW w \in Writers, Move(w) PROVE PathInv'
    <2> DEFINE next == Child(job[w].at, job[w].prefix)
    <2>1. /\ job' \in [Writers -> Jobs] /\ \A x \in Writers \ {w} : job'[x] = job[x]
          /\ SameCall(w) /\ UNCHANGED <<ops, finished>>
      BY <1>3, MoveJob DEF Move, history
    <2>2. job[w].prefix \in Routes /\ job[w].prefix \in AllNodes /\ job[w].at \in nodes
          /\ Below(job[w].at, job[w].prefix) /\ job[w].at \in AllNodes
      BY <1>1, <1>3, RoutesAssumption DEF Move, OnPath, TrieTypes
    <2>3. CASE Down(w)
      <3>1. /\ next \in AllNodes /\ Len(next) = Len(job[w].at) + 1 /\ Below(next, job[w].prefix)
            /\ Below(job[w].at, next)
        BY <2>3, OnTheWay, NextNode DEF Down
      <3>2. nodes' = nodes \cup {next} /\ UNCHANGED <<leaf, target>>
        BY <2>3 DEF Down
      <3> HIDE DEF next
      <3>3. TrieTypes'
        BY <1>1, <2>1, <3>1, <3>2 DEF TrieTypes
      <3>4. ASSUME NEW m \in AllNodes, Below(m, next) PROVE m \in nodes'
        <4>1. CASE m = next
          BY <3>2, <4>1
        <4>2. CASE m # next
          <5>1. Len(m) < Len(next) /\ Len(m) \in Nat /\ Len(job[w].at) \in Nat
            BY SMTT(30), <2>2, <3>1, <3>4, <4>2, BelowOrder, NodeShape
          <5>2. Below(m, job[w].at)
            BY SMTT(30), <2>2, <3>1, <3>4, <5>1, BelowOrder
          <5> QED
            BY <1>1, <2>2, <3>2, <5>2 DEF TrieShape
        <4> QED
          BY <4>1, <4>2
      <3>5. TrieShape'
        BY <1>1, <3>2, <3>4 DEF TrieShape
      <3>6. OnPath(job[w])'
        BY SMTT(30), <2>1, <2>2, <2>3, <3>1, <3>2 DEF OnPath, SameCall, Down, next
      <3>7. ASSUME NEW x \in Writers \ {w} PROVE OnPath(job[x])'
        BY SMTT(30), <1>1, <2>1, <3>2 DEF OnPath
      <3> QED
        BY <3>3, <3>5, <3>6, <3>7 DEF PathInv
    <2>4. CASE Missing(w)
      <3>1. UNCHANGED <<nodes, leaf, target>>
        BY <2>4 DEF Missing, trie
      <3>2. OnPath(job[w])'
        BY SMTT(30), <1>1, <2>1, <2>2, <2>4, <3>1 DEF OnPath, SameCall, Missing, IsInsert
      <3> QED
        BY <1>1, <2>1, <3>1, <3>2 DEF PathInv, TrieTypes, TrieShape, OnPath
    <2>5. CASE Leafed(w)
      <3>1. leaf' \in [AllNodes -> BOOLEAN] /\ nodes' = nodes /\ target' = target
            /\ \A n \in AllNodes \ nodes : leaf'[n] = leaf[n]
        BY SMTT(30), <1>1, <2>2, <2>5 DEF Leafed, TrieTypes, OnPath, IsInsert
      <3>2. OnPath(job[w])'
        BY SMTT(30), <1>1, <2>1, <2>2, <2>5, <3>1 DEF OnPath, SameCall, Leafed
      <3> QED
        BY SMTT(30), <1>1, <2>1, <3>1, <3>2 DEF PathInv, TrieTypes, TrieShape, OnPath
    <2>6. CASE Targeted(w)
      <3>1. target' \in [AllNodes -> Values \cup {Nil}] /\ nodes' = nodes /\ leaf' = leaf
            /\ \A n \in AllNodes \ nodes : target'[n] = target[n]
        BY SMTT(30), <1>1, <2>2, <2>6 DEF Targeted, TrieTypes, OnPath, Jobs
      <3>2. OnPath(job[w])'
        BY SMTT(30), <1>1, <2>1, <2>2, <2>6, <3>1 DEF OnPath, SameCall, Targeted
      <3> QED
        BY SMTT(30), <1>1, <2>1, <3>1, <3>2 DEF PathInv, TrieTypes, TrieShape, OnPath
    <2> QED
      BY SMTT(30), <1>3, <2>3, <2>4, <2>5, <2>6, MoveJob
  <1>4. ASSUME NEW w \in Writers, Return(w) PROVE PathInv'
    <2>1. /\ finished' \in [Routes -> SUBSET Values] /\ UNCHANGED <<nodes, leaf, target, ops>>
      <3>1. job[w].val \in Values \cup {Nil}
        BY <1>1 DEF TrieTypes, Jobs
      <3> QED
        BY ZenonT(30), <1>1, <1>4, <3>1 DEF Return, TrieTypes, IsInsert, trie
    <2>2. TrieTypes' /\ TrieShape'
      BY <1>1, <1>4, <2>1, ReturnJob DEF TrieTypes, TrieShape
    <2> QED
      BY SMTT(30), <1>1, <1>4, <2>1, <2>2, ReturnJob DEF PathInv, OnPath
  <1>5. ASSUME UNCHANGED <<trie, job, ops, history>> PROVE PathInv'
    BY <1>1, <1>5 DEF PathInv, TrieTypes, TrieShape, OnPath, trie, history
  <1> QED
    BY <1>2, <1>3, <1>4, <1>5, NextSteps DEF Begins, Lookups, Walks, vars

(* What a move does to the node of its prefix; it leaves the others alone. *)
Passes(w) ==
  /\ job[w].pc \in {"walk", "cas"} /\ UNCHANGED <<leaf, target>>
  /\ \/ job'[w].pc \in {"walk", "cas", "leaf"}
     \/ job'[w].pc = "ret" /\ job[w].val = Nil /\ ~leaf[job[w].prefix] /\ target[job[w].prefix] = Nil

Marks(w) ==
  /\ job[w].pc = "leaf" /\ job'[w].pc = "target"
  /\ leaf'[job[w].prefix] = (job[w].val # Nil) /\ target' = target

Points(w) ==
  /\ job[w].pc = "target" /\ job'[w].pc = "ret"
  /\ target'[job[w].prefix] = job[w].val /\ leaf' = leaf

(* A move of a call writes to the node of its prefix only, and takes no node*)
(* away.                                                                    *)
LEMMA MoveEffect ==
  ASSUME PathInv, NEW w \in Writers, Move(w)
  PROVE  /\ job[w].pc # "idle" /\ job[w].prefix \in Routes /\ job[w].prefix \in AllNodes
         /\ \A n \in AllNodes \ {job[w].prefix} : leaf'[n] = leaf[n] /\ target'[n] = target[n]
         /\ Passes(w) \/ Marks(w) \/ Points(w)
         /\ nodes \subseteq nodes' /\ UNCHANGED <<look, walk, ops, history>>
  <1>1. /\ job[w].pc # "idle" /\ job[w].prefix \in Routes /\ job[w].prefix \in AllNodes
        /\ UNCHANGED <<look, walk, ops, history>>
    BY RoutesAssumption DEF Move, PathInv, OnPath
  <1>2. CASE Down(w)
    BY <1>1, <1>2 DEF Down, Passes
  <1>3. CASE Missing(w)
    <2> DEFINE next == Child(job[w].at, job[w].prefix)
    <2>1. next \in AllNodes /\ Below(next, job[w].prefix) /\ next \notin nodes
      BY <1>3, OnTheWay, NextNode DEF Missing
    <2>2. job[w].prefix \notin nodes
      BY <1>1, <2>1 DEF PathInv, TrieShape
    <2>3. ~leaf[job[w].prefix] /\ target[job[w].prefix] = Nil
      BY <1>1, <2>2 DEF PathInv, TrieShape
    <2> QED
      BY <1>1, <1>3, <2>3 DEF Missing, Passes, IsInsert, trie
  <1>4. CASE Leafed(w)
    BY <1>1, <1>4 DEF Leafed, Marks, IsInsert, PathInv, TrieTypes
  <1>5. CASE Targeted(w)
    BY <1>1, <1>5 DEF Targeted, Points, PathInv, TrieTypes
  <1> QED
    BY SMTT(30), <1>1, <1>2, <1>3, <1>4, <1>5, MoveJob

-------------------------------------------------------------------------------
(* A call that begins joins the others on its prefix, or is alone there; *)
LEMMA AloneBegin ==
  ASSUME PathInv, AloneInv, NEW w \in Writers, NEW p \in Routes, NEW v \in {ops + 1, Nil},
         Begin(w, p, v)
  PROVE  AloneInv'
  <1>1. /\ ops < MaxOps /\ ops' = ops + 1 /\ UNCHANGED trie /\ settled' = settled \ {p}
        /\ job[w].pc = "idle" /\ (p \in Shared \/ Busy(p) = {})
    BY Zenon DEF Begin
  <1>2. v \in Values \cup {Nil}
    BY <1>1, TrieAssumption DEF PathInv, TrieTypes, Values
  <1>3. /\ job'[w].prefix = p /\ job'[w].alone = (Busy(p) = {}) /\ job'[w].pc \in {"leaf", "walk"}
        /\ \A x \in Writers \ {w} :
              /\ job'[x].prefix = job[x].prefix /\ job'[x].val = job[x].val
              /\ job'[x].at = job[x].at /\ job'[x].pc = job[x].pc /\ job'[x].prior = job[x].prior
              /\ job'[x].alone = (job[x].alone /\ job[x].prefix # p)
    BY <1>2, BeginJob DEF PathInv
  <1>4. UNCHANGED <<leaf, target>>
    BY <1>1 DEF trie
  <1>5. ASSUME NEW x \in Writers, job'[x].pc # "idle" PROVE Company(x)'
    <2>1. CASE x = w
      <3>1. job'[w].alone <=> \A y \in Writers : job[y].prefix # p
        BY ZenonT(30), <1>3 DEF Busy
      <3>2. p \notin Shared => job'[w].alone
        BY <1>1, <3>1 DEF Busy
      <3>3. job'[w].alone => \A y \in Writers \ {w} : job'[y].prefix # p
        BY <1>3, <3>1
      <3> QED
        BY <1>3, <2>1, <3>2, <3>3 DEF Company
    <2>2. CASE x # w
      <3>1. Company(x) /\ job'[x].prefix = job[x].prefix
        BY SMTT(30), <1>3, <1>5, <2>2 DEF AloneInv
      <3>2. job'[x].alone => job[x].alone /\ job[x].prefix # p
        BY Zenon, <1>3, <2>2
      <3>3. job'[x].prefix \notin Shared => job'[x].alone
        <4>1. job[x].prefix = p => p \in Shared
          BY <1>1 DEF Busy
        <4> QED
          BY ZenonT(30), <1>3, <2>2, <3>1, <4>1 DEF Company
      <3>4. job'[x].alone => \A y \in Writers \ {x} : job'[y].prefix # job'[x].prefix
        BY SMTT(30), <1>3, <3>1, <3>2 DEF Company
      <3> QED
        BY <1>3, <1>4, <2>2, <3>1, <3>2, <3>3, <3>4 DEF Company
    <2> QED
      BY <2>1, <2>2
  <1>6. ASSUME NEW q \in Alone
        PROVE  \/ leaf'[q] \/ target'[q] = Nil
               \/ \E x \in Writers : job'[x].prefix = q /\ job'[x].pc = "target" /\ job'[x].val = Nil
    <2>1. CASE leaf[q] \/ target[q] = Nil
      BY <1>4, <2>1
    <2>2. CASE ~(leaf[q] \/ target[q] = Nil)
      <3>1. PICK x \in Writers : job[x].prefix = q /\ job[x].pc = "target" /\ job[x].val = Nil
        BY <2>2 DEF AloneInv
      <3> QED
        BY SMTT(30), <1>1, <1>3, <3>1
    <2> QED
      BY <2>1, <2>2
  <1>7. ASSUME NEW q \in settled' PROVE q \in Routes /\ leaf'[q] /\ target'[q] # Nil /\ Busy(q)' = {}
    BY <1>1, <1>3, <1>4 DEF AloneInv, Busy
  <1> QED
    BY <1>5, <1>6, <1>7 DEF AloneInv

(* a call that is alone stores what it was asked to; *)
LEMMA AloneMove ==
  ASSUME PathInv, AloneInv, NEW w \in Writers, Move(w)
  PROVE  AloneInv'
  <1> DEFINE p == job[w].prefix
  <1>1. /\ job[w].pc # "idle" /\ p \in Routes /\ p \in AllNodes
        /\ \A n \in AllNodes \ {p} : leaf'[n] = leaf[n] /\ target'[n] = target[n]
        /\ Passes(w) \/ Marks(w) \/ Points(w)
        /\ settled' = settled /\ SameCall(w) /\ \A x \in Writers \ {w} : job'[x] = job[x]
    BY MoveEffect, MoveJob DEF history
  <1>2. ASSUME NEW x \in Writers PROVE job[x].prefix \in AllNodes \cup {Nil}
    BY RoutesAssumption DEF PathInv, TrieTypes, Jobs
  <1>3. ASSUME NEW x \in Writers, job'[x].pc # "idle" PROVE Company(x)'
    <2>1. CASE x = w
      <3>1. /\ Company(w) /\ job'[w].prefix = p /\ job'[w].val = job[w].val
            /\ job'[w].alone = job[w].alone
            /\ \A y \in Writers : job'[y].prefix = job[y].prefix
        BY <1>1 DEF AloneInv, SameCall
      <3>2. CASE Passes(w)
        BY <2>1, <3>1, <3>2 DEF Passes, Company
      <3>3. CASE Marks(w)
        BY ZenonT(30), <2>1, <3>1, <3>3 DEF Marks, Company
      <3>4. CASE Points(w)
        BY <2>1, <3>1, <3>4 DEF Points, Company
      <3> QED
        BY SMTT(30), <1>1, <3>2, <3>3, <3>4
    <2>2. CASE x # w
      <3>1. job[x].pc # "idle" /\ job[x].prefix \in AllNodes /\ job'[x] = job[x]
        BY SMTT(30), <1>1, <1>3, <2>2, RoutesAssumption DEF PathInv, OnPath
      <3>2. Company(x) /\ (job[x].alone => job[x].prefix # p)
        BY <2>2, <3>1 DEF AloneInv, Company
      <3>3. \A y \in Writers : job'[y].prefix = job[y].prefix
        BY <1>1 DEF SameCall
      <3> QED
        BY <1>1, <3>1, <3>2, <3>3 DEF Company
    <2> QED
      BY SMTT(30), <2>1, <2>2
  <1>4. ASSUME NEW q \in Alone
        PROVE  \/ leaf'[q] \/ target'[q] = Nil
               \/ \E x \in Writers : job'[x].prefix = q /\ job'[x].pc = "target" /\ job'[x].val = Nil
    <2>1. q \in AllNodes /\ q \in Routes /\ q \notin Shared
      BY RoutesAssumption DEF Alone
    <2>2. CASE q # p
      <3>1. CASE leaf[q] \/ target[q] = Nil
        BY SMTT(30), <1>1, <2>1, <2>2, <3>1
      <3>2. CASE ~(leaf[q] \/ target[q] = Nil)
        <4>1. PICK x \in Writers : job[x].prefix = q /\ job[x].pc = "target" /\ job[x].val = Nil
          BY <3>2 DEF AloneInv
        <4> QED
          BY <1>1, <2>2, <4>1
      <3> QED
        BY <3>1, <3>2
    <2>3. CASE q = p
      <3>1. job[w].alone
        BY SMTT(30), <1>1, <2>1, <2>3 DEF AloneInv, Company
      <3>2. CASE Passes(w)
        <4>1. ~\E x \in Writers : job[x].prefix = q /\ job[x].pc = "target" /\ job[x].val = Nil
          BY SMTT(30), <1>1, <2>3, <3>1, <3>2 DEF AloneInv, Company, Passes
        <4> QED
          BY SMTT(30), <3>2, <4>1 DEF AloneInv, Passes
      <3>3. CASE Marks(w)
        BY ZenonT(30), <1>1, <2>3, <3>3 DEF Marks, SameCall
      <3>4. CASE Points(w)
        BY <1>1, <2>3, <3>1, <3>4 DEF Points, AloneInv, Company
      <3> QED
        BY SMTT(30), <1>1, <3>2, <3>3, <3>4
    <2> QED
      BY <2>2, <2>3
  <1>5. ASSUME NEW q \in settled' PROVE q \in Routes /\ leaf'[q] /\ target'[q] # Nil /\ Busy(q)' = {}
    <2>1. q \in Routes /\ q \in AllNodes /\ leaf[q] /\ target[q] # Nil /\ Busy(q) = {}
      BY <1>1, RoutesAssumption DEF AloneInv
    <2>2. q # p
      BY SMTT(30), <2>1 DEF Busy
    <2>3. \A y \in Writers : job'[y].prefix = job[y].prefix
      BY SMTT(30), <1>1 DEF SameCall
    <2> QED
      BY <1>1, <2>1, <2>2, <2>3 DEF Busy
  <1> QED
    BY SMTT(30), <1>3, <1>4, <1>5 DEF AloneInv

(* and leaves it so when it returns. *)
LEMMA AloneReturn ==
  ASSUME PathInv, AloneInv, NEW w \in Writers, Return(w)
  PROVE  AloneInv'
  <1> DEFINE p == job[w].prefix
  <1>1. /\ job[w].pc = "ret" /\ UNCHANGED <<leaf, target>>
        /\ settled' = IF IsInsert(w) /\ job[w].alone THEN settled \cup {p} ELSE settled
    BY Zenon DEF Return, trie
  <1>2. /\ job'[w].pc = "idle" /\ job'[w].prefix = Nil /\ \A x \in Writers \ {w} : job'[x] = job[x]
        /\ Nil \notin Routes /\ p \in Routes /\ Company(w)
    BY SMTT(30), <1>1, ReturnJob, RoutesAssumption, TrieAssumption DEF PathInv, OnPath, AloneInv
  <1>3. ASSUME NEW x \in Writers, job'[x].pc # "idle" PROVE Company(x)'
    <2>1. x # w /\ job'[x] = job[x] /\ job[x].pc # "idle" /\ job[x].prefix \in Routes
      BY SMTT(30), <1>2, <1>3 DEF PathInv, OnPath
    <2>2. Company(x)
      BY <2>1 DEF AloneInv
    <2> QED
      BY SMTT(30), <1>1, <1>2, <2>1, <2>2 DEF Company
  <1>4. ASSUME NEW q \in Alone
        PROVE  \/ leaf'[q] \/ target'[q] = Nil
               \/ \E x \in Writers : job'[x].prefix = q /\ job'[x].pc = "target" /\ job'[x].val = Nil
    <2>1. CASE leaf[q] \/ target[q] = Nil
      BY <1>1, <2>1
    <2>2. CASE ~(leaf[q] \/ target[q] = Nil)
      <3>1. PICK x \in Writers : job[x].prefix = q /\ job[x].pc = "target" /\ job[x].val = Nil
        BY <2>2 DEF AloneInv
      <3> QED
        BY <1>1, <1>2, <3>1
    <2> QED
      BY <2>1, <2>2
  <1>5. ASSUME NEW q \in settled' PROVE q \in Routes /\ leaf'[q] /\ target'[q] # Nil /\ Busy(q)' = {}
    <2>1. CASE q \in settled
      BY SMTT(30), <1>1, <1>2, <2>1 DEF AloneInv, Busy
    <2>2. CASE q \notin settled
      <3>1. q = p /\ job[w].val # Nil /\ job[w].alone
        BY <1>1, <2>2 DEF IsInsert
      <3> QED
        BY <1>1, <1>2, <3>1 DEF Company, Busy
    <2> QED
      BY <2>1, <2>2
  <1> QED
    BY <1>3, <1>4, <1>5 DEF AloneInv

(* Every step keeps AloneInv. *)
LEMMA AloneStep == PathInv /\ AloneInv /\ [Next]_vars => AloneInv'
  <1> SUFFICES ASSUME PathInv, AloneInv, [Next]_vars PROVE AloneInv'
    OBVIOUS
  <1>1. ASSUME UNCHANGED <<trie, job, ops, history>> PROVE AloneInv'
    BY <1>1 DEF AloneInv, Company, Busy, trie, history
  <1> QED
    BY <1>1, AloneBegin, AloneMove, AloneReturn, NextSteps DEF Begins, Lookups, Walks, vars

(* Both invariants hold in an empty trie. *)
LEMMA WritersInit == Init => PathInv /\ AloneInv
  <1> SUFFICES ASSUME Init PROVE PathInv /\ AloneInv
    OBVIOUS
  <1>1. /\ NoJob \in Jobs /\ NoJob.pc = "idle" /\ NoJob.prefix = Nil /\ NoJob.val = Nil
        /\ \A w \in Writers : job[w] = NoJob
    BY DEF NoJob, Jobs, Init
  <1>2. \A t \in {"v4", "v6"} : <<t>> \in AllNodes /\ Len(<<t>>) = 1
    <2> SUFFICES ASSUME NEW t \in {"v4", "v6"} PROVE <<t>> \in AllNodes
      OBVIOUS
    <2> QED
      BY RootNodes
  <1>3. TrieTypes
    BY <1>1, <1>2, TrieAssumption DEF Init, TrieTypes
  <1>4. ASSUME NEW n \in {<<"v4">>, <<"v6">>}, NEW m \in AllNodes, Below(m, n) PROVE m = n
    <2>1. n \in AllNodes /\ Len(n) = 1 /\ Len(m) \in Nat \ {0}
      BY <1>2, NodeShape
    <2> QED
      <3>1. Len(m) = Len(n)
        BY <1>4, <2>1 DEF Below
      <3> QED
        BY <1>4, <2>1, <3>1, SameNode
  <1>5. TrieShape
    BY <1>4 DEF Init, TrieShape
  <1>6. PathInv
    BY SMTT(30), <1>1, <1>3, <1>5 DEF PathInv, OnPath
  <1>7. AloneInv
    BY <1>1, RoutesAssumption DEF Init, AloneInv, Alone
  <1> QED
    BY Zenon, <1>6, <1>7

-------------------------------------------------------------------------------
(* The table and the calls of the refinement. *)
Entry(p) == IF leaf[p] THEN target[p] ELSE Nil
Tab == [p \in Alone |-> Entry(p)]
Calls == [w \in Writers |-> TableCall(w)]
Idle == [prefix |-> Nil, val |-> Nil, applied |-> FALSE]

(* A call that begins is a call of the table, or is invisible to it; *)
LEMMA TableBegin ==
  ASSUME PathInv, AloneInv, NEW w \in Writers, NEW p \in Routes, NEW v \in {ops + 1, Nil},
         Begin(w, p, v)
  PROVE  /\ Tab' = Tab
         /\ \/ Calls' = Calls
            \/ /\ Calls[w] = Idle
               /\ Calls'[w] = [prefix |-> p, val |-> v, applied |-> FALSE] /\ p \in Alone
               /\ v \in Values \cup {Nil} /\ Calls' = [Calls EXCEPT ![w] = Calls'[w]]
  <1>1. /\ ops < MaxOps /\ ops' = ops + 1 /\ UNCHANGED trie /\ job[w].pc = "idle"
    BY Zenon DEF Begin
  <1>2. v \in Values \cup {Nil}
    BY <1>1, TrieAssumption DEF PathInv, TrieTypes, Values
  <1>3. /\ job'[w].prefix = p /\ job'[w].val = v /\ job'[w].pc \in {"leaf", "walk"}
        /\ \A x \in Writers \ {w} :
              /\ job'[x].prefix = job[x].prefix /\ job'[x].val = job[x].val
              /\ job'[x].pc = job[x].pc
    BY <1>1, <1>2, BeginJob DEF PathInv
  <1>4. Tab' = Tab
    BY <1>1 DEF Tab, Entry, trie
  <1>5. ASSUME NEW x \in Writers \ {w} PROVE TableCall(x)' = TableCall(x)
    <2>1. job'[x].prefix = job[x].prefix /\ job'[x].val = job[x].val /\ job'[x].pc = job[x].pc
      BY SMTT(30), <1>3
    <2> QED
      BY ONLY <2>1, Zenon DEF TableCall, IsInsert
  <1>6. TableCall(w) = Idle
    BY <1>1 DEF TableCall, Idle
  <1>7. CASE p \in Shared
    <2>1. TableCall(w)' = Idle
      BY <1>3, <1>7 DEF TableCall, Idle
    <2> QED
      BY SMTT(30), <1>4, <1>5, <1>6, <2>1 DEF Calls
  <1>8. CASE p \notin Shared
    <2>1. TableCall(w)' = [prefix |-> p, val |-> v, applied |-> FALSE]
      BY Zenon, <1>3, <1>8 DEF TableCall
    <2>2. Calls' = [Calls EXCEPT ![w] = Calls'[w]] /\ Calls'[w] = TableCall(w)' /\ Calls[w] = TableCall(w)
      BY Zenon, <1>5 DEF Calls
    <2> QED
      BY <1>2, <1>4, <1>6, <1>8, <2>1, <2>2, Zenon DEF Alone
  <1> QED
    BY <1>7, <1>8

(* one of its moves applies it to the table and the others are stutters; *)
LEMMA TableMove ==
  ASSUME PathInv, AloneInv, NEW w \in Writers, Move(w)
  PROVE  \/ Tab' = Tab /\ Calls' = Calls
         \/ \E p \in Alone, v \in Values \cup {Nil} :
              /\ Calls[w] = [prefix |-> p, val |-> v, applied |-> FALSE]
              /\ Tab' = [Tab EXCEPT ![p] = v]
              /\ Calls' = [Calls EXCEPT ![w] = [prefix |-> p, val |-> v, applied |-> TRUE]]
  <1>p. PICK p, v : p = job[w].prefix /\ v = job[w].val
    OBVIOUS
  <1>1. /\ job[w].pc # "idle" /\ p \in Routes /\ p \in AllNodes
        /\ \A n \in AllNodes \ {p} : leaf'[n] = leaf[n] /\ target'[n] = target[n]
        /\ Passes(w) \/ Marks(w) \/ Points(w)
        /\ job'[w].prefix = p /\ job'[w].val = v /\ \A x \in Writers \ {w} : job'[x] = job[x]
        /\ v \in Values \cup {Nil}
    BY ZenonT(30), <1>p, MoveEffect, MoveJob DEF SameCall, PathInv, TrieTypes, Jobs
  <1>2. job'[w].pc # "idle"
    BY <1>1 DEF Passes, Marks, Points
  <1>3. \A x \in Writers \ {w} : TableCall(x)' = TableCall(x)
    BY <1>1, Zenon DEF TableCall, IsInsert
  <1>4. Alone \subseteq AllNodes
    BY SMTT(30), RoutesAssumption DEF Alone
  <1>5. \A q \in Alone \ {p} : Entry(q)' = Entry(q)
    BY ZenonT(30), <1>1, <1>4 DEF Entry
  <1>6. CASE p \in Shared
    <2>1. TableCall(w)' = TableCall(w) /\ p \notin Alone
      BY <1>p, <1>1, <1>2, <1>6 DEF TableCall, Alone
    <2> QED
      BY SMTT(30), <1>3, <1>5, <2>1 DEF Tab, Calls
  <1>7. CASE p \notin Shared
    <2> DEFINE done == job[w].pc = "ret" \/ (job[w].pc = "target" /\ v = Nil)
               done2 == job'[w].pc = "ret" \/ (job'[w].pc = "target" /\ v = Nil)
    <2>1. /\ IF done THEN TableCall(w) = [prefix |-> p, val |-> v, applied |-> TRUE]
                     ELSE TableCall(w) = [prefix |-> p, val |-> v, applied |-> FALSE]
          /\ IF done2 THEN TableCall(w)' = [prefix |-> p, val |-> v, applied |-> TRUE]
                      ELSE TableCall(w)' = [prefix |-> p, val |-> v, applied |-> FALSE]
      BY ZenonT(30), <1>p, <1>1, <1>2, <1>7 DEF TableCall, IsInsert
    <2>2. p \in Alone /\ Company(w)
      BY <1>p, <1>1, <1>7 DEF Alone, AloneInv
    <2>3. (Entry(p)' = Entry(p) /\ (done <=> done2)) \/ (Entry(p)' = v /\ ~done /\ done2)
      <3>1. CASE Passes(w)
        <4>1. ~done /\ Entry(p)' = Entry(p)
          BY SMTT(30), <1>p, <1>1, <3>1 DEF Passes, Entry
        <4>2. done2 => v = Nil /\ Entry(p) = Nil
          BY SMTT(30), <1>p, <1>1, <3>1 DEF Passes, Entry
        <4> QED
          BY SMTT(30), <4>1, <4>2
      <3>2. CASE Marks(w)
        <4>1. leaf[p] \/ target[p] = Nil
          <5>1. ~\E x \in Writers : job[x].prefix = p /\ job[x].pc = "target" /\ job[x].val = Nil
            BY <1>p, <1>7, <2>2, <3>2 DEF Marks, Company
          <5> QED
            BY <2>2, <5>1 DEF AloneInv
        <4> QED
          <5>1. /\ ~done /\ (done2 <=> v = Nil) /\ target'[p] = target[p]
                /\ leaf'[p] <=> v # Nil
            BY ZenonT(30), <1>p, <3>2 DEF Marks
          <5> QED
            BY <4>1, <5>1 DEF Entry
      <3>3. CASE Points(w)
        <4>1. /\ (done <=> v = Nil) /\ done2 /\ target'[p] = v /\ leaf' = leaf
              /\ leaf[p] <=> v # Nil
          BY SMTT(30), <1>p, <1>7, <2>2, <3>3 DEF Points, Company
        <4> QED
          BY <4>1 DEF Entry
      <3> QED
        BY SMTT(30), <1>1, <3>1, <3>2, <3>3
    <2> HIDE DEF done, done2
    <2>4. CASE Entry(p)' = Entry(p) /\ (done <=> done2)
      <3>1. TableCall(w)' = TableCall(w)
        BY <2>1, <2>4, Zenon
      <3> QED
        BY <1>3, <1>5, <2>4, <3>1 DEF Tab, Calls
    <2>5. CASE Entry(p)' = v /\ ~done /\ done2
      <3>1. /\ TableCall(w) = [prefix |-> p, val |-> v, applied |-> FALSE]
            /\ TableCall(w)' = [prefix |-> p, val |-> v, applied |-> TRUE]
        BY <2>1, <2>5
      <3>2. Tab' = [Tab EXCEPT ![p] = v]
        BY Zenon, <1>5, <2>2, <2>5 DEF Tab
      <3>3. Calls' = [Calls EXCEPT ![w] = TableCall(w)'] /\ Calls[w] = TableCall(w)
        BY Zenon, <1>3 DEF Calls
      <3>4. /\ Calls[w] = [prefix |-> p, val |-> v, applied |-> FALSE]
            /\ Calls' = [Calls EXCEPT ![w] = [prefix |-> p, val |-> v, applied |-> TRUE]]
        BY <3>1, <3>3, Zenon
      <3> HIDE DEF done, done2
      <3>5. p \in Alone /\ v \in Values \cup {Nil}
        BY <1>1, <2>2
      <3> QED
        BY <3>2, <3>4, <3>5, Zenon
    <2> QED
      BY <2>3, <2>4, <2>5, Zenon
  <1> QED
    BY Zenon, <1>6, <1>7

(* and its return is the return of the call of the table. *)
LEMMA TableReturn ==
  ASSUME PathInv, NEW w \in Writers, Return(w)
  PROVE  /\ Tab' = Tab
         /\ Calls' = Calls \/ (Calls[w].applied /\ Calls' = [Calls EXCEPT ![w] = Idle])
  <1>1. /\ job[w].pc = "ret" /\ UNCHANGED <<leaf, target>>
    BY Zenon DEF Return, trie
  <1>2. /\ job'[w].pc = "idle" /\ \A x \in Writers \ {w} : job'[x] = job[x]
    BY ReturnJob DEF PathInv
  <1>3. Tab' = Tab
    BY <1>1 DEF Tab, Entry
  <1>4. \A x \in Writers \ {w} : TableCall(x)' = TableCall(x)
    BY ZenonT(30), <1>2 DEF TableCall, IsInsert
  <1>5. TableCall(w)' = Idle /\ (TableCall(w) = Idle \/ TableCall(w).applied)
    BY <1>1, <1>2 DEF TableCall, Idle
  <1> QED
    BY Zenon, <1>3, <1>4, <1>5 DEF Calls

(* So every step of the trie is a step of the table or a stutter. *)
LEMMA TableRefines ==
  PathInv /\ AloneInv /\ [Next]_vars => [Table!TableNext]_<<Tab, Calls>>
  <1> SUFFICES ASSUME PathInv, AloneInv, [Next]_vars PROVE [Table!TableNext]_<<Tab, Calls>>
    OBVIOUS
  <1>1. ASSUME NEW w \in Writers, NEW p \in Routes, NEW v \in {ops + 1, Nil}, Begin(w, p, v)
        PROVE  Table!Begin(w) \/ UNCHANGED <<Tab, Calls>>
    <2>1. CASE Calls' = Calls
      BY SMTT(30), <1>1, <2>1, TableBegin
    <2>2. CASE Calls' # Calls
      <3>1. /\ Tab' = Tab /\ Calls[w] = Idle /\ p \in Alone /\ v \in Values \cup {Nil}
            /\ Calls'[w] = [prefix |-> p, val |-> v, applied |-> FALSE]
            /\ Calls' = [Calls EXCEPT ![w] = Calls'[w]]
        BY Zenon, <1>1, <2>2, TableBegin
      <3>2. [prefix |-> p, val |-> v, applied |-> FALSE]
              \in [prefix : Alone, val : Values \cup {Nil}, applied : {FALSE}]
        BY <3>1
      <3> QED
        BY ZenonT(30), <3>1, <3>2 DEF Table!Begin, Table!NoCall, Tab, Calls, Idle, Entry, Values
    <2> QED
      BY <2>1, <2>2
  <1>2. ASSUME NEW w \in Writers, Move(w)
        PROVE  Table!Apply(w) \/ UNCHANGED <<Tab, Calls>>
    <2> SUFFICES ASSUME NEW p \in Alone, NEW v \in Values \cup {Nil},
                   Calls[w] = [prefix |-> p, val |-> v, applied |-> FALSE],
                   Tab' = [Tab EXCEPT ![p] = v],
                   Calls' = [Calls EXCEPT ![w] = [prefix |-> p, val |-> v, applied |-> TRUE]]
                 PROVE  Table!Apply(w)
      BY Zenon, <1>2, TableMove
    <2>1. p # Nil
      BY RoutesAssumption, TrieAssumption DEF Alone
    <2>2. Calls' = [Calls EXCEPT ![w].applied = TRUE]
      <3> DEFINE was == [prefix |-> p, val |-> v, applied |-> FALSE]
                 is == [was EXCEPT !.applied = TRUE]
      <3>1. is \in [prefix : {p}, val : {v}, applied : {TRUE}]
        BY Zenon
      <3> HIDE DEF is
      <3>2. is = [prefix |-> p, val |-> v, applied |-> TRUE]
        BY <3>1, Zenon
      <3> QED
        BY <3>2, Zenon DEF is
    <2>3. Calls[w] # Idle /\ ~Calls[w].applied /\ Calls[w].prefix = p /\ Calls[w].val = v
      BY SMTT(30), <2>1 DEF Idle
    <2> QED
      BY Zenon, <2>2, <2>3 DEF Table!Apply, Table!NoCall, Tab, Calls, Idle, Entry
  <1>3. ASSUME NEW w \in Writers, Return(w)
        PROVE  Table!Return(w) \/ UNCHANGED <<Tab, Calls>>
    BY SMTT(30), <1>3, TableReturn DEF Table!Return, Table!NoCall, Tab, Calls, Idle, Entry
  <1>4. ASSUME UNCHANGED <<trie, job>> PROVE UNCHANGED <<Tab, Calls>>
    BY <1>4 DEF Tab, Calls, Entry, TableCall, IsInsert, trie
  <1> QED
    BY <1>1, <1>2, <1>3, <1>4, NextSteps DEF Begins, Lookups, Walks, vars, Table!TableNext

(* On the prefixes that one goroutine writes at a time the trie is a table, *)
(* whatever the width of an address, the routes and the goroutines.         *)
THEOREM TrieImplementsTable == Spec => TrieIsTable
  <1>1. Init => Table!TableInit
    <2> SUFFICES ASSUME Init PROVE Table!TableInit
      OBVIOUS
    <2>1. \A w \in Writers : job[w].pc = "idle"
      BY DEF Init, NoJob
    <2>2. \A w \in Writers : TableCall(w) = Table!NoCall
      BY <2>1 DEF TableCall, Table!NoCall
    <2>3. \A p \in Alone : ~leaf[p]
      BY RoutesAssumption DEF Init, Alone
    <2> QED
      BY <2>2, <2>3 DEF Table!TableInit
  <1> QED
    BY <1>1, WritersInit, PathStep, AloneStep, TableRefines, PTL
       DEF Spec, TrieIsTable, Table!TableSpec, Tab, Calls, Entry

-------------------------------------------------------------------------------
(* A value is written by one call; which calls may still store it. *)
ValueInv ==
  /\ finished \in [Routes -> SUBSET (1..ops)]
  /\ \A p, q \in Routes : p # q => finished[p] \cap finished[q] = {}
  /\ \A w \in Writers : job[w].val # Nil =>
       /\ job[w].val <= ops
       /\ \A p \in Routes : job[w].val \notin finished[p]
       /\ \A x \in Writers \ {w} : job[x].val # job[w].val
  /\ \A w \in Writers : job[w].pc # "idle" => job[w].prior \subseteq finished[job[w].prefix]
  /\ \A n \in AllNodes : target[n] # Nil =>
       /\ n \in Routes
       /\ \/ target[n] \in finished[n]
          \/ \E w \in Writers : job[w].prefix = n /\ job[w].val = target[n]

DeadInv ==
  /\ \A w \in Writers : job[w].pc = "ret" => target[job[w].prefix] \notin job[w].prior
  /\ \A v \in dead : \E p \in Routes : v \in finished[p]
  /\ \A n \in AllNodes : target[n] \notin dead


(* The value of a new call is one that no call had before. *)
LEMMA ValueBegin ==
  ASSUME PathInv, ValueInv, DeadInv, NEW w \in Writers, NEW p \in Routes, NEW v \in {ops + 1, Nil},
         Begin(w, p, v)
  PROVE  ValueInv' /\ DeadInv'
  <1>1. /\ ops < MaxOps /\ ops' = ops + 1 /\ UNCHANGED <<trie, finished, dead>> /\ job[w].pc = "idle"
    BY Zenon DEF Begin
  <1>2. v \in Values \cup {Nil} /\ ops \in Nat
    BY <1>1, TrieAssumption DEF PathInv, TrieTypes, Values
  <1>3. /\ job'[w].prefix = p /\ job'[w].val = v /\ job'[w].pc \in {"leaf", "walk"}
        /\ job'[w].prior = finished[p] /\ job[w].prefix = Nil /\ job[w].val = Nil
        /\ \A x \in Writers \ {w} :
              /\ job'[x].prefix = job[x].prefix /\ job'[x].val = job[x].val
              /\ job'[x].pc = job[x].pc /\ job'[x].prior = job[x].prior
    BY <1>1, <1>2, BeginJob DEF PathInv, OnPath
  <1>4. UNCHANGED <<target, finished, dead>>
    BY <1>1 DEF trie
  <1>5. \A x \in Writers : job[x].val # Nil => job[x].val \in Nat /\ job[x].val <= ops
    BY DEF ValueInv, PathInv, TrieTypes, Jobs, Values
  <1>6. \A q \in Routes : finished[q] \subseteq 1..ops
    BY DEF ValueInv
  <1>7. finished' \in [Routes -> SUBSET (1..ops')]
    BY <1>1, <1>2, <1>4 DEF ValueInv
  <1>8. ASSUME NEW x \in Writers, job'[x].val # Nil
        PROVE  /\ job'[x].val <= ops' /\ \A q \in Routes : job'[x].val \notin finished'[q]
               /\ \A y \in Writers \ {x} : job'[y].val # job'[x].val
    <2>1. CASE x = w
      <3>1. v = ops + 1
        BY <1>3, <1>8, <2>1
      <3>2. \A y \in Writers \ {w} : job'[y].val # ops + 1
        BY SMTT(30), <1>2, <1>3, <1>5, TrieAssumption, <1>8, <2>1, <3>1
      <3> QED
        BY SMTT(30), <1>1, <1>2, <1>3, <1>4, <1>6, <2>1, <3>1, <3>2
    <2>2. CASE x # w
      <3>1. job[x].val = job'[x].val /\ job[x].val # Nil /\ job[x].val \in Nat /\ job[x].val <= ops
        BY SMTT(30), <1>3, <1>5, <1>8, <2>2
      <3>2. job'[w].val # job[x].val
        BY SMTT(30), <1>2, <1>3, <3>1
      <3>3. \A y \in Writers \ {x} : job'[y].val # job[x].val
        BY SMTT(30), <1>3, <3>1, <3>2 DEF ValueInv
      <3> QED
        BY SMTT(30), <1>1, <1>2, <1>4, <3>1, <3>3 DEF ValueInv
    <2> QED
      BY SMTT(30), <2>1, <2>2
  <1>9. ASSUME NEW n \in AllNodes, target'[n] # Nil
        PROVE  /\ n \in Routes
               /\ \/ target'[n] \in finished'[n]
                  \/ \E x \in Writers : job'[x].prefix = n /\ job'[x].val = target'[n]
    <2>1. CASE target[n] \in finished[n]
      BY SMTT(30), <1>4, <1>9, <2>1 DEF ValueInv
    <2>2. CASE target[n] \notin finished[n]
      <3>1. PICK x \in Writers : job[x].prefix = n /\ job[x].val = target[n]
        BY SMTT(30), <1>4, <1>9, <2>2 DEF ValueInv
      <3> QED
        BY SMTT(30), <1>3, <1>4, <1>9, <3>1 DEF ValueInv
    <2> QED
      BY <2>1, <2>2
  <1>10. \A x \in Writers : job'[x].pc # "idle" => job'[x].prior \subseteq finished'[job'[x].prefix]
    BY SMTT(30), <1>3, <1>4 DEF ValueInv
  <1>11. ValueInv'
    BY SMTT(30), <1>4, <1>7, <1>8, <1>9, <1>10 DEF ValueInv
  <1>12. DeadInv'
    BY <1>3, <1>4 DEF DeadInv
  <1> QED
    BY <1>11, <1>12

(* A move stores the value of its call, which is not gone. *)
LEMMA ValueMove ==
  ASSUME PathInv, ValueInv, DeadInv, NEW w \in Writers, Move(w)
  PROVE  ValueInv' /\ DeadInv'
  <1> DEFINE p == job[w].prefix
  <1>1. /\ job[w].pc # "idle" /\ p \in Routes /\ p \in AllNodes
        /\ \A n \in AllNodes \ {p} : leaf'[n] = leaf[n] /\ target'[n] = target[n]
        /\ Passes(w) \/ Marks(w) \/ Points(w)
        /\ UNCHANGED <<ops, finished, dead>> /\ SameCall(w) /\ \A x \in Writers \ {w} : job'[x] = job[x]
    BY SMTT(30), MoveEffect, MoveJob DEF history
  <1>2. \A x \in Writers : /\ job'[x].prefix = job[x].prefix /\ job'[x].val = job[x].val
                           /\ job'[x].prior = job[x].prior
                           /\ job'[x].pc # "idle" => job[x].pc # "idle"
    BY SMTT(30), <1>1 DEF SameCall
  <1>3. target'[p] = target[p] \/ (target'[p] = job[w].val /\ Points(w))
    BY SMTT(30), <1>1 DEF Passes, Marks, Points
  <1>4. ASSUME NEW n \in AllNodes, target'[n] # Nil
        PROVE  /\ n \in Routes
               /\ \/ target'[n] \in finished[n]
                  \/ \E x \in Writers : job[x].prefix = n /\ job[x].val = target'[n]
    BY SMTT(30), <1>1, <1>3, <1>4 DEF ValueInv
  <1>5. ValueInv'
    BY <1>1, <1>2, <1>4 DEF ValueInv
  <1>6. ASSUME NEW x \in Writers, job'[x].pc = "ret" PROVE target'[job[x].prefix] \notin job[x].prior
    <2>1. /\ job[x].pc # "idle" /\ job[x].prefix \in Routes /\ job[x].prefix \in AllNodes
          /\ job[x].prior \subseteq finished[job[x].prefix] /\ Nil \notin job[x].prior
      BY SMTT(30), <1>2, <1>6, RoutesAssumption, TrieAssumption DEF PathInv, OnPath, ValueInv, TrieTypes, Jobs, Values
    <2>2. job[w].val \notin job[x].prior
      BY SMTT(30), <2>1 DEF ValueInv
    <2>3. CASE job[x].pc = "ret"
      BY SMTT(30), <1>1, <1>3, <2>1, <2>2, <2>3 DEF DeadInv
    <2>4. CASE job[x].pc # "ret"
      <3>1. x = w
        BY SMTT(30), <1>1, <1>6, <2>4
      <3> QED
        BY SMTT(30), <1>1, <1>6, <2>1, <2>2, <2>4, <3>1 DEF Passes, Marks, Points
    <2> QED
      BY SMTT(30), <2>3, <2>4
  <1>7. ASSUME NEW n \in AllNodes PROVE target'[n] \notin dead
    <2>1. job[w].val # Nil => job[w].val \notin dead
      BY DEF ValueInv, DeadInv
    <2>2. Nil \notin dead
      BY TrieAssumption DEF DeadInv, PathInv, TrieTypes, Values
    <2> QED
      BY SMTT(30), <1>1, <1>3, <2>1, <2>2 DEF DeadInv
  <1>8. DeadInv'
    BY <1>1, <1>2, <1>6, <1>7 DEF DeadInv
  <1> QED
    BY SMTT(30), <1>5, <1>8

(* A call that returns stores its value no more. *)
LEMMA ValueReturn ==
  ASSUME PathInv, ValueInv, DeadInv, NEW w \in Writers, Return(w)
  PROVE  ValueInv' /\ DeadInv'
  <1> DEFINE p == job[w].prefix
             u == job[w].val
             prior == job[w].prior
  <1>1. /\ job[w].pc = "ret" /\ UNCHANGED <<leaf, target, ops>> /\ dead' = dead \cup prior
        /\ finished' = [finished EXCEPT ![p] = IF u # Nil THEN @ \cup {u} ELSE @]
    BY Zenon DEF Return, IsInsert, trie
  <1>2. /\ job'[w].pc = "idle" /\ job'[w].val = Nil /\ \A x \in Writers \ {w} : job'[x] = job[x]
        /\ p \in Routes /\ p \in AllNodes /\ prior \subseteq finished[p] /\ Nil \notin prior
        /\ u # Nil => u \in 1..ops
    BY <1>1, ReturnJob, RoutesAssumption, TrieAssumption
       DEF PathInv, OnPath, ValueInv, TrieTypes, Jobs, Values
  <1>3. /\ finished \in [Routes -> SUBSET (1..ops)] /\ finished' \in [Routes -> SUBSET (1..ops)]
        /\ finished'[p] = IF u # Nil THEN finished[p] \cup {u} ELSE finished[p]
        /\ \A q \in Routes \ {p} : finished'[q] = finished[q]
    <2> DEFINE g == IF u # Nil THEN finished[p] \cup {u} ELSE finished[p]
    <2>1. finished \in [Routes -> SUBSET (1..ops)]
      BY DEF ValueInv
    <2> HIDE DEF p, u, prior
    <2>2. g \in SUBSET (1..ops) /\ finished' = [finished EXCEPT ![p] = g]
      BY <1>1, <1>2, <2>1
    <2> HIDE DEF g
    <2>3. finished' \in [Routes -> SUBSET (1..ops)] /\ finished'[p] = g
          /\ \A q \in Routes \ {p} : finished'[q] = finished[q]
      BY <1>2, <2>1, <2>2
    <2> QED
      BY SMTT(30), <2>1, <2>3 DEF g
  <1> HIDE DEF p, u, prior
  <1>4. ASSUME NEW q \in Routes, NEW v \in finished'[q]
        PROVE  v \in finished[q] \/ (v = u /\ q = p /\ u # Nil)
    BY <1>3
  <1>5. \A q \in Routes : finished[q] \subseteq finished'[q]
    BY <1>3
  <1>6. u # Nil => /\ \A q \in Routes : u \notin finished[q]
                   /\ \A x \in Writers \ {w} : job[x].val # u
    BY DEF ValueInv, u
  <1>7. \A q, r \in Routes : q # r => finished'[q] \cap finished'[r] = {}
    BY SMTT(30), <1>4, <1>6 DEF ValueInv
  <1>8. ASSUME NEW x \in Writers, job'[x].val # Nil
        PROVE  /\ job'[x].val <= ops /\ \A q \in Routes : job'[x].val \notin finished'[q]
               /\ \A y \in Writers \ {x} : job'[y].val # job'[x].val
    BY SMTT(30), <1>2, <1>4, <1>6, <1>8 DEF ValueInv
  <1>9. \A x \in Writers : job'[x].pc # "idle" => job'[x].prior \subseteq finished'[job'[x].prefix]
    <2>1. \A x \in Writers : job[x].pc # "idle" => job[x].prefix \in Routes
      BY SMTT(30) DEF PathInv, OnPath
    <2> QED
      BY SMTT(30), <1>2, <1>5, <2>1 DEF ValueInv
  <1>10. ASSUME NEW n \in AllNodes, target[n] # Nil
         PROVE  /\ n \in Routes
                /\ \/ target[n] \in finished'[n]
                   \/ \E x \in Writers : job'[x].prefix = n /\ job'[x].val = target[n]
    <2>1. n \in Routes
      BY <1>10 DEF ValueInv
    <2>2. CASE target[n] \in finished[n]
      BY <1>5, <2>1, <2>2
    <2>3. CASE target[n] \notin finished[n]
      <3>1. PICK x \in Writers : job[x].prefix = n /\ job[x].val = target[n]
        BY <1>10, <2>3 DEF ValueInv
      <3>2. CASE x = w
        <4>1. n = p /\ target[n] = u /\ u # Nil
          BY SMTT(30), <1>10, <3>1, <3>2 DEF p, u
        <4> QED
          BY <1>3, <2>1, <4>1
      <3>3. CASE x # w
        BY SMTT(30), <1>2, <2>1, <3>1, <3>3
      <3> QED
        BY SMTT(30), <3>2, <3>3, <2>1
    <2> QED
      BY <2>2, <2>3
  <1>11. ValueInv'
    BY SMTT(30), <1>1, <1>3, <1>7, <1>8, <1>9, <1>10 DEF ValueInv
  <1>12. ASSUME NEW n \in AllNodes PROVE target[n] \notin dead \cup prior
    <2>1. target[n] \notin dead
      BY DEF DeadInv
    <2>2. target[n] \notin prior
      <3>1. CASE n = p
        BY <1>1, <3>1 DEF DeadInv, p, prior
      <3>2. CASE n # p /\ target[n] # Nil
        <4>1. n \in Routes /\ finished[n] \cap finished[p] = {}
          BY <1>2, <3>2 DEF ValueInv
        <4> QED
          BY ZenonT(30), <1>2, <3>2, <4>1 DEF ValueInv
      <3>3. CASE target[n] = Nil
        BY <1>2, <3>3
      <3> QED
        BY SMTT(30), <3>1, <3>2, <3>3
    <2> QED
      BY <2>1, <2>2
  <1>13. ASSUME NEW v \in dead \cup prior PROVE \E q \in Routes : v \in finished'[q]
    BY <1>2, <1>5 DEF DeadInv
  <1>14. DeadInv'
    BY <1>1, <1>2, <1>12, <1>13 DEF DeadInv
  <1> QED
    BY <1>11, <1>14

(* Every step keeps ValueInv and DeadInv. *)
LEMMA ValueStep == PathInv /\ ValueInv /\ DeadInv /\ [Next]_vars => ValueInv' /\ DeadInv'
  <1> SUFFICES ASSUME PathInv, ValueInv, DeadInv, [Next]_vars PROVE ValueInv' /\ DeadInv'
    OBVIOUS
  <1>1. ASSUME UNCHANGED <<trie, job, ops, history>> PROVE ValueInv' /\ DeadInv'
    BY <1>1 DEF ValueInv, DeadInv, trie, history
  <1> QED
    BY SMTT(30), <1>1, ValueBegin, ValueMove, ValueReturn, NextSteps DEF Begins, Lookups, Walks, vars

(* In an empty trie no value is stored and none is gone. *)
LEMMA ValueInit == Init => ValueInv /\ DeadInv
  <1> SUFFICES ASSUME Init PROVE ValueInv /\ DeadInv
    OBVIOUS
  <1>1. \A w \in Writers : job[w].pc = "idle" /\ job[w].val = Nil
    BY DEF NoJob, Init
  <1> QED
    BY <1>1 DEF Init, ValueInv, DeadInv

-------------------------------------------------------------------------------
Looks == [pc : {"idle", "leaf", "target", "child", "done"}, ip : Addresses \cup {Nil},
          at : AllNodes \cup {Nil}, best : Values \cup {Nil}, from : AllNodes \cup {Nil},
          final : BOOLEAN, kept : SUBSET Routes, gone : SUBSET Values]

(* The lookup has a target at least as specific as p. *)
Covers(l, p) == l.best # Nil /\ Len(l.from) >= Len(p)

(* Where a lookup stands: which prefixes it has passed. *)
OnLook(l) ==
  /\ l.ip \in Addresses /\ l.at \in nodes /\ Below(l.at, l.ip)
  /\ l.pc = "done" => l.final
  /\ l.pc = "child" => ~l.final
  /\ ~l.final => Len(l.at) < Len(l.ip)
  /\ l.gone \subseteq dead /\ l.best \notin l.gone
  /\ l.best # Nil => l.from \in AllNodes /\ Below(l.from, l.ip)
  /\ l.kept \subseteq settled
  /\ \A p \in l.kept :
       /\ Below(p, l.ip)
       /\ l.final => Len(p) <= Len(l.at)
       /\ Len(p) < Len(l.at) => Covers(l, p)
       /\ Len(p) = Len(l.at) /\ l.pc \in {"child", "done"} => Covers(l, p)

LookInv ==
  /\ look \in [Readers -> Looks]
  /\ \A r \in Readers : look[r].pc # "idle" => OnLook(look[r])

WritersInv == PathInv /\ AloneInv /\ ValueInv /\ DeadInv

(* The invariants about writers are inductive together. *)
LEMMA WritersStep == WritersInv /\ [Next]_vars => WritersInv'
  BY PathStep, AloneStep, ValueStep DEF WritersInv

(* The node of a settled prefix is linked, marked and has a target. *)
LEMMA SettledNode ==
  ASSUME WritersInv, NEW p \in settled
  PROVE  p \in Routes /\ p \in AllNodes /\ p \in nodes /\ leaf[p] /\ target[p] # Nil
  BY RoutesAssumption DEF WritersInv, AloneInv, PathInv, TrieShape

(* A value that is gone is a value of some call, never nil. *)
LEMMA DeadValues ==
  ASSUME WritersInv
  PROVE  dead \subseteq Values /\ Nil \notin dead
  BY TrieAssumption DEF WritersInv, DeadInv, PathInv, TrieTypes, Values

(* What the writers do leaves a lookup where it stands. *)
LEMMA LookFrame ==
  ASSUME NEW l \in Looks, OnLook(l), NEW K \in SUBSET l.kept, K \subseteq settled',
         nodes \subseteq nodes', dead \subseteq dead', NEW m, m = [l EXCEPT !.kept = K]
  PROVE  OnLook(m)'
  <1>1. /\ m.pc = l.pc /\ m.ip = l.ip /\ m.at = l.at /\ m.best = l.best /\ m.from = l.from
        /\ m.final = l.final /\ m.kept = K /\ m.gone = l.gone
    BY DEF Looks
  <1>2. \A p : Covers(m, p) <=> Covers(l, p)
    BY <1>1 DEF Covers
  <1> QED
    BY <1>1, <1>2 DEF OnLook

(* Moves and returns unlink no node, unsettle no prefix and revive no value. *)
LEMMA WritersGrow ==
  ASSUME WritersInv, NEW w \in Writers, Move(w) \/ Return(w)
  PROVE  nodes \subseteq nodes' /\ dead \subseteq dead' /\ settled \subseteq settled'
         /\ UNCHANGED <<look, walk>>
  <1>1. CASE Move(w)
    BY <1>1, MoveEffect DEF history, WritersInv
  <1>2. CASE Return(w)
    BY <1>2 DEF Return, trie
  <1> QED
    BY <1>1, <1>2

(* Whatever a writer does, the lookups stand where they may stand. *)
LEMMA LookWriters ==
  ASSUME WritersInv, LookInv,
         \/ \E w \in Writers, p \in Routes, v \in {ops + 1, Nil} : Begin(w, p, v)
         \/ \E w \in Writers : Move(w) \/ Return(w)
         \/ UNCHANGED <<trie, job, look, ops, history>>
  PROVE  LookInv'
  <1>1. ASSUME NEW w \in Writers, NEW p \in Routes, NEW v \in {ops + 1, Nil}, Begin(w, p, v)
        PROVE  LookInv'
    <2>1. /\ look' = [r \in Readers |-> [look[r] EXCEPT !.kept = @ \ {p}]]
          /\ settled' = settled \ {p} /\ nodes' = nodes /\ dead' = dead
      BY <1>1, Zenon DEF Begin, trie
    <2>2. ASSUME NEW r \in Readers
          PROVE  look'[r] \in Looks /\ (look'[r].pc # "idle" => OnLook(look[r])')
      <3>1. PICK l, K, m : l = look[r] /\ K = l.kept \ {p} /\ m = [l EXCEPT !.kept = K]
        BY Zenon
      <3>2. l \in Looks /\ look'[r] = m /\ K \subseteq l.kept
        BY <2>1, <3>1 DEF LookInv
      <3>3. m \in Looks /\ m.pc = l.pc
        BY <3>1, <3>2, Zenon DEF Looks
      <3>4. ASSUME l.pc # "idle" PROVE OnLook(m)'
        <4>1. OnLook(l)
          BY <3>1, <3>4 DEF LookInv
        <4>2. K \subseteq settled'
          BY <2>1, <3>1, <4>1 DEF OnLook
        <4> QED
          <5>1. nodes \subseteq nodes' /\ dead \subseteq dead' /\ K \in SUBSET l.kept
            BY <2>1, <3>2
          <5> QED
            BY <3>1, <3>2, <4>1, <4>2, <5>1, LookFrame
      <3> QED
        BY <3>2, <3>3, <3>4, Zenon DEF OnLook, Covers
    <2>3. look' \in [Readers -> Looks]
      BY <2>1, <2>2, Zenon
    <2> QED
      BY <2>2, <2>3, Zenon DEF LookInv
  <1>2. ASSUME look' = look, nodes \subseteq nodes', dead \subseteq dead', settled \subseteq settled'
        PROVE  LookInv'
    BY <1>2 DEF LookInv, OnLook, Covers
  <1>3. ASSUME NEW w \in Writers, Move(w) \/ Return(w) PROVE LookInv'
    BY <1>2, <1>3, WritersGrow
  <1>4. ASSUME UNCHANGED <<trie, job, look, ops, history>> PROVE LookInv'
    BY <1>2, <1>4 DEF trie, history
  <1> QED
    BY <1>1, <1>3, <1>4
(* A step of one lookup leaves the others where they are. *)
LEMMA LookSet ==
  ASSUME LookInv, UNCHANGED <<trie, history>>, NEW r \in Readers, NEW m \in Looks,
         look' = [look EXCEPT ![r] = m], m.pc # "idle" => OnLook(m)
  PROVE  LookInv'
  <1>1. look' \in [Readers -> Looks] /\ look'[r] = m /\ \A q \in Readers \ {r} : look'[q] = look[q]
    BY DEF LookInv
  <1>2. UNCHANGED <<nodes, dead, settled>>
    BY DEF trie, history
  <1>3. ASSUME NEW q \in Readers, look'[q].pc # "idle" PROVE OnLook(look[q])'
    <2>1. PICK l : l = look'[q] /\ OnLook(l)
      BY <1>1, <1>3 DEF LookInv
    <2> QED
      BY <1>2, <2>1, Zenon DEF OnLook, Covers
  <1> QED
    BY <1>1, <1>3, Zenon DEF LookInv

(* A lookup begins at the root with nothing passed. *)
LEMMA LookBegins ==
  ASSUME WritersInv, LookInv, NEW r \in Readers, NEW ip \in Addresses, Route(r, ip)
  PROVE  LookInv'
  <1> DEFINE root == <<ip[1]>>
             kept == {p \in settled : OnWayTo(p, ip)}
             m == [NoLook EXCEPT !.pc = "leaf", !.ip = ip, !.at = root, !.kept = kept, !.gone = dead]
  <1>1. NoLook \in Looks /\ NoLook.best = Nil /\ NoLook.final = FALSE
    BY DEF NoLook, Looks
  <1>2. root \in AllNodes /\ root \in nodes /\ Len(root) = 1 /\ Below(root, ip) /\ ip \in AllNodes
    BY Roots, AddressesAssumption DEF WritersInv, PathInv, TrieShape
  <1>3. kept \in SUBSET Routes /\ dead \in SUBSET Values /\ Nil \notin dead
    BY SettledNode, DeadValues
  <1>4. \A p \in kept : p \in settled /\ Below(p, ip) /\ Len(p) \in Nat \ {0}
    <2> TAKE p \in kept
    <2>1. p \in settled /\ p \in AllNodes /\ OnWayTo(p, ip)
      BY SettledNode
    <2> QED
      BY <1>2, <2>1, BelowPrefix, NodeShape
  <1>5. Len(ip) > 1
    <2>1. Depth(ip) = Bits(ip[1]) /\ ip[1] \in {"v4", "v6"} /\ Len(ip) \in Nat
      BY <1>2, AddressesAssumption, NodeShape
    <2> QED
      BY <2>1, TrieAssumption DEF Depth, Bits
  <1> HIDE DEF root, kept
  <1>6. m \in Looks
    BY <1>1, <1>2, <1>3, Zenon DEF Looks
  <1>7. /\ m.pc = "leaf" /\ m.ip = ip /\ m.at = root /\ m.kept = kept /\ m.gone = dead
        /\ m.best = Nil /\ m.final = FALSE
    BY <1>1 DEF Looks
  <1>8. look' = [look EXCEPT ![r] = m] /\ UNCHANGED <<trie, history>>
    BY Zenon DEF Route, root, kept
  <1> HIDE DEF m
  <1>9. OnLook(m)
    <2>1. \A p \in kept : p \in settled /\ Below(p, ip) /\ ~(Len(p) < Len(root))
      BY <1>2, <1>4
    <2>2. Len(root) < Len(ip) /\ ~m.final
      BY <1>2, <1>5, <1>7
    <2> QED
      BY Zenon, <1>2, <1>3, <1>7, <2>1, <2>2 DEF OnLook
  <1> QED
    BY ZenonT(30), <1>6, <1>8, <1>9, LookSet

(* A lookup that checked its node has found every kept prefix up to there. *)
LEMMA AfterCheckOn ==
  ASSUME NEW l \in Looks, l.pc \in {"leaf", "target"}, OnLook(l),
         \A p \in l.kept : Len(p) = Len(l.at) => Covers(l, p)
  PROVE  AfterCheck(l) \in Looks /\ OnLook(AfterCheck(l))
  <1> DEFINE c == IF l.final THEN "done" ELSE "child"
             m == [l EXCEPT !.pc = c]
  <1>1. AfterCheck(l) = m
    BY DEF AfterCheck
  <1>2. m \in Looks
    BY Zenon DEF Looks
  <1>3. /\ m.ip = l.ip /\ m.at = l.at /\ m.kept = l.kept /\ m.gone = l.gone
        /\ m.best = l.best /\ m.from = l.from /\ m.final = l.final
    BY DEF Looks
  <1>4. m.pc = c /\ (c = "done" => l.final) /\ (c = "child" => ~l.final)
    BY DEF Looks
  <1> HIDE DEF m, c
  <1>5. \A p : Covers(m, p) <=> Covers(l, p)
    BY <1>3 DEF Covers
  <1>6. OnLook(m)
    BY <1>3, <1>4, <1>5 DEF OnLook
  <1> QED
    BY <1>1, <1>2, <1>6

(* At a prefix that stays, a lookup finds the flag and the target set. *)
LEMMA AtKept ==
  ASSUME WritersInv, NEW l \in Looks, OnLook(l), NEW p \in l.kept, Len(p) = Len(l.at)
  PROVE  leaf[l.at] /\ target[l.at] # Nil
  <1>1. p \in AllNodes /\ leaf[p] /\ target[p] # Nil
    BY SettledNode DEF OnLook
  <1>2. l.ip \in AllNodes /\ l.at \in AllNodes /\ Below(p, l.ip) /\ Below(l.at, l.ip)
    BY AddressesAssumption DEF OnLook, WritersInv, PathInv, TrieTypes
  <1>3. p = l.at
    <2>1. Len(p) \in Nat /\ Len(l.at) \in Nat
      BY <1>1, <1>2, NodeShape
    <2>2. Below(p, l.at)
      BY <1>1, <1>2, <2>1, BelowOrder
    <2> QED
      BY <1>1, <1>2, <2>2, SameNode
  <1> QED
    BY <1>1, <1>3

(* The three steps of a lookup at a node: it loads the flag, *)
LEMMA LookLeafOn ==
  ASSUME WritersInv, LookInv, NEW r \in Readers, LookLeaf(r), UNCHANGED <<trie, history>>
  PROVE  LookInv'
  <1>1. PICK l : l = look[r] /\ l.pc = "leaf" /\ l \in Looks /\ OnLook(l)
    BY DEF LookLeaf, LookInv
  <1>2. CASE leaf[l.at]
    <2> DEFINE m == [l EXCEPT !.pc = "target"]
    <2>1. look' = [look EXCEPT ![r] = m]
      BY <1>1, <1>2 DEF LookLeaf
    <2>2. m \in Looks
      BY <1>1, Zenon DEF Looks
    <2>3. /\ m.ip = l.ip /\ m.at = l.at /\ m.kept = l.kept /\ m.gone = l.gone /\ m.pc = "target"
          /\ m.best = l.best /\ m.from = l.from /\ m.final = l.final
      BY <1>1 DEF Looks
    <2> HIDE DEF m
    <2>4. \A p : Covers(m, p) <=> Covers(l, p)
      BY <2>3 DEF Covers
    <2>5. OnLook(m)
      BY <1>1, <2>3, <2>4 DEF OnLook
    <2> QED
      BY Zenon, <2>1, <2>2, <2>5, LookSet
  <1>3. CASE ~leaf[l.at]
    <2>1. look' = [look EXCEPT ![r] = AfterCheck(l)]
      BY <1>1, <1>3 DEF LookLeaf
    <2>2. AfterCheck(l) \in Looks /\ OnLook(AfterCheck(l))
      BY <1>1, <1>3, AtKept, AfterCheckOn
    <2> QED
      BY Zenon, <2>1, <2>2, LookSet
  <1> QED
    BY <1>2, <1>3

(* it loads the target, *)
LEMMA LookTargetOn ==
  ASSUME WritersInv, LookInv, NEW r \in Readers, LookTarget(r), UNCHANGED <<trie, history>>
  PROVE  LookInv'
  <1>1. PICK l : l = look[r] /\ l.pc = "target" /\ l \in Looks /\ OnLook(l)
    BY SMTT(30) DEF LookTarget, LookInv
  <1>2. CASE target[l.at] = Nil
    <2>1. look' = [look EXCEPT ![r] = AfterCheck(l)]
      BY <1>1, <1>2 DEF LookTarget
    <2>2. AfterCheck(l) \in Looks /\ OnLook(AfterCheck(l))
      BY <1>1, <1>2, AtKept, AfterCheckOn
    <2> QED
      BY ZenonT(30), <2>1, <2>2, LookSet
  <1>3. CASE target[l.at] # Nil
    <2> DEFINE m == [l EXCEPT !.best = target[l.at], !.from = l.at]
    <2>1. look' = [look EXCEPT ![r] = AfterCheck(m)]
      BY <1>1, <1>3 DEF LookTarget
    <2>2. /\ l.at \in AllNodes /\ target[l.at] \in Values /\ target[l.at] \notin dead
          /\ Len(l.at) \in Nat /\ \A p \in l.kept : Len(p) \in Nat
      BY <1>1, <1>3, SettledNode, NodeShape DEF OnLook, WritersInv, PathInv, TrieTypes, DeadInv
    <2>3. m \in Looks
      BY <1>1, <2>2, Zenon DEF Looks
    <2>4. /\ m.ip = l.ip /\ m.at = l.at /\ m.kept = l.kept /\ m.gone = l.gone /\ m.pc = "target"
          /\ m.best = target[l.at] /\ m.from = l.at /\ m.final = l.final
      BY <1>1 DEF Looks
    <2> HIDE DEF m
    <2>5. \A p \in l.kept : Len(p) <= Len(l.at) => Covers(m, p)
      BY SMTT(30), <1>3, <2>2, <2>4 DEF Covers
    <2>6. OnLook(m)
      BY SMTT(30), <1>1, <2>2, <2>4, <2>5 DEF OnLook
    <2>7. AfterCheck(m) \in Looks /\ OnLook(AfterCheck(m))
      BY SMTT(30), <2>2, <2>3, <2>4, <2>5, <2>6, AfterCheckOn
    <2> QED
      BY Zenon, <2>1, <2>7, LookSet
  <1> QED
    BY <1>2, <1>3

(* and it goes down to the child on the way to its address, if there is one. *)
LEMMA LookChildOn ==
  ASSUME WritersInv, LookInv, NEW r \in Readers, LookChild(r, Bits(look[r].ip[1])),
         UNCHANGED <<trie, history>>
  PROVE  LookInv'
  <1>1. PICK l : l = look[r] /\ l.pc = "child" /\ l \in Looks /\ OnLook(l)
    BY DEF LookChild, LookInv
  <1> DEFINE next == Child(l.at, l.ip)
  <1>2. /\ l.ip \in AllNodes /\ l.at \in AllNodes /\ Below(l.at, l.ip) /\ ~l.final
        /\ Len(l.at) < Len(l.ip) /\ Len(l.at) \in Nat /\ Len(l.ip) \in Nat
        /\ Depth(l.ip) = Bits(l.ip[1])
    <2>1. /\ l.ip \in Addresses /\ l.at \in nodes /\ nodes \subseteq AllNodes
          /\ Below(l.at, l.ip) /\ ~l.final /\ Len(l.at) < Len(l.ip)
      BY Zenon, <1>1 DEF OnLook, WritersInv, PathInv, TrieTypes
    <2>2. l.ip \in AllNodes /\ l.at \in AllNodes /\ Depth(l.ip) = Bits(l.ip[1])
      BY <2>1, AddressesAssumption
    <2> QED
      BY <2>1, <2>2, NodeShape
  <1>3. /\ next \in AllNodes /\ Len(next) = Len(l.at) + 1 /\ Below(next, l.ip)
    BY <1>2, NextNode
  <1>4. ASSUME NEW p \in l.kept
        PROVE  /\ p \in AllNodes /\ p \in nodes /\ Below(p, l.ip) /\ Len(p) \in Nat /\ Len(p) <= Len(l.ip)
               /\ Len(p) <= Len(l.at) => Covers(l, p)
    <2>1. p \in AllNodes /\ p \in nodes /\ Below(p, l.ip) /\ Len(p) \in Nat
      BY <1>1, SettledNode, NodeShape DEF OnLook
    <2> QED
      BY <1>1, <1>2, <2>1 DEF OnLook, Below
  <1> HIDE DEF next
  <1>5. CASE next \in nodes
    <2> DEFINE f == Len(next) = Len(l.ip)
               m == [l EXCEPT !.at = next, !.pc = "leaf", !.final = f]
    <2>1. look' = [look EXCEPT ![r] = m]
      <3>1. (Depth(next) = Bits(l.ip[1])) = f
        BY <1>2, <1>3 DEF Depth
      <3> QED
        BY Zenon, <1>1, <1>5, <3>1 DEF LookChild, next
    <2>2. f \in BOOLEAN
      OBVIOUS
    <2>3. f <=> Len(next) = Len(l.ip)
      OBVIOUS
    <2> HIDE DEF f
    <2>4. m \in Looks
      BY <1>1, <1>3, <2>2, Zenon DEF Looks
    <2>5. /\ m.ip = l.ip /\ m.at = next /\ m.kept = l.kept /\ m.gone = l.gone /\ m.pc = "leaf"
          /\ m.best = l.best /\ m.from = l.from /\ m.final = f
      BY <1>1 DEF Looks
    <2> HIDE DEF m
    <2>6. \A p : Covers(m, p) <=> Covers(l, p)
      BY <2>5 DEF Covers
    <2>7. ~f => Len(next) < Len(l.ip)
      BY <1>2, <1>3, <2>3
    <2>8. \A p \in l.kept : /\ f => Len(p) <= Len(next)
                            /\ Len(p) < Len(next) => Covers(m, p)
      BY <1>2, <1>3, <1>4, <2>3, <2>6
    <2>9. OnLook(m)
      <3>1. /\ l.ip \in Addresses /\ l.gone \subseteq dead /\ l.best \notin l.gone
            /\ l.best # Nil => l.from \in AllNodes /\ Below(l.from, l.ip)
            /\ l.kept \subseteq settled
        BY Zenon, <1>1 DEF OnLook
      <3> QED
        BY ZenonT(30), <1>3, <1>4, <1>5, <2>5, <2>7, <2>8, <3>1 DEF OnLook
    <2> QED
      BY Zenon, <2>1, <2>4, <2>9, LookSet
  <1>6. CASE next \notin nodes
    <2> DEFINE m == [l EXCEPT !.pc = "leaf", !.final = TRUE]
    <2>1. look' = [look EXCEPT ![r] = m]
      BY <1>1, <1>6 DEF LookChild, next
    <2>2. m \in Looks
      BY <1>1, Zenon DEF Looks
    <2>3. /\ m.ip = l.ip /\ m.at = l.at /\ m.kept = l.kept /\ m.gone = l.gone /\ m.pc = "leaf"
          /\ m.best = l.best /\ m.from = l.from /\ m.final = TRUE
      BY <1>1 DEF Looks
    <2> HIDE DEF m
    <2>4. \A p : Covers(m, p) <=> Covers(l, p)
      BY <2>3 DEF Covers
    <2>5. ASSUME NEW p \in l.kept PROVE Len(p) <= Len(l.at)
      <3>1. ~Below(next, p)
        BY <1>3, <1>4, <1>6 DEF WritersInv, PathInv, TrieShape
      <3>2. ~(Len(next) <= Len(p))
        BY <1>2, <1>3, <1>4, <3>1, BelowOrder
      <3> QED
        BY SMTT(30), <1>2, <1>3, <1>4, <3>2
    <2>6. OnLook(m)
      BY ZenonT(30), <1>1, <2>3, <2>4, <2>5 DEF OnLook
    <2> QED
      BY ZenonT(30), <2>1, <2>2, <2>6, LookSet
  <1> QED
    BY <1>5, <1>6

(* Every step keeps LookInv. *)
LEMMA LookStep == WritersInv /\ LookInv /\ [Next]_vars => LookInv'
  <1> SUFFICES ASSUME WritersInv, LookInv, [Next]_vars PROVE LookInv'
    OBVIOUS
  <1>1. ASSUME Lookups PROVE LookInv'
    <2>1. PICK r \in Readers : \/ \E ip \in Addresses : Route(r, ip)
                               \/ Lookup(r, "v4") \/ Lookup(r, "v6") \/ Routed(r)
      BY <1>1 DEF Lookups
    <2>2. UNCHANGED <<trie, history>>
      BY <1>1, Zenon DEF Lookups
    <2>3. ASSUME NEW tree, Lookup(r, tree) PROVE LookInv'
      <3>1. LookLeaf(r) \/ LookTarget(r) \/ LookChild(r, Bits(look[r].ip[1]))
        BY <2>3, Zenon DEF Lookup
      <3> QED
        BY SMTT(30), <2>2, <3>1, LookLeafOn, LookTargetOn, LookChildOn
    <2>4. CASE Routed(r)
      <3>1. NoLook \in Looks /\ NoLook.pc = "idle"
        BY DEF NoLook, Looks
      <3>2. look' = [look EXCEPT ![r] = NoLook]
        BY <2>4 DEF Routed
      <3> QED
        BY Zenon, <2>2, <3>1, <3>2, LookSet
    <2> QED
      BY <2>1, <2>3, <2>4, LookBegins
  <1>2. ASSUME Walks \/ UNCHANGED vars PROVE UNCHANGED <<trie, job, look, ops, history>>
    BY <1>2, Zenon DEF Walks, vars
  <1>3. Begins => \E w \in Writers, p \in Routes, v \in {ops + 1, Nil} : Begin(w, p, v)
    BY Zenon DEF Begins
  <1> QED
    BY SMTT(30), <1>1, <1>2, <1>3, LookWriters, NextSteps

-------------------------------------------------------------------------------
Steps == {"leaf", "target", "zero", "one"}
Frames == AllNodes \X Steps
Ranges == [pc : {"idle", "run"}, stack : Seq(Frames), keys : SUBSET (AllNodes \X Values),
           kept : SUBSET Routes, gone : SUBSET Values]

(* The pending call e of collectRoutes still comes to p. *)
Pending(e, p) ==
  /\ Below(e[1], p)
  /\ e[2] \in {"zero", "one"} => e[1] # p
  /\ e[2] = "one" => p[Len(e[1]) + 1] = 1

Listed(u, p) == \E e \in u.keys : e[1] = p
Awaited(u, p) == \E i \in 1..Len(u.stack) : Pending(u.stack[i], p)

OnRange(u) ==
  /\ u.kept \subseteq settled /\ u.gone \subseteq dead
  /\ \A e \in u.keys : e[2] \notin u.gone
  /\ \A p \in u.kept : Depth(p) < MaxDepth => Listed(u, p) \/ Awaited(u, p)

RangeInv ==
  /\ walk \in [Walkers -> Ranges]
  /\ \A k \in Walkers : OnRange(walk[k])

(* A step of one traversal leaves the others where they are. *)
LEMMA RangeSet ==
  ASSUME RangeInv, UNCHANGED <<trie, history>>, NEW k \in Walkers, NEW m \in Ranges,
         walk' = [walk EXCEPT ![k] = m], OnRange(m)
  PROVE  RangeInv'
  <1>1. walk' \in [Walkers -> Ranges] /\ walk'[k] = m /\ \A q \in Walkers \ {k} : walk'[q] = walk[q]
    BY DEF RangeInv
  <1>2. UNCHANGED <<dead, settled>>
    BY DEF history
  <1>3. ASSUME NEW q \in Walkers PROVE OnRange(walk[q])'
    <2>1. PICK u : u = walk'[q] /\ OnRange(u)
      BY <1>1 DEF RangeInv
    <2> QED
      BY <1>2, <2>1, Zenon DEF OnRange, Listed, Awaited
  <1> QED
    BY <1>1, <1>3, Zenon DEF RangeInv

(* Whatever a writer does, the traversals stand where they may stand. *)
LEMMA RangeWriters ==
  ASSUME WritersInv, RangeInv,
         \/ \E w \in Writers, p \in Routes, v \in {ops + 1, Nil} : Begin(w, p, v)
         \/ \E w \in Writers : Move(w) \/ Return(w)
         \/ UNCHANGED <<trie, job, walk, ops, history>>
  PROVE  RangeInv'
  <1>1. ASSUME NEW w \in Writers, NEW p \in Routes, NEW v \in {ops + 1, Nil}, Begin(w, p, v)
        PROVE  RangeInv'
    <2>1. /\ walk' = [k \in Walkers |-> [walk[k] EXCEPT !.kept = @ \ {p}]]
          /\ settled' = settled \ {p} /\ dead' = dead
      BY <1>1, Zenon DEF Begin
    <2>2. ASSUME NEW k \in Walkers
          PROVE  walk'[k] \in Ranges /\ OnRange(walk[k])'
      <3>1. PICK u, K, m : u = walk[k] /\ K = u.kept \ {p} /\ m = [u EXCEPT !.kept = K]
        BY Zenon
      <3>2. u \in Ranges /\ walk'[k] = m /\ K \subseteq u.kept
        BY <2>1, <3>1 DEF RangeInv
      <3>3. m \in Ranges
        BY <3>1, <3>2, Zenon DEF Ranges
      <3>4. m.pc = u.pc /\ m.stack = u.stack /\ m.keys = u.keys /\ m.gone = u.gone /\ m.kept = K
        BY <3>1, <3>2, Zenon DEF Ranges
      <3>5. OnRange(m)'
        <4>1. OnRange(u)
          BY <3>1 DEF RangeInv
        <4>2. \A q : (Listed(m, q) <=> Listed(u, q)) /\ (Awaited(m, q) <=> Awaited(u, q))
          BY <3>4, Zenon DEF Listed, Awaited
        <4> QED
          BY Zenon, <2>1, <3>1, <3>4, <4>1, <4>2 DEF OnRange
      <3> QED
        BY <3>2, <3>3, <3>4, <3>5, Zenon DEF OnRange, Listed, Awaited
    <2>3. walk' \in [Walkers -> Ranges]
      BY <2>1, <2>2, Zenon
    <2> QED
      BY <2>2, <2>3, Zenon DEF RangeInv
  <1>2. ASSUME walk' = walk, dead \subseteq dead', settled \subseteq settled' PROVE RangeInv'
    BY <1>2 DEF RangeInv, OnRange, Listed, Awaited
  <1>3. ASSUME NEW w \in Writers, Move(w) \/ Return(w) PROVE RangeInv'
    BY <1>2, <1>3, WritersGrow
  <1>4. ASSUME UNCHANGED <<trie, job, walk, ops, history>> PROVE RangeInv'
    BY <1>2, <1>4 DEF trie, history
  <1> QED
    BY <1>1, <1>3, <1>4

(* The top of the stack is replaced by front. *)
LEMMA OnTop ==
  ASSUME NEW s \in Seq(Frames), s # <<>>, NEW front \in Seq(Frames)
  PROVE  /\ front \o Tail(s) \in Seq(Frames)
         /\ \A i \in 1..Len(s) : i # 1 =>
              \E j \in 1..Len(front \o Tail(s)) : (front \o Tail(s))[j] = s[i]
         /\ \A i \in 1..Len(front) :
              i \in 1..Len(front \o Tail(s)) /\ (front \o Tail(s))[i] = front[i]
  <1> DEFINE t == Tail(s)
             new == front \o t
  <1>1. /\ t \in Seq(Frames) /\ Len(t) = Len(s) - 1 /\ Len(s) \in Nat
        /\ \A i \in 1..Len(s) : i # 1 => i - 1 \in 1..Len(t) /\ t[i - 1] = s[i]
    OBVIOUS
  <1> HIDE DEF t
  <1>2. /\ new \in Seq(Frames) /\ Len(new) = Len(front) + Len(t) /\ Len(front) \in Nat /\ Len(t) \in Nat
        /\ \A i \in 1..Len(front) : new[i] = front[i]
        /\ \A i \in 1..Len(t) : new[Len(front) + i] = t[i]
    <2>1. /\ new \in Seq(Frames) /\ Len(new) = Len(front) + Len(t)
          /\ \A i \in 1..Len(front) + Len(t) :
               new[i] = IF i <= Len(front) THEN front[i] ELSE t[i - Len(front)]
      BY <1>1
    <2>2. Len(front) \in Nat /\ Len(t) \in Nat
      BY <1>1
    <2> HIDE DEF new
    <2>3. ASSUME NEW i \in 1..Len(t) PROVE new[Len(front) + i] = t[i]
      <3> DEFINE j == Len(front) + i
      <3>1. j \in 1..Len(front) + Len(t) /\ ~(j <= Len(front)) /\ j - Len(front) = i
        BY <2>2
      <3> HIDE DEF j
      <3>2. new[j] = t[j - Len(front)]
        BY <2>1, <3>1, Zenon
      <3> QED
        BY <3>1, <3>2 DEF j
    <2>4. \A i \in 1..Len(front) : i \in 1..Len(front) + Len(t) /\ i <= Len(front)
      BY <2>2
    <2> QED
      BY SMTT(30), <2>1, <2>2, <2>3, <2>4
  <1> HIDE DEF new
  <1>3. ASSUME NEW i \in 1..Len(s), i # 1 PROVE \E j \in 1..Len(new) : new[j] = s[i]
    <2> DEFINE j == Len(front) + (i - 1)
    <2>1. j \in 1..Len(new) /\ new[j] = s[i]
      BY <1>1, <1>2, <1>3
    <2> QED
      BY <2>1
  <1>4. \A i \in 1..Len(front) : i \in 1..Len(new) /\ new[i] = front[i]
    BY <1>2
  <1> QED
    BY <1>2, <1>3, <1>4 DEF new, t

(* A traversal that replaces its top frame loses no route, if what the frame*)
(* would come to is listed or still ahead.                                  *)
LEMMA RangeMoves ==
  ASSUME RangeInv, UNCHANGED <<trie, history>>, NEW k \in Walkers, NEW u, u = walk[k],
         u.pc = "run", u.stack # <<>>,
         NEW front \in Seq(Frames), NEW keys \in SUBSET (AllNodes \X Values), u.keys \subseteq keys,
         \A e \in keys : e[2] \notin u.gone,
         walk' = [walk EXCEPT ![k] = [u EXCEPT !.stack = front \o Tail(u.stack), !.keys = keys]],
         \A p \in u.kept : Depth(p) < MaxDepth /\ Pending(Head(u.stack), p) =>
           (\E e \in keys : e[1] = p) \/ \E i \in 1..Len(front) : Pending(front[i], p)
  PROVE  RangeInv'
  <1>1. u \in Ranges /\ OnRange(u) /\ u.stack \in Seq(Frames)
    BY DEF RangeInv, Ranges
  <1> DEFINE new == front \o Tail(u.stack)
             m == [u EXCEPT !.stack = new, !.keys = keys]
  <1>2. /\ new \in Seq(Frames)
        /\ \A i \in 1..Len(u.stack) : i # 1 => \E j \in 1..Len(new) : new[j] = u.stack[i]
        /\ \A i \in 1..Len(front) : i \in 1..Len(new) /\ new[i] = front[i]
    BY Zenon, <1>1, OnTop
  <1>3. Head(u.stack) = u.stack[1]
    BY <1>1
  <1> HIDE DEF new
  <1>4. m \in Ranges
    BY <1>1, <1>2, Zenon DEF Ranges
  <1>5. m.stack = new /\ m.keys = keys /\ m.kept = u.kept /\ m.gone = u.gone
    BY <1>1, Zenon DEF Ranges
  <1>6. walk' = [walk EXCEPT ![k] = m]
    BY DEF new
  <1> HIDE DEF m
  <1>7. ASSUME NEW p \in u.kept, Depth(p) < MaxDepth PROVE Listed(m, p) \/ Awaited(m, p)
    <2>1. CASE Listed(u, p)
      BY <1>5, <2>1 DEF Listed
    <2>2. ASSUME NEW i \in 1..Len(u.stack), Pending(u.stack[i], p), i # 1 PROVE Awaited(m, p)
      BY <1>2, <1>5, <2>2 DEF Awaited
    <2>3. CASE Pending(Head(u.stack), p)
      BY SMTT(30), <1>2, <1>5, <1>7, <2>3 DEF Awaited, Listed
    <2> QED
      BY SMTT(30), <1>1, <1>3, <1>7, <2>1, <2>2, <2>3 DEF OnRange, Awaited
  <1>8. OnRange(m)
    BY <1>1, <1>5, <1>7 DEF OnRange
  <1> QED
    BY Zenon, <1>4, <1>6, <1>8, RangeSet

(* A traversal begins with everything ahead. *)
LEMMA RangeBegins ==
  ASSUME WritersInv, RangeInv, NEW k \in Walkers, RangeRoutes(k)
  PROVE  RangeInv'
  <1> DEFINE s == <<<<<<"v4">>, "leaf">>, <<<<"v6">>, "leaf">>>>
             m == [NoWalk EXCEPT !.pc = "run", !.kept = settled, !.gone = dead, !.stack = s]
  <1>1. s \in Seq(Frames) /\ Len(s) = 2 /\ s[1] = <<<<"v4">>, "leaf">> /\ s[2] = <<<<"v6">>, "leaf">>
    <2>1. <<<<"v4">>, "leaf">> \in Frames /\ <<<<"v6">>, "leaf">> \in Frames
      BY RootNodes DEF Frames, Steps
    <2> QED
      BY <2>1
  <1>2. NoWalk \in Ranges /\ NoWalk.keys = {}
    BY DEF NoWalk, Ranges
  <1>3. settled \in SUBSET Routes /\ dead \in SUBSET Values
    BY SettledNode, DeadValues
  <1>4. \A p \in settled : Below(<<"v4">>, p) \/ Below(<<"v6">>, p)
    <2> TAKE p \in settled
    <2>1. p \in AllNodes
      BY SettledNode
    <2>2. Below(<<p[1]>>, p) /\ p[1] \in {"v4", "v6"}
      BY <2>1, Roots, NodeShape
    <2> QED
      BY <2>2
  <1>5. walk' = [walk EXCEPT ![k] = m] /\ UNCHANGED <<trie, history>>
    BY Zenon DEF RangeRoutes
  <1> HIDE DEF s
  <1>6. m \in Ranges
    BY <1>1, <1>2, <1>3, Zenon DEF Ranges
  <1>7. m.pc = "run" /\ m.kept = settled /\ m.gone = dead /\ m.stack = s /\ m.keys = {}
    BY <1>2, Zenon DEF Ranges
  <1> HIDE DEF m
  <1>8. ASSUME NEW p \in settled PROVE Awaited(m, p)
    <2>1. 1 \in 1..Len(s) /\ 2 \in 1..Len(s)
      BY <1>1
    <2>2. CASE Below(<<"v4">>, p)
      <3>1. Pending(s[1], p)
        BY <1>1, <2>2 DEF Pending
      <3> QED
        BY <1>7, <2>1, <3>1 DEF Awaited
    <2>3. CASE Below(<<"v6">>, p)
      <3>1. Pending(s[2], p)
        BY <1>1, <2>3 DEF Pending
      <3> QED
        BY <1>7, <2>1, <3>1 DEF Awaited
    <2> QED
      BY <1>4, <2>2, <2>3
  <1>9. OnRange(m)
    BY <1>7, <1>8 DEF OnRange
  <1> QED
    BY Zenon, <1>5, <1>6, <1>9, RangeSet

(* What remains of the way to p below n. *)
LEMMA WayDown ==
  ASSUME WritersInv, NEW n \in AllNodes, NEW p \in settled, Below(n, p), n # p
  PROVE  \E b \in {0, 1} : /\ p[Len(n) + 1] = b /\ Append(n, b) \in AllNodes /\ Append(n, b) \in nodes
                           /\ Below(Append(n, b), p)
  <1>1. p \in AllNodes /\ p \in nodes
    BY SettledNode
  <1>2. Len(n) < Len(p)
    BY <1>1, BelowOrder
  <1>3. /\ Child(n, p) \in AllNodes /\ Below(Child(n, p), p)
        /\ p[Len(n) + 1] \in {0, 1} /\ Child(n, p) = Append(n, p[Len(n) + 1])
    BY <1>1, <1>2, NextNode
  <1>4. Child(n, p) \in nodes
    BY <1>1, <1>3 DEF WritersInv, PathInv, TrieShape
  <1> QED
    BY <1>3, <1>4

(* A linked child gets a frame of its own. *)
LEMMA DescendFrames ==
  ASSUME WritersInv, NEW n \in AllNodes, NEW b \in {0, 1}
  PROVE  /\ Descend(n, b) \in Seq(Frames)
         /\ Append(n, b) \in nodes =>
              Descend(n, b) = <<<<Append(n, b), "leaf">>>> /\ <<Append(n, b), "leaf">> \in Frames
  <1>1. CASE Append(n, b) \in nodes
    <2>1. <<Append(n, b), "leaf">> \in Frames
      BY Zenon, <1>1 DEF Frames, Steps, WritersInv, PathInv, TrieTypes
    <2> QED
      BY <1>1, <2>1 DEF Descend
  <1>2. CASE Append(n, b) \notin nodes
    BY <1>2 DEF Descend
  <1> QED
    BY <1>1, <1>2

(* A step of collectRoutes lists what it passes and keeps the rest ahead. *)
LEMMA CollectOn ==
  ASSUME WritersInv, RangeInv, NEW k \in Walkers, collectRoutes(k)
  PROVE  RangeInv'
  <1>1. PICK u, n, step : u = walk[k] /\ n = Head(u.stack)[1] /\ step = Head(u.stack)[2]
    BY Zenon
  <1>2. /\ u \in Ranges /\ OnRange(u) /\ u.pc = "run" /\ u.stack # <<>> /\ u.stack \in Seq(Frames)
        /\ UNCHANGED <<trie, history>>
    BY Zenon, <1>1 DEF collectRoutes, RangeInv, Ranges
  <1>3. Head(u.stack) \in Frames /\ n \in AllNodes /\ step \in Steps
    BY <1>1, <1>2 DEF Frames
  <1>4. \A p \in u.kept : p \in settled /\ p \in AllNodes /\ leaf[p] /\ target[p] # Nil
    BY <1>2, SettledNode DEF OnRange
  <1>5. \A p : Pending(Head(u.stack), p) <=> Pending(<<n, step>>, p)
    BY <1>1 DEF Pending
  <1>6. u.keys \in SUBSET (AllNodes \X Values) /\ \A e \in u.keys : e[2] \notin u.gone
    BY SMTT(30), <1>2 DEF Ranges, OnRange
  <1>7. ASSUME NEW front \in Seq(Frames),
               walk' = [walk EXCEPT ![k].stack = front \o Tail(u.stack)],
               \A p \in u.kept : Depth(p) < MaxDepth /\ Pending(<<n, step>>, p) =>
                 \E i \in 1..Len(front) : Pending(front[i], p)
        PROVE  RangeInv'
    <2> DEFINE new == front \o Tail(u.stack)
               m == [u EXCEPT !.stack = new]
    <2>1. new \in Seq(Frames)
      BY <1>2, OnTop
    <2> HIDE DEF new
    <2>2. m = [u EXCEPT !.stack = new, !.keys = u.keys]
      BY <1>2, Zenon DEF Ranges
    <2>3. walk' = [walk EXCEPT ![k] = [u EXCEPT !.stack = new, !.keys = u.keys]]
      BY Zenon, <1>1, <1>7, <2>2 DEF new
    <2> QED
      BY ZenonT(30), <1>1, <1>2, <1>5, <1>6, <1>7, <2>3, RangeMoves DEF new
  <1>8. CASE step = "leaf" /\ TooDeep(n) /\ walk' = [walk EXCEPT ![k].stack = Tail(u.stack)]
    <2>1. Tail(u.stack) = <<>> \o Tail(u.stack) /\ <<>> \in Seq(Frames)
      BY <1>2
    <2>2. \A p \in u.kept : ~(Depth(p) < MaxDepth /\ Pending(<<n, step>>, p))
      <3> TAKE p \in u.kept
      <3>1. Len(n) \in Nat /\ Len(p) \in Nat
        BY <1>3, <1>4, NodeShape
      <3> QED
        BY <1>8, <3>1, TrieAssumption DEF TooDeep, Depth, Pending, Below
    <2> QED
      BY Zenon, <1>7, <1>8, <2>1, <2>2
  <1>9. ASSUME NEW next \in Steps, walk' = [walk EXCEPT ![k].stack = <<<<n, next>>>> \o Tail(u.stack)],
               \A p \in u.kept : Pending(<<n, step>>, p) => Pending(<<n, next>>, p)
        PROVE  RangeInv'
    <2> DEFINE front == <<<<n, next>>>>
    <2>1. front \in Seq(Frames) /\ Len(front) = 1 /\ front[1] = <<n, next>>
      BY <1>3 DEF Frames
    <2> HIDE DEF front
    <2>2. \A p \in u.kept : Pending(<<n, step>>, p) => \E i \in 1..Len(front) : Pending(front[i], p)
      BY <1>9, <2>1
    <2> QED
      BY Zenon, <1>7, <1>9, <2>1, <2>2 DEF front
  <1>10. CASE /\ step = "leaf" /\ ~TooDeep(n)
              /\ walk' = [walk EXCEPT ![k].stack =
                           <<<<n, IF leaf[n] THEN "target" ELSE "zero">>>> \o Tail(u.stack)]
    <2>1. CASE leaf[n]
      BY SMTT(30), <1>9, <1>10, <2>1 DEF Pending, Steps
    <2>2. CASE ~leaf[n]
      <3>1. \A p \in u.kept : p # n
        BY <1>4, <2>2
      <3> QED
        BY ZenonT(30), <1>9, <1>10, <2>2, <3>1 DEF Pending, Steps
    <2> QED
      BY <2>1, <2>2
  <1>11. CASE /\ step = "target"
              /\ walk' = [walk EXCEPT ![k].stack = <<<<n, "zero">>>> \o Tail(u.stack),
                           ![k].keys = IF target[n] = Nil THEN @ ELSE @ \cup {<<n, target[n]>>}]
    <2> DEFINE front == <<<<n, "zero">>>>
               keys == IF target[n] = Nil THEN u.keys ELSE u.keys \cup {<<n, target[n]>>}
    <2>1. front \in Seq(Frames) /\ Len(front) = 1 /\ front[1] = <<n, "zero">>
      BY <1>3 DEF Frames, Steps
    <2>2. /\ u.keys \subseteq keys /\ keys \in SUBSET (AllNodes \X Values)
          /\ \A e \in keys : e[2] \notin u.gone
      <3>1. target[n] # Nil => target[n] \in Values /\ target[n] \notin u.gone
        BY SMTT(30), <1>2, <1>3 DEF WritersInv, PathInv, TrieTypes, DeadInv, OnRange
      <3> QED
        BY <1>3, <1>6, <3>1
    <2>3. walk' = [walk EXCEPT ![k] = [u EXCEPT !.stack = front \o Tail(u.stack), !.keys = keys]]
      BY Zenon, <1>1, <1>11, <1>2 DEF RangeInv
    <2>4. ASSUME NEW p \in u.kept, Pending(<<n, step>>, p)
          PROVE  (\E e \in keys : e[1] = p) \/ \E i \in 1..Len(front) : Pending(front[i], p)
      <3>1. CASE p = n
        <4>1. <<n, target[n]>> \in keys
          BY <1>4, <3>1
        <4> QED
          BY <3>1, <4>1
      <3>2. CASE p # n
        <4>1. Pending(<<n, "zero">>, p)
          BY <2>4, <3>2 DEF Pending
        <4> QED
          BY <2>1, <4>1
      <3> QED
        BY <3>1, <3>2
    <2> HIDE DEF front, keys
    <2> QED
      BY Zenon, <1>1, <1>2, <1>5, <2>1, <2>2, <2>3, <2>4, RangeMoves
  <1>12. CASE /\ step = "zero"
              /\ walk' = [walk EXCEPT ![k].stack = Descend(n, 0) \o <<<<n, "one">>>> \o Tail(u.stack)]
    <2> DEFINE front == Descend(n, 0) \o <<<<n, "one">>>>
    <2>1. Descend(n, 0) \in Seq(Frames) /\ <<n, "one">> \in Frames
      BY Zenon, <1>3, DescendFrames DEF Frames, Steps
    <2>2. /\ front \in Seq(Frames) /\ Len(front) = Len(Descend(n, 0)) + 1
          /\ Len(front) \in 1..Len(front) /\ front[Len(front)] = <<n, "one">>
      BY <2>1
    <2>3. ASSUME NEW p \in u.kept, Pending(<<n, step>>, p)
          PROVE  \E i \in 1..Len(front) : Pending(front[i], p)
      <3>1. PICK b \in {0, 1} : /\ p[Len(n) + 1] = b /\ Append(n, b) \in nodes
                                /\ Below(Append(n, b), p)
        BY SMTT(30), <1>3, <1>4, <1>12, <2>3, WayDown DEF Pending
      <3>2. CASE b = 1
        <4>1. Pending(<<n, "one">>, p)
          BY <1>12, <2>3, <3>1, <3>2 DEF Pending
        <4> QED
          BY SMTT(30), <2>2, <4>1
      <3>3. CASE b = 0
        <4>1. Descend(n, 0) = <<<<Append(n, 0), "leaf">>>>
          BY Zenon, <1>3, <3>1, <3>3, DescendFrames
        <4>2. front[1] = <<Append(n, 0), "leaf">> /\ 1 \in 1..Len(front)
          BY <2>1, <2>2, <4>1
        <4>3. Pending(<<Append(n, 0), "leaf">>, p)
          BY <3>1, <3>3 DEF Pending
        <4> QED
          BY Zenon, <4>2, <4>3
      <3> QED
        BY <3>2, <3>3
    <2>4. walk' = [walk EXCEPT ![k].stack = front \o Tail(u.stack)]
      BY <1>12
    <2> HIDE DEF front
    <2> QED
      BY Zenon, <1>7, <2>2, <2>3, <2>4
  <1>13. CASE step = "one" /\ walk' = [walk EXCEPT ![k].stack = Descend(n, 1) \o Tail(u.stack)]
    <2>1. Descend(n, 1) \in Seq(Frames)
      BY Zenon, <1>3, DescendFrames
    <2>2. ASSUME NEW p \in u.kept, Pending(<<n, step>>, p)
          PROVE  \E i \in 1..Len(Descend(n, 1)) : Pending(Descend(n, 1)[i], p)
      <3>1. PICK b \in {0, 1} : /\ p[Len(n) + 1] = b /\ Append(n, b) \in nodes
                                /\ Below(Append(n, b), p)
        BY <1>3, <1>4, <1>13, <2>2, WayDown DEF Pending
      <3>2. b = 1
        BY SMTT(30), <1>13, <2>2, <3>1 DEF Pending
      <3>3. Descend(n, 1) = <<<<Append(n, 1), "leaf">>>>
        BY ZenonT(30), <1>3, <3>1, <3>2, DescendFrames
      <3>4. Pending(<<Append(n, 1), "leaf">>, p)
        BY <3>1, <3>2 DEF Pending
      <3> QED
        BY SMTT(30), <3>3, <3>4
    <2> QED
      BY Zenon, <1>7, <1>13, <2>1, <2>2
  <1> QED
    BY <1>1, <1>8, <1>10, <1>11, <1>12, <1>13, Zenon DEF collectRoutes

(* Every step keeps RangeInv. *)
LEMMA RangeStep == WritersInv /\ RangeInv /\ [Next]_vars => RangeInv'
  <1> SUFFICES ASSUME WritersInv, RangeInv, [Next]_vars PROVE RangeInv'
    OBVIOUS
  <1>1. ASSUME NEW k \in Walkers, Ranged(k) PROVE RangeInv'
    <2>1. NoWalk \in Ranges /\ OnRange(NoWalk)
      BY DEF NoWalk, Ranges, OnRange
    <2>2. walk' = [walk EXCEPT ![k] = NoWalk] /\ UNCHANGED <<trie, history>>
      BY <1>1, Zenon DEF Ranged
    <2> QED
      BY ZenonT(30), <2>1, <2>2, RangeSet
  <1>2. ASSUME Walks PROVE RangeInv'
    BY <1>1, <1>2, RangeBegins, CollectOn DEF Walks
  <1>3. ASSUME Lookups \/ UNCHANGED vars PROVE UNCHANGED <<trie, job, walk, ops, history>>
    BY <1>3, Zenon DEF Lookups, vars
  <1>4. Begins => \E w \in Writers, p \in Routes, v \in {ops + 1, Nil} : Begin(w, p, v)
    BY Zenon DEF Begins
  <1> QED
    BY <1>2, <1>3, <1>4, RangeWriters, NextSteps

RouterIInv == WritersInv /\ LookInv /\ RangeInv

(* All of them hold in an empty trie that nobody reads, *)
LEMMA RouterInit == Init => RouterIInv
  <1> SUFFICES ASSUME Init PROVE RouterIInv
    OBVIOUS
  <1>1. WritersInv
    BY WritersInit, ValueInit DEF WritersInv
  <1>2. LookInv
    <2>1. NoLook \in Looks /\ NoLook.pc = "idle"
      BY DEF NoLook, Looks
    <2> QED
      BY <2>1 DEF Init, LookInv
  <1>3. RangeInv
    <2>1. NoWalk \in Ranges /\ OnRange(NoWalk)
      BY DEF NoWalk, Ranges, OnRange
    <2> QED
      BY <2>1 DEF Init, RangeInv
  <1> QED
    BY <1>1, <1>2, <1>3 DEF RouterIInv

(* and every step keeps them. *)
LEMMA RouterStep == RouterIInv /\ [Next]_vars => RouterIInv'
  BY WritersStep, LookStep, RangeStep DEF RouterIInv

(* What the calls in progress know of the trie, and who may still store a   *)
(* value in it, is kept by every step of Register, UnRegister, Route and    *)
(* RangeRoutes, in any interleaving.                                        *)
THEOREM RouterSafe == Spec => []RouterIInv
  BY RouterInit, RouterStep, PTL DEF Spec

(* Route and RangeRoutes take no lock, and still never hand out a target    *)
(* that was replaced or removed before they began.                          *)
THEOREM NoStaleTarget == Spec => []NoStaleRoute
  <1>1. RouterIInv => NoStaleRoute
    <2> SUFFICES ASSUME RouterIInv PROVE NoStaleRoute
      OBVIOUS
    <2>1. ASSUME NEW r \in Readers, look[r].pc = "done", look[r].best # Nil
          PROVE  look[r].best \notin look[r].gone /\ OnWayTo(look[r].from, look[r].ip)
      <3>1. OnLook(look[r])
        BY <2>1 DEF RouterIInv, LookInv
      <3>2. look[r].from \in AllNodes /\ look[r].ip \in AllNodes /\ Below(look[r].from, look[r].ip)
        BY <2>1, <3>1, AddressesAssumption DEF OnLook
      <3> QED
        BY <3>1, <3>2, BelowPrefix DEF OnLook
    <2>2. ASSUME NEW k \in Walkers, NEW e \in walk[k].keys PROVE e[2] \notin walk[k].gone
      BY DEF RouterIInv, RangeInv, OnRange
    <2> QED
      BY <2>1, <2>2 DEF NoStaleRoute
  <1> QED
    BY <1>1, RouterSafe, PTL

(* A lookup finds the longest of the routes that are in the trie all the    *)
(* while it runs, or a longer one, and a traversal lists each of them down  *)
(* to the depth where collectRoutes gives up, whatever the writers do       *)
(* meanwhile.                                                               *)
THEOREM StableRoutesFound == Spec => []StableRouteFound
  <1>1. RouterIInv => StableRouteFound
    <2> SUFFICES ASSUME RouterIInv PROVE StableRouteFound
      OBVIOUS
    <2>1. ASSUME NEW r \in Readers, look[r].pc = "done", NEW p \in look[r].kept
          PROVE  look[r].best # Nil /\ Len(look[r].from) >= Len(p)
      <3>1. OnLook(look[r])
        BY Zenon, <2>1 DEF RouterIInv, LookInv
      <3>2. p \in AllNodes /\ look[r].at \in AllNodes
        BY <2>1, <3>1, SettledNode DEF OnLook, RouterIInv, WritersInv, PathInv, TrieTypes
      <3>3. Len(p) \in Nat /\ Len(look[r].at) \in Nat
        BY <3>2, NodeShape
      <3> QED
        BY SMTT(30), <2>1, <3>1, <3>3 DEF OnLook, Covers
    <2>2. ASSUME NEW k \in Walkers, walk[k].pc = "run", walk[k].stack = <<>>,
                 NEW p \in walk[k].kept, Depth(p) < MaxDepth
          PROVE  p \in Keys(k)
      <3>1. OnRange(walk[k]) /\ Len(walk[k].stack) = 0
        BY <2>2 DEF RouterIInv, RangeInv
      <3>2. Listed(walk[k], p)
        BY <2>2, <3>1 DEF OnRange, Awaited
      <3> QED
        BY <3>2 DEF Listed, Keys
    <2> QED
      BY <2>1, <2>2 DEF StableRouteFound
  <1> QED
    BY <1>1, RouterSafe, PTL

-------------------------------------------------------------------------------
(* The digest.  The two recursions over the tries, collectMD5 and what a    *)
(* table of hosts writes, have their equations (CollectEquation, Written);  *)
(* on a trie of hosts they write the same (CollectsLive), and what is       *)
(* written tells the tables apart (Unlike).                                 *)
Height(n) == Bits(n[1]) - Depth(n)

LEMMA BitsNat == V4Bits \in Nat \ {0} /\ V6Bits \in Nat \ {0} /\ \A t : Bits(t) \in Nat \ {0}
  BY TrieAssumption DEF Bits

LEMMA HeightNat ==
  ASSUME NEW n \in AllNodes
  PROVE  Height(n) \in 0..(V4Bits + V6Bits) /\ Depth(n) \in Nat /\ Depth(n) <= Bits(n[1])
  <1>1. Len(n) \in Nat \ {0} /\ Len(n) <= Bits(n[1]) + 1
    BY NodeShape
  <1>2. Bits(n[1]) \in Nat /\ Bits(n[1]) <= V4Bits + V6Bits /\ V4Bits + V6Bits \in Nat
    BY TrieAssumption DEF Bits
  <1> QED
    BY <1>1, <1>2 DEF Height, Depth

(* A trie of a family. *)
LEMMA PathsAre ==
  ASSUME NEW t \in {"v4", "v6"}
  PROVE  Paths(t) = {n \in AllNodes : n[1] = t}
  <1>1. ASSUME NEW u \in {"v4", "v6"}, NEW n \in Paths(u) PROVE n[1] = u
    <2>1. PICK c \in 0..Bits(u) : \E b \in [1..c -> {0, 1}] : n = <<u>> \o b
      BY Zenon DEF Paths
    <2>2. PICK b \in [1..c -> {0, 1}] : n = <<u>> \o b
      BY <2>1
    <2>3. c \in Nat /\ b \in Seq({0, 1})
      BY BitsNat
    <2> QED
      BY <2>2, <2>3
  <1> QED
    BY Zenon, <1>1 DEF AllNodes

(* The children of a node. *)
LEMMA ChildNode ==
  ASSUME NEW n \in AllNodes, NEW bit \in {0, 1}
  PROVE  /\ Append(n, bit) \in AllNodes <=> Depth(n) < Bits(n[1])
         /\ Len(Append(n, bit)) = Len(n) + 1 /\ Append(n, bit)[1] = n[1]
         /\ Append(n, bit)[Len(n) + 1] = bit /\ Depth(Append(n, bit)) = Depth(n) + 1
         /\ \A i \in 1..Len(n) : Append(n, bit)[i] = n[i]
  <1> DEFINE Syms == {"v4", "v6", 0, 1}
             c == Append(n, bit)
             t == n[1]
             b == [i \in 1..Len(n) |-> c[i + 1]]
  <1>1. /\ n \in Seq(Syms) /\ Len(n) \in Nat \ {0} /\ t \in {"v4", "v6"} /\ Len(n) <= Bits(t) + 1
        /\ \A i \in 2..Len(n) : n[i] \in {0, 1}
    BY NodeShape
  <1>2. /\ c \in Seq(Syms) /\ Len(c) = Len(n) + 1 /\ c[1] = n[1] /\ c[Len(n) + 1] = bit
        /\ \A i \in 1..Len(n) : c[i] = n[i]
    BY <1>1
  <1>3. Depth(c) = Depth(n) + 1
    BY <1>1, <1>2 DEF Depth
  <1>4. c \in AllNodes => Depth(n) < Bits(t)
    <2>1. c \in AllNodes => Len(c) <= Bits(c[1]) + 1
      BY Zenon, NodeShape
    <2> QED
      BY <1>1, <1>2, <2>1, BitsNat DEF Depth
  <1>5. ASSUME Depth(n) < Bits(t) PROVE c \in AllNodes
    <2> HIDE DEF c, t
    <2>1. \A i \in 1..Len(n) : c[i + 1] \in {0, 1}
      BY <1>1, <1>2
    <2>2. b \in [1..Len(n) -> {0, 1}] /\ b \in Seq({0, 1}) /\ Len(b) = Len(n)
      BY <1>1, <2>1
    <2>3. /\ <<t>> \o b \in Seq(Syms) /\ Len(<<t>> \o b) = Len(n) + 1
          /\ \A i \in 1..(Len(n) + 1) : (<<t>> \o b)[i] = c[i]
      BY <1>1, <1>2, <2>2 DEF t
    <2>4. c = <<t>> \o b
      BY <1>2, <2>3, SeqEqual
    <2>5. Len(n) \in 0..Bits(t)
      BY <1>1, <1>5, BitsNat DEF Depth
    <2> HIDE DEF b
    <2>6. c \in {<<t>> \o x : x \in [1..Len(n) -> {0, 1}]}
      BY Zenon, <2>2, <2>4
    <2>7. c \in Paths(t)
      BY Zenon, <2>5, <2>6 DEF Paths
    <2> QED
      BY Zenon, <1>1, <2>7 DEF AllNodes
  <1> QED
    BY <1>2, <1>3, <1>4, <1>5

LEMMA SeqWithin ==
  ASSUME NEW A, NEW B, NEW s \in Seq(A), \A i \in 1..Len(s) : s[i] \in B
  PROVE  s \in Seq(B)
  OBVIOUS

(* The bits of a node. *)
LEMMA NodeBits ==
  ASSUME NEW n \in AllNodes
  PROVE  /\ Tail(n) \in Seq({0, 1}) /\ Len(Tail(n)) = Depth(n)
         /\ \A i \in 1..Depth(n) : Tail(n)[i] = n[i + 1]
  <1>1. /\ n \in Seq({"v4", "v6", 0, 1}) /\ Len(n) \in Nat \ {0}
        /\ \A i \in 2..Len(n) : n[i] \in {0, 1}
    BY NodeShape
  <1>2. n # <<>>
    BY <1>1
  <1>3. /\ Tail(n) \in Seq({"v4", "v6", 0, 1}) /\ Len(Tail(n)) = Len(n) - 1
        /\ \A i \in 1..(Len(n) - 1) : Tail(n)[i] = n[i + 1]
    BY <1>1, <1>2
  <1>4. \A i \in 1..Len(Tail(n)) : Tail(n)[i] \in {0, 1}
    BY <1>1, <1>3
  <1>5. Tail(n) \in Seq({0, 1})
    BY Zenon, <1>3, <1>4, SeqWithin
  <1> QED
    BY <1>3, <1>5 DEF Depth

(* What collectMD5 writes at a node, given what f writes at its children. *)
OwnBits(n) == IF leaf[n] /\ target[n] # Nil THEN Tail(n) ELSE <<>>
Worth(c) == c \in nodes /\ (leaf[c] \/ Append(c, 0) \in nodes \/ Append(c, 1) \in nodes)
ChildBits(f, n, bit) == IF Worth(Append(n, bit)) THEN f[Append(n, bit)] ELSE <<>>
CollectStep(f, n) ==
  IF Depth(n) >= MaxDepth THEN <<>> ELSE OwnBits(n) \o ChildBits(f, n, 0) \o ChildBits(f, n, 1)

LEMMA CollectType ==
  ASSUME nodes \subseteq AllNodes, NEW n \in AllNodes, NEW f \in [AllNodes -> Seq({0, 1})]
  PROVE  /\ OwnBits(n) \in Seq({0, 1}) /\ ChildBits(f, n, 0) \in Seq({0, 1})
         /\ ChildBits(f, n, 1) \in Seq({0, 1}) /\ CollectStep(f, n) \in Seq({0, 1})
  <1>1. \A bit \in {0, 1} : ChildBits(f, n, bit) \in Seq({0, 1})
    BY DEF ChildBits, Worth
  <1>2. OwnBits(n) \in Seq({0, 1})
    BY NodeBits DEF OwnBits
  <1> QED
    BY <1>1, <1>2 DEF CollectStep

(* It depends on the children only. *)
LEMMA CollectLocal ==
  ASSUME nodes \subseteq AllNodes, NEW n \in AllNodes, NEW f, NEW g,
         \A bit \in {0, 1} : Append(n, bit) \in AllNodes => f[Append(n, bit)] = g[Append(n, bit)]
  PROVE  CollectStep(f, n) = CollectStep(g, n)
  <1>1. \A bit \in {0, 1} : ChildBits(f, n, bit) = ChildBits(g, n, bit)
    BY Zenon DEF ChildBits, Worth
  <1>2. ChildBits(f, n, 0) = ChildBits(g, n, 0) /\ ChildBits(f, n, 1) = ChildBits(g, n, 1)
    BY <1>1
  <1> QED
    BY Zenon, <1>2 DEF CollectStep

LEMMA NodeHeights ==
  \E K \in Nat : \E height \in [AllNodes -> 0..K] :
    \A n \in AllNodes : \A bit \in {0, 1} :
      Append(n, bit) \in AllNodes => height[Append(n, bit)] < height[n]
  <1> DEFINE height == [n \in AllNodes |-> Height(n)]
             K == V4Bits + V6Bits
  <1>1. K \in Nat /\ height \in [AllNodes -> 0..K]
    BY BitsNat, HeightNat
  <1>2. ASSUME NEW n \in AllNodes, NEW bit \in {0, 1}, Append(n, bit) \in AllNodes
        PROVE  height[Append(n, bit)] < height[n]
    <2>1. Append(n, bit)[1] = n[1] /\ Depth(Append(n, bit)) = Depth(n) + 1
      BY Zenon, ChildNode
    <2>2. Depth(n) \in Nat /\ Bits(n[1]) \in Nat
      BY HeightNat, BitsNat
    <2>3. Height(Append(n, bit)) = Bits(n[1]) - (Depth(n) + 1) /\ Height(n) = Bits(n[1]) - Depth(n)
      BY Zenon, <2>1 DEF Height
    <2> QED
      BY <1>2, <2>2, <2>3
  <1> HIDE DEF height, K
  <1> QED
    BY Zenon, <1>1, <1>2

(* Induction from the children of a node to the node. *)
LEMMA NodeInduction ==
  ASSUME NEW P \in SUBSET AllNodes,
         \A n \in AllNodes :
           (\A bit \in {0, 1} : Append(n, bit) \in AllNodes => Append(n, bit) \in P) => n \in P
  PROVE  P = AllNodes
  <1>a. PICK K \in Nat : \E height \in [AllNodes -> 0..K] :
          \A n \in AllNodes : \A bit \in {0, 1} :
            Append(n, bit) \in AllNodes => height[Append(n, bit)] < height[n]
    BY Zenon, NodeHeights
  <1>1. PICK height \in [AllNodes -> 0..K] :
          \A n \in AllNodes : \A bit \in {0, 1} :
            Append(n, bit) \in AllNodes => height[Append(n, bit)] < height[n]
    BY Zenon, <1>a
  <1>2. ASSUME NEW n \in AllNodes, \A m \in AllNodes : height[m] < height[n] => m \in P
        PROVE  n \in P
    BY Zenon, <1>1, <1>2
  <1>3. \A n \in AllNodes : (\A m \in AllNodes : height[m] < height[n] => m \in P) => n \in P
    BY Zenon, <1>2
  <1> QED
    BY <1>3, TreeInduction

LEMMA CollectEquation ==
  ASSUME nodes \subseteq AllNodes
  PROVE  /\ collectMD5 \in [AllNodes -> Seq({0, 1})]
         /\ \A n \in AllNodes : collectMD5[n] = CollectStep(collectMD5, n)
  <1> DEFINE T == Seq({0, 1})
             h == [x \in AllNodes \X [AllNodes -> T] |-> CollectStep(x[2], x[1])]
  <1>a. PICK K \in Nat : \E height \in [AllNodes -> 0..K] :
          \A n \in AllNodes : \A bit \in {0, 1} :
            Append(n, bit) \in AllNodes => height[Append(n, bit)] < height[n]
    BY Zenon, NodeHeights
  <1>1. PICK height \in [AllNodes -> 0..K] :
          \A n \in AllNodes : \A bit \in {0, 1} :
            Append(n, bit) \in AllNodes => height[Append(n, bit)] < height[n]
    BY Zenon, <1>a
  <1>2. h \in [AllNodes \X [AllNodes -> T] -> T]
    BY CollectType
  <1>3. ASSUME NEW n \in AllNodes, NEW f \in [AllNodes -> T] PROVE h[<<n, f>>] = CollectStep(f, n)
    OBVIOUS
  <1>4. <<>> \in T
    OBVIOUS
  <1> HIDE DEF h
  <1>5. ASSUME NEW n \in AllNodes, NEW f \in [AllNodes -> T], NEW g \in [AllNodes -> T],
               \A m \in AllNodes : height[m] < height[n] => f[m] = g[m]
        PROVE  h[<<n, f>>] = h[<<n, g>>]
    <2>1. \A bit \in {0, 1} : Append(n, bit) \in AllNodes => f[Append(n, bit)] = g[Append(n, bit)]
      BY Zenon, <1>1, <1>5
    <2>2. CollectStep(f, n) = CollectStep(g, n)
      BY Zenon, <2>1, CollectLocal
    <2> QED
      BY Zenon, <1>3, <2>2
  <1> HIDE DEF T
  <1>b. LooksDown(h, AllNodes, T, height)
    BY Zenon, <1>5 DEF LooksDown
  <1>c. PICK f : Solution(f, h, AllNodes, T)
    BY Zenon, <1>2, <1>4, <1>b, TreeRecursion
  <1>6. f \in [AllNodes -> T] /\ \A n \in AllNodes : f[n] = h[<<n, f>>]
    BY Zenon, <1>c DEF Solution
  <1>7. f = [n \in AllNodes |-> CollectStep(f, n)]
    BY Zenon, <1>3, <1>6
  <1>8. collectMD5 = CHOOSE g : g = [n \in AllNodes |-> CollectStep(g, n)]
    BY DEF collectMD5, CollectStep, OwnBits, ChildBits, Worth
  <1>9. collectMD5 = [n \in AllNodes |-> CollectStep(collectMD5, n)]
    BY Zenon, <1>7, <1>8
  <1> DEFINE P == {n \in AllNodes : collectMD5[n] = f[n]}
  <1>10. ASSUME NEW n \in AllNodes,
                \A bit \in {0, 1} : Append(n, bit) \in AllNodes => Append(n, bit) \in P
         PROVE  n \in P
    <2>1. CollectStep(collectMD5, n) = CollectStep(f, n)
      BY Zenon, <1>10, CollectLocal
    <2>2. collectMD5[n] = CollectStep(collectMD5, n)
      BY Zenon, <1>9
    <2>3. f[n] = CollectStep(f, n)
      BY Zenon, <1>3, <1>6
    <2> QED
      BY Zenon, <2>1, <2>2, <2>3
  <1>11. P = AllNodes
    <2>1. P \in SUBSET AllNodes
      BY Zenon
    <2> HIDE DEF P
    <2> QED
      BY Zenon, <1>10, <2>1, NodeInduction
  <1>12. collectMD5 \in [AllNodes -> T]
    BY Zenon, <1>6, <1>9, <1>11
  <1> QED
    BY Zenon, <1>9, <1>12 DEF T

(* The IPv4 trie. *)
LEMMA V4Node ==
  ASSUME NEW n \in Paths("v4")
  PROVE  /\ n \in AllNodes /\ n[1] = "v4" /\ Depth(n) \in Nat /\ Depth(n) <= V4Bits
         /\ \A bit \in {0, 1} : Depth(n) # V4Bits => Append(n, bit) \in Paths("v4")
         /\ \A bit \in {0, 1} : Depth(n) = V4Bits => Append(n, bit) \notin AllNodes
  <1>1. n \in AllNodes /\ n[1] = "v4"
    BY Zenon, PathsAre
  <1>2. Bits(n[1]) = V4Bits /\ V4Bits \in Nat
    BY <1>1, BitsNat DEF Bits
  <1>3. Depth(n) \in Nat /\ Depth(n) <= V4Bits
    BY <1>1, <1>2, HeightNat
  <1>4. Depth(n) # V4Bits <=> Depth(n) < Bits(n[1])
    BY <1>2, <1>3
  <1>5. ASSUME NEW bit \in {0, 1}
        PROVE  (Append(n, bit) \in AllNodes <=> Depth(n) # V4Bits) /\ Append(n, bit)[1] = "v4"
    BY Zenon, <1>1, <1>4, ChildNode
  <1>6. ASSUME NEW bit \in {0, 1}, Depth(n) # V4Bits PROVE Append(n, bit) \in Paths("v4")
    BY Zenon, <1>5, <1>6, PathsAre
  <1> QED
    BY Zenon, <1>1, <1>3, <1>5, <1>6

LEMMA V4Induction ==
  ASSUME NEW P,
         \A n \in Paths("v4") :
           (Depth(n) # V4Bits => Append(n, 0) \in P /\ Append(n, 1) \in P) => n \in P
  PROVE  \A n \in Paths("v4") : n \in P
  <1> DEFINE Q == {n \in AllNodes : n \in Paths("v4") => n \in P}
  <1>1. ASSUME NEW n \in AllNodes,
               \A bit \in {0, 1} : Append(n, bit) \in AllNodes => Append(n, bit) \in Q
        PROVE  n \in Q
    <2>1. ASSUME n \in Paths("v4"), Depth(n) # V4Bits, NEW bit \in {0, 1}
          PROVE  Append(n, bit) \in P
      <3>1. Append(n, bit) \in Paths("v4")
        BY Zenon, <2>1, V4Node
      <3>2. Append(n, bit) \in AllNodes
        BY Zenon, <3>1, V4Node
      <3> QED
        BY Zenon, <1>1, <3>1, <3>2
    <2>2. ASSUME n \in Paths("v4"), Depth(n) # V4Bits
          PROVE  Append(n, 0) \in P /\ Append(n, 1) \in P
      BY <2>1, <2>2
    <2> QED
      BY Zenon, <2>2
  <1>2. Q \in SUBSET AllNodes
    BY Zenon
  <1>3. Q = AllNodes
    <2> HIDE DEF Q
    <2> QED
      BY Zenon, <1>1, <1>2, NodeInduction
  <1> QED
    BY Zenon, <1>3, V4Node

(* What a table of the hosts in S writes below a node. *)
WriteStep(S, f, n) ==
  IF Depth(n) = V4Bits THEN IF n \in S THEN Tail(n) ELSE <<>>
  ELSE f[Append(n, 0)] \o f[Append(n, 1)]
Writes(D, S) ==
  /\ D \in [Paths("v4") -> Seq({0, 1})]
  /\ \A n \in Paths("v4") : D[n] = WriteStep(S, D, n)

LEMMA WriteLocal ==
  ASSUME NEW S, NEW n \in Paths("v4"), NEW f, NEW g,
         \A bit \in {0, 1} : Append(n, bit) \in Paths("v4") => f[Append(n, bit)] = g[Append(n, bit)]
  PROVE  WriteStep(S, f, n) = WriteStep(S, g, n)
  <1>1. CASE Depth(n) = V4Bits
    BY Zenon, <1>1 DEF WriteStep
  <1>2. CASE Depth(n) # V4Bits
    <2>1. \A bit \in {0, 1} : f[Append(n, bit)] = g[Append(n, bit)]
      BY Zenon, <1>2, V4Node
    <2>2. f[Append(n, 0)] = g[Append(n, 0)] /\ f[Append(n, 1)] = g[Append(n, 1)]
      BY <2>1
    <2> QED
      BY Zenon, <1>2, <2>2 DEF WriteStep
  <1> QED
    BY Zenon, <1>1, <1>2

LEMMA Written ==
  ASSUME NEW S
  PROVE  \E D : Writes(D, S) /\ HostDigest(S) = D[<<"v4">>]
  <1> DEFINE T == Seq({0, 1})
             N == Paths("v4")
             h == [x \in N \X [N -> T] |-> WriteStep(S, x[2], x[1])]
             up == CHOOSE g : g = [n \in N |-> WriteStep(S, g, n)]
  <1>0. HostDigest(S) = up[<<"v4">>]
    BY DEF HostDigest, WriteStep
  <1>a. PICK K \in Nat : \E height \in [AllNodes -> 0..K] :
          \A n \in AllNodes : \A bit \in {0, 1} :
            Append(n, bit) \in AllNodes => height[Append(n, bit)] < height[n]
    BY Zenon, NodeHeights
  <1>b. PICK all \in [AllNodes -> 0..K] :
          \A n \in AllNodes : \A bit \in {0, 1} :
            Append(n, bit) \in AllNodes => all[Append(n, bit)] < all[n]
    BY Zenon, <1>a
  <1> DEFINE height == [n \in N |-> all[n]]
  <1>1. /\ height \in [N -> 0..K]
        /\ \A n \in N : \A bit \in {0, 1} : Append(n, bit) \in N => height[Append(n, bit)] < height[n]
    <2>1. \A n \in N : n \in AllNodes
      BY Zenon, V4Node
    <2> HIDE DEF N
    <2> QED
      BY Zenon, <1>b, <2>1
  <1>2. ASSUME NEW n \in N, NEW f \in [N -> T] PROVE WriteStep(S, f, n) \in T
    <2>1. Tail(n) \in T
      BY Zenon, V4Node, NodeBits DEF T
    <2>2. Depth(n) # V4Bits => Append(n, 0) \in N /\ Append(n, 1) \in N
      BY V4Node
    <2> HIDE DEF N
    <2>3. Depth(n) # V4Bits => f[Append(n, 0)] \in T /\ f[Append(n, 1)] \in T
      BY Zenon, <2>2
    <2> QED
      BY <2>1, <2>3 DEF WriteStep
  <1>3. ASSUME NEW n \in N, NEW f \in [N -> T] PROVE h[<<n, f>>] = WriteStep(S, f, n)
    OBVIOUS
  <1>4. h \in [N \X [N -> T] -> T] /\ <<>> \in T
    BY <1>2
  <1> HIDE DEF h, T, height
  <1>5. ASSUME NEW n \in N, NEW f \in [N -> T], NEW g \in [N -> T],
               \A m \in N : height[m] < height[n] => f[m] = g[m]
        PROVE  h[<<n, f>>] = h[<<n, g>>]
    <2>1. \A bit \in {0, 1} : Append(n, bit) \in N => f[Append(n, bit)] = g[Append(n, bit)]
      BY Zenon, <1>1, <1>5
    <2>2. WriteStep(S, f, n) = WriteStep(S, g, n)
      BY Zenon, <2>1, WriteLocal
    <2> QED
      BY Zenon, <1>3, <2>2
  <1> HIDE DEF N
  <1>6. LooksDown(h, N, T, height)
    BY Zenon, <1>5 DEF LooksDown
  <1>7. PICK f : Solution(f, h, N, T)
    BY Zenon, <1>1, <1>4, <1>6, TreeRecursion
  <1>8. f \in [N -> T] /\ \A n \in N : f[n] = h[<<n, f>>]
    BY Zenon, <1>7 DEF Solution
  <1>9. ASSUME NEW n \in N PROVE f[n] = WriteStep(S, f, n)
    BY Zenon, <1>3, <1>8
  <1>10. f = [n \in N |-> WriteStep(S, f, n)]
    BY Zenon, <1>8, <1>9
  <1>11. up = [n \in N |-> WriteStep(S, up, n)]
    BY Zenon, <1>10
  <1> HIDE DEF up
  <1>12. ASSUME NEW n \in N PROVE up[n] = WriteStep(S, up, n)
    BY Zenon, <1>11
  <1> DEFINE P == {n \in N : up[n] = f[n]}
  <1>13. ASSUME NEW n \in N, Depth(n) # V4Bits => Append(n, 0) \in P /\ Append(n, 1) \in P
         PROVE  n \in P
    <2>1. WriteStep(S, up, n) = WriteStep(S, f, n)
      <3>1. CASE Depth(n) = V4Bits
        BY Zenon, <3>1 DEF WriteStep
      <3>2. CASE Depth(n) # V4Bits
        BY Zenon, <1>13, <3>2 DEF WriteStep
      <3> QED
        BY Zenon, <3>1, <3>2
    <2> QED
      BY Zenon, <1>9, <1>12, <2>1
  <1>14. \A n \in N : n \in P
    <2> HIDE DEF P
    <2> QED
      BY Zenon, <1>13, V4Induction DEF N
  <1>15. up \in [N -> T]
    BY Zenon, <1>8, <1>11, <1>14
  <1>16. Writes(up, S)
    BY Zenon, <1>12, <1>15 DEF Writes, N, T
  <1> QED
    BY Zenon, <1>0, <1>16

(* Sequences of bits. *)
LEMMA BitsConcat ==
  ASSUME NEW s \in Seq({0, 1}), NEW t \in Seq({0, 1})
  PROVE  /\ s \o t \in Seq({0, 1}) /\ Len(s \o t) = Len(s) + Len(t)
         /\ Len(s) \in Nat /\ Len(t) \in Nat
         /\ \A i \in 1..Len(s) : (s \o t)[i] = s[i]
         /\ \A i \in 1..Len(t) : (s \o t)[Len(s) + i] = t[i]
         /\ s \o <<>> = s /\ <<>> \o s = s /\ (s # <<>> <=> Len(s) > 0)
  OBVIOUS

LEMMA BitsAssoc ==
  ASSUME NEW s \in Seq({0, 1}), NEW t \in Seq({0, 1}), NEW u \in Seq({0, 1})
  PROVE  (s \o t) \o u = s \o (t \o u)
  OBVIOUS

LEMMA BitsCancel ==
  ASSUME NEW s \in Seq({0, 1}), NEW t \in Seq({0, 1}), NEW u \in Seq({0, 1}), s \o t = s \o u
  PROVE  t = u
  <1>1. Len(t) = Len(u)
    BY BitsConcat
  <1>2. \A i \in 1..Len(t) : t[i] = u[i]
    BY <1>1, BitsConcat
  <1> QED
    BY <1>1, <1>2, SeqEqual

LEMMA SumAtLeast ==
  ASSUME NEW a \in Nat, NEW b \in Nat, NEW c \in Nat, a >= c
  PROVE  a + b >= c
  OBVIOUS

(* Where no host is below a node nothing is written; *)
LEMMA Barren ==
  ASSUME NEW S, NEW D, Writes(D, S)
  PROVE  \A n \in Paths("v4") : (\A h \in S : ~Below(n, h)) => D[n] = <<>>
  <1> DEFINE P == {n \in Paths("v4") : (\A h \in S : ~Below(n, h)) => D[n] = <<>>}
  <1>1. ASSUME NEW n \in Paths("v4"), Depth(n) # V4Bits => Append(n, 0) \in P /\ Append(n, 1) \in P,
               \A h \in S : ~Below(n, h)
        PROVE  D[n] = <<>>
    <2>1. D[n] = WriteStep(S, D, n)
      BY Zenon DEF Writes
    <2>2. CASE Depth(n) = V4Bits
      <3>1. n \in AllNodes
        BY Zenon, V4Node
      <3>2. n \notin S
        BY Zenon, <1>1, <3>1, BelowOrder
      <3> QED
        BY Zenon, <2>1, <2>2, <3>2 DEF WriteStep
    <2>3. CASE Depth(n) # V4Bits
      <3>1. ASSUME NEW bit \in {0, 1}, NEW h \in S PROVE ~Below(Append(n, bit), h)
        <4>1. n \in AllNodes
          BY Zenon, V4Node
        <4>2. /\ Len(Append(n, bit)) = Len(n) + 1 /\ Len(n) \in Nat
              /\ \A i \in 1..Len(n) : Append(n, bit)[i] = n[i]
          BY <4>1, ChildNode, NodeShape
        <4>3. ~Below(n, h)
          BY Zenon, <1>1
        <4>4. SUFFICES ASSUME Below(Append(n, bit), h) PROVE FALSE
          OBVIOUS
        <4>5. Len(n) + 1 <= Len(h) /\ \A i \in 1..(Len(n) + 1) : Append(n, bit)[i] = h[i]
          BY Zenon, <4>2, <4>4 DEF Below
        <4>6. \A i \in 1..Len(n) : n[i] = h[i]
          BY <4>2, <4>5
        <4>7. ~(Len(n) <= Len(h))
          BY Zenon, <4>3, <4>6 DEF Below
        <4> QED
          BY <4>2, <4>5, <4>7
      <3>2. D[Append(n, 0)] = <<>> /\ D[Append(n, 1)] = <<>>
        BY Zenon, <1>1, <2>3, <3>1
      <3>3. D[n] = <<>> \o <<>>
        BY Zenon, <2>1, <2>3, <3>2 DEF WriteStep
      <3> QED
        BY <3>3
    <2> QED
      BY Zenon, <2>2, <2>3
  <1>2. \A n \in Paths("v4") :
          (Depth(n) # V4Bits => Append(n, 0) \in P /\ Append(n, 1) \in P) => n \in P
    BY Zenon, <1>1
  <1>3. \A n \in Paths("v4") : n \in P
    <2> HIDE DEF P
    <2> QED
      BY Zenon, <1>2, V4Induction
  <1> QED
    BY Zenon, <1>3

(* and what is written below a node starts with the bits that lead to it.   *)
LEMMA Starts ==
  ASSUME NEW S, NEW D, Writes(D, S)
  PROVE  \A n \in Paths("v4") :
           D[n] # <<>> => Len(D[n]) >= V4Bits /\ \A i \in 1..Depth(n) : D[n][i] = n[i + 1]
  <1> DEFINE Good(n) == D[n] # <<>> => /\ Len(D[n]) >= V4Bits
                                       /\ \A i \in 1..Depth(n) : D[n][i] = n[i + 1]
             P == {n \in Paths("v4") : Good(n)}
  <1>1. ASSUME NEW n \in Paths("v4"), Depth(n) # V4Bits => Append(n, 0) \in P /\ Append(n, 1) \in P
        PROVE  Good(n)
    <2>1. D[n] = WriteStep(S, D, n) /\ D[n] \in Seq({0, 1})
      BY Zenon DEF Writes
    <2>2. n \in AllNodes /\ Depth(n) \in Nat /\ Depth(n) <= V4Bits /\ V4Bits \in Nat
      BY V4Node, BitsNat
    <2>3. CASE Depth(n) = V4Bits
      <3>1. D[n] = Tail(n) \/ D[n] = <<>>
        BY Zenon, <2>1, <2>3 DEF WriteStep
      <3>2. Len(Tail(n)) = Depth(n) /\ \A i \in 1..Depth(n) : Tail(n)[i] = n[i + 1]
        BY Zenon, <2>2, NodeBits
      <3> QED
        BY <2>2, <2>3, <3>1, <3>2
    <2>4. CASE Depth(n) # V4Bits
      <3> DEFINE l == Append(n, 0)
                 r == Append(n, 1)
      <3>1. l \in Paths("v4") /\ r \in Paths("v4")
        BY <2>4, V4Node
      <3>2. /\ Depth(l) = Depth(n) + 1 /\ Depth(r) = Depth(n) + 1 /\ Len(n) = Depth(n) + 1
            /\ \A i \in 1..Len(n) : l[i] = n[i] /\ r[i] = n[i]
        BY <2>2, ChildNode, NodeShape DEF Depth
      <3>3. D[n] = D[l] \o D[r]
        BY Zenon, <2>1, <2>4 DEF WriteStep
      <3>4. D[l] \in Seq({0, 1}) /\ D[r] \in Seq({0, 1})
        BY Zenon, <3>1 DEF Writes
      <3>5. Good(l) /\ Good(r)
        BY Zenon, <1>1, <2>4
      <3> HIDE DEF l, r
      <3>6. ASSUME D[l] # <<>>
            PROVE  Len(D[n]) >= V4Bits /\ \A i \in 1..Depth(n) : D[n][i] = n[i + 1]
        <4>1. Len(D[l]) >= V4Bits /\ \A i \in 1..(Depth(n) + 1) : D[l][i] = l[i + 1]
          BY Zenon, <3>2, <3>5, <3>6
        <4>2. /\ Len(D[l] \o D[r]) = Len(D[l]) + Len(D[r]) /\ Len(D[l]) \in Nat /\ Len(D[r]) \in Nat
              /\ \A i \in 1..Len(D[l]) : (D[l] \o D[r])[i] = D[l][i]
          BY Zenon, <3>4, BitsConcat
        <4>3. /\ Len(D[n]) = Len(D[l]) + Len(D[r])
              /\ \A i \in 1..Len(D[l]) : D[n][i] = D[l][i]
          BY Zenon, <3>3, <4>2
        <4> HIDE DEF Good
        <4>4. Len(D[n]) >= V4Bits
          <5>1. Len(D[l]) >= V4Bits /\ Len(D[l]) \in Nat /\ Len(D[r]) \in Nat /\ V4Bits \in Nat
            BY Zenon, <2>2, <4>1, <4>2
          <5>2. Len(D[n]) = Len(D[l]) + Len(D[r])
            BY Zenon, <4>3
          <5> QED
            BY Zenon, <5>1, <5>2, SumAtLeast
        <4>5. ASSUME NEW i \in 1..Depth(n) PROVE D[n][i] = n[i + 1]
          <5>1. i \in 1..(Depth(n) + 1) /\ i \in 1..Len(D[l]) /\ i + 1 \in 1..Len(n)
            BY <2>2, <3>2, <4>1, <4>2
          <5> QED
            BY Zenon, <3>2, <4>1, <4>3, <5>1
        <4> QED
          BY Zenon, <4>4, <4>5
      <3>7. ASSUME D[l] = <<>>, D[n] # <<>>
            PROVE  Len(D[n]) >= V4Bits /\ \A i \in 1..Depth(n) : D[n][i] = n[i + 1]
        <4>1. D[n] = D[r]
          BY Zenon, <3>3, <3>4, <3>7, BitsConcat
        <4>2. Len(D[r]) >= V4Bits /\ \A i \in 1..(Depth(n) + 1) : D[r][i] = r[i + 1]
          BY Zenon, <3>2, <3>5, <3>7, <4>1
        <4> HIDE DEF Good
        <4> QED
          BY <2>2, <3>2, <4>1, <4>2
      <3> QED
        BY Zenon, <3>6, <3>7
    <2> QED
      BY Zenon, <2>3, <2>4
  <1>2. \A n \in Paths("v4") :
          (Depth(n) # V4Bits => Append(n, 0) \in P /\ Append(n, 1) \in P) => n \in P
    BY Zenon, <1>1
  <1>3. \A n \in Paths("v4") : n \in P
    <2> HIDE DEF P
    <2> QED
      BY Zenon, <1>2, V4Induction
  <1> QED
    BY Zenon, <1>3

(* What may follow the digest of the hosts below n: nothing, or bits that   *)
(* leave the way to n.                                                      *)
Leaves(x, n) ==
  /\ x \in Seq({0, 1})
  /\ x = <<>> \/ \E i \in 1..Depth(n) : x[i] # n[i + 1]

LEMMA LeavesChild ==
  ASSUME NEW n \in Paths("v4"), Depth(n) # V4Bits, NEW x, Leaves(x, n), NEW bit \in {0, 1}
  PROVE  Leaves(x, Append(n, bit))
  <1> DEFINE c == Append(n, bit)
  <1>1. n \in AllNodes /\ Depth(n) \in Nat
    BY Zenon, V4Node
  <1>2. Depth(c) = Depth(n) + 1 /\ \A i \in 1..Len(n) : c[i] = n[i]
    BY Zenon, <1>1, ChildNode
  <1>3. Len(n) = Depth(n) + 1
    BY <1>1, NodeShape DEF Depth
  <1> HIDE DEF c
  <1>4. ASSUME NEW i \in 1..Depth(n) PROVE i \in 1..Depth(c) /\ c[i + 1] = n[i + 1]
    <2>1. i \in 1..(Depth(n) + 1) /\ i + 1 \in 1..(Depth(n) + 1)
      BY <1>1
    <2> QED
      BY Zenon, <1>2, <1>3, <2>1
  <1>5. Leaves(x, c)
    <2>1. x \in Seq({0, 1}) /\ (x = <<>> \/ \E i \in 1..Depth(n) : x[i] # n[i + 1])
      BY Zenon DEF Leaves
    <2>2. ASSUME NEW i \in 1..Depth(n), x[i] # n[i + 1] PROVE \E j \in 1..Depth(c) : x[j] # c[j + 1]
      BY Zenon, <1>4, <2>2
    <2> QED
      BY Zenon, <2>1, <2>2 DEF Leaves
  <1> QED
    BY Zenon, <1>5 DEF c

(* What is written below the right child leaves the way to the left one. *)
LEMMA LeavesLeft ==
  ASSUME NEW S, NEW D, Writes(D, S), NEW n \in Paths("v4"), Depth(n) # V4Bits,
         NEW x, Leaves(x, n)
  PROVE  Leaves(D[Append(n, 1)] \o x, Append(n, 0))
  <1> DEFINE l == Append(n, 0)
             r == Append(n, 1)
             k == Depth(n) + 1
  <1>1. l \in Paths("v4") /\ r \in Paths("v4") /\ n \in AllNodes
    BY V4Node
  <1>2. Depth(l) = k /\ Depth(r) = k /\ l[Len(n) + 1] = 0 /\ r[Len(n) + 1] = 1
    BY <1>1, ChildNode
  <1>3. Depth(n) \in Nat /\ Depth(n) <= V4Bits /\ V4Bits \in Nat /\ Len(n) = k
    BY <1>1, V4Node, BitsNat, NodeShape DEF Depth
  <1>4. k \in 1..k /\ k <= V4Bits /\ k \in Nat /\ k >= 1
    BY <1>3
  <1>5. D[r] \in Seq({0, 1}) /\ x \in Seq({0, 1})
    BY Zenon, <1>1 DEF Writes, Leaves
  <1>6. D[r] \o x \in Seq({0, 1})
    BY Zenon, <1>5, BitsConcat
  <1>7. Leaves(x, l)
    BY LeavesChild
  <1> HIDE DEF l, r, k
  <1>8. CASE D[r] = <<>>
    <2>1. D[r] \o x = x
      BY Zenon, <1>5, <1>8, BitsConcat
    <2>2. Leaves(D[r] \o x, l)
      BY Zenon, <1>7, <2>1
    <2> QED
      BY Zenon, <2>2 DEF l, r
  <1>9. CASE D[r] # <<>>
    <2>1. Len(D[r]) >= V4Bits /\ \A i \in 1..k : D[r][i] = r[i + 1]
      <3>1. Len(D[r]) >= V4Bits /\ \A i \in 1..Depth(r) : D[r][i] = r[i + 1]
        BY Zenon, <1>1, <1>9, Starts
      <3> QED
        BY Zenon, <1>2, <3>1
    <2>2. Len(D[r]) \in Nat /\ \A i \in 1..Len(D[r]) : (D[r] \o x)[i] = D[r][i]
      BY Zenon, <1>5, BitsConcat
    <2>3. k \in 1..Len(D[r])
      <3>1. Len(D[r]) >= V4Bits /\ Len(D[r]) \in Nat
        BY Zenon, <2>1, <2>2
      <3> QED
        BY <1>3, <1>4, <3>1
    <2>4. (D[r] \o x)[k] = 1
      BY Zenon, <1>2, <1>3, <1>4, <2>1, <2>2, <2>3
    <2>5. l[k + 1] = 0
      BY Zenon, <1>2, <1>3
    <2>6. (D[r] \o x)[k] # l[k + 1]
      BY <2>4, <2>5
    <2>7. Leaves(D[r] \o x, l)
      BY Zenon, <1>2, <1>4, <1>6, <2>6 DEF Leaves
    <2> QED
      BY Zenon, <2>7 DEF l, r
  <1> QED
    BY Zenon, <1>8, <1>9

(* Two tables that write the same have the same hosts. *)
Apart(D, E, S, T, n) ==
  \A x, y : Leaves(x, n) /\ Leaves(y, n) /\ D[n] \o x = E[n] \o y =>
    x = y /\ \A h \in V4Hosts : Below(n, h) => (h \in S <=> h \in T)

LEMMA ApartHost ==
  ASSUME NEW S, NEW T, NEW D, NEW E, Writes(D, S), Writes(E, T),
         NEW n \in Paths("v4"), Depth(n) = V4Bits
  PROVE  Apart(D, E, S, T, n)
  <1>1. n \in AllNodes /\ Depth(n) \in Nat /\ V4Bits \in Nat \ {0}
    BY V4Node, BitsNat
  <1>2. /\ Tail(n) \in Seq({0, 1}) /\ Len(Tail(n)) = Depth(n)
        /\ \A i \in 1..Depth(n) : Tail(n)[i] = n[i + 1]
    BY Zenon, <1>1, NodeBits
  <1>3. ASSUME NEW x \in Seq({0, 1}), NEW y, Leaves(y, n), Tail(n) \o x = y PROVE FALSE
    <2>1. Len(Tail(n) \o x) > 0
      BY <1>1, <1>2, BitsConcat
    <2>2. y # <<>>
      BY <1>3, <2>1
    <2>3. PICK i \in 1..Depth(n) : y[i] # n[i + 1]
      BY Zenon, <1>3, <2>2 DEF Leaves
    <2>4. (Tail(n) \o x)[i] = Tail(n)[i]
      <3>1. \A j \in 1..Len(Tail(n)) : (Tail(n) \o x)[j] = Tail(n)[j]
        BY Zenon, <1>2, BitsConcat
      <3> QED
        BY Zenon, <1>2, <3>1
    <2> QED
      BY Zenon, <1>2, <1>3, <2>3, <2>4
  <1>4. /\ D[n] = IF n \in S THEN Tail(n) ELSE <<>>
        /\ E[n] = IF n \in T THEN Tail(n) ELSE <<>>
    BY Zenon DEF Writes, WriteStep
  <1>5. ASSUME NEW x, NEW y, Leaves(x, n), Leaves(y, n), D[n] \o x = E[n] \o y
        PROVE  x = y /\ (n \in S <=> n \in T)
    <2>1. x \in Seq({0, 1}) /\ y \in Seq({0, 1})
      BY Zenon, <1>5 DEF Leaves
    <2>2. <<>> \o x = x /\ <<>> \o y = y
      BY Zenon, <2>1, BitsConcat
    <2>3. ~(n \in S /\ n \notin T)
      BY Zenon, <1>3, <1>4, <1>5, <2>1, <2>2
    <2>4. ~(n \in T /\ n \notin S)
      BY Zenon, <1>3, <1>4, <1>5, <2>1, <2>2
    <2>5. n \in S /\ n \in T => x = y
      BY Zenon, <1>2, <1>4, <1>5, <2>1, BitsCancel
    <2>6. n \notin S /\ n \notin T => x = y
      BY Zenon, <1>4, <1>5, <2>2
    <2> QED
      BY Zenon, <2>3, <2>4, <2>5, <2>6
  <1>6. ASSUME NEW h \in V4Hosts, Below(n, h) PROVE h = n
    <2>1. h \in AllNodes /\ Depth(h) = V4Bits
      BY Zenon, V4Node DEF V4Hosts
    <2>2. Len(h) = Len(n)
      BY <1>1, <2>1, NodeShape DEF Depth
    <2> QED
      BY Zenon, <1>1, <1>6, <2>1, <2>2, SameNode
  <1> QED
    BY Zenon, <1>5, <1>6 DEF Apart

LEMMA ApartChildren ==
  ASSUME NEW S, NEW T, NEW D, NEW E, Writes(D, S), Writes(E, T),
         NEW n \in Paths("v4"), Depth(n) # V4Bits,
         Apart(D, E, S, T, Append(n, 0)), Apart(D, E, S, T, Append(n, 1))
  PROVE  Apart(D, E, S, T, n)
  <1> DEFINE l == Append(n, 0)
             r == Append(n, 1)
  <1>1. l \in Paths("v4") /\ r \in Paths("v4") /\ n \in AllNodes
    BY V4Node
  <1>2. ASSUME NEW h \in V4Hosts, Below(n, h) PROVE Below(l, h) \/ Below(r, h)
    <2>1. h \in AllNodes /\ Depth(h) = V4Bits
      BY Zenon, V4Node DEF V4Hosts
    <2>2. Len(n) < Len(h)
      <3>1. Depth(n) \in Nat /\ Depth(n) <= V4Bits /\ V4Bits \in Nat
        BY V4Node, BitsNat
      <3>2. Len(n) \in Nat /\ Len(h) \in Nat
        BY <1>1, <2>1, NodeShape
      <3> QED
        BY <2>1, <3>1, <3>2 DEF Depth
    <2>3. h[Len(n) + 1] \in {0, 1} /\ Below(Append(n, h[Len(n) + 1]), h)
      BY Zenon, <1>1, <1>2, <2>1, <2>2, NextNode
    <2> QED
      BY <2>3
  <1>3. ASSUME NEW x, NEW y, Leaves(x, n), Leaves(y, n), D[n] \o x = E[n] \o y
        PROVE  x = y /\ \A h \in V4Hosts : Below(n, h) => (h \in S <=> h \in T)
    <2>1. D[n] = D[l] \o D[r] /\ E[n] = E[l] \o E[r]
      BY Zenon DEF Writes, WriteStep
    <2>2. /\ D[l] \in Seq({0, 1}) /\ D[r] \in Seq({0, 1}) /\ x \in Seq({0, 1})
          /\ E[l] \in Seq({0, 1}) /\ E[r] \in Seq({0, 1}) /\ y \in Seq({0, 1})
      BY Zenon, <1>1, <1>3 DEF Writes, Leaves
    <2>3. Leaves(D[r] \o x, l) /\ Leaves(E[r] \o y, l)
      BY Zenon, <1>3, LeavesLeft
    <2>4. Leaves(x, r) /\ Leaves(y, r)
      BY <1>3, LeavesChild
    <2> HIDE DEF l, r
    <2>5. D[l] \o (D[r] \o x) = E[l] \o (E[r] \o y)
      <3>1. (D[l] \o D[r]) \o x = D[l] \o (D[r] \o x)
        BY ZenonT(30), <2>2, BitsAssoc
      <3>2. (E[l] \o E[r]) \o y = E[l] \o (E[r] \o y)
        BY ZenonT(30), <2>2, BitsAssoc
      <3> QED
        BY Zenon, <1>3, <2>1, <3>1, <3>2
    <2>6. Apart(D, E, S, T, l) /\ Apart(D, E, S, T, r)
      BY Zenon DEF l, r
    <2>7. D[r] \o x = E[r] \o y /\ \A h \in V4Hosts : Below(l, h) => (h \in S <=> h \in T)
      BY Zenon, <2>3, <2>5, <2>6 DEF Apart
    <2>8. x = y /\ \A h \in V4Hosts : Below(r, h) => (h \in S <=> h \in T)
      BY Zenon, <2>4, <2>6, <2>7 DEF Apart
    <2> QED
      BY Zenon, <1>2, <2>7, <2>8 DEF l, r
  <1> QED
    BY Zenon, <1>3 DEF Apart

LEMMA Unlike ==
  ASSUME NEW S, NEW T, NEW D, NEW E, Writes(D, S), Writes(E, T)
  PROVE  \A n \in Paths("v4") : Apart(D, E, S, T, n)
  <1> DEFINE P == {n \in Paths("v4") : Apart(D, E, S, T, n)}
  <1>1. \A n \in Paths("v4") :
          (Depth(n) # V4Bits => Append(n, 0) \in P /\ Append(n, 1) \in P) => n \in P
    BY Zenon, ApartHost, ApartChildren
  <1>2. \A n \in Paths("v4") : n \in P
    <2> HIDE DEF P
    <2> QED
      BY Zenon, <1>1, V4Induction
  <1> QED
    BY Zenon, <1>2

(* A child that collectMD5 does not descend into has no live route below it. *)
LEMMA Pruned ==
  ASSUME nodes \subseteq AllNodes, TrieShape, NEW c \in AllNodes, ~Worth(c),
         NEW h \in AllNodes, leaf[h]
  PROVE  ~Below(c, h)
  <1>1. SUFFICES ASSUME Below(c, h) PROVE FALSE
    OBVIOUS
  <1>2. h \in nodes
    BY Zenon DEF TrieShape
  <1>3. c \in nodes
    BY Zenon, <1>1, <1>2 DEF TrieShape
  <1>4. ~leaf[c] /\ Append(c, 0) \notin nodes /\ Append(c, 1) \notin nodes
    BY Zenon, <1>3 DEF Worth
  <1>5. Len(c) < Len(h)
    BY Zenon, <1>1, <1>4, BelowOrder
  <1>6. /\ h[Len(c) + 1] \in {0, 1} /\ Append(c, h[Len(c) + 1]) \in AllNodes
        /\ Below(Append(c, h[Len(c) + 1]), h)
    BY Zenon, <1>1, <1>5, NextNode
  <1>7. Append(c, h[Len(c) + 1]) \in nodes
    BY Zenon, <1>2, <1>6 DEF TrieShape
  <1> QED
    BY <1>4, <1>6, <1>7

Live == {n \in AllNodes : leaf[n] /\ target[n] # Nil}

(* On a trie of IPv4 hosts collectMD5 writes what a table of the live hosts *)
(* writes,                                                                  *)
LEMMA CollectsLive ==
  ASSUME V4Bits < MaxDepth, nodes \subseteq AllNodes, TrieShape, Live \subseteq V4Hosts,
         NEW D, Writes(D, Live)
  PROVE  \A n \in Paths("v4") : collectMD5[n] = D[n]
  <1> DEFINE P == {n \in Paths("v4") : collectMD5[n] = D[n]}
  <1>1. ASSUME NEW n \in Paths("v4"), Depth(n) # V4Bits => Append(n, 0) \in P /\ Append(n, 1) \in P
        PROVE  collectMD5[n] = D[n]
    <2>1. n \in AllNodes /\ Depth(n) \in Nat /\ Depth(n) <= V4Bits /\ V4Bits \in Nat
      BY V4Node, BitsNat
    <2>2. ~(Depth(n) >= MaxDepth)
      BY <2>1, TrieAssumption
    <2>3. collectMD5[n] = OwnBits(n) \o ChildBits(collectMD5, n, 0) \o ChildBits(collectMD5, n, 1)
      <3>1. collectMD5[n] = CollectStep(collectMD5, n)
        BY Zenon, <2>1, CollectEquation
      <3> QED
        BY Zenon, <2>2, <3>1 DEF CollectStep
    <2>4. OwnBits(n) = IF n \in Live THEN Tail(n) ELSE <<>>
      BY Zenon, <2>1 DEF OwnBits, Live
    <2>5. D[n] = WriteStep(Live, D, n)
      BY Zenon DEF Writes
    <2>6. CASE Depth(n) = V4Bits
      <3>1. \A bit \in {0, 1} : ChildBits(collectMD5, n, bit) = <<>>
        BY Zenon, <2>6, V4Node DEF ChildBits, Worth
      <3>2. ChildBits(collectMD5, n, 0) = <<>> /\ ChildBits(collectMD5, n, 1) = <<>>
        BY <3>1
      <3>3. OwnBits(n) = D[n]
        <4>1. D[n] = IF n \in Live THEN Tail(n) ELSE <<>>
          BY Zenon, <2>5, <2>6 DEF WriteStep
        <4> QED
          BY <2>4, <4>1
      <3>4. D[n] \in Seq({0, 1})
        BY Zenon DEF Writes
      <3>5. D[n] \o <<>> = D[n]
        BY Zenon, <3>4, BitsConcat
      <3> QED
        BY Zenon, <2>3, <3>2, <3>3, <3>5
    <2>7. CASE Depth(n) # V4Bits
      <3>1. n \notin Live
        BY Zenon, <2>7 DEF V4Hosts
      <3>2. ASSUME NEW bit \in {0, 1}, Append(n, bit) \in P
            PROVE  ChildBits(collectMD5, n, bit) = D[Append(n, bit)]
        <4>1. Append(n, bit) \in Paths("v4") /\ Append(n, bit) \in AllNodes
          BY Zenon, <2>7, V4Node
        <4>2. CASE Worth(Append(n, bit))
          BY Zenon, <3>2, <4>2 DEF ChildBits
        <4>3. CASE ~Worth(Append(n, bit))
          <5>1. \A h \in Live : ~Below(Append(n, bit), h)
            BY Zenon, <4>1, <4>3, Pruned DEF Live
          <5>2. D[Append(n, bit)] = <<>>
            BY Zenon, <4>1, <5>1, Barren
          <5> QED
            BY Zenon, <4>3, <5>2 DEF ChildBits
        <4> QED
          BY Zenon, <4>2, <4>3
      <3>3. ChildBits(collectMD5, n, 0) = D[Append(n, 0)] /\ ChildBits(collectMD5, n, 1) = D[Append(n, 1)]
        <4>1. Append(n, 0) \in P /\ Append(n, 1) \in P
          BY Zenon, <1>1, <2>7
        <4> HIDE DEF P
        <4> QED
          BY <3>2, <4>1
      <3>4. D[Append(n, 0)] \in Seq({0, 1}) /\ <<>> \o D[Append(n, 0)] = D[Append(n, 0)]
        <4>1. Append(n, 0) \in Paths("v4")
          BY <2>7, V4Node
        <4>2. D[Append(n, 0)] \in Seq({0, 1})
          BY Zenon, <4>1 DEF Writes
        <4> QED
          BY Zenon, <4>2, BitsConcat
      <3>5. collectMD5[n] = <<>> \o D[Append(n, 0)] \o D[Append(n, 1)]
        BY Zenon, <2>3, <2>4, <3>1, <3>3
      <3> QED
        BY Zenon, <2>5, <2>7, <3>4, <3>5 DEF WriteStep
    <2> QED
      BY Zenon, <2>6, <2>7
  <1>2. \A n \in Paths("v4") :
          (Depth(n) # V4Bits => Append(n, 0) \in P /\ Append(n, 1) \in P) => n \in P
    BY Zenon, <1>1
  <1>3. \A n \in Paths("v4") : n \in P
    <2> HIDE DEF P
    <2> QED
      BY Zenon, <1>2, V4Induction
  <1> QED
    BY Zenon, <1>3

(* and nothing for the IPv6 trie. *)
LEMMA CollectsNoneElsewhere ==
  ASSUME nodes \subseteq AllNodes, Live \subseteq V4Hosts
  PROVE  \A n \in AllNodes : n[1] = "v6" => collectMD5[n] = <<>>
  <1> DEFINE P == {n \in AllNodes : n[1] = "v6" => collectMD5[n] = <<>>}
  <1>1. ASSUME NEW n \in AllNodes, n[1] = "v6",
               \A bit \in {0, 1} : Append(n, bit) \in AllNodes => Append(n, bit) \in P
        PROVE  collectMD5[n] = <<>>
    <2>1. n \notin Live
      <3>1. "v4" # "v6"
        OBVIOUS
      <3> QED
        BY Zenon, <1>1, <3>1, V4Node DEF V4Hosts
    <2>2. OwnBits(n) = <<>>
      BY Zenon, <2>1 DEF OwnBits, Live
    <2>3. \A bit \in {0, 1} : ChildBits(collectMD5, n, bit) = <<>>
      BY Zenon, <1>1, ChildNode DEF ChildBits, Worth
    <2>4. ChildBits(collectMD5, n, 0) = <<>> /\ ChildBits(collectMD5, n, 1) = <<>>
      BY <2>3
    <2>5. collectMD5[n] = CollectStep(collectMD5, n)
      BY Zenon, CollectEquation
    <2>6. collectMD5[n] = <<>> \/ collectMD5[n] = <<>> \o <<>> \o <<>>
      BY Zenon, <2>2, <2>4, <2>5 DEF CollectStep
    <2> QED
      BY <2>6
  <1>2. ASSUME NEW n \in AllNodes,
               \A bit \in {0, 1} : Append(n, bit) \in AllNodes => Append(n, bit) \in P
        PROVE  n \in P
    BY Zenon, <1>1, <1>2
  <1>3. P \in SUBSET AllNodes
    BY Zenon
  <1>4. P = AllNodes
    <2> HIDE DEF P
    <2> QED
      BY Zenon, <1>2, <1>3, NodeInduction
  <1> QED
    BY Zenon, <1>4

LEMMA TrieRoots ==
  /\ <<"v4">> \in Paths("v4") /\ <<"v6">> \in AllNodes /\ <<"v6">>[1] = "v6"
  /\ \A h \in Paths("v4") : Below(<<"v4">>, h)
  <1>1. ASSUME NEW t \in {"v4", "v6"} PROVE <<t>> \in Paths(t)
    <2>1. 0 \in 0..Bits(t) /\ <<>> \in [1..0 -> {0, 1}] /\ <<t>> = <<t>> \o <<>>
      BY BitsNat
    <2>2. <<t>> \in {<<t>> \o b : b \in [1..0 -> {0, 1}]}
      BY Zenon, <2>1
    <2> QED
      BY Zenon, <2>1, <2>2 DEF Paths
  <1>2. ASSUME NEW h \in Paths("v4") PROVE Below(<<"v4">>, h)
    <2>1. h[1] = "v4" /\ Len(h) \in Nat \ {0}
      BY V4Node, NodeShape
    <2> QED
      BY <2>1 DEF Below
  <1>3. <<"v4">> \in Paths("v4") /\ <<"v6">> \in Paths("v6")
    BY <1>1
  <1> QED
    BY <1>2, <1>3 DEF AllNodes

(* On a trie whose nodes hang together the digest tells the tables apart. *)
LEMMA DigestTells ==
  ASSUME V4Bits < MaxDepth, nodes \subseteq AllNodes, TrieShape
  PROVE  DigestIdentifiesTable
  <1>1. SUFFICES ASSUME Live \subseteq V4Hosts, NEW S \in SUBSET V4Hosts
                 PROVE  MD5 = HostDigest(S) <=> S = Live
    <2>1. \A S \in SUBSET V4Hosts : HostDigests[S] = HostDigest(S)
      BY Zenon DEF HostDigests
    <2> QED
      BY Zenon, <2>1 DEF DigestIdentifiesTable, Live
  <1>2. PICK D : Writes(D, Live) /\ HostDigest(Live) = D[<<"v4">>]
    BY Zenon, Written
  <1>3. PICK E : Writes(E, S) /\ HostDigest(S) = E[<<"v4">>]
    BY Zenon, Written
  <1>4. D[<<"v4">>] \in Seq({0, 1}) /\ E[<<"v4">>] \in Seq({0, 1})
    BY Zenon, <1>2, <1>3, TrieRoots DEF Writes
  <1>5. D[<<"v4">>] \o <<>> = D[<<"v4">>] /\ E[<<"v4">>] \o <<>> = E[<<"v4">>]
    BY Zenon, <1>4, BitsConcat
  <1>6. MD5 = HostDigest(Live)
    <2>1. collectMD5[<<"v4">>] = D[<<"v4">>]
      BY Zenon, <1>1, <1>2, CollectsLive, TrieRoots
    <2>2. collectMD5[<<"v6">>] = <<>>
      BY Zenon, <1>1, CollectsNoneElsewhere, TrieRoots
    <2> QED
      BY Zenon, <1>2, <1>5, <2>1, <2>2 DEF MD5
  <1>7. ASSUME MD5 = HostDigest(S) PROVE S = Live
    <2>1. D[<<"v4">>] \o <<>> = E[<<"v4">>] \o <<>>
      BY Zenon, <1>2, <1>3, <1>5, <1>6, <1>7
    <2>2. Leaves(<<>>, <<"v4">>)
      BY DEF Leaves
    <2>3. Apart(D, E, Live, S, <<"v4">>)
      BY Zenon, <1>2, <1>3, TrieRoots, Unlike
    <2>4. \A h \in V4Hosts : Below(<<"v4">>, h) => (h \in Live <=> h \in S)
      BY Zenon, <2>1, <2>2, <2>3 DEF Apart
    <2>5. \A h \in V4Hosts : Below(<<"v4">>, h)
      BY Zenon, TrieRoots DEF V4Hosts
    <2> QED
      BY Zenon, <1>1, <2>4, <2>5
  <1> QED
    BY Zenon, <1>6, <1>7

(* A digest stands for one table: in the code V4Bits is 32 and MaxDepth is  *)
(* 128, so collectMD5 reaches every IPv4 host route, and the bits of the    *)
(* hosts, written with nothing between them, can be read in one way only.   *)
THEOREM DigestsTellTables ==
  ASSUME V4Bits < MaxDepth
  PROVE  Spec => []DigestIdentifiesTable
  <1>1. RouterIInv => DigestIdentifiesTable
    BY Zenon, DigestTells DEF RouterIInv, WritersInv, PathInv, TrieTypes
  <1> QED
    BY <1>1, RouterSafe, PTL

===============================================================================
