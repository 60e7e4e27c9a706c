----------------------------- MODULE RouterDigest ------------------------------
(***************************************************************************)
(* The digest of the router's table (Router.MD5 of common/router), by      *)
(* which a client and the server compare their tables.                     *)
(***************************************************************************)
EXTENDS RouterTrie

(* MD5 of a table that does not change meanwhile: what collectMD5 writes to *)
(* the hash is the bits of every live prefix, one after the other and with  *)
(* nothing between them.  The hash itself is taken to be injective.         *)
collectMD5[n \in AllNodes] ==
  LET worth(c) == c \in nodes
                  /\ (leaf[c] \/ Append(c, 0) \in nodes \/ Append(c, 1) \in nodes)
      sub(bit) == IF worth(Append(n, bit)) THEN collectMD5[Append(n, bit)] ELSE <<>>
  IN IF Depth(n) >= MaxDepth THEN <<>>
     ELSE (IF leaf[n] /\ target[n] # Nil THEN Tail(n) ELSE <<>>) \o sub(0) \o sub(1)

LinkedMD5 ==
  (IF <<"v4", 0>> \in nodes THEN <<0>> ELSE <<>>) \o (IF <<"v4", 1>> \in nodes THEN <<1>> ELSE <<>>)

MD5 == collectMD5[<<"v4">>] \o collectMD5[<<"v6">>]

-------------------------------------------------------------------------------
V4Hosts == {p \in Paths("v4") : Depth(p) = V4Bits}

(* What a table of the host routes in S writes to its hash: the bits of the *)
(* routes, in the order of the addresses.                                   *)
HostDigest(S) ==
  LET written[n \in Paths("v4")] ==
        IF Depth(n) = V4Bits THEN IF n \in S THEN Tail(n) ELSE <<>>
        ELSE written[Append(n, 0)] \o written[Append(n, 1)]
  IN written[<<"v4">>]

HostDigests == [S \in SUBSET V4Hosts |-> HostDigest(S)]

(* syncRouter compares only MD5 hashes.  While nothing is being written and *)
(* every route is an IPv4 host route (the server registers ip/32 only), the *)
(* hash is that of one table: the routes that are live.                     *)
DigestIdentifiesTable ==
  LET live == {n \in AllNodes : leaf[n] /\ target[n] # Nil} IN
  (\A w \in Writers : job[w].pc = "idle") /\ live \subseteq V4Hosts =>
    \A S \in SUBSET V4Hosts : MD5 = HostDigests[S] <=> S = live

===============================================================================
