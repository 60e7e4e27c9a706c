------------------------ MODULE MCSessionLifecycle ------------------------
(***************************************************************************)
(* Instances of SessionLifecycle for TLC.                                  *)
(***************************************************************************)
EXTENDS SessionLifecycle, TLC

CONSTANTS s1, s2, s3, n1, n2, a1, a2

\* One network id; a second instance of it exists only after a restart.
OneId == [n \in Nets |-> 1]

\* Every device has a random address.
AnyIP == [s \in Sessions |-> None]

\* Every device has a fixed address of its own.
OwnIP == (s1 :> a1) @@ (s2 :> a2)

\* All connections use one transport.
AllTCP  == [s \in Sessions |-> "tcp"]
AllQUIC == [s \in Sessions |-> "quic"]

\* The session that is replaced uses tcp, the one that replaces it quic.
Mixed == [s \in Sessions |-> IF s = s1 THEN "tcp" ELSE "quic"]

\* Addresses are interchangeable when no device has a fixed one, connections
\* when nothing tells them apart.
AddrSymmetry    == Permutations(Addrs)
Symmetry        == Permutations(Sessions) \cup AddrSymmetry
EarlierSymmetry == Permutations({s1, s2}) \cup AddrSymmetry
===========================================================================
