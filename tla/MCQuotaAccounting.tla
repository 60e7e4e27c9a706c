------------------------- MODULE MCQuotaAccounting -------------------------
(***************************************************************************)
(* Instances of QuotaAccounting for TLC.                                   *)
(***************************************************************************)
EXTENDS QuotaAccounting, TLC

CONSTANTS q1, q2, p1, p2, c1, c2

\* p1 carries packets from q1 to q2, p2 the way back.
There == [p \in Proxies |-> IF p = p1 THEN q1 ELSE q2]
Back  == [p \in Proxies |-> IF p = p1 THEN q2 ELSE q1]

\* A quota without a limit.
Unlimited == ValueNoLimit

\* The goroutines that only commit are interchangeable.
Symmetry == Permutations(Committers)
============================================================================
