-------------------------------- MODULE MCLinks --------------------------------
(* The parts that set up and use connections, in one run: each behaviour is *)
(* one of one part, the others rest at their initial state, in which        *)
(* nothing is enabled that their fairness is about.                         *)
EXTENDS PeerUpgrade, TcpRelay, FuncCall

VARIABLE subject

LinksInit == subject \in {"upgrade", "relay", "call"} /\ UpInit /\ RelayInit /\ CallInit

LinksNext ==
  /\ UNCHANGED subject
  /\ \/ subject = "upgrade" /\ UpNext /\ UNCHANGED <<relayVars, callVars>>
     \/ subject = "relay" /\ RelayNext /\ UNCHANGED <<upVars, callVars>>
     \/ subject = "call" /\ CallNext /\ UNCHANGED <<upVars, relayVars>>

LinksSpec ==
  /\ LinksInit /\ [][LinksNext]_<<subject, upVars, relayVars, callVars>>
  /\ UpFairness /\ RelayFairness /\ CallFairness

================================================================================
