------------------------------ MODULE RouteTable ------------------------------
(***************************************************************************)
(* What common/router promises to the goroutines that write to it: a table *)
(* from route prefixes to targets.  A call to Register or UnRegister takes *)
(* effect once, at a single moment between its start and its return, and   *)
(* nothing but such a call changes the table.  RouterTrie implements it on *)
(* the prefixes that one goroutine writes at a time.                       *)
(***************************************************************************)

CONSTANTS Entries, Callers, Targets, None

VARIABLES table, call

NoCall == [prefix |-> None, val |-> None, applied |-> FALSE]

TableInit ==
  /\ table = [p \in Entries |-> None]
  /\ call = [c \in Callers |-> NoCall]

(* Register(p, v), or UnRegister(p) when v is None, begins. *)
Begin(c) ==
  /\ call[c] = NoCall
  /\ call'[c] \in [prefix : Entries, val : Targets \cup {None}, applied : {FALSE}]
  /\ call' = [call EXCEPT ![c] = call'[c]]
  /\ UNCHANGED table

(* The call takes effect. *)
Apply(c) ==
  /\ call[c] # NoCall
  /\ ~call[c].applied
  /\ table' = [table EXCEPT ![call[c].prefix] = call[c].val]
  /\ call' = [call EXCEPT ![c].applied = TRUE]

(* The call returns, and only after it took effect. *)
Return(c) ==
  /\ call[c].applied
  /\ call' = [call EXCEPT ![c] = NoCall]
  /\ UNCHANGED table

TableNext == \E c \in Callers : Begin(c) \/ Apply(c) \/ Return(c)

TableSpec == TableInit /\ [][TableNext]_<<table, call>>

===============================================================================
