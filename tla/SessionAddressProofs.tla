------------------------- MODULE SessionAddressProofs -------------------------
(*****************************************************************************)
(* Proofs about the addresses of sessions, and about the calls between a     *)
(* client and the server. That addresses and the sessions that hold them     *)
(* stay together follows from the inductive invariant Inv of                 *)
(* SessionLifecycleProofs and from four more invariants, one for each        *)
(* theorem of the first part. The second part is about the calls on the      *)
(* control stream of a session (FuncCall), for any number of callers.        *)
(*****************************************************************************)
EXTENDS SessionLifecycleProofs, FuncCall

\* What a handler has registered so far stays registered.
Alone(s) == s \notin stopped /\ \A t \in Sessions \ {s} : addr[t] # addr[s]

RegisteredInv ==
  \A s \in Sessions : Alone(s) =>
    /\ pc[s] \in {"quotas", "store", "route", "quota", "serve"} =>
         Key(s) \in pool
    /\ pc[s] \in {"store", "route", "quota", "serve"} => devices[Key(s)] = s
    /\ pc[s] \in {"route", "quota", "serve"} => sessions[addr[s]] = s
    /\ pc[s] \in {"quota", "serve"} => route[Key(s)] = s

-----------------------------------------------------------------------------
\* Every action keeps the addresses apart.
LEMMA UniqueStep ==
  ASSUME TypeOK, HandlerInv, UniqueUnlessReleasedTwice, [Next]_vars
  PROVE  UniqueUnlessReleasedTwice'
<1> USE ConstantTypes DEF vars, tables, private, outside, TypeOK,
   UniqueUnlessReleasedTwice, UniqueAddress, Holds, Key
<1>1. ASSUME NEW s \in Sessions, Receive(s)
      PROVE  UniqueUnlessReleasedTwice'
  <2>1. PICK n \in registry, last \in Sessions \cup {None} :
          ReceiveEffect(s, n, last)
    BY <1>1, ReceivePicks
  <2>2. addr[s] = None
    BY <2>1 DEF ReceiveEffect, HandlerInv, Fresh
  <2>3. \A x \in Sessions : addr[x] # None => net'[x] = net[x]
    BY <2>1, <2>2 DEF ReceiveEffect
  <2>4. addr' = addr /\ released' = released /\ pool' = pool
    BY <2>1 DEF ReceiveEffect
  <2> QED
    BY <2>3, <2>4
<1>2. ASSUME NEW s \in Sessions, HandshakeFails(s)
      PROVE  UniqueUnlessReleasedTwice'
  BY <1>2 DEF HandshakeFails, At, Goto
<1>3. ASSUME NEW s \in Sessions, StopLast(s)
      PROVE  UniqueUnlessReleasedTwice'
  BY <1>3 DEF StopLast, At, Goto
<1>4. ASSUME NEW s \in Sessions, CloseLast(s)
      PROVE  UniqueUnlessReleasedTwice'
  BY <1>4 DEF CloseLast, At, Goto, Panic
<1>5. ASSUME NEW s \in Sessions, Commit(s)
      PROVE  UniqueUnlessReleasedTwice'
  BY <1>5 DEF Commit, At, Goto, Panic
<1>6. ASSUME NEW s \in Sessions, Forget(s)
      PROVE  UniqueUnlessReleasedTwice'
  BY <1>6 DEF Forget, At, Goto
<1>7. ASSUME NEW s \in Sessions, Free(s)
      PROVE  UniqueUnlessReleasedTwice'
  <2>1. /\ target[s] \in Sessions
        /\ addr[target[s]] # None
    BY <1>7 DEF Free, At, HandlerInv, Busy, Releasing
  <2>2. /\ pool' = pool \ {Key(target[s])}
        /\ addr' = addr /\ net' = net
        /\ \A x \in Sessions :
             released'[x] = released[x] + (IF x = target[s] THEN 1 ELSE 0)
    BY <1>7 DEF Free
  <2>3. SUFFICES ASSUME \A x \in Sessions : released'[x] <= 1
                 PROVE  UniqueAddress'
    OBVIOUS
  <2>4. released[target[s]] = 0 /\ \A x \in Sessions : released[x] <= 1
    <3>1. \A x \in Sessions : released[x] \in Nat
      OBVIOUS
    <3>2. \A x \in Sessions : released[x] <= 1
      BY <2>2, <2>3, <3>1
    <3>3. released'[target[s]] = released[target[s]] + 1
      BY <2>1, <2>2
    <3>4. released'[target[s]] <= 1 /\ released[target[s]] \in Nat
      BY <2>1, <2>3, <3>1
    <3>5. released[target[s]] = 0
      BY <3>3, <3>4
    <3> QED
      BY <3>2, <3>5
  <2>5. UniqueAddress
    BY <2>4
  <2>6. \A x \in Sessions : Holds(x)' <=> Holds(x) /\ x # target[s]
    BY <2>1, <2>2, <2>4
  <2> QED
    BY <2>1, <2>2, <2>4, <2>5, <2>6
<1>8. ASSUME NEW s \in Sessions, Unroute(s)
      PROVE  UniqueUnlessReleasedTwice'
  BY <1>8 DEF Unroute, At, Goto
<1>9. ASSUME NEW s \in Sessions, Assign(s)
      PROVE  UniqueUnlessReleasedTwice'
  <2>1. addr[s] = None /\ released[s] = 0
    BY <1>9 DEF Assign, At, HandlerInv, Fresh
  <2>2. PICK a \in Addrs :
          /\ <<net[s], a>> \notin pool
          /\ pool' = pool \cup {<<net[s], a>>}
          /\ addr' = [addr EXCEPT ![s] = a]
    BY ZenonT(30), <1>9 DEF Assign
  <2>3. net' = net /\ released' = released
    BY <1>9 DEF Assign
  <2>4. \A x \in Sessions : Holds(x)' <=> Holds(x) \/ x = s
    BY <2>1, <2>2, <2>3
  <2>5. Key(s)' = <<net[s], a>>
    BY <2>2, <2>3
  <2>6. \A x \in Sessions : x # s => Key(x)' = Key(x)
    BY <2>2, <2>3
  <2> QED
    BY <2>1, <2>2, <2>3, <2>4, <2>5, <2>6
<1>10. ASSUME NEW s \in Sessions, AssignFails(s)
      PROVE  UniqueUnlessReleasedTwice'
  BY <1>10 DEF AssignFails, At, Goto
<1>11. ASSUME NEW s \in Sessions, QuotasFail(s)
      PROVE  UniqueUnlessReleasedTwice'
  BY <1>11 DEF QuotasFail, At, Goto
<1>12. ASSUME NEW s \in Sessions, RegisterSession(s)
      PROVE  UniqueUnlessReleasedTwice'
  BY <1>12 DEF RegisterSession, At, Goto
<1>13. ASSUME NEW s \in Sessions, Store(s)
      PROVE  UniqueUnlessReleasedTwice'
  BY <1>13 DEF Store, At, Goto
<1>14. ASSUME NEW s \in Sessions, Route(s)
      PROVE  UniqueUnlessReleasedTwice'
  BY <1>14 DEF Route, At, Goto
<1>15. ASSUME NEW s \in Sessions, Meter(s)
      PROVE  UniqueUnlessReleasedTwice'
  BY <1>15 DEF Meter, At, Goto
<1>16. ASSUME NEW s \in Sessions, MeterFails(s)
      PROVE  UniqueUnlessReleasedTwice'
  BY <1>16 DEF MeterFails, At, Goto
<1>17. ASSUME NEW s \in Sessions, ExitStopped(s)
      PROVE  UniqueUnlessReleasedTwice'
  BY <1>17 DEF ExitStopped, At, Goto, Leave
<1>18. ASSUME NEW s \in Sessions, ExitLost(s)
      PROVE  UniqueUnlessReleasedTwice'
  BY <1>18 DEF ExitLost, At, Goto, Leave
<1>19. ASSUME NEW s \in Sessions, ExitAcceptErr(s)
      PROVE  UniqueUnlessReleasedTwice'
  BY <1>19 DEF ExitAcceptErr, At, Goto, Leave
<1>20. ASSUME NEW s \in Sessions, Unregister(s)
      PROVE  UniqueUnlessReleasedTwice'
  BY <1>20 DEF Unregister, At, Goto
<1>21. ASSUME NEW s \in Sessions, Ping(s)
      PROVE  UniqueUnlessReleasedTwice'
  BY <1>21 DEF Ping
<1>22. ASSUME NEW s \in Sessions, Expire(s)
      PROVE  UniqueUnlessReleasedTwice'
  BY <1>22 DEF Expire
<1>23. ASSUME NEW s \in Sessions, ClientLeaves(s)
      PROVE  UniqueUnlessReleasedTwice'
  BY <1>23 DEF ClientLeaves
<1>24. ASSUME NEW a \in Addrs, CheckStatus(a)
      PROVE  UniqueUnlessReleasedTwice'
  BY <1>24 DEF CheckStatus
<1>25. ASSUME StatusClose
      PROVE  UniqueUnlessReleasedTwice'
  BY <1>25 DEF StatusClose, Panic
<1>26. ASSUME StatusDelete
      PROVE  UniqueUnlessReleasedTwice'
  BY <1>26 DEF StatusDelete
<1>27. ASSUME NEW n \in Nets, StopNetwork(n)
      PROVE  UniqueUnlessReleasedTwice'
  BY <1>27 DEF StopNetwork
<1>28. ASSUME NEW a \in Addrs, AdminVisit(a)
      PROVE  UniqueUnlessReleasedTwice'
  BY <1>28 DEF AdminVisit
<1>29. ASSUME AdminClose
      PROVE  UniqueUnlessReleasedTwice'
  BY <1>29 DEF AdminClose
<1>30. ASSUME AdminRemove
      PROVE  UniqueUnlessReleasedTwice'
  BY <1>30 DEF AdminRemove
<1>31. ASSUME NEW n \in Nets, StartNetwork(n)
      PROVE  UniqueUnlessReleasedTwice'
  BY <1>31 DEF StartNetwork
<1>32. ASSUME UNCHANGED vars
      PROVE  UniqueUnlessReleasedTwice'
  BY SMTT(30), <1>32
<1> QED
  BY ZenonT(30), <1>1, <1>2, <1>3, <1>4, <1>5, <1>6, <1>7,
     <1>8, <1>9, <1>10, <1>11, <1>12, <1>13, <1>14, <1>15, <1>16, <1>17,
     <1>18, <1>19, <1>20, <1>21, <1>22, <1>23, <1>24, <1>25, <1>26, <1>27,
     <1>28, <1>29, <1>30, <1>31, <1>32
  DEF Next, HandlerStep, ClientStep, StatusStep, AdminStep
-----------------------------------------------------------------------------
\* Every action keeps what a session has registered, until it is stopped.
LEMMA RegisteredStep ==
  ASSUME TypeOK, HandlerInv, LoopInv, TableInv, RegisteredInv, [Next]_vars
  PROVE  RegisteredInv'
<1> USE ConstantTypes DEF vars, tables, private, outside, TypeOK,
   RegisteredInv, Alone, Key, Keys, Releasing
<1>1. ASSUME NEW s \in Sessions, Receive(s)
      PROVE  RegisteredInv'
  <2>1. PICK n \in registry, last \in Sessions \cup {None} :
          ReceiveEffect(s, n, last)
    BY <1>1, ReceivePicks
  <2> QED
    BY <2>1 DEF ReceiveEffect
<1>2. ASSUME NEW s \in Sessions, HandshakeFails(s)
      PROVE  RegisteredInv'
  BY <1>2 DEF HandshakeFails, At, Goto
<1>3. ASSUME NEW s \in Sessions, StopLast(s)
      PROVE  RegisteredInv'
  BY <1>3 DEF StopLast, At, Goto
<1>4. ASSUME NEW s \in Sessions, CloseLast(s)
      PROVE  RegisteredInv'
  BY <1>4 DEF CloseLast, At, Goto, Panic
<1>5. ASSUME NEW s \in Sessions, Commit(s)
      PROVE  RegisteredInv'
  BY <1>5 DEF Commit, At, Goto, Panic
<1>6. ASSUME NEW s \in Sessions, Forget(s)
      PROVE  RegisteredInv'
  BY <1>6 DEF Forget, At, Goto, HandlerInv, Busy
<1>7. ASSUME NEW s \in Sessions, Free(s)
      PROVE  RegisteredInv'
  BY <1>7 DEF Free, At, Goto, HandlerInv, Busy
<1>8. ASSUME NEW s \in Sessions, Unroute(s)
      PROVE  RegisteredInv'
  BY <1>8 DEF Unroute, At, Goto, HandlerInv, Busy
<1>9. ASSUME NEW s \in Sessions, Assign(s)
      PROVE  RegisteredInv'
  BY <1>9 DEF Assign, At, Goto, HandlerInv, Busy, Fresh, Known
<1>10. ASSUME NEW s \in Sessions, AssignFails(s)
      PROVE  RegisteredInv'
  BY <1>10 DEF AssignFails, At, Goto
<1>11. ASSUME NEW s \in Sessions, QuotasFail(s)
      PROVE  RegisteredInv'
  BY <1>11 DEF QuotasFail, At, Goto
<1>12. ASSUME NEW s \in Sessions, RegisterSession(s)
      PROVE  RegisteredInv'
  BY <1>12 DEF RegisterSession, At, Goto
<1>13. ASSUME NEW s \in Sessions, Store(s)
      PROVE  RegisteredInv'
  BY <1>13 DEF Store, At, Goto
<1>14. ASSUME NEW s \in Sessions, Route(s)
      PROVE  RegisteredInv'
  BY <1>14 DEF Route, At, Goto
<1>15. ASSUME NEW s \in Sessions, Meter(s)
      PROVE  RegisteredInv'
  BY <1>15 DEF Meter, At, Goto
<1>16. ASSUME NEW s \in Sessions, MeterFails(s)
      PROVE  RegisteredInv'
  BY <1>16 DEF MeterFails, At, Goto
<1>17. ASSUME NEW s \in Sessions, ExitStopped(s)
      PROVE  RegisteredInv'
  BY <1>17 DEF ExitStopped, At, Goto, Leave
<1>18. ASSUME NEW s \in Sessions, ExitLost(s)
      PROVE  RegisteredInv'
  BY <1>18 DEF ExitLost, At, Goto, Leave
<1>19. ASSUME NEW s \in Sessions, ExitAcceptErr(s)
      PROVE  RegisteredInv'
  BY <1>19 DEF ExitAcceptErr, At, Goto, Leave
<1>20. ASSUME NEW s \in Sessions, Unregister(s)
      PROVE  RegisteredInv'
  BY <1>20 DEF Unregister, At, Goto
<1>21. ASSUME NEW s \in Sessions, Ping(s)
      PROVE  RegisteredInv'
  BY <1>21 DEF Ping
<1>22. ASSUME NEW s \in Sessions, Expire(s)
      PROVE  RegisteredInv'
  BY <1>22 DEF Expire
<1>23. ASSUME NEW s \in Sessions, ClientLeaves(s)
      PROVE  RegisteredInv'
  BY <1>23 DEF ClientLeaves
<1>24. ASSUME NEW a \in Addrs, CheckStatus(a)
      PROVE  RegisteredInv'
  BY <1>24 DEF CheckStatus
<1>25. ASSUME StatusClose
      PROVE  RegisteredInv'
  BY <1>25 DEF StatusClose, Panic
<1>26. ASSUME StatusDelete
      PROVE  RegisteredInv'
  BY <1>26 DEF StatusDelete, LoopInv
<1>27. ASSUME NEW n \in Nets, StopNetwork(n)
      PROVE  RegisteredInv'
  BY <1>27 DEF StopNetwork
<1>28. ASSUME NEW a \in Addrs, AdminVisit(a)
      PROVE  RegisteredInv'
  BY <1>28 DEF AdminVisit
<1>29. ASSUME AdminClose
      PROVE  RegisteredInv'
  BY <1>29 DEF AdminClose
<1>30. ASSUME AdminRemove
      PROVE  RegisteredInv'
  BY <1>30 DEF AdminRemove
<1>31. ASSUME NEW n \in Nets, StartNetwork(n)
      PROVE  RegisteredInv'
  BY <1>31 DEF StartNetwork
<1>32. ASSUME UNCHANGED vars
      PROVE  RegisteredInv'
  BY SMTT(30), <1>32
<1> QED
  BY ZenonT(30), <1>1, <1>2, <1>3, <1>4, <1>5, <1>6, <1>7,
     <1>8, <1>9, <1>10, <1>11, <1>12, <1>13, <1>14, <1>15, <1>16, <1>17,
     <1>18, <1>19, <1>20, <1>21, <1>22, <1>23, <1>24, <1>25, <1>26, <1>27,
     <1>28, <1>29, <1>30, <1>31, <1>32
  DEF Next, HandlerStep, ClientStep, StatusStep, AdminStep
-----------------------------------------------------------------------------
\* Without last sessions a handler releases its own session, and once.
OnceInv ==
  \A s \in Sessions :
    /\ pc[s] \notin {"stop", "close"}
    /\ pc[s] \in Releasing => target[s] = s
    /\ IF pc[s] \in {"unroute", "unregister", "done"}
         THEN released[s] <= 1
         ELSE released[s] = 0

\* Every action keeps it.
LEMMA OnceStep ==
  ASSUME Resumers = {}, TypeOK, OnceInv, [Next]_vars
  PROVE  OnceInv'
<1> USE ConstantTypes DEF vars, tables, private, outside, TypeOK, OnceInv,
   Releasing, Labels
<1>1. ASSUME NEW s \in Sessions, Receive(s)
      PROVE  OnceInv'
  <2>1. pc[s] = "receive" /\ pc' = [pc EXCEPT ![s] = "assign"]
        /\ UNCHANGED <<target, released>>
    BY ZenonT(30), <1>1 DEF Receive, At, Goto
  <2> QED
    BY <2>1
<1>2. ASSUME NEW s \in Sessions, HandshakeFails(s)
      PROVE  OnceInv'
  BY <1>2 DEF HandshakeFails, At, Goto
<1>3. ASSUME NEW s \in Sessions, StopLast(s)
      PROVE  OnceInv'
  BY <1>3 DEF StopLast, At, Goto
<1>4. ASSUME NEW s \in Sessions, CloseLast(s)
      PROVE  OnceInv'
  BY <1>4 DEF CloseLast, At, Goto, Panic
<1>5. ASSUME NEW s \in Sessions, Commit(s)
      PROVE  OnceInv'
  BY <1>5 DEF Commit, At, Goto, Panic
<1>6. ASSUME NEW s \in Sessions, Forget(s)
      PROVE  OnceInv'
  BY <1>6 DEF Forget, At, Goto
<1>7. ASSUME NEW s \in Sessions, Free(s)
      PROVE  OnceInv'
  BY <1>7 DEF Free, At, Goto
<1>8. ASSUME NEW s \in Sessions, Unroute(s)
      PROVE  OnceInv'
  BY <1>8 DEF Unroute, At, Goto
<1>9. ASSUME NEW s \in Sessions, Assign(s)
      PROVE  OnceInv'
  BY <1>9 DEF Assign, At, Goto
<1>10. ASSUME NEW s \in Sessions, AssignFails(s)
      PROVE  OnceInv'
  BY <1>10 DEF AssignFails, At, Goto
<1>11. ASSUME NEW s \in Sessions, QuotasFail(s)
      PROVE  OnceInv'
  BY <1>11 DEF QuotasFail, At, Goto
<1>12. ASSUME NEW s \in Sessions, RegisterSession(s)
      PROVE  OnceInv'
  BY <1>12 DEF RegisterSession, At, Goto
<1>13. ASSUME NEW s \in Sessions, Store(s)
      PROVE  OnceInv'
  BY <1>13 DEF Store, At, Goto
<1>14. ASSUME NEW s \in Sessions, Route(s)
      PROVE  OnceInv'
  BY <1>14 DEF Route, At, Goto
<1>15. ASSUME NEW s \in Sessions, Meter(s)
      PROVE  OnceInv'
  BY <1>15 DEF Meter, At, Goto
<1>16. ASSUME NEW s \in Sessions, MeterFails(s)
      PROVE  OnceInv'
  BY <1>16 DEF MeterFails, At, Goto
<1>17. ASSUME NEW s \in Sessions, ExitStopped(s)
      PROVE  OnceInv'
  BY <1>17 DEF ExitStopped, At, Goto, Leave
<1>18. ASSUME NEW s \in Sessions, ExitLost(s)
      PROVE  OnceInv'
  BY <1>18 DEF ExitLost, At, Goto, Leave
<1>19. ASSUME NEW s \in Sessions, ExitAcceptErr(s)
      PROVE  OnceInv'
  BY <1>19 DEF ExitAcceptErr, At, Goto, Leave
<1>20. ASSUME NEW s \in Sessions, Unregister(s)
      PROVE  OnceInv'
  BY <1>20 DEF Unregister, At, Goto
<1>21. ASSUME NEW s \in Sessions, Ping(s)
      PROVE  OnceInv'
  BY <1>21 DEF Ping
<1>22. ASSUME NEW s \in Sessions, Expire(s)
      PROVE  OnceInv'
  BY <1>22 DEF Expire
<1>23. ASSUME NEW s \in Sessions, ClientLeaves(s)
      PROVE  OnceInv'
  BY <1>23 DEF ClientLeaves
<1>24. ASSUME NEW a \in Addrs, CheckStatus(a)
      PROVE  OnceInv'
  BY <1>24 DEF CheckStatus
<1>25. ASSUME StatusClose
      PROVE  OnceInv'
  BY <1>25 DEF StatusClose, Panic
<1>26. ASSUME StatusDelete
      PROVE  OnceInv'
  BY SMTT(30), <1>26 DEF StatusDelete
<1>27. ASSUME NEW n \in Nets, StopNetwork(n)
      PROVE  OnceInv'
  BY <1>27 DEF StopNetwork
<1>28. ASSUME NEW a \in Addrs, AdminVisit(a)
      PROVE  OnceInv'
  BY <1>28 DEF AdminVisit
<1>29. ASSUME AdminClose
      PROVE  OnceInv'
  BY <1>29 DEF AdminClose
<1>30. ASSUME AdminRemove
      PROVE  OnceInv'
  BY SMTT(30), <1>30 DEF AdminRemove
<1>31. ASSUME NEW n \in Nets, StartNetwork(n)
      PROVE  OnceInv'
  BY <1>31 DEF StartNetwork
<1>32. ASSUME UNCHANGED vars
      PROVE  OnceInv'
  BY SMTT(30), <1>32
<1> QED
  BY ZenonT(30), <1>1, <1>2, <1>3, <1>4, <1>5, <1>6, <1>7,
     <1>8, <1>9, <1>10, <1>11, <1>12, <1>13, <1>14, <1>15, <1>16, <1>17,
     <1>18, <1>19, <1>20, <1>21, <1>22, <1>23, <1>24, <1>25, <1>26, <1>27,
     <1>28, <1>29, <1>30, <1>31, <1>32
  DEF Next, HandlerStep, ClientStep, StatusStep, AdminStep
-----------------------------------------------------------------------------
\* Without StopNetwork, too, the status loop alone closes channels, and the
\* deferred Release of a handler finds its quota.
CalmInv ==
  /\ ~panicked
  /\ admin.pc = "idle" /\ stops = 0
  /\ loop.pc = "close" => loop.sess \notin stopped
  /\ \A s \in Sessions : pc[s] \in {"serve"} \cup Releasing => s \in metered

\* Every action keeps it.
LEMMA CalmStep ==
  ASSUME Resumers = {}, MaxStops = 0, TypeOK, OnceInv, CalmInv, [Next]_vars
  PROVE  CalmInv'
<1> USE ConstantTypes DEF vars, tables, private, outside, TypeOK, CalmInv,
   Releasing
<1>1. ASSUME NEW s \in Sessions, Receive(s)
      PROVE  CalmInv'
  <2>1. pc[s] = "receive" /\ pc' = [pc EXCEPT ![s] = "assign"]
    BY ZenonT(30), <1>1 DEF Receive, At, Goto
  <2>2. UNCHANGED <<outside, metered, stopped, panicked>>
    BY <1>1 DEF Receive
  <2> QED
    BY <2>1, <2>2
<1>2. ASSUME NEW s \in Sessions, HandshakeFails(s)
      PROVE  CalmInv'
  BY <1>2 DEF HandshakeFails, At, Goto
<1>3. ASSUME NEW s \in Sessions, StopLast(s)
      PROVE  CalmInv'
  BY <1>3 DEF StopLast, At, OnceInv
<1>4. ASSUME NEW s \in Sessions, CloseLast(s)
      PROVE  CalmInv'
  BY <1>4 DEF CloseLast, At, OnceInv
<1>5. ASSUME NEW s \in Sessions, Commit(s)
      PROVE  CalmInv'
  BY <1>5 DEF Commit, At, Goto, Panic, OnceInv
<1>6. ASSUME NEW s \in Sessions, Forget(s)
      PROVE  CalmInv'
  BY <1>6 DEF Forget, At, Goto
<1>7. ASSUME NEW s \in Sessions, Free(s)
      PROVE  CalmInv'
  BY <1>7 DEF Free, At, Goto
<1>8. ASSUME NEW s \in Sessions, Unroute(s)
      PROVE  CalmInv'
  BY <1>8 DEF Unroute, At, Goto
<1>9. ASSUME NEW s \in Sessions, Assign(s)
      PROVE  CalmInv'
  BY <1>9 DEF Assign, At, Goto
<1>10. ASSUME NEW s \in Sessions, AssignFails(s)
      PROVE  CalmInv'
  BY <1>10 DEF AssignFails, At, Goto
<1>11. ASSUME NEW s \in Sessions, QuotasFail(s)
      PROVE  CalmInv'
  BY <1>11 DEF QuotasFail, At, Goto
<1>12. ASSUME NEW s \in Sessions, RegisterSession(s)
      PROVE  CalmInv'
  BY <1>12 DEF RegisterSession, At, Goto
<1>13. ASSUME NEW s \in Sessions, Store(s)
      PROVE  CalmInv'
  BY <1>13 DEF Store, At, Goto
<1>14. ASSUME NEW s \in Sessions, Route(s)
      PROVE  CalmInv'
  BY <1>14 DEF Route, At, Goto
<1>15. ASSUME NEW s \in Sessions, Meter(s)
      PROVE  CalmInv'
  BY <1>15 DEF Meter, At, Goto
<1>16. ASSUME NEW s \in Sessions, MeterFails(s)
      PROVE  CalmInv'
  BY <1>16 DEF MeterFails, At, Goto
<1>17. ASSUME NEW s \in Sessions, ExitStopped(s)
      PROVE  CalmInv'
  BY <1>17 DEF ExitStopped, At, Goto, Leave
<1>18. ASSUME NEW s \in Sessions, ExitLost(s)
      PROVE  CalmInv'
  BY <1>18 DEF ExitLost, At, Goto, Leave
<1>19. ASSUME NEW s \in Sessions, ExitAcceptErr(s)
      PROVE  CalmInv'
  BY <1>19 DEF ExitAcceptErr, At, Goto, Leave
<1>20. ASSUME NEW s \in Sessions, Unregister(s)
      PROVE  CalmInv'
  BY <1>20 DEF Unregister, At, Goto
<1>21. ASSUME NEW s \in Sessions, Ping(s)
      PROVE  CalmInv'
  BY <1>21 DEF Ping
<1>22. ASSUME NEW s \in Sessions, Expire(s)
      PROVE  CalmInv'
  BY <1>22 DEF Expire
<1>23. ASSUME NEW s \in Sessions, ClientLeaves(s)
      PROVE  CalmInv'
  BY SMTT(30), <1>23 DEF ClientLeaves
<1>24. ASSUME NEW a \in Addrs, CheckStatus(a)
      PROVE  CalmInv'
  BY <1>24 DEF CheckStatus
<1>25. ASSUME StatusClose
      PROVE  CalmInv'
  BY SMTT(30), <1>25 DEF StatusClose, Panic
<1>26. ASSUME StatusDelete
      PROVE  CalmInv'
  BY SMTT(30), <1>26 DEF StatusDelete, idleLoop
<1>27. ASSUME NEW n \in Nets, StopNetwork(n)
      PROVE  CalmInv'
  BY <1>27 DEF StopNetwork
<1>28. ASSUME NEW a \in Addrs, AdminVisit(a)
      PROVE  CalmInv'
  BY <1>28 DEF AdminVisit
<1>29. ASSUME AdminClose
      PROVE  CalmInv'
  BY <1>29 DEF AdminClose
<1>30. ASSUME AdminRemove
      PROVE  CalmInv'
  BY SMTT(30), <1>30 DEF AdminRemove
<1>31. ASSUME NEW n \in Nets, StartNetwork(n)
      PROVE  CalmInv'
  BY SMTT(30), <1>31 DEF StartNetwork
<1>32. ASSUME UNCHANGED vars
      PROVE  CalmInv'
  BY <1>32
<1> QED
  BY ZenonT(30), <1>1, <1>2, <1>3, <1>4, <1>5, <1>6, <1>7,
     <1>8, <1>9, <1>10, <1>11, <1>12, <1>13, <1>14, <1>15, <1>16, <1>17,
     <1>18, <1>19, <1>20, <1>21, <1>22, <1>23, <1>24, <1>25, <1>26, <1>27,
     <1>28, <1>29, <1>30, <1>31, <1>32
  DEF Next, HandlerStep, ClientStep, StatusStep, AdminStep
-----------------------------------------------------------------------------
\* The initial states satisfy all four.
LEMMA InitiallyApart ==
  Init => /\ RegisteredInv /\ UniqueUnlessReleasedTwice
          /\ OnceInv /\ CalmInv
<1> SUFFICES ASSUME Init
             PROVE  /\ RegisteredInv /\ UniqueUnlessReleasedTwice
                    /\ OnceInv /\ CalmInv
  OBVIOUS
<1> USE ConstantTypes DEF Init
<1>1. RegisteredInv
  BY DEF RegisteredInv
<1>2. UniqueUnlessReleasedTwice
  <2>1. \A s \in Sessions : ~Holds(s)
    BY DEF Holds
  <2> QED
    BY <2>1 DEF UniqueUnlessReleasedTwice, UniqueAddress
<1>3. OnceInv /\ CalmInv
  BY Zenon DEF OnceInv, CalmInv, Releasing, idleLoop, idleAdmin
<1> QED
  BY <1>1, <1>2, <1>3

\* An address that was never given back twice has one holder, and the pool's
\* map marks exactly the addresses that are held: assignment (device.go:47)
\* and release (session.go:93) may be interleaved in any way.
THEOREM AddressesApart == Spec => []UniqueUnlessReleasedTwice
<1>1. Init => UniqueUnlessReleasedTwice
  BY InitiallyApart
<1>2. Inv /\ UniqueUnlessReleasedTwice /\ [Next]_vars
        => UniqueUnlessReleasedTwice'
  BY UniqueStep DEF Inv
<1> QED
  BY <1>1, <1>2, Invariance, PTL DEF Spec

\* A serving session stays fully registered until it is told to stop, if it
\* alone ever had its address.
THEOREM StaysRegistered == Spec => []RegisteredUntilStopped
<1>1. Init => RegisteredInv
  BY InitiallyApart
<1>2. Inv /\ RegisteredInv /\ [Next]_vars => RegisteredInv'
  BY RegisteredStep DEF Inv
<1>3. RegisteredInv => RegisteredUntilStopped
  BY DEF RegisteredInv, RegisteredUntilStopped, Registered, Alone
<1> QED
  BY <1>1, <1>2, <1>3, Invariance, PTL DEF Spec

\* With clients that never name a last session (Resumers = {}) no address is
\* released twice, so addresses always have one holder.
THEOREM FirstLoginAddressesApart ==
  ASSUME Resumers = {}
  PROVE  Spec => []UniqueAddress
<1>1. Init => OnceInv
  BY InitiallyApart
<1>2. Inv /\ OnceInv /\ [Next]_vars => OnceInv'
  BY OnceStep DEF Inv
<1>3. Inv /\ OnceInv /\ UniqueUnlessReleasedTwice => UniqueAddress
  BY DEF Inv, TypeOK, OnceInv, UniqueUnlessReleasedTwice
<1> QED
  BY <1>1, <1>2, <1>3, Invariance, AddressesApart, PTL DEF Spec

\* If, too, nobody stops a network, then no goroutine closes a closed channel
\* (session.go:76) or releases a session without a quota (session.go:91).
THEOREM FirstLoginNoPanic ==
  ASSUME Resumers = {}, MaxStops = 0
  PROVE  Spec => []NoPanic
<1>1. Init => OnceInv /\ CalmInv
  BY InitiallyApart
<1>2. Inv /\ OnceInv /\ CalmInv /\ [Next]_vars => OnceInv' /\ CalmInv'
  BY OnceStep, CalmStep DEF Inv
<1>3. CalmInv => NoPanic
  BY DEF CalmInv, NoPanic
<1> QED
  BY <1>1, <1>2, <1>3, Invariance, PTL DEF Spec

-------------------------------------------------------------------------------
Names == FuncNames \cup {"none"}
Messages == [id : Nat, name : Names, to : Callers \cup {Nobody}]
CallStates == [pc : {"idle", "lock", "send", "store", "wait"}, name : Names, id : Nat,
               reply : Messages]

Request(c) == [id |-> call[c].id, name |-> call[c].name, to |-> c]
Calling(c) == call[c].pc \in {"send", "store", "wait"}

CallTypes ==
  /\ callMu \in Callers \cup {Nobody}
  /\ call \in [Callers -> CallStates]
  /\ calls \in Nat
  /\ requests \subseteq Messages /\ replies \subseteq Messages
  /\ respChan \in [DOMAIN respChan -> Messages]

(* The call under way holds the mutex and the latest id. *)
OneCall == \A c \in Callers : Calling(c) => callMu = c /\ call[c].id = calls /\ calls > 0

(* Only a waiting call has a channel. *)
OneChannel == \A id \in DOMAIN respChan : \E c \in Callers : call[c].pc = "wait" /\ call[c].id = id

(* No id is ahead of the counter, and an id belongs to one message, which   *)
(* is on its way to the server or back.                                     *)
OneMessage ==
  /\ \A m \in requests \cup replies : m.id \in 1..calls
  /\ \A m, n \in requests \cup replies : m.id = n.id => m = n
  /\ requests \cap replies = {}

(* A message with the id of the call under way is its request or the reply  *)
(* to it; once the reply is in the channel there is none.                   *)
OwnMessage ==
  \A c \in Callers : \A m \in requests \cup replies :
    Calling(c) /\ m.id = call[c].id =>
      /\ call[c].pc # "send" /\ m = Request(c)
      /\ call[c].pc = "wait" => call[c].id \in DOMAIN respChan /\ respChan[call[c].id] = NoReply

OwnReply ==
  \A c \in Callers :
    /\ call[c].pc = "wait" => call[c].id \in DOMAIN respChan
                               /\ respChan[call[c].id] \in {NoReply, Request(c)}
    /\ call[c].pc # "idle" => call[c].reply = NoReply
    /\ call[c].reply \in {NoReply, Request(c)}

CallIInv == CallTypes /\ OneCall /\ OneChannel /\ OneMessage /\ OwnMessage /\ OwnReply /\ LoopNeverBlocks

LEMMA NoReplyTyped == NoReply \in Messages /\ NoReply.id = 0
  BY DEF NoReply, Messages, Names

LEMMA CallInitInv == CallInit => CallIInv
  BY NoReplyTyped
  DEF CallInit, CallIInv, CallTypes, OneCall, OneChannel, OneMessage, OwnMessage, OwnReply,
      LoopNeverBlocks, Resting, CallStates, Calling, Names

(* SendFails, Timeout and TakeReply all leave. *)
LEMMA LeaveKeeps ==
  ASSUME CallIInv, NEW c \in Callers, call[c].pc \in {"send", "wait"},
         NEW reply \in {NoReply, Request(c)}, Return(c, reply),
         UNCHANGED <<calls, requests, replies, clientLoop>>
  PROVE  CallIInv'
  <1>1. reply \in Messages
    BY NoReplyTyped DEF CallIInv, CallTypes, CallStates, Messages, Request
  <1>2. /\ call' \in [Callers -> CallStates]
        /\ call'[c].pc = "idle" /\ call'[c].reply = reply
        /\ call'[c].id = call[c].id /\ call'[c].name = call[c].name
        /\ \A d \in Callers \ {c} : call'[d] = call[d]
    BY Zenon, <1>1 DEF Return, CallIInv, CallTypes, CallStates
  <1>3. \A d \in Callers : d # c => ~Calling(d)
    BY DEF CallIInv, OneCall, Calling
  <1>4. DOMAIN respChan' = {} /\ callMu' = Nobody
    <2>1. \A id \in DOMAIN respChan : id = call[c].id
      BY <1>3 DEF CallIInv, OneChannel, Calling
    <2> QED
      BY <2>1 DEF Return
  <1>5. CallTypes'
    BY <1>2, <1>4 DEF CallIInv, CallTypes, Return
  <1>6. \A d \in Callers : ~Calling(d)'
    BY SMTT(30), <1>2, <1>3 DEF Calling
  <1>7. OneCall' /\ OneChannel' /\ OneMessage' /\ OwnMessage' /\ LoopNeverBlocks'
    BY <1>4, <1>6 DEF CallIInv, OneCall, OneChannel, OneMessage, OwnMessage, LoopNeverBlocks
  <1>8. OwnReply'
    BY <1>2, <1>3, <1>6 DEF CallIInv, OwnReply, Request, Calling
  <1> QED
    BY <1>5, <1>7, <1>8 DEF CallIInv

LEMMA CallStepInv == CallIInv /\ [CallNext]_callVars => CallIInv'
  <1> SUFFICES ASSUME CallIInv, [CallNext]_callVars PROVE CallIInv'
    OBVIOUS
  <1> USE CallAssumption, NoReplyTyped
  <1>1. ASSUME NEW c \in Callers, NEW name \in FuncNames, CallFunc(c, name) PROVE CallIInv'
    <2>1. /\ call' \in [Callers -> CallStates] /\ call'[c].pc = "lock" /\ call'[c].reply = NoReply
          /\ \A d \in Callers \ {c} : call'[d] = call[d]
      BY Zenon, <1>1 DEF CallFunc, CallIInv, CallTypes, CallStates, Resting, Names
    <2>2. CallTypes' /\ OneCall' /\ OneMessage' /\ LoopNeverBlocks'
      BY <1>1, <2>1 DEF CallFunc, CallIInv, CallTypes, OneCall, OneMessage, LoopNeverBlocks, Calling
    <2>3. OneChannel'
      <3>1. call[c].pc = "idle" /\ respChan' = respChan
        BY <1>1 DEF CallFunc, CallAt
      <3> QED
        BY <3>1, <2>1 DEF CallIInv, OneChannel
    <2>4. OwnMessage'
      BY <1>1, <2>1 DEF CallFunc, CallIInv, OwnMessage, Calling, Request
    <2>5. OwnReply'
      BY <1>1, <2>1 DEF CallFunc, CallIInv, OwnReply, Request
    <2> QED
      BY <2>2, <2>3, <2>4, <2>5 DEF CallIInv
  <1>2. ASSUME NEW c \in Callers, Lock(c) PROVE CallIInv'
    <2>1. /\ call' \in [Callers -> CallStates] /\ call'[c].pc = "send" /\ call'[c].id = calls + 1
          /\ call'[c].reply = call[c].reply /\ call'[c].name = call[c].name
          /\ \A d \in Callers \ {c} : call'[d] = call[d]
      <3>1. call[c] \in CallStates /\ calls + 1 \in Nat
        BY DEF CallIInv, CallTypes
      <3>2. call' = [call EXCEPT ![c].pc = "send", ![c].id = calls + 1]
        BY <1>2 DEF Lock
      <3>3. call'[c] = [call[c] EXCEPT !.pc = "send", !.id = calls + 1]
        BY <3>2 DEF CallIInv, CallTypes
      <3>4. call'[c] \in CallStates
        BY Zenon, <3>1, <3>3 DEF CallStates
      <3>5. DOMAIN call' = Callers /\ \A d \in Callers \ {c} : call'[d] = call[d]
        BY <3>2 DEF CallIInv, CallTypes
      <3>6. call' \in [Callers -> CallStates]
        BY <3>2, <3>4, <3>5 DEF CallIInv, CallTypes
      <3> QED
        BY <3>1, <3>3, <3>5, <3>6 DEF CallStates
    <2>2. /\ calls' = calls + 1 /\ calls \in Nat /\ callMu' = c /\ call[c].pc = "lock"
          /\ UNCHANGED <<requests, replies, respChan, clientLoop>>
      BY <1>2 DEF Lock, CallIInv, CallTypes, CallAt
    <2>3. \A d \in Callers : ~Calling(d)
      BY <1>2 DEF Lock, CallIInv, OneCall
    <2>4. \A d \in Callers \ {c} : ~Calling(d)'
      BY <2>1, <2>3 DEF Calling
    <2>5. CallTypes' /\ OneCall' /\ LoopNeverBlocks'
      BY <2>1, <2>2, <2>4 DEF CallIInv, CallTypes, OneCall, LoopNeverBlocks
    <2>6. OneChannel' /\ OneMessage'
      BY <2>2, <2>3 DEF CallIInv, OneChannel, OneMessage, Calling
    <2>7. OwnMessage'
      <3>1. \A m \in requests \cup replies : m.id # calls + 1
        BY <2>2 DEF CallIInv, OneMessage
      <3>2. ASSUME NEW d \in Callers, NEW m \in requests \cup replies,
                   Calling(d)', m.id = call'[d].id
            PROVE  FALSE
        BY <2>1, <2>4, <3>1, <3>2
      <3> QED
        BY <2>2, <3>2 DEF OwnMessage
    <2>8. OwnReply'
      <3>1. call'[c].pc # "wait" /\ call'[c].reply = NoReply
        BY <2>1, <2>2 DEF CallIInv, OwnReply
      <3>2. ASSUME NEW d \in Callers \ {c}
            PROVE  /\ call'[d].pc # "wait"
                   /\ call'[d].pc # "idle" => call'[d].reply = NoReply
                   /\ call'[d].reply \in {NoReply, Request(d)} /\ Request(d)' = Request(d)
        BY <2>1, <2>3 DEF CallIInv, OwnReply, Request, Calling
      <3> QED
        BY <3>1, <3>2 DEF OwnReply
    <2> QED
      BY <2>5, <2>6, <2>7, <2>8 DEF CallIInv
  <1>3. ASSUME NEW c \in Callers, SendFails(c) PROVE CallIInv'
    BY <1>3, LeaveKeeps DEF SendFails, CallAt
  <1>4. ASSUME NEW c \in Callers, SendRequest(c) PROVE CallIInv'
    <2>1. /\ call' \in [Callers -> CallStates] /\ call'[c].pc = "store" /\ call'[c].id = call[c].id
          /\ call'[c].reply = call[c].reply /\ call'[c].name = call[c].name
          /\ \A d \in Callers \ {c} : call'[d] = call[d]
      BY <1>4 DEF SendRequest, CallIInv, CallTypes, CallStates
    <2>2. /\ requests' = requests \cup {Request(c)} /\ call[c].pc = "send"
          /\ UNCHANGED <<callMu, calls, replies, respChan, clientLoop>>
      BY <1>4 DEF SendRequest, Request, CallAt
    <2>3. /\ Request(c) \in Messages /\ Request(c).id = calls /\ calls \in Nat /\ calls > 0
          /\ call[c].id = calls /\ callMu = c
      BY <2>2 DEF CallIInv, CallTypes, CallStates, Messages, Request, OneCall, Calling
    <2>4. \A m \in requests \cup replies : m.id # calls
      BY <2>2, <2>3 DEF CallIInv, OwnMessage, Calling
    <2>5. \A d \in Callers \ {c} : ~Calling(d)
      BY <2>3 DEF CallIInv, OneCall
    <2>6. CallTypes' /\ OneCall' /\ LoopNeverBlocks'
      BY SMTT(30), <2>1, <2>2, <2>3, <2>5 DEF CallIInv, CallTypes, OneCall, LoopNeverBlocks, Calling
    <2>7. OneChannel'
      <3>1. ASSUME NEW id \in DOMAIN respChan
            PROVE  \E d \in Callers : call'[d].pc = "wait" /\ call'[d].id = id
        <4>1. PICK d \in Callers : call[d].pc = "wait" /\ call[d].id = id
          BY DEF CallIInv, OneChannel
        <4> QED
          BY <2>1, <2>2, <4>1
      <3> QED
        BY <2>2, <3>1 DEF OneChannel
    <2>8. OneMessage'
      BY <2>2, <2>3, <2>4 DEF CallIInv, OneMessage
    <2>9. OwnMessage'
      BY <2>1, <2>2, <2>3, <2>4, <2>5 DEF OwnMessage, Calling, Request
    <2>10. OwnReply'
      BY <2>1, <2>2 DEF CallIInv, OwnReply, Request
    <2> QED
      BY <2>6, <2>7, <2>8, <2>9, <2>10 DEF CallIInv
  <1>5. ASSUME NEW c \in Callers, StoreChan(c) PROVE CallIInv'
    <2>1. /\ call' \in [Callers -> CallStates] /\ call'[c].pc = "wait" /\ call'[c].id = call[c].id
          /\ call'[c].reply = call[c].reply /\ call'[c].name = call[c].name
          /\ \A d \in Callers \ {c} : call'[d] = call[d]
      BY <1>5 DEF StoreChan, CallIInv, CallTypes, CallStates
    <2>2. call[c].pc = "store" /\ UNCHANGED <<callMu, calls, requests, replies, clientLoop>>
      BY <1>5 DEF StoreChan, CallAt
    <2>3. \A d \in Callers \ {c} : ~Calling(d)
      BY <2>2 DEF CallIInv, OneCall, Calling
    <2>4. DOMAIN respChan = {}
      BY Zenon, <2>2, <2>3 DEF CallIInv, OneChannel, Calling
    <2>5. respChan' = [id \in {call[c].id} |-> NoReply]
      BY <1>5, <2>4 DEF StoreChan
    <2>6. CallTypes' /\ OneCall' /\ LoopNeverBlocks'
      BY <2>1, <2>2, <2>5 DEF CallIInv, CallTypes, OneCall, LoopNeverBlocks, Calling
    <2>7. OneChannel' /\ OneMessage'
      BY <2>1, <2>2, <2>5 DEF CallIInv, OneChannel, OneMessage
    <2>8. OwnMessage'
      BY <2>1, <2>2, <2>3, <2>5 DEF CallIInv, OwnMessage, Calling, Request
    <2>9. OwnReply'
      BY <2>1, <2>2, <2>3, <2>5 DEF CallIInv, OwnReply, Calling, Request
    <2> QED
      BY <2>6, <2>7, <2>8, <2>9 DEF CallIInv
  <1>6. ASSUME NEW c \in Callers, Timeout(c) PROVE CallIInv'
    BY <1>6, LeaveKeeps DEF Timeout, CallAt
  <1>7. ASSUME NEW c \in Callers, TakeReply(c) PROVE CallIInv'
    <2>1. respChan[call[c].id] \in {NoReply, Request(c)}
      BY <1>7 DEF TakeReply, CallAt, CallIInv, OwnReply
    <2> QED
      BY <1>7, <2>1, LeaveKeeps DEF TakeReply, CallAt
  <1>8. ASSUME NEW m \in replies, ReceiveReply(m) PROVE CallIInv'
    <2>1. replies' = replies \ {m} /\ UNCHANGED <<callMu, call, calls, requests>>
      BY <1>8 DEF ReceiveReply
    <2>2. ASSUME NEW id \in ChannelOf(m)
          PROVE  \E c \in Callers : /\ call[c].pc = "wait" /\ call[c].id = id /\ m.id = id
                                    /\ m = Request(c) /\ respChan[id] = NoReply
      BY <2>2 DEF ChannelOf, CallIInv, OneChannel, OwnMessage, Calling
    <2>3. \/ respChan' = respChan
          \/ m.id \in DOMAIN respChan /\ respChan' = [respChan EXCEPT ![m.id] = m]
      BY <1>8, <2>2 DEF ReceiveReply, ChannelOf
    <2>4. clientLoop' # "blocked"
      BY <1>8, <2>2 DEF ReceiveReply, CallIInv, LoopNeverBlocks
    <2>5. DOMAIN respChan' = DOMAIN respChan /\ m \in Messages
      BY <2>3 DEF CallIInv, CallTypes
    <2>6. CallTypes' /\ OneCall' /\ OneChannel' /\ OneMessage' /\ LoopNeverBlocks'
      BY <2>1, <2>3, <2>4, <2>5
      DEF CallIInv, CallTypes, OneCall, OneChannel, OneMessage, LoopNeverBlocks, Calling
    <2>7. OwnMessage'
      BY SMTT(30), <2>1, <2>3, <2>5 DEF CallIInv, CallTypes, OneMessage, OwnMessage, Calling, Request
    <2>8. OwnReply'
      <3>1. ASSUME NEW c \in Callers, call[c].pc = "wait"
            PROVE  respChan'[call[c].id] \in {NoReply, Request(c)}
        BY <3>1, <2>3 DEF CallIInv, CallTypes, OwnMessage, OwnReply, Calling
      <3> QED
        BY <3>1, <2>1, <2>5 DEF CallIInv, OwnReply, Request
    <2> QED
      BY <2>6, <2>7, <2>8 DEF CallIInv
  <1>9. ASSUME NEW r \in requests, HandleFuncCallEvent(r) PROVE CallIInv'
    <2>1. /\ requests' = requests \ {r} /\ replies' \in {replies, replies \cup {r}}
          /\ UNCHANGED <<callMu, call, calls, respChan, clientLoop>>
      BY <1>9 DEF HandleFuncCallEvent
    <2>2. requests' \cup replies' \subseteq requests \cup replies /\ requests' \cap replies' = {}
      BY <2>1 DEF CallIInv, OneMessage
    <2> QED
      BY <2>1, <2>2
      DEF CallIInv, CallTypes, OneCall, OneChannel, OneMessage, OwnMessage, OwnReply,
          LoopNeverBlocks, Calling, Request
  <1>10. CASE ClientLoopEnds \/ ServerLoopEnds \/ LoseMessage \/ UNCHANGED callVars
    <2>1. UNCHANGED <<callMu, call, calls, respChan>> /\ clientLoop' # "blocked"
      BY <1>10 DEF ClientLoopEnds, ServerLoopEnds, LoseMessage, callVars, CallIInv, LoopNeverBlocks
    <2>2. requests' \subseteq requests /\ replies' \subseteq replies
      BY <1>10 DEF ClientLoopEnds, ServerLoopEnds, LoseMessage, callVars
    <2> QED
      BY <2>1, <2>2
      DEF CallIInv, CallTypes, OneCall, OneChannel, OneMessage, OwnMessage, OwnReply,
          LoopNeverBlocks, Calling, Request
  <1> QED
    BY <1>1, <1>2, <1>3, <1>4, <1>5, <1>6, <1>7, <1>8, <1>9, <1>10 DEF CallNext

(* However late, lost or reordered requests and replies are, whoever calls  *)
(* and however many calls have timed out: a call returns the answer to      *)
(* itself or an error.                                                      *)
THEOREM ReplyMatchesCall == CallSpec => []ReplyIsForThisCall
  <1>1. CallIInv => ReplyIsForThisCall
    BY DEF CallIInv, OwnReply, ReplyIsForThisCall, Request
  <1> QED
    BY <1>1, CallInitInv, CallStepInv, PTL DEF CallSpec

(* The client's receive loop never finds a channel full, so its one-place   *)
(* channels never stop it.                                                  *)
THEOREM ReceiveLoopRuns == CallSpec => []LoopNeverBlocks
  <1>1. CallIInv => LoopNeverBlocks
    BY DEF CallIInv
  <1> QED
    BY <1>1, CallInitInv, CallStepInv, PTL DEF CallSpec

===============================================================================
