----------------------- MODULE SessionLifecycleProofs -----------------------
(***************************************************************************)
(* Proofs about SessionLifecycle, for any number of sessions, networks and *)
(* addresses.                                                              *)
(*                                                                         *)
(* The inductive invariant follows a session through handleSession.  Each  *)
(* part says what a label of the handler implies about the state it shares *)
(* with the others, so an action of one goroutine is checked against every *)
(* place another goroutine may stand at.                                   *)
(***************************************************************************)
EXTENDS SessionLifecycle, TLAPS

\* The handler has not been given an address: it is before Assign, perhaps
\* busy with releasing its client's last session.
Fresh(s) ==
  \/ pc[s] \in {"receive", "stop", "close", "assign"}
  \/ pc[s] \in Releasing /\ target[s] # s

\* The handler is about to stop or to release target[s].
Busy(s) == pc[s] \in {"stop", "close"} \cup Releasing

HandlerInv ==
  \A s \in Sessions :
    /\ pc[s] \notin {"receive", "failed"} => net[s] \in Nets
    /\ Fresh(s) => addr[s] = None
    /\ Known(s) \/ pc[s] = "quotas" => addr[s] \in Addrs
    /\ Busy(s) => target[s] \in Sessions /\ addr[target[s]] \in Addrs
    /\ pc[s] \in {"stop", "close"} => target[s] # s
    /\ pc[s] \in Releasing /\ target[s] # s => target[s] \in stopped
    /\ released[s] > 0 => addr[s] \in Addrs

\* The status loop is about to delete the entry of a session it has stopped.
LoopInv ==
  /\ loop.pc # "idle" =>
       /\ loop.sess \in Sessions
       /\ loop.key \in Addrs
       /\ addr[loop.sess] = loop.key
  /\ loop.pc = "delete" => loop.sess \in stopped

AdminInv ==
  /\ admin.pc # "idle" => admin.net \in Nets
  /\ admin.pc = "close" => admin.sess \in Sessions

\* Where a session may still be found, by the place its handler stands at.
Own(s, labels) == pc[s] \in labels /\ (pc[s] \in Releasing => target[s] = s)

TableInv ==
  /\ \A k \in Keys, s \in Sessions : devices[k] = s =>
       /\ k = Key(s)
       /\ Own(s, {"store", "route", "quota", "serve", "commit", "forget",
                  "abandoned"})
  /\ \A k \in Keys, s \in Sessions : route[k] = s =>
       /\ k = Key(s)
       /\ Own(s, {"quota", "serve", "commit", "forget", "free", "unroute",
                  "abandoned"})
  /\ \A a \in Addrs, s \in Sessions : sessions[a] = s =>
       /\ a = addr[s]
       /\ Own(s, {"route", "quota", "serve", "commit", "forget", "free",
                  "unroute", "unregister", "abandoned"})

Inv == TypeOK /\ HandlerInv /\ LoopInv /\ AdminInv /\ TableInv

-----------------------------------------------------------------------------
\* What Receive does once the network and the last session are chosen.
ReceiveEffect(s, n, last) ==
  /\ pc[s] = "receive"
  /\ net' = [net EXCEPT ![s] = n]
  /\ \/ /\ last # None /\ Known(last)
        /\ target' = [target EXCEPT ![s] = last]
        /\ pc' = [pc EXCEPT ![s] = "stop"]
     \/ /\ target' = target
        /\ pc' = [pc EXCEPT ![s] = "assign"]
  /\ UNCHANGED <<tables, outside, addr, metered, stopped, conn, lastPing,
                 panicked, released>>

LEMMA ReceivePicks ==
  ASSUME NEW s \in Sessions, Receive(s)
  PROVE  \E n \in registry, last \in Sessions \cup {None} :
           ReceiveEffect(s, n, last)
BY ZenonT(30) DEF Receive, ReceiveEffect, At, Goto

-----------------------------------------------------------------------------
\* Every action keeps the types.
LEMMA TypeStep ==
  ASSUME TypeOK, HandlerInv, LoopInv, AdminInv, [Next]_vars
  PROVE  TypeOK'
<1> USE ConstantTypes DEF vars, tables, private, outside, TypeOK, Keys,
   Labels, Key, idleLoop, idleAdmin
<1>1. ASSUME NEW s \in Sessions, Receive(s)
      PROVE  TypeOK'
  <2>1. PICK n \in registry, last \in Sessions \cup {None} :
          ReceiveEffect(s, n, last)
    BY <1>1, ReceivePicks
  <2> QED
    BY SMTT(30), <2>1 DEF ReceiveEffect
<1>2. ASSUME NEW s \in Sessions, HandshakeFails(s)
      PROVE  TypeOK'
  BY <1>2 DEF HandshakeFails, At, Goto
<1>3. ASSUME NEW s \in Sessions, StopLast(s)
      PROVE  TypeOK'
  BY <1>3 DEF StopLast, At, Goto
<1>4. ASSUME NEW s \in Sessions, CloseLast(s)
      PROVE  TypeOK'
  <2>1. target[s] \in Sessions
    BY <1>4 DEF CloseLast, At, HandlerInv, Busy
  <2>2. CASE target[s] \in stopped
    BY <2>2, <1>4 DEF CloseLast, Panic
  <2>3. CASE target[s] \notin stopped
    BY <2>1, <2>3, <1>4 DEF CloseLast, Goto
  <2> QED
    BY <2>2, <2>3
<1>5. ASSUME NEW s \in Sessions, Commit(s)
      PROVE  TypeOK'
  BY ZenonT(30), <1>5 DEF Commit, At, Goto, Panic
<1>6. ASSUME NEW s \in Sessions, Forget(s)
      PROVE  TypeOK'
  BY ZenonT(30), <1>6 DEF Forget, At, Goto
<1>7. ASSUME NEW s \in Sessions, Free(s)
      PROVE  TypeOK'
  <2>1. target[s] \in Sessions
    BY <1>7 DEF Free, At, HandlerInv, Busy, Releasing
  <2> QED
    BY <2>1, <1>7 DEF Free, At, Goto
<1>8. ASSUME NEW s \in Sessions, Unroute(s)
      PROVE  TypeOK'
  BY ZenonT(30), <1>8 DEF Unroute, At, Goto
<1>9. ASSUME NEW s \in Sessions, Assign(s)
      PROVE  TypeOK'
  BY <1>9 DEF Assign, At, Goto, HandlerInv
<1>10. ASSUME NEW s \in Sessions, AssignFails(s)
      PROVE  TypeOK'
  BY <1>10 DEF AssignFails, At, Goto
<1>11. ASSUME NEW s \in Sessions, QuotasFail(s)
      PROVE  TypeOK'
  BY <1>11 DEF QuotasFail, At, Goto
<1>12. ASSUME NEW s \in Sessions, RegisterSession(s)
      PROVE  TypeOK'
  BY ZenonT(30), <1>12 DEF RegisterSession, At, Goto
<1>13. ASSUME NEW s \in Sessions, Store(s)
      PROVE  TypeOK'
  BY ZenonT(30), <1>13 DEF Store, At, Goto
<1>14. ASSUME NEW s \in Sessions, Route(s)
      PROVE  TypeOK'
  BY ZenonT(30), <1>14 DEF Route, At, Goto
<1>15. ASSUME NEW s \in Sessions, Meter(s)
      PROVE  TypeOK'
  BY <1>15 DEF Meter, At, Goto
<1>16. ASSUME NEW s \in Sessions, MeterFails(s)
      PROVE  TypeOK'
  BY ZenonT(30), <1>16 DEF MeterFails, At, Goto
<1>17. ASSUME NEW s \in Sessions, ExitStopped(s)
      PROVE  TypeOK'
  BY <1>17 DEF ExitStopped, At, Goto, Leave
<1>18. ASSUME NEW s \in Sessions, ExitLost(s)
      PROVE  TypeOK'
  BY <1>18 DEF ExitLost, At, Goto, Leave
<1>19. ASSUME NEW s \in Sessions, ExitAcceptErr(s)
      PROVE  TypeOK'
  BY <1>19 DEF ExitAcceptErr, At, Goto, Leave
<1>20. ASSUME NEW s \in Sessions, Unregister(s)
      PROVE  TypeOK'
  BY ZenonT(30), <1>20 DEF Unregister, At, Goto
<1>21. ASSUME NEW s \in Sessions, Ping(s)
      PROVE  TypeOK'
  BY <1>21 DEF Ping
<1>22. ASSUME NEW s \in Sessions, Expire(s)
      PROVE  TypeOK'
  BY <1>22 DEF Expire
<1>23. ASSUME NEW s \in Sessions, ClientLeaves(s)
      PROVE  TypeOK'
  BY <1>23 DEF ClientLeaves
<1>24. ASSUME NEW a \in Addrs, CheckStatus(a)
      PROVE  TypeOK'
  BY <1>24 DEF CheckStatus
<1>25. ASSUME StatusClose
      PROVE  TypeOK'
  <2>1. loop.sess \in Sessions
    BY <1>25 DEF StatusClose, LoopInv
  <2>2. CASE loop.sess \in stopped
    BY <2>2, <1>25 DEF StatusClose, Panic
  <2>3. CASE loop.sess \notin stopped
    BY <2>1, <2>3, <1>25 DEF StatusClose
  <2> QED
    BY <2>2, <2>3
<1>26. ASSUME StatusDelete
      PROVE  TypeOK'
  BY ZenonT(30), <1>26 DEF StatusDelete
<1>27. ASSUME NEW n \in Nets, StopNetwork(n)
      PROVE  TypeOK'
  <2> DEFINE there == {a \in Addrs : devices[<<n, a>>] # None}
             present == {devices[<<n, a>>] : a \in there}
  <2>0. present \in SUBSET Sessions
    <3> SUFFICES ASSUME NEW x \in present
                 PROVE  x \in Sessions
      OBVIOUS
    <3>1. PICK a \in there : x = devices[<<n, a>>]
      OBVIOUS
    <3> QED
      BY <3>1
  <2>1. PICK extra \in SUBSET Addrs :
          admin' = [pc |-> "range", net |-> n, todo |-> there \cup extra,
                    sess |-> None, present |-> present]
    BY ZenonT(30), <1>27 DEF StopNetwork
  <2> HIDE DEF present
  <2>2. stops' \in Nat
    BY <1>27 DEF StopNetwork
  <2> QED
    BY <2>0, <2>1, <2>2, <1>27 DEF StopNetwork
<1>28. ASSUME NEW a \in Addrs, AdminVisit(a)
      PROVE  TypeOK'
  BY ZenonT(30), <1>28 DEF AdminVisit, AdminInv
<1>29. ASSUME AdminClose
      PROVE  TypeOK'
  BY <1>29 DEF AdminClose, AdminInv
<1>30. ASSUME AdminRemove
      PROVE  TypeOK'
  BY <1>30 DEF AdminRemove
<1>31. ASSUME NEW n \in Nets, StartNetwork(n)
      PROVE  TypeOK'
  BY <1>31 DEF StartNetwork
<1>32. ASSUME UNCHANGED vars
      PROVE  TypeOK'
  BY <1>32
<1> QED
  BY ZenonT(30), <1>1, <1>2, <1>3, <1>4, <1>5, <1>6, <1>7,
     <1>8, <1>9, <1>10, <1>11, <1>12, <1>13, <1>14, <1>15, <1>16, <1>17,
     <1>18, <1>19, <1>20, <1>21, <1>22, <1>23, <1>24, <1>25, <1>26, <1>27,
     <1>28, <1>29, <1>30, <1>31, <1>32
  DEF Next, HandlerStep, ClientStep, StatusStep, AdminStep

-----------------------------------------------------------------------------
\* Every action keeps what the labels of a handler say about it.
LEMMA HandlerStepInv ==
  ASSUME TypeOK, TableInv, HandlerInv, LoopInv, AdminInv, [Next]_vars
  PROVE  HandlerInv'
<1> USE ConstantTypes DEF vars, tables, private, outside, TypeOK,
   HandlerInv, Fresh, Busy, Known, Releasing, Labels
<1>1. ASSUME NEW s \in Sessions, Receive(s)
      PROVE  HandlerInv'
  <2>1. PICK n \in registry, last \in Sessions \cup {None} :
          ReceiveEffect(s, n, last)
    BY <1>1, ReceivePicks
  <2> QED
    BY <2>1 DEF ReceiveEffect
<1>2. ASSUME NEW s \in Sessions, HandshakeFails(s)
      PROVE  HandlerInv'
  BY <1>2 DEF HandshakeFails, At, Goto
<1>3. ASSUME NEW s \in Sessions, StopLast(s)
      PROVE  HandlerInv'
  BY <1>3 DEF StopLast, At, Goto
<1>4. ASSUME NEW s \in Sessions, CloseLast(s)
      PROVE  HandlerInv'
  BY <1>4 DEF CloseLast, At, Goto, Panic
<1>5. ASSUME NEW s \in Sessions, Commit(s)
      PROVE  HandlerInv'
  BY <1>5 DEF Commit, At, Goto, Panic
<1>6. ASSUME NEW s \in Sessions, Forget(s)
      PROVE  HandlerInv'
  BY <1>6 DEF Forget, At, Goto
<1>7. ASSUME NEW s \in Sessions, Free(s)
      PROVE  HandlerInv'
  BY <1>7 DEF Free, At, Goto
<1>8. ASSUME NEW s \in Sessions, Unroute(s)
      PROVE  HandlerInv'
  BY <1>8 DEF Unroute, At, Goto
<1>9. ASSUME NEW s \in Sessions, Assign(s)
      PROVE  HandlerInv'
  BY <1>9 DEF Assign, At, Goto
<1>10. ASSUME NEW s \in Sessions, AssignFails(s)
      PROVE  HandlerInv'
  BY <1>10 DEF AssignFails, At, Goto
<1>11. ASSUME NEW s \in Sessions, QuotasFail(s)
      PROVE  HandlerInv'
  BY <1>11 DEF QuotasFail, At, Goto
<1>12. ASSUME NEW s \in Sessions, RegisterSession(s)
      PROVE  HandlerInv'
  BY <1>12 DEF RegisterSession, At, Goto
<1>13. ASSUME NEW s \in Sessions, Store(s)
      PROVE  HandlerInv'
  BY <1>13 DEF Store, At, Goto
<1>14. ASSUME NEW s \in Sessions, Route(s)
      PROVE  HandlerInv'
  BY <1>14 DEF Route, At, Goto
<1>15. ASSUME NEW s \in Sessions, Meter(s)
      PROVE  HandlerInv'
  BY <1>15 DEF Meter, At, Goto
<1>16. ASSUME NEW s \in Sessions, MeterFails(s)
      PROVE  HandlerInv'
  BY <1>16 DEF MeterFails, At, Goto
<1>17. ASSUME NEW s \in Sessions, ExitStopped(s)
      PROVE  HandlerInv'
  BY <1>17 DEF ExitStopped, At, Goto, Leave
<1>18. ASSUME NEW s \in Sessions, ExitLost(s)
      PROVE  HandlerInv'
  BY <1>18 DEF ExitLost, At, Goto, Leave
<1>19. ASSUME NEW s \in Sessions, ExitAcceptErr(s)
      PROVE  HandlerInv'
  BY <1>19 DEF ExitAcceptErr, At, Goto, Leave
<1>20. ASSUME NEW s \in Sessions, Unregister(s)
      PROVE  HandlerInv'
  BY <1>20 DEF Unregister, At, Goto
<1>21. ASSUME NEW s \in Sessions, Ping(s)
      PROVE  HandlerInv'
  BY <1>21 DEF Ping
<1>22. ASSUME NEW s \in Sessions, Expire(s)
      PROVE  HandlerInv'
  BY <1>22 DEF Expire
<1>23. ASSUME NEW s \in Sessions, ClientLeaves(s)
      PROVE  HandlerInv'
  BY <1>23 DEF ClientLeaves
<1>24. ASSUME NEW a \in Addrs, CheckStatus(a)
      PROVE  HandlerInv'
  BY <1>24 DEF CheckStatus
<1>25. ASSUME StatusClose
      PROVE  HandlerInv'
  BY <1>25 DEF StatusClose, Panic
<1>26. ASSUME StatusDelete
      PROVE  HandlerInv'
  BY <1>26 DEF StatusDelete
<1>27. ASSUME NEW n \in Nets, StopNetwork(n)
      PROVE  HandlerInv'
  BY <1>27 DEF StopNetwork
<1>28. ASSUME NEW a \in Addrs, AdminVisit(a)
      PROVE  HandlerInv'
  BY <1>28 DEF AdminVisit
<1>29. ASSUME AdminClose
      PROVE  HandlerInv'
  BY <1>29 DEF AdminClose
<1>30. ASSUME AdminRemove
      PROVE  HandlerInv'
  BY <1>30 DEF AdminRemove
<1>31. ASSUME NEW n \in Nets, StartNetwork(n)
      PROVE  HandlerInv'
  BY <1>31 DEF StartNetwork
<1>32. ASSUME UNCHANGED vars
      PROVE  HandlerInv'
  BY SMTT(30), <1>32
<1> QED
  BY ZenonT(30), <1>1, <1>2, <1>3, <1>4, <1>5, <1>6, <1>7,
     <1>8, <1>9, <1>10, <1>11, <1>12, <1>13, <1>14, <1>15, <1>16, <1>17,
     <1>18, <1>19, <1>20, <1>21, <1>22, <1>23, <1>24, <1>25, <1>26, <1>27,
     <1>28, <1>29, <1>30, <1>31, <1>32
  DEF Next, HandlerStep, ClientStep, StatusStep, AdminStep
-----------------------------------------------------------------------------
\* Every action keeps what the status loop relies on.
LEMMA LoopStep ==
  ASSUME TypeOK, TableInv, HandlerInv, LoopInv, [Next]_vars
  PROVE  LoopInv'
<1> USE ConstantTypes DEF vars, tables, private, outside, TypeOK, LoopInv,
   idleLoop
<1>1. ASSUME NEW s \in Sessions, Receive(s)
      PROVE  LoopInv'
  BY <1>1 DEF Receive, At, Goto
<1>2. ASSUME NEW s \in Sessions, HandshakeFails(s)
      PROVE  LoopInv'
  BY <1>2 DEF HandshakeFails, At, Goto
<1>3. ASSUME NEW s \in Sessions, StopLast(s)
      PROVE  LoopInv'
  BY <1>3 DEF StopLast, At, Goto
<1>4. ASSUME NEW s \in Sessions, CloseLast(s)
      PROVE  LoopInv'
  BY <1>4 DEF CloseLast, At, Goto, Panic
<1>5. ASSUME NEW s \in Sessions, Commit(s)
      PROVE  LoopInv'
  BY <1>5 DEF Commit, At, Goto, Panic
<1>6. ASSUME NEW s \in Sessions, Forget(s)
      PROVE  LoopInv'
  BY <1>6 DEF Forget, At, Goto
<1>7. ASSUME NEW s \in Sessions, Free(s)
      PROVE  LoopInv'
  BY <1>7 DEF Free, At, Goto
<1>8. ASSUME NEW s \in Sessions, Unroute(s)
      PROVE  LoopInv'
  BY <1>8 DEF Unroute, At, Goto
<1>9. ASSUME NEW s \in Sessions, Assign(s)
      PROVE  LoopInv'
  BY <1>9 DEF Assign, At, Goto, HandlerInv, Fresh
<1>10. ASSUME NEW s \in Sessions, AssignFails(s)
      PROVE  LoopInv'
  BY <1>10 DEF AssignFails, At, Goto
<1>11. ASSUME NEW s \in Sessions, QuotasFail(s)
      PROVE  LoopInv'
  BY <1>11 DEF QuotasFail, At, Goto
<1>12. ASSUME NEW s \in Sessions, RegisterSession(s)
      PROVE  LoopInv'
  BY <1>12 DEF RegisterSession, At, Goto
<1>13. ASSUME NEW s \in Sessions, Store(s)
      PROVE  LoopInv'
  BY <1>13 DEF Store, At, Goto
<1>14. ASSUME NEW s \in Sessions, Route(s)
      PROVE  LoopInv'
  BY <1>14 DEF Route, At, Goto
<1>15. ASSUME NEW s \in Sessions, Meter(s)
      PROVE  LoopInv'
  BY <1>15 DEF Meter, At, Goto
<1>16. ASSUME NEW s \in Sessions, MeterFails(s)
      PROVE  LoopInv'
  BY <1>16 DEF MeterFails, At, Goto
<1>17. ASSUME NEW s \in Sessions, ExitStopped(s)
      PROVE  LoopInv'
  BY <1>17 DEF ExitStopped, At, Goto, Leave
<1>18. ASSUME NEW s \in Sessions, ExitLost(s)
      PROVE  LoopInv'
  BY <1>18 DEF ExitLost, At, Goto, Leave
<1>19. ASSUME NEW s \in Sessions, ExitAcceptErr(s)
      PROVE  LoopInv'
  BY <1>19 DEF ExitAcceptErr, At, Goto, Leave
<1>20. ASSUME NEW s \in Sessions, Unregister(s)
      PROVE  LoopInv'
  BY <1>20 DEF Unregister, At, Goto
<1>21. ASSUME NEW s \in Sessions, Ping(s)
      PROVE  LoopInv'
  BY <1>21 DEF Ping
<1>22. ASSUME NEW s \in Sessions, Expire(s)
      PROVE  LoopInv'
  BY <1>22 DEF Expire
<1>23. ASSUME NEW s \in Sessions, ClientLeaves(s)
      PROVE  LoopInv'
  BY <1>23 DEF ClientLeaves
<1>24. ASSUME NEW a \in Addrs, CheckStatus(a)
      PROVE  LoopInv'
  BY <1>24 DEF CheckStatus, TableInv
<1>25. ASSUME StatusClose
      PROVE  LoopInv'
  BY <1>25 DEF StatusClose, Panic
<1>26. ASSUME StatusDelete
      PROVE  LoopInv'
  BY <1>26 DEF StatusDelete
<1>27. ASSUME NEW n \in Nets, StopNetwork(n)
      PROVE  LoopInv'
  BY <1>27 DEF StopNetwork
<1>28. ASSUME NEW a \in Addrs, AdminVisit(a)
      PROVE  LoopInv'
  BY <1>28 DEF AdminVisit
<1>29. ASSUME AdminClose
      PROVE  LoopInv'
  BY <1>29 DEF AdminClose
<1>30. ASSUME AdminRemove
      PROVE  LoopInv'
  BY <1>30 DEF AdminRemove
<1>31. ASSUME NEW n \in Nets, StartNetwork(n)
      PROVE  LoopInv'
  BY <1>31 DEF StartNetwork
<1>32. ASSUME UNCHANGED vars
      PROVE  LoopInv'
  BY SMTT(30), <1>32
<1> QED
  BY ZenonT(30), <1>1, <1>2, <1>3, <1>4, <1>5, <1>6, <1>7,
     <1>8, <1>9, <1>10, <1>11, <1>12, <1>13, <1>14, <1>15, <1>16, <1>17,
     <1>18, <1>19, <1>20, <1>21, <1>22, <1>23, <1>24, <1>25, <1>26, <1>27,
     <1>28, <1>29, <1>30, <1>31, <1>32
  DEF Next, HandlerStep, ClientStep, StatusStep, AdminStep
-----------------------------------------------------------------------------
\* Every action keeps what StopNetwork relies on.
LEMMA AdminStepInv ==
  ASSUME TypeOK, AdminInv, [Next]_vars
  PROVE  AdminInv'
<1> USE ConstantTypes DEF vars, tables, private, outside, TypeOK, AdminInv,
   idleAdmin, Keys
<1>1. ASSUME NEW s \in Sessions, Receive(s)
      PROVE  AdminInv'
  BY <1>1 DEF Receive, At, Goto
<1>2. ASSUME NEW s \in Sessions, HandshakeFails(s)
      PROVE  AdminInv'
  BY <1>2 DEF HandshakeFails, At, Goto
<1>3. ASSUME NEW s \in Sessions, StopLast(s)
      PROVE  AdminInv'
  BY <1>3 DEF StopLast, At, Goto
<1>4. ASSUME NEW s \in Sessions, CloseLast(s)
      PROVE  AdminInv'
  BY <1>4 DEF CloseLast, At, Goto, Panic
<1>5. ASSUME NEW s \in Sessions, Commit(s)
      PROVE  AdminInv'
  BY <1>5 DEF Commit, At, Goto, Panic
<1>6. ASSUME NEW s \in Sessions, Forget(s)
      PROVE  AdminInv'
  BY <1>6 DEF Forget, At, Goto
<1>7. ASSUME NEW s \in Sessions, Free(s)
      PROVE  AdminInv'
  BY <1>7 DEF Free, At, Goto
<1>8. ASSUME NEW s \in Sessions, Unroute(s)
      PROVE  AdminInv'
  BY <1>8 DEF Unroute, At, Goto
<1>9. ASSUME NEW s \in Sessions, Assign(s)
      PROVE  AdminInv'
  BY <1>9 DEF Assign, At, Goto
<1>10. ASSUME NEW s \in Sessions, AssignFails(s)
      PROVE  AdminInv'
  BY <1>10 DEF AssignFails, At, Goto
<1>11. ASSUME NEW s \in Sessions, QuotasFail(s)
      PROVE  AdminInv'
  BY <1>11 DEF QuotasFail, At, Goto
<1>12. ASSUME NEW s \in Sessions, RegisterSession(s)
      PROVE  AdminInv'
  BY <1>12 DEF RegisterSession, At, Goto
<1>13. ASSUME NEW s \in Sessions, Store(s)
      PROVE  AdminInv'
  BY <1>13 DEF Store, At, Goto
<1>14. ASSUME NEW s \in Sessions, Route(s)
      PROVE  AdminInv'
  BY <1>14 DEF Route, At, Goto
<1>15. ASSUME NEW s \in Sessions, Meter(s)
      PROVE  AdminInv'
  BY <1>15 DEF Meter, At, Goto
<1>16. ASSUME NEW s \in Sessions, MeterFails(s)
      PROVE  AdminInv'
  BY <1>16 DEF MeterFails, At, Goto
<1>17. ASSUME NEW s \in Sessions, ExitStopped(s)
      PROVE  AdminInv'
  BY <1>17 DEF ExitStopped, At, Goto, Leave
<1>18. ASSUME NEW s \in Sessions, ExitLost(s)
      PROVE  AdminInv'
  BY <1>18 DEF ExitLost, At, Goto, Leave
<1>19. ASSUME NEW s \in Sessions, ExitAcceptErr(s)
      PROVE  AdminInv'
  BY <1>19 DEF ExitAcceptErr, At, Goto, Leave
<1>20. ASSUME NEW s \in Sessions, Unregister(s)
      PROVE  AdminInv'
  BY <1>20 DEF Unregister, At, Goto
<1>21. ASSUME NEW s \in Sessions, Ping(s)
      PROVE  AdminInv'
  BY <1>21 DEF Ping
<1>22. ASSUME NEW s \in Sessions, Expire(s)
      PROVE  AdminInv'
  BY <1>22 DEF Expire
<1>23. ASSUME NEW s \in Sessions, ClientLeaves(s)
      PROVE  AdminInv'
  BY <1>23 DEF ClientLeaves
<1>24. ASSUME NEW a \in Addrs, CheckStatus(a)
      PROVE  AdminInv'
  BY <1>24 DEF CheckStatus
<1>25. ASSUME StatusClose
      PROVE  AdminInv'
  BY <1>25 DEF StatusClose, Panic
<1>26. ASSUME StatusDelete
      PROVE  AdminInv'
  BY <1>26 DEF StatusDelete
<1>27. ASSUME NEW n \in Nets, StopNetwork(n)
      PROVE  AdminInv'
  BY <1>27 DEF StopNetwork
<1>28. ASSUME NEW a \in Addrs, AdminVisit(a)
      PROVE  AdminInv'
  BY <1>28 DEF AdminVisit
<1>29. ASSUME AdminClose
      PROVE  AdminInv'
  BY <1>29 DEF AdminClose
<1>30. ASSUME AdminRemove
      PROVE  AdminInv'
  BY <1>30 DEF AdminRemove
<1>31. ASSUME NEW n \in Nets, StartNetwork(n)
      PROVE  AdminInv'
  BY <1>31 DEF StartNetwork
<1>32. ASSUME UNCHANGED vars
      PROVE  AdminInv'
  BY SMTT(30), <1>32
<1> QED
  BY ZenonT(30), <1>1, <1>2, <1>3, <1>4, <1>5, <1>6, <1>7,
     <1>8, <1>9, <1>10, <1>11, <1>12, <1>13, <1>14, <1>15, <1>16, <1>17,
     <1>18, <1>19, <1>20, <1>21, <1>22, <1>23, <1>24, <1>25, <1>26, <1>27,
     <1>28, <1>29, <1>30, <1>31, <1>32
  DEF Next, HandlerStep, ClientStep, StatusStep, AdminStep
-----------------------------------------------------------------------------
\* Every action keeps a session out of the tables its handler has left.
LEMMA TableStep ==
  ASSUME TypeOK, HandlerInv, TableInv, [Next]_vars
  PROVE  TableInv'
<1> USE ConstantTypes DEF vars, tables, private, outside, TypeOK, TableInv,
   Own, Key, Keys, Releasing
<1>1. ASSUME NEW s \in Sessions, Receive(s)
      PROVE  TableInv'
  <2>1. PICK n \in registry, last \in Sessions \cup {None} :
          ReceiveEffect(s, n, last)
    BY SMTT(30), <1>1, ReceivePicks
  <2> QED
    BY <2>1 DEF ReceiveEffect
<1>2. ASSUME NEW s \in Sessions, HandshakeFails(s)
      PROVE  TableInv'
  BY SMTT(30), <1>2 DEF HandshakeFails, At, Goto
<1>3. ASSUME NEW s \in Sessions, StopLast(s)
      PROVE  TableInv'
  BY SMTT(30), <1>3 DEF StopLast, At, Goto
<1>4. ASSUME NEW s \in Sessions, CloseLast(s)
      PROVE  TableInv'
  <2>1. CASE target[s] \in stopped
    BY SMTT(30), <2>1, <1>4 DEF CloseLast, Panic
  <2>2. CASE target[s] \notin stopped
    <3>1. pc[s] = "close" /\ pc' = [pc EXCEPT ![s] = "commit"]
      BY <2>2, <1>4 DEF CloseLast, At, Goto
    <3>2. UNCHANGED <<tables, private>>
      BY SMTT(30), <2>2, <1>4 DEF CloseLast
    <3> QED
      BY <3>1, <3>2
  <2> QED
    BY SMTT(30), <2>1, <2>2
<1>5. ASSUME NEW s \in Sessions, Commit(s)
      PROVE  TableInv'
  BY SMTT(30), <1>5 DEF Commit, At, Goto, Panic
<1>6. ASSUME NEW s \in Sessions, Forget(s)
      PROVE  TableInv'
  BY SMTT(30), <1>6 DEF Forget, At, Goto
<1>7. ASSUME NEW s \in Sessions, Free(s)
      PROVE  TableInv'
  BY SMTT(30), <1>7 DEF Free, At, Goto
<1>8. ASSUME NEW s \in Sessions, Unroute(s)
      PROVE  TableInv'
  BY SMTT(30), <1>8 DEF Unroute, At, Goto
<1>9. ASSUME NEW s \in Sessions, Assign(s)
      PROVE  TableInv'
  BY SMTT(30), <1>9 DEF Assign, At, Goto
<1>10. ASSUME NEW s \in Sessions, AssignFails(s)
      PROVE  TableInv'
  BY SMTT(30), <1>10 DEF AssignFails, At, Goto
<1>11. ASSUME NEW s \in Sessions, QuotasFail(s)
      PROVE  TableInv'
  BY SMTT(30), <1>11 DEF QuotasFail, At, Goto
<1>12. ASSUME NEW s \in Sessions, RegisterSession(s)
      PROVE  TableInv'
  BY SMTT(30), <1>12 DEF RegisterSession, At, Goto
<1>13. ASSUME NEW s \in Sessions, Store(s)
      PROVE  TableInv'
  BY SMTT(30), <1>13 DEF Store, At, Goto
<1>14. ASSUME NEW s \in Sessions, Route(s)
      PROVE  TableInv'
  BY SMTT(30), <1>14 DEF Route, At, Goto
<1>15. ASSUME NEW s \in Sessions, Meter(s)
      PROVE  TableInv'
  BY SMTT(30), <1>15 DEF Meter, At, Goto
<1>16. ASSUME NEW s \in Sessions, MeterFails(s)
      PROVE  TableInv'
  BY SMTT(30), <1>16 DEF MeterFails, At, Goto
<1>17. ASSUME NEW s \in Sessions, ExitStopped(s)
      PROVE  TableInv'
  BY SMTT(30), <1>17 DEF ExitStopped, At, Goto, Leave
<1>18. ASSUME NEW s \in Sessions, ExitLost(s)
      PROVE  TableInv'
  BY SMTT(30), <1>18 DEF ExitLost, At, Goto, Leave
<1>19. ASSUME NEW s \in Sessions, ExitAcceptErr(s)
      PROVE  TableInv'
  BY SMTT(30), <1>19 DEF ExitAcceptErr, At, Goto, Leave
<1>20. ASSUME NEW s \in Sessions, Unregister(s)
      PROVE  TableInv'
  BY SMTT(30), <1>20 DEF Unregister, At, Goto
<1>21. ASSUME NEW s \in Sessions, Ping(s)
      PROVE  TableInv'
  BY SMTT(30), <1>21 DEF Ping
<1>22. ASSUME NEW s \in Sessions, Expire(s)
      PROVE  TableInv'
  BY SMTT(30), <1>22 DEF Expire
<1>23. ASSUME NEW s \in Sessions, ClientLeaves(s)
      PROVE  TableInv'
  BY SMTT(30), <1>23 DEF ClientLeaves
<1>24. ASSUME NEW a \in Addrs, CheckStatus(a)
      PROVE  TableInv'
  BY <1>24 DEF CheckStatus
<1>25. ASSUME StatusClose
      PROVE  TableInv'
  BY SMTT(30), <1>25 DEF StatusClose, Panic
<1>26. ASSUME StatusDelete
      PROVE  TableInv'
  BY SMTT(30), <1>26 DEF StatusDelete
<1>27. ASSUME NEW n \in Nets, StopNetwork(n)
      PROVE  TableInv'
  BY <1>27 DEF StopNetwork
<1>28. ASSUME NEW a \in Addrs, AdminVisit(a)
      PROVE  TableInv'
  BY <1>28 DEF AdminVisit
<1>29. ASSUME AdminClose
      PROVE  TableInv'
  BY SMTT(30), <1>29 DEF AdminClose
<1>30. ASSUME AdminRemove
      PROVE  TableInv'
  BY SMTT(30), <1>30 DEF AdminRemove
<1>31. ASSUME NEW n \in Nets, StartNetwork(n)
      PROVE  TableInv'
  BY SMTT(30), <1>31 DEF StartNetwork
<1>32. ASSUME UNCHANGED vars
      PROVE  TableInv'
  BY <1>32
<1> QED
  BY ZenonT(30), <1>1, <1>2, <1>3, <1>4, <1>5, <1>6, <1>7,
     <1>8, <1>9, <1>10, <1>11, <1>12, <1>13, <1>14, <1>15, <1>16, <1>17,
     <1>18, <1>19, <1>20, <1>21, <1>22, <1>23, <1>24, <1>25, <1>26, <1>27,
     <1>28, <1>29, <1>30, <1>31, <1>32
  DEF Next, HandlerStep, ClientStep, StatusStep, AdminStep
-----------------------------------------------------------------------------
\* The initial states satisfy it.
LEMMA Initially == Init => Inv
<1> SUFFICES ASSUME Init PROVE Inv
  OBVIOUS
<1> USE ConstantTypes DEF Init
<1>1. TypeOK
  BY Zenon DEF TypeOK, Keys, Labels, idleLoop, idleAdmin
<1>2. HandlerInv
  BY DEF HandlerInv, Fresh, Known, Busy, Releasing
<1>3. LoopInv /\ AdminInv
  BY Zenon DEF LoopInv, AdminInv, idleLoop, idleAdmin
<1>4. TableInv
  BY DEF TableInv, Own, Keys
<1> QED
  BY <1>1, <1>2, <1>3, <1>4 DEF Inv

\* The inductive invariant holds in every reachable state.
THEOREM Invariance == Spec => []Inv
<1>1. Init => Inv
  BY Initially
<1>2. Inv /\ [Next]_vars => Inv'
  BY TypeStep, HandlerStepInv, LoopStep, AdminStepInv, TableStep DEF Inv
<1> QED
  BY <1>1, <1>2, PTL DEF Spec

\* All variables keep their types: no handler, status check or StopNetwork
\* stores an absent session, network or address in a shared table.
THEOREM TypeCorrect == Spec => []TypeOK
<1>1. Inv => TypeOK
  BY DEF Inv
<1> QED
  BY <1>1, Invariance, PTL

\* A session whose handler has run its cleanup (server.go:257) is in no table.
THEOREM NothingDangles == Spec => []NoDangling
<1>1. Inv => NoDangling
  BY SMTT(30) DEF Inv, TableInv, Own, NoDangling
<1> QED
  BY <1>1, Invariance, PTL

-------------------------------------------------------------------------------
\* The handler of s has entered s in the device table.
Entered(s) == ~Fresh(s) /\ pc[s] # "quotas"

\* What Network.Stop still does about a session that was there when it began:
\* it has stopped it, is about to, or will come to its key.
ReachInv ==
  admin.pc # "idle" =>
    \A s \in admin.present :
      /\ Entered(s)
      /\ \/ s \in stopped
         \/ \A k \in Keys : devices[k] # s
         \/ admin.pc = "close" /\ admin.sess = s
         \/ \E a \in admin.todo : devices[<<admin.net, a>>] = s

\* A session that was entered does not go back to its login.
LEMMA EnteredStep ==
  ASSUME Inv, [Next]_vars, NEW t \in Sessions, Entered(t)
  PROVE  Entered(t)'
<1> USE DEF Entered, Fresh, Inv, TypeOK, Labels, vars, private
<1>1. ASSUME UNCHANGED <<pc, target>> PROVE Entered(t)'
  BY <1>1
<1>2. ASSUME NEW s \in Sessions, Receive(s) PROVE Entered(t)'
  BY <1>2, ReceivePicks DEF ReceiveEffect
<1>3. ASSUME NEW s \in Sessions, HandshakeFails(s) PROVE Entered(t)'
  BY SMTT(30), <1>3 DEF HandshakeFails, At, Goto, Releasing
<1>4. ASSUME NEW s \in Sessions, StopLast(s) \/ CloseLast(s) \/ Commit(s) PROVE Entered(t)'
  BY SMTT(30), <1>4 DEF StopLast, CloseLast, Commit, Panic, At, Goto, Releasing
<1>5. ASSUME NEW s \in Sessions, Forget(s) \/ Free(s) \/ Unroute(s) PROVE Entered(t)'
  BY SMTT(30), <1>5 DEF Forget, Free, Unroute, At, Goto, Releasing
<1>6. ASSUME NEW s \in Sessions, Assign(s) \/ AssignFails(s) \/ QuotasFail(s) \/ RegisterSession(s)
      PROVE Entered(t)'
  BY SMTT(30), <1>6 DEF Assign, AssignFails, QuotasFail, RegisterSession, At, Goto, Releasing
<1>7. ASSUME NEW s \in Sessions, Store(s) \/ Route(s) \/ Meter(s) \/ MeterFails(s) \/ Unregister(s)
      PROVE Entered(t)'
  BY <1>7 DEF Store, Route, Meter, MeterFails, Unregister, At, Goto, Releasing
<1>8. ASSUME NEW s \in Sessions, ExitStopped(s) \/ ExitLost(s) \/ ExitAcceptErr(s) PROVE Entered(t)'
  BY <1>8 DEF ExitStopped, ExitLost, ExitAcceptErr, Leave, At, Goto, Releasing
<1>9. ASSUME NEW s \in Sessions, Ping(s) \/ Expire(s) \/ ClientLeaves(s) PROVE Entered(t)'
  BY <1>1, <1>9 DEF Ping, Expire, ClientLeaves
<1>10. CASE StatusStep
  BY SMTT(30), <1>1, <1>10 DEF StatusStep, StatusClose, StatusDelete, CheckStatus, Panic
<1>11. CASE AdminStep
  BY Zenon, <1>1, <1>11 DEF AdminStep, AdminClose, AdminRemove, AdminVisit, StopNetwork, StartNetwork
<1> QED
  BY <1>1, <1>2, <1>3, <1>4, <1>5, <1>6, <1>7, <1>8, <1>9, <1>10, <1>11
     DEF Next, ClientStep, HandlerStep

\* An entry of the table changes when its session registers or is forgotten.
LEMMA TableChanges ==
  ASSUME [Next]_vars
  PROVE  \/ UNCHANGED devices
         \/ UNCHANGED <<admin, stopped>> /\ \E s \in Sessions :
              \/ pc[s] = "quotas" /\ devices' = [devices EXCEPT ![Key(s)] = s]
              \/ pc[s] = "forget" /\ devices' = [devices EXCEPT ![Key(target[s])] = None]
<1> USE DEF vars, tables
<1>1. ASSUME NEW s \in Sessions, Receive(s) \/ HandshakeFails(s) \/ Ping(s) \/ Expire(s) \/ ClientLeaves(s)
      PROVE  UNCHANGED devices
  BY ZenonT(30), <1>1 DEF Receive, HandshakeFails, Ping, Expire, ClientLeaves
<1>2. ASSUME NEW s \in Sessions, StopLast(s) \/ CloseLast(s) \/ Commit(s) \/ Free(s) \/ Unroute(s)
      PROVE  UNCHANGED devices
  BY ZenonT(30), <1>2 DEF StopLast, CloseLast, Commit, Panic, Free, Unroute
<1>3. ASSUME NEW s \in Sessions, Assign(s) \/ AssignFails(s) \/ QuotasFail(s) \/ Store(s) \/ Route(s)
                                 \/ Meter(s) \/ MeterFails(s) \/ Unregister(s)
      PROVE  UNCHANGED devices
  BY Zenon, <1>3 DEF Assign, AssignFails, QuotasFail, Store, Route, Meter, MeterFails, Unregister
<1>4. ASSUME NEW s \in Sessions, ExitStopped(s) \/ ExitLost(s) \/ ExitAcceptErr(s)
      PROVE  UNCHANGED devices
  BY SMTT(30), <1>4 DEF ExitStopped, ExitLost, ExitAcceptErr, Leave
<1>5. CASE StatusStep \/ AdminStep
  BY Zenon, <1>5 DEF StatusStep, StatusClose, StatusDelete, CheckStatus, Panic,
     AdminStep, AdminClose, AdminRemove, AdminVisit, StopNetwork, StartNetwork
<1>6. ASSUME NEW s \in Sessions, RegisterSession(s)
      PROVE  /\ UNCHANGED <<admin, stopped>> /\ pc[s] = "quotas"
             /\ devices' = [devices EXCEPT ![Key(s)] = s]
  BY <1>6 DEF RegisterSession, At, outside
<1>7. ASSUME NEW s \in Sessions, Forget(s)
      PROVE  /\ UNCHANGED <<admin, stopped>> /\ pc[s] = "forget"
             /\ devices' = [devices EXCEPT ![Key(target[s])] = None]
  BY <1>7 DEF Forget, At, outside
<1> QED
  BY ZenonT(30), <1>1, <1>2, <1>3, <1>4, <1>5, <1>6, <1>7 DEF Next, ClientStep, HandlerStep

\* Only the administrator moves on in Network.Stop, and nobody is unstopped.
LEMMA AdminChanges ==
  ASSUME [Next]_vars
  PROVE  \/ UNCHANGED admin /\ stopped \subseteq stopped'
         \/ AdminStep
<1> USE DEF vars, outside
<1>1. ASSUME NEW s \in Sessions, ClientStep(s) PROVE UNCHANGED <<admin, stopped>>
  BY SMTT(30), <1>1 DEF ClientStep, Receive, HandshakeFails, Ping, Expire, ClientLeaves
<1>2. ASSUME NEW s \in Sessions, StopLast(s) \/ CloseLast(s) \/ Commit(s) \/ Forget(s) \/ Free(s) \/ Unroute(s)
      PROVE  UNCHANGED admin /\ stopped \subseteq stopped'
  BY SMTT(30), <1>2 DEF StopLast, CloseLast, Commit, Panic, Forget, Free, Unroute
<1>3. ASSUME NEW s \in Sessions, Assign(s) \/ AssignFails(s) \/ QuotasFail(s) \/ RegisterSession(s)
                                 \/ Store(s) \/ Route(s) \/ Meter(s) \/ MeterFails(s) \/ Unregister(s)
      PROVE  UNCHANGED <<admin, stopped>>
  BY SMTT(30), <1>3 DEF Assign, AssignFails, QuotasFail, RegisterSession, Store, Route, Meter, MeterFails, Unregister
<1>4. ASSUME NEW s \in Sessions, ExitStopped(s) \/ ExitLost(s) \/ ExitAcceptErr(s)
      PROVE  UNCHANGED <<admin, stopped>>
  BY <1>4 DEF ExitStopped, ExitLost, ExitAcceptErr, Leave
<1>5. CASE StatusStep
  BY <1>5 DEF StatusStep, StatusClose, StatusDelete, CheckStatus, Panic
<1> QED
  BY SMTT(30), <1>1, <1>2, <1>3, <1>4, <1>5 DEF Next, HandlerStep

(* Every step of handlers, status loop and administrator keeps ReachInv. *)
LEMMA ReachStep == Inv /\ ReachInv /\ [Next]_vars => ReachInv'
<1> SUFFICES ASSUME Inv, ReachInv, [Next]_vars PROVE ReachInv'
  OBVIOUS
<1>1. /\ admin.present \subseteq Sessions /\ admin.todo \subseteq Addrs
      /\ admin.pc # "idle" => admin.net \in Nets
      /\ devices \in [Keys -> Sessions \cup {None}] /\ None \notin Sessions
  BY ConstantTypes DEF Inv, TypeOK, AdminInv
<1>2. \A k \in Keys, s \in Sessions : devices[k] = s => k = Key(s) /\ Entered(s)
  BY DEF Inv, TableInv, Own, Entered, Fresh, Releasing
<1>3. \A s \in Sessions : Entered(s) => Entered(s)'
  BY EnteredStep
<1>4. CASE UNCHANGED <<admin, devices>> /\ stopped \subseteq stopped'
  BY <1>1, <1>3, <1>4 DEF ReachInv
<1>5. ASSUME UNCHANGED <<admin, stopped>>, NEW k \in Keys, NEW e \in Sessions \cup {None},
             devices' = [devices EXCEPT ![k] = e], e \in Sessions => ~Entered(e)
      PROVE  ReachInv'
  <2> SUFFICES ASSUME admin.pc # "idle", NEW t \in admin.present
               PROVE  /\ Entered(t)'
                      /\ \/ t \in stopped
                         \/ \A j \in Keys : devices'[j] # t
                         \/ admin.pc = "close" /\ admin.sess = t
                         \/ \E a \in admin.todo : devices'[<<admin.net, a>>] = t
    BY <1>5 DEF ReachInv
  <2>1. t \in Sessions /\ Entered(t) /\ e # t
    BY <1>1, <1>5 DEF ReachInv
  <2>2. Entered(t)'
    BY <1>3, <2>1
  <2>3. \A j \in Keys : devices'[j] = IF j = k THEN e ELSE devices[j]
    BY <1>1, <1>5
  <2>4. CASE \A j \in Keys : devices[j] # t
    BY <2>1, <2>2, <2>3, <2>4
  <2>5. ASSUME NEW a \in admin.todo, devices[<<admin.net, a>>] = t
        PROVE  \/ \A j \in Keys : devices'[j] # t
               \/ devices'[<<admin.net, a>>] = t
    <3>1. <<admin.net, a>> \in Keys
      BY <1>1 DEF Keys
    <3>2. \A j \in Keys : devices[j] = t => j = <<admin.net, a>>
      BY <1>2, <2>1, <2>5, <3>1
    <3> QED
      BY <2>1, <2>3, <2>5, <3>1, <3>2
  <2> QED
    BY <2>2, <2>4, <2>5 DEF ReachInv
<1>6. CASE AdminStep
  <2>1. UNCHANGED <<devices, pc, target>>
    BY Zenon, <1>6 DEF AdminStep, AdminClose, AdminRemove, AdminVisit, StopNetwork, StartNetwork, tables, private
  <2>2. \A s \in Sessions : Entered(s)' <=> Entered(s)
    BY <2>1 DEF Entered, Fresh
  <2>3. CASE AdminClose
    BY SMTT(30), <1>1, <2>1, <2>2, <2>3 DEF AdminClose, ReachInv, idleAdmin, Inv, TypeOK
  <2>4. CASE AdminRemove
    BY SMTT(30), <2>4 DEF AdminRemove, ReachInv, idleAdmin
  <2>5. ASSUME NEW a \in Addrs, AdminVisit(a) PROVE ReachInv'
    <3>1. PICK s : s = devices[<<admin.net, a>>]
      OBVIOUS
    <3>2. /\ admin.pc = "range" /\ admin'.present = admin.present /\ admin'.net = admin.net
          /\ admin'.todo = admin.todo \ {a} /\ admin'.sess = s
          /\ admin'.pc = IF s = None \/ s \in stopped THEN "range" ELSE "close"
          /\ stopped' = stopped
      BY SMTT(30), <2>5, <3>1 DEF AdminVisit, Inv, TypeOK
    <3>3. \A t \in admin.present : /\ t \in Sessions /\ Entered(t)
                                   /\ \/ t \in stopped
                                      \/ \A k \in Keys : devices[k] # t
                                      \/ \E b \in admin.todo : devices[<<admin.net, b>>] = t
      BY <1>1, <3>2 DEF ReachInv
    <3> QED
      BY <1>1, <2>1, <2>2, <3>1, <3>2, <3>3 DEF ReachInv
  <2>6. ASSUME NEW n \in Nets, StopNetwork(n) PROVE ReachInv'
    <3> DEFINE there == {a \in Addrs : devices[<<n, a>>] # None}
    <3>1. /\ there \subseteq admin'.todo /\ admin'.net = n
          /\ admin'.present = {devices[<<n, a>>] : a \in there}
      BY <2>6 DEF StopNetwork
    <3>2. \A a \in there : /\ devices[<<n, a>>] \in Sessions /\ Entered(devices[<<n, a>>])
      BY SMTT(30), <1>1, <1>2 DEF Keys
    <3> QED
      BY Zenon, <2>1, <2>2, <3>1, <3>2 DEF ReachInv
  <2>7. ASSUME NEW n \in Nets, StartNetwork(n) PROVE ReachInv'
    BY <1>1, <2>1, <2>2, <2>7 DEF StartNetwork, ReachInv
  <2> QED
    BY SMTT(30), <1>6, <2>3, <2>4, <2>5, <2>6, <2>7 DEF AdminStep
<1>7. ASSUME NEW s \in Sessions, pc[s] = "quotas", UNCHANGED <<admin, stopped>>,
             devices' = [devices EXCEPT ![Key(s)] = s]
      PROVE  ReachInv'
  <2>1. Key(s) \in Keys /\ ~Entered(s)
    BY <1>7 DEF Inv, HandlerInv, Key, Keys, Entered
  <2> QED
    BY Zenon, <1>5, <1>7, <2>1
<1>8. ASSUME NEW s \in Sessions, pc[s] = "forget", UNCHANGED <<admin, stopped>>,
             devices' = [devices EXCEPT ![Key(target[s])] = None]
      PROVE  ReachInv'
  <2>1. CASE Key(target[s]) \in Keys
    BY <1>1, <1>5, <1>8, <2>1, Zenon
  <2>2. CASE Key(target[s]) \notin Keys
    <3>1. devices' = devices
      BY <1>1, <1>8, <2>2
    <3> QED
      BY <1>4, <1>8, <3>1
  <2> QED
    BY <2>1, <2>2
<1> QED
  BY <1>4, <1>6, <1>7, <1>8, TableChanges, AdminChanges

\* When Network.Stop has come to the end of the device table, each session
\* that was in it when it began is stopped or gone from it, whatever logins,
\* takeovers and cleanups ran meanwhile, for any number of sessions, networks
\* and addresses.
THEOREM NetworkStopReachesAll == Spec => []StopReachesAll
<1>1. Init => ReachInv
  BY SMTT(30) DEF Init, ReachInv, idleAdmin
<1>2. ReachInv => StopReachesAll
  BY Zenon DEF ReachInv, StopReachesAll
<1> QED
  BY <1>1, <1>2, Initially, Invariance, ReachStep, PTL DEF Spec

===============================================================================
