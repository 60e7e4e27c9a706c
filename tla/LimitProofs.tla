----------------------------- MODULE LimitProofs ------------------------------
(*****************************************************************************)
(* Proofs about what the server limits: traffic within quotas, for any       *)
(* number of quotas, transports and committing goroutines and any packet     *)
(* size and limit (QuotaAccounting), bandwidth, for any rate, burst and      *)
(* number of concurrent callers (TokenBucket), and the addresses of any      *)
(* network (IPAllocator).                                                    *)
(*****************************************************************************)
EXTENDS QuotaAccounting, TokenBucket, IPAllocator, SeqFoldProofs, FiniteSetTheorems

\* A call c of worker w is about a quota that exists; a proxy counts on its
\* own quotas; the record read by submitToDatabase is still there.
Proper(w, c) ==
  /\ c.pc # "idle" => c.on \in live
  /\ c.pc \in {"check", "add"} => w \in Users(c.on) /\ Dst[w] \in live
  /\ c.pc = "update" => c.flow \in 1 .. Len(records)

CallInv == \A w \in Workers : Proper(w, call[w])

Inv == TypeOK /\ CallInv

-----------------------------------------------------------------------------
(* Entering a call changes it for one worker; and the calls entered.       *)

LEMMA EnterCall ==
  ASSUME TypeOK, NEW w \in Workers, NEW c \in Calls, Enter(w, c)
  PROVE  /\ call' \in [Workers -> Calls]
         /\ call'[w] = c
         /\ \A x \in Workers : x # w => call'[x] = call[x]
BY DEF TypeOK, Enter

LEMMA GotoCall ==
  ASSUME NEW c \in Calls, NEW l \in Labels
  PROVE  LET d == [c EXCEPT !.pc = l]
         IN  d \in Calls /\ d.pc = l /\ d.on = c.on /\ d.value = c.value
BY DEF Calls

LEMMA IdleCall == idle \in Calls /\ idle.pc = "idle"
BY ConstantTypes DEF Calls, idle, Labels

\* The calls of AddUsage on the sender's and on the receiver's quota.
SrcCall(c, q, m, n) ==
  [c EXCEPT !.pc = "check", !.on = q, !.value = m, !.rest = n]

DstCall(c, q, m) == [c EXCEPT !.pc = "check", !.on = q, !.value = m]

LEMMA CheckCall ==
  ASSUME NEW c \in Calls, NEW q \in Quotas,
         NEW m \in 0 .. MaxChunk, NEW n \in 0 .. MaxChunk,
         NEW d, d = SrcCall(c, q, m, n)
  PROVE  d \in Calls /\ d.pc = "check" /\ d.on = q
BY ZenonT(30) DEF Calls, Labels, SrcCall

LEMMA CheckRestCall ==
  ASSUME NEW c \in Calls, NEW q \in Quotas, NEW m \in 0 .. MaxChunk,
         NEW d, d = DstCall(c, q, m)
  PROVE  d \in Calls /\ d.pc = "check" /\ d.on = q
BY ZenonT(30) DEF Calls, Labels, DstCall

LEMMA LoadCall ==
  ASSUME NEW c \in Calls, NEW q \in Quotas
  PROVE  LET d == [c EXCEPT !.pc = "load", !.on = q]
         IN  d \in Calls /\ d.pc = "load" /\ d.on = q
BY ZenonT(30) DEF Calls, Labels

LEMMA ReadCall ==
  ASSUME NEW c \in Calls, NEW n \in Nat
  PROVE  LET d == [c EXCEPT !.pc = "read", !.amount = n]
         IN  d \in Calls /\ d.pc = "read" /\ d.on = c.on
BY ZenonT(30) DEF Calls, Labels

MergeCall(c, i, n) == [c EXCEPT !.pc = "update", !.flow = i, !.seen = n]

LEMMA UpdateCall ==
  ASSUME NEW c \in Calls, NEW i \in Nat, NEW n \in Nat,
         NEW d, d = MergeCall(c, i, n)
  PROVE  d \in Calls /\ d.pc = "update" /\ d.on = c.on /\ d.flow = i
BY ZenonT(30) DEF Calls, Labels, MergeCall

-----------------------------------------------------------------------------
LEMMA InvInit == Init => Inv
<1> SUFFICES ASSUME Init PROVE Inv
  OBVIOUS
<1>1. TypeOK
  BY ConstantTypes, IdleCall DEF Init, TypeOK
<1>2. CallInv
  BY IdleCall DEF Init, CallInv, Proper
<1> QED
  BY <1>1, <1>2 DEF Inv

\* The fields of a call have their types.
LEMMA CallTypes ==
  ASSUME NEW c \in Calls
  PROVE  /\ c.pc \in Labels /\ c.on \in Quotas \cup {None}
         /\ c.value \in 0 .. MaxChunk /\ c.rest \in 0 .. MaxChunk
         /\ c.amount \in Nat /\ c.flow \in Nat /\ c.seen \in Nat
BY DEF Calls

\* A worker that enters a proper call keeps CallInv; records only grow.
LEMMA EnterKeepsInv ==
  ASSUME Inv, NEW w \in Workers, NEW c \in Calls, Enter(w, c), Proper(w, c),
         live' = live, records' \in Seq(Nat), Len(records') >= Len(records)
  PROVE  call' \in [Workers -> Calls] /\ CallInv'
<1>1. /\ call' \in [Workers -> Calls]
      /\ call'[w] = c
      /\ \A x \in Workers : x # w => call'[x] = call[x]
  BY EnterCall DEF Inv
<1>2. Len(records) \in Nat /\ Len(records') \in Nat
  BY DEF Inv, TypeOK
<1>3. ASSUME NEW x \in Workers
      PROVE  Proper(x, call[x])'
  <2>1. Proper(x, call'[x])
    BY <1>1 DEF Inv, CallInv
  <2> QED
    BY <1>2, <2>1 DEF Proper, Users
<1> QED
  BY <1>1, <1>3 DEF CallInv

LEMMA InvNext ==
  ASSUME Inv, [Next]_vars
  PROVE  Inv'
<1> USE ConstantTypes DEF Inv, TypeOK, At, counters
<1>0. Len(records) \in Nat
  OBVIOUS
<1>1. ASSUME NEW q \in Quotas, New(q)
      PROVE  Inv'
  <2>1. PICK ixs : used' = [used EXCEPT ![q] = SumOf(ixs)]
    BY Zenon, <1>1 DEF New
  <2>2. SumOf(ixs) \in Nat
    <3>1. DOMAIN records = 1 .. Len(records) /\ \A i \in 1 .. Len(records) : records[i] \in Nat
      OBVIOUS
    <3>2. [i \in DOMAIN records |-> IF i \in ixs THEN records[i] ELSE 0] \in Seq(Nat)
      BY ONLY <1>0, <3>1
    <3> QED
      BY Zenon, <3>2, TotalType DEF SumOf
  <2> HIDE DEF SumOf
  <2>3. used' \in [Quotas -> Nat]
    BY <2>1, <2>2
  <2>4. UNCHANGED <<usage, counted, handed, call, records, stored>> /\ live' = live \cup {q}
    BY <1>1 DEF New
  <2> QED
    BY <2>3, <2>4 DEF CallInv, Proper, Users
<1>2. ASSUME NEW p \in Proxies, Forward(p)
      PROVE  Inv'
  <2>0. PICK nr \in 1 .. MaxChunk : \E nw \in 0 .. nr :
          Enter(p, SrcCall(idle, Src[p], nr, nw))
    BY ZenonT(30), <1>2 DEF Forward, SrcCall
  <2>1. PICK nw \in 0 .. nr : Enter(p, SrcCall(idle, Src[p], nr, nw))
    BY <2>0
  <2> DEFINE c == SrcCall(idle, Src[p], nr, nw)
  <2>2. p \in Users(Src[p]) /\ {Src[p], Dst[p]} \subseteq live /\ p \in Workers
    BY <1>2 DEF Forward, Users, Workers
  <2>3. c \in Calls /\ c.pc = "check" /\ c.on = Src[p]
    <3>1. Src[p] \in Quotas /\ nr \in 0 .. MaxChunk /\ nw \in 0 .. MaxChunk
      OBVIOUS
    <3> QED
      BY <3>1, CheckCall, IdleCall
  <2>4. Proper(p, c)
    BY <2>2, <2>3 DEF Proper
  <2>5. UNCHANGED <<counters, records, stored>>
    BY <1>2 DEF Forward
  <2>6. call' \in [Workers -> Calls] /\ CallInv'
    BY SMTT(30), <1>0, <2>1, <2>2, <2>3, <2>4, <2>5, EnterKeepsInv
  <2> QED
    BY <2>5, <2>6
<1>3. ASSUME NEW p \in Proxies, Check(p)
      PROVE  Inv'
  <2>1. p \in Workers /\ call[p] \in Calls /\ Proper(p, call[p])
    BY <1>3 DEF Workers, CallInv
  <2>2. PICK l \in {"load", "add"} : Enter(p, [call[p] EXCEPT !.pc = l])
    BY Zenon, <1>3 DEF Check, Goto
  <2> DEFINE c == [call[p] EXCEPT !.pc = l]
  <2>3. c \in Calls /\ c.pc = l /\ c.on = call[p].on
    <3>1. l \in Labels
      BY DEF Labels
    <3> QED
      BY <2>1, <3>1, GotoCall
  <2>4. Proper(p, c)
    BY <1>3, <2>1, <2>3 DEF Check, Proper
  <2>5. UNCHANGED <<live, used, usage, counted, handed, records, stored>>
    BY <1>3 DEF Check, counters
  <2>6. call' \in [Workers -> Calls] /\ CallInv'
    BY SMTT(30), <1>0, <2>1, <2>2, <2>3, <2>4, <2>5, EnterKeepsInv
  <2> QED
    BY <2>5, <2>6
<1>4. ASSUME NEW p \in Proxies, Add(p)
      PROVE  Inv'
  <2>1. p \in Workers /\ call[p] \in Calls /\ Proper(p, call[p])
    BY <1>4 DEF Workers, CallInv
  <2>2. /\ call[p].on \in Quotas
        /\ call[p].value \in 0 .. MaxChunk /\ call[p].rest \in 0 .. MaxChunk
    BY <1>4, <2>1, CallTypes DEF Add, Proper
  <2>3. /\ UNCHANGED <<live, used, handed, records, stored>>
        /\ usage' \in [Quotas -> Nat] /\ counted' \in [Quotas -> Nat]
    <3>1. call[p].value \in Nat
      BY <2>2
    <3>2. usage' = [usage EXCEPT ![call[p].on] = @ + call[p].value]
      BY <1>4 DEF Add
    <3>3. counted' = [counted EXCEPT ![call[p].on] = @ + call[p].value]
      BY <1>4 DEF Add
    <3>4. UNCHANGED <<live, used, handed, records, stored>>
      BY <1>4 DEF Add
    <3>5. usage' \in [Quotas -> Nat]
      BY SMTT(30), <2>2, <3>1, <3>2
    <3>6. counted' \in [Quotas -> Nat]
      BY SMTT(30), <2>2, <3>1, <3>3
    <3> QED
      BY <3>4, <3>5, <3>6
  <2>r. PICK r \in 0 .. MaxChunk : r = call[p].rest
    BY <2>2
  <2>s. PICK q \in Quotas : q = Dst[p]
    OBVIOUS
  <2>c. PICK c : c = DstCall(idle, q, r)
    OBVIOUS
  <2>4. c \in Calls /\ c.pc = "check" /\ c.on = Dst[p]
    BY ONLY <2>c, <2>s, CheckRestCall, IdleCall
  <2>5. Proper(p, c)
    BY <1>4, <2>1, <2>4 DEF Add, Proper, Users
  <2>6. Proper(p, idle)
    BY IdleCall DEF Proper
  <2>7. ASSUME NEW d \in Calls, Proper(p, d), Enter(p, d)
        PROVE  Inv'
    <3>1. /\ live' = live
          /\ records' \in Seq(Nat) /\ Len(records') >= Len(records)
      BY <1>0, <2>3
    <3>2. Inv
      OBVIOUS
    <3>3. call' \in [Workers -> Calls] /\ CallInv'
      BY ONLY ZenonT(30), <2>1, <2>7, <3>1, <3>2, EnterKeepsInv
    <3> QED
      BY ZenonT(30), <2>3, <3>3
  <2>8. Enter(p, c) \/ Enter(p, idle)
    BY <1>4, <2>r, <2>s, <2>c DEF Add, Return, DstCall
  <2> QED
    BY ZenonT(30), <2>4, <2>5, <2>6, <2>7, <2>8, IdleCall
<1>5. ASSUME NEW c \in Committers, NEW q \in Quotas, Commit(c, q)
      PROVE  Inv'
  <2> DEFINE d == [idle EXCEPT !.pc = "load", !.on = q]
  <2>1. c \in Workers /\ d \in Calls /\ d.pc = "load" /\ d.on = q
    BY ZenonT(30), LoadCall, IdleCall DEF Workers
  <2>2. UNCHANGED <<counters, records, stored>> /\ Enter(c, d) /\ q \in live
    BY <1>5 DEF Commit
  <2>3. Proper(c, d)
    BY <2>1, <2>2 DEF Proper
  <2>4. call' \in [Workers -> Calls] /\ CallInv'
    BY <1>0, <2>1, <2>2, <2>3, EnterKeepsInv
  <2> QED
    BY <2>2, <2>4
<1>6. ASSUME NEW w \in Workers, Load(w)
      PROVE  Inv'
  <2> DEFINE c == [call[w] EXCEPT !.pc = "swap"]
  <2>1. c \in Calls /\ c.pc = "swap" /\ c.on = call[w].on
    BY ZenonT(30), GotoCall DEF Labels
  <2>2. Proper(w, c) /\ Proper(w, idle)
    BY <1>6, <2>1, IdleCall DEF Load, CallInv, Proper
  <2>3. UNCHANGED <<counters, records, stored>>
    BY <1>6 DEF Load
  <2>4. CASE Enter(w, c)
    BY <1>0, <2>1, <2>2, <2>3, <2>4, EnterKeepsInv
  <2>5. CASE Enter(w, idle)
    BY <1>0, <2>2, <2>3, <2>5, IdleCall, EnterKeepsInv
  <2> QED
    BY <1>6, <2>4, <2>5 DEF Load, Return, Goto
<1>7. ASSUME NEW w \in Workers, Swap(w)
      PROVE  Inv'
  <2>1. call[w].on \in Quotas /\ call[w].on \in live
    BY <1>7 DEF Swap, CallInv, Proper
  <2> DEFINE c == [call[w] EXCEPT !.pc = "read", !.amount = usage[call[w].on]]
  <2>2. c \in Calls /\ c.pc = "read" /\ c.on = call[w].on
    BY ZenonT(30), <2>1, ReadCall
  <2>3. Proper(w, c)
    BY <2>1, <2>2 DEF Proper
  <2>4. /\ UNCHANGED <<live, used, counted, records, stored>>
        /\ usage' \in [Quotas -> Nat] /\ handed' \in [Quotas -> Nat]
        /\ Enter(w, c)
    BY <1>7, <2>1 DEF Swap
  <2>5. call' \in [Workers -> Calls] /\ CallInv'
    BY <1>0, <2>2, <2>3, <2>4, EnterKeepsInv
  <2> QED
    BY <2>4, <2>5
<1>8. ASSUME NEW w \in Workers, SubmitFails(w)
      PROVE  Inv'
  <2>1. UNCHANGED <<counters, records, stored>> /\ Enter(w, idle)
    BY <1>8 DEF SubmitFails, Return
  <2>2. Proper(w, idle)
    BY IdleCall DEF Proper
  <2>3. call' \in [Workers -> Calls] /\ CallInv'
    BY <1>0, <2>1, <2>2, IdleCall, EnterKeepsInv
  <2> QED
    BY <2>1, <2>3
<1>9. ASSUME NEW w \in Workers, ReadRecent(w)
      PROVE  Inv'
  <2>0. PICK j \in DOMAIN records : Enter(w, MergeCall(call[w], j, records[j]))
    BY ZenonT(30), <1>9 DEF ReadRecent, MergeCall
  <2>1. PICK i \in Nat : /\ i \in 1 .. Len(records)
                        /\ Enter(w, MergeCall(call[w], i, records[i]))
    <3>1. j \in Nat /\ j \in 1 .. Len(records)
      OBVIOUS
    <3> QED
      BY <2>0, <3>1, Zenon
  <2>2. PICK b \in Calls, n \in Nat : b = call[w] /\ n = records[i]
    BY <2>1
  <2>c. PICK c : c = MergeCall(b, i, n)
    OBVIOUS
  <2>3. /\ c \in Calls /\ c.pc = "update" /\ c.on = b.on /\ c.flow = i
        /\ i \in 1 .. Len(records)
    <3>1. c \in Calls
      BY ONLY <2>c, UpdateCall
    <3>2. c.pc = "update"
      BY ONLY <2>c, UpdateCall
    <3>3. c.on = b.on
      BY ONLY <2>c, UpdateCall
    <3>4. c.flow = i
      BY ONLY <2>c, UpdateCall
    <3> QED
      BY <2>1, <3>1, <3>2, <3>3, <3>4
  <2>4. Proper(w, c)
    BY <1>9, <2>2, <2>3 DEF ReadRecent, CallInv, Proper
  <2>5. UNCHANGED <<counters, records, stored>>
    BY <1>9 DEF ReadRecent
  <2>6. call' \in [Workers -> Calls] /\ CallInv'
    BY <1>0, <2>1, <2>2, <2>c, <2>3, <2>4, <2>5, EnterKeepsInv
  <2> QED
    BY SMTT(30), <2>5, <2>6
<1>10. ASSUME NEW w \in Workers, ReadNone(w)
       PROVE  Inv'
  <2> DEFINE c == [call[w] EXCEPT !.pc = "insert"]
  <2>1. c \in Calls /\ c.pc = "insert" /\ c.on = call[w].on
    BY ZenonT(30), GotoCall DEF Labels
  <2>2. Proper(w, c)
    BY <1>10, <2>1 DEF ReadNone, CallInv, Proper
  <2>3. UNCHANGED <<counters, records, stored>> /\ Enter(w, c)
    BY <1>10 DEF ReadNone, Goto
  <2>4. call' \in [Workers -> Calls] /\ CallInv'
    BY <1>0, <2>1, <2>2, <2>3, EnterKeepsInv
  <2> QED
    BY <2>3, <2>4
<1>11. ASSUME NEW w \in Workers, Update(w) \/ Insert(w)
       PROVE  Inv'
  <2>1. /\ call[w].amount \in Nat /\ call[w].seen \in Nat
        /\ At(w, "update") => call[w].flow \in 1 .. Len(records)
    BY CallTypes DEF CallInv, Proper
  <2>2. records' \in Seq(Nat) /\ Len(records') >= Len(records)
    <3>1. CASE Update(w)
      <4>1. records' = [records EXCEPT ![call[w].flow] =
                                         call[w].seen + call[w].amount]
        BY <3>1 DEF Update
      <4>2. /\ call[w].flow \in 1 .. Len(records)
            /\ call[w].seen + call[w].amount \in Nat
        BY <2>1, <3>1 DEF Update
      <4>3. records' \in Seq(Nat) /\ Len(records') = Len(records)
        BY <1>0, <4>1, <4>2
      <4> QED
        BY <1>0, <4>3
    <3>2. CASE Insert(w)
      <4>1. records' \in Seq(Nat) /\ Len(records') = Len(records) + 1
        BY <2>1, <3>2 DEF Insert
      <4> QED
        BY <1>0, <4>1
    <3> QED
      BY <1>11, <3>1, <3>2
  <2>3. UNCHANGED counters /\ Enter(w, idle) /\ stored' \in Nat
    BY <1>11, <2>1 DEF Update, Insert, Return
  <2>4. Proper(w, idle)
    BY IdleCall DEF Proper
  <2>5. call' \in [Workers -> Calls] /\ CallInv'
    BY <2>2, <2>3, <2>4, IdleCall, EnterKeepsInv
  <2> QED
    BY <2>2, <2>3, <2>5
<1>12. ASSUME UNCHANGED vars
       PROVE  Inv'
  BY <1>12 DEF vars, CallInv, Proper, Users
<1> QED
  BY ZenonT(30), <1>1, <1>2, <1>3, <1>4, <1>5, <1>6, <1>7, <1>8, <1>9, <1>10,
     <1>11, <1>12
  DEF Next, CommitStep

\* Every counter, record and local of a call keeps its type, and a call is
\* always about a quota that quota.New returned (QuotaAccounting!Spec).
THEOREM Invariance == Spec => []Inv
<1>1. Inv /\ [Next]_vars => Inv'
  BY InvNext
<1> QED
  BY InvInit, <1>1, PTL DEF Spec

\* The type invariant of the counters of quota.go and the records of flow.go.
THEOREM TypeCorrect == Spec => []TypeOK
<1>1. Inv => TypeOK
  BY DEF Inv
<1> QED
  BY Invariance, <1>1, PTL

-----------------------------------------------------------------------------
(* HandedOnce is inductive over Inv: only Add and Swap touch its counters. *)

LEMMA HandedStep ==
  ASSUME Inv, HandedOnce, [Next]_vars
  PROVE  HandedOnce'
<1> USE ConstantTypes DEF Inv, TypeOK, At, counters, HandedOnce
<1>1. ASSUME NEW p \in Proxies, Add(p)
      PROVE  HandedOnce'
  <2>1. PICK q \in Quotas, v \in Nat : q = call[p].on /\ v = call[p].value
    <3>1. p \in Workers
      BY DEF Workers
    <3>2. call[p].on \in Quotas
      BY Zenon, <1>1, <3>1 DEF Add, CallInv, Proper
    <3>3. call[p].value \in 0 .. MaxChunk
      BY Zenon, <3>1, CallTypes
    <3>4. call[p].value \in Nat
      BY <3>3
    <3> QED
      BY Zenon, <3>2, <3>4
  <2>2. /\ usage' = [usage EXCEPT ![q] = @ + v]
        /\ counted' = [counted EXCEPT ![q] = @ + v]
        /\ handed' = handed
    BY <1>1, <2>1 DEF Add
  <2> QED
    BY <2>2
<1>2. ASSUME NEW w \in Workers, Swap(w)
      PROVE  HandedOnce'
  <2>1. PICK q \in Quotas : q = call[w].on
    BY <1>2 DEF Swap, CallInv, Proper
  <2>2. /\ usage' = [usage EXCEPT ![q] = 0]
        /\ handed' = [handed EXCEPT ![q] = @ + usage[q]]
        /\ counted' = counted
    BY <1>2, <2>1 DEF Swap
  <2> QED
    BY <2>2
<1>3. CASE UNCHANGED <<usage, counted, handed>>
  BY <1>3
<1>4. ASSUME NEW q \in Quotas, New(q)
      PROVE  UNCHANGED <<usage, counted, handed>>
  BY SMTT(30), <1>4 DEF New
<1>5. ASSUME NEW p \in Proxies, Forward(p) \/ Check(p)
      PROVE  UNCHANGED <<usage, counted, handed>>
  BY ZenonT(30), <1>5 DEF Forward, Check
<1>6. ASSUME NEW c \in Committers, NEW q \in Quotas, Commit(c, q)
      PROVE  UNCHANGED <<usage, counted, handed>>
  BY SMTT(30), <1>6 DEF Commit
<1>7. ASSUME NEW w \in Workers, CommitStep(w), ~Swap(w)
      PROVE  UNCHANGED <<usage, counted, handed>>
  BY ZenonT(30), <1>7
  DEF CommitStep, Load, SubmitFails, ReadRecent, ReadNone,
    Update, Insert
<1>8. UNCHANGED vars => UNCHANGED <<usage, counted, handed>>
  BY DEF vars
<1> QED
  BY <1>1, <1>2, <1>3, <1>4, <1>5, <1>6, <1>7, <1>8 DEF Next

\* AddUsage and CommitUsage may interleave as they like: no byte is handed to
\* SubmitUsage twice and none is dropped between the counter and the call.
THEOREM BytesHandedOnce == Spec => []HandedOnce
<1>1. Init => HandedOnce
  BY ConstantTypes DEF Init, HandedOnce
<1>2. Inv /\ HandedOnce /\ [Next]_vars => HandedOnce'
  BY HandedStep
<1> QED
  BY Invariance, <1>1, <1>2, PTL DEF Spec

-----------------------------------------------------------------------------
(* OvershootBounded.  A proxy between isExceeded and usage.Add may add one *)
(* more packet, so the inductive form charges one packet to each of them   *)
(* beforehand; the charge is at most one per transport that uses the quota *)
(* when the last of them passes the check.                                 *)

Adders(q) == {p \in Proxies : call[p].pc = "add" /\ call[p].on = q}

Over(q) ==
  /\ q \notin live => usage[q] = 0
  /\ Adders(q) # {} => used[q] <= MaxLimit
  /\ usage[q] > 0 => usage[q] + used[q] + MaxChunk * Cardinality(Adders(q))
                       <= MaxLimit + MaxChunk * Cardinality(Users(q))

OverInv == MaxLimit # ValueNoLimit => \A q \in Quotas : Over(q)

LEMMA Times ==
  ASSUME NEW m \in Nat, NEW a \in Nat, NEW b \in Nat, a <= b
  PROVE  m * a \in Nat /\ m * a <= m * b /\ m * (a + 1) = m * a + m
<1>1. PICK d \in Nat : b = a + d
  <2>1. b - a \in Nat /\ b = a + (b - a)
    OBVIOUS
  <2> QED
    BY <2>1
<1>2. m * a \in Nat /\ m * d \in Nat
  OBVIOUS
<1>3. m * (a + d) = m * a + m * d
  OBVIOUS
<1>4. m * (a + 1) = m * a + m
  OBVIOUS
<1> QED
  BY <1>1, <1>2, <1>3, <1>4

Charge(q) == MaxChunk * Cardinality(Adders(q))
Allowed(q) == MaxChunk * Cardinality(Users(q))

LEMMA AddersBounded ==
  ASSUME Inv, NEW q \in Quotas
  PROVE  /\ IsFiniteSet(Adders(q))
         /\ Cardinality(Adders(q)) \in Nat
         /\ Charge(q) \in Nat /\ Allowed(q) \in Nat /\ Charge(q) <= Allowed(q)
<1>1. Adders(q) \subseteq Users(q)
  BY DEF Inv, CallInv, Proper, Adders, Workers
<1>2. IsFiniteSet(Users(q))
  <2>1. Users(q) \subseteq Proxies /\ IsFiniteSet(Proxies)
    BY ConstantTypes DEF Users
  <2> QED
    BY <2>1, FS_Subset
<1>3. /\ IsFiniteSet(Adders(q))
      /\ Cardinality(Adders(q)) <= Cardinality(Users(q))
  BY <1>1, <1>2, FS_Subset
<1>4. Cardinality(Adders(q)) \in Nat /\ Cardinality(Users(q)) \in Nat
  BY <1>2, <1>3, FS_CardinalityType
<1>5. MaxChunk \in Nat
  BY ConstantTypes
<1>6. PICK a \in Nat, u \in Nat : a = Cardinality(Adders(q))
                                  /\ u = Cardinality(Users(q))
  BY <1>4
<1>7. MaxChunk * a \in Nat /\ MaxChunk * u \in Nat /\ MaxChunk * a <= MaxChunk * u
  BY <1>3, <1>5, <1>6, Times
<1> QED
  BY <1>3, <1>4, <1>6, <1>7 DEF Charge, Allowed

LEMMA ChargeAllowed ==
  Inv => \A q \in Quotas :
           Charge(q) \in Nat /\ Allowed(q) \in Nat /\ Charge(q) <= Allowed(q)
BY AddersBounded

LEMMA ChargeAllowedNext ==
  ASSUME Inv'
  PROVE  \A q \in Quotas :
           Charge(q)' \in Nat /\ Allowed(q)' \in Nat /\ Charge(q)' <= Allowed(q)'
<1>1. Inv' => (\A q \in Quotas :
                 Charge(q) \in Nat /\ Allowed(q) \in Nat /\ Charge(q) <= Allowed(q))'
  BY ChargeAllowed, PTL
<1> QED
  BY <1>1

\* A step of worker w that neither enters nor leaves "add".
LEMMA AddersKept ==
  ASSUME NEW w \in Workers, call[w].pc # "add", call'[w].pc # "add",
         \A x \in Workers : x # w => call'[x] = call[x],
         NEW q \in Quotas
  PROVE  Adders(q)' = Adders(q)
BY DEF Adders, Workers

LEMMA OverKept ==
  ASSUME NEW q \in Quotas, Over(q), Adders(q)' = Adders(q),
         usage'[q] = usage[q], used'[q] = used[q], live \subseteq live'
  PROVE  Over(q)'
BY DEF Over, Users

\* The steps of CommitUsage and submitToDatabase stay away from "add".
LEMMA CommitStepQuiet ==
  ASSUME Inv, NEW w \in Workers, CommitStep(w)
  PROVE  /\ call[w].pc # "add" /\ call'[w].pc # "add"
         /\ \A x \in Workers : x # w => call'[x] = call[x]
         /\ live' = live /\ used' = used
<1> USE DEF Inv, TypeOK, At, counters
<1>1. PICK b \in Calls : b = call[w]
  OBVIOUS
<1>2. \A l \in Labels : [b EXCEPT !.pc = l] \in Calls
                        /\ [b EXCEPT !.pc = l].pc = l
  BY GotoCall
<1>3. PICK c \in Calls : Enter(w, c) /\ c.pc # "add"
  <2>1. CASE Load(w) \/ ReadNone(w)
    <3>1. \/ Enter(w, idle)
          \/ \E l \in {"swap", "insert"} : Enter(w, [b EXCEPT !.pc = l])
      BY <1>1, <2>1 DEF Load, ReadNone, Goto, Return
    <3> QED
      BY ZenonT(30), <1>2, <3>1, IdleCall DEF Labels
  <2>2. CASE Swap(w)
    <3>1. PICK n \in Nat : Enter(w, [b EXCEPT !.pc = "read", !.amount = n])
      BY ZenonT(30), <1>1, <2>2 DEF Swap, CallInv, Proper
    <3> QED
      BY ZenonT(30), <3>1, ReadCall
  <2>3. CASE SubmitFails(w) \/ Update(w) \/ Insert(w)
    BY <2>3, IdleCall DEF SubmitFails, Update, Insert, Return
  <2>4. CASE ReadRecent(w)
    <3>0. PICK j \in DOMAIN records : Enter(w, MergeCall(call[w], j, records[j]))
      BY ZenonT(30), <2>4 DEF ReadRecent, MergeCall
    <3>1. j \in Nat /\ records[j] \in Nat
      OBVIOUS
    <3>2. PICK i \in Nat, n \in Nat : i = j /\ n = records[j]
      BY <3>1
    <3>3. PICK c : c = MergeCall(b, i, n)
      OBVIOUS
    <3>4. c \in Calls /\ c.pc = "update"
      BY ONLY SMTT(30), <3>3, UpdateCall
    <3> QED
      BY SMTT(30), <1>1, <3>0, <3>2, <3>3, <3>4
  <2> QED
    BY <2>1, <2>2, <2>3, <2>4 DEF CommitStep
<1>4. call[w].pc # "add"
  BY ZenonT(30) DEF CommitStep, Load, Swap, SubmitFails, ReadRecent, ReadNone,
    Update, Insert
<1>5. live' = live /\ used' = used
  BY ZenonT(30) DEF CommitStep, Load, Swap, SubmitFails, ReadRecent, ReadNone,
    Update, Insert
<1> QED
  BY <1>3, <1>4, <1>5, EnterCall

\* A proxy that passes isExceeded: the quota is not overrun at this moment.
LEMMA OverCheck ==
  ASSUME Inv, Inv', MaxLimit # ValueNoLimit, \A q \in Quotas : Over(q),
         NEW p \in Proxies, Check(p), NEW q \in Quotas
  PROVE  Over(q)'
<1> USE ConstantTypes DEF Inv, TypeOK, At
<1>1. p \in Workers /\ call[p].on \in Quotas /\ call[p].pc = "check"
  BY Zenon DEF Workers, Check, CallInv, Proper
<1>2. UNCHANGED <<usage, used, live>>
  BY DEF Check, counters
<1>3. CASE Exceeded(call[p].on)
  <2>1. Enter(p, [call[p] EXCEPT !.pc = "load"])
    BY <1>3 DEF Check, Goto
  <2>2. call'[p].pc # "add" /\ \A x \in Workers : x # p => call'[x] = call[x]
    BY <1>1, <2>1 DEF Enter, Calls
  <2>3. Adders(q)' = Adders(q)
    BY ZenonT(30), <1>1, <2>2, AddersKept
  <2> QED
    BY <1>2, <2>3, OverKept
<1>4. CASE ~Exceeded(call[p].on)
  <2>1. Enter(p, [call[p] EXCEPT !.pc = "add"])
    BY <1>4 DEF Check, Goto
  <2>2. /\ call'[p].pc = "add" /\ call'[p].on = call[p].on
        /\ \A x \in Workers : x # p => call'[x] = call[x]
    BY <1>1, <2>1 DEF Enter, Calls
  <2>3. CASE q = call[p].on
    <3>1. /\ usage'[q] = usage[q] /\ used'[q] = used[q] /\ live' = live
          /\ usage[q] \in Nat /\ used[q] \in Nat /\ MaxLimit \in Nat
      BY <1>2 DEF ValueNoLimit
    <3>2. usage[q] + used[q] <= MaxLimit
      <4>1. ~(usage[q] + used[q] > MaxLimit)
        BY <1>4, <2>3, Zenon DEF Exceeded
      <4> QED
        BY ONLY <3>1, <4>1
    <3>3. Charge(q)' \in Nat /\ Allowed(q)' \in Nat /\ Charge(q)' <= Allowed(q)'
      BY ZenonT(30), ChargeAllowedNext
    <3>4. q \notin live => usage[q] = 0
      BY DEF Over
    <3>5. /\ usage[q] + used[q] + Charge(q)' <= MaxLimit + Allowed(q)'
          /\ used[q] <= MaxLimit
      BY ONLY <3>1, <3>2, <3>3
    <3> QED
      BY <3>1, <3>4, <3>5 DEF Over, Charge, Allowed
  <2>4. CASE q # call[p].on
    <3>1. Adders(q)' = Adders(q)
      BY ZenonT(30), <1>1, <2>2, <2>4 DEF Adders, Workers
    <3> QED
      BY <1>2, <3>1, OverKept
  <2> QED
    BY ZenonT(30), <2>3, <2>4
<1> QED
  BY <1>3, <1>4

\* A proxy that adds spends the packet it was charged with.
LEMMA OverAdd ==
  ASSUME Inv, MaxLimit # ValueNoLimit, \A q \in Quotas : Over(q),
         NEW p \in Proxies, Add(p), NEW q \in Quotas
  PROVE  Over(q)'
<1> USE ConstantTypes DEF Inv, TypeOK, At
<1>1. /\ p \in Workers /\ call[p].on \in Quotas /\ call[p].pc = "add"
      /\ call[p].on \in live /\ call[p].value \in 0 .. MaxChunk
      /\ call[p].rest \in 0 .. MaxChunk
  <2>1. p \in Workers
    BY DEF Workers
  <2> QED
    BY Zenon, <2>1, CallTypes DEF Add, CallInv, Proper
<1>2. live' = live /\ used' = used
  BY DEF Add
<1>3. /\ call'[p].pc # "add"
      /\ \A x \in Workers : x # p => call'[x] = call[x]
  <2>1. PICK r \in 0 .. MaxChunk, d \in Quotas : r = call[p].rest /\ d = Dst[p]
    BY <1>1
  <2>2. PICK c : c = DstCall(idle, d, r)
    OBVIOUS
  <2>3. c \in Calls /\ c.pc # "add"
    BY ONLY <2>2, CheckRestCall, IdleCall
  <2>4. Enter(p, c) \/ Enter(p, idle)
    BY <2>1, <2>2 DEF Add, Return, DstCall
  <2> QED
    BY ZenonT(30), <1>1, <2>3, <2>4, IdleCall, EnterCall
<1>4. CASE q # call[p].on
  <2>1. Adders(q)' = Adders(q)
    BY ZenonT(30), <1>1, <1>3, <1>4 DEF Adders, Workers
  <2>2. usage'[q] = usage[q]
    BY <1>1, <1>4 DEF Add
  <2> QED
    BY <1>2, <2>1, <2>2, OverKept
<1>5. CASE q = call[p].on
  <2>1. Adders(q)' = Adders(q) \ {p} /\ p \in Adders(q)
    BY ZenonT(30), <1>1, <1>3, <1>5 DEF Adders, Workers
  <2>2. PICK a \in Nat : /\ Cardinality(Adders(q)) = a + 1
                         /\ Cardinality(Adders(q)') = a
    <3>1. IsFiniteSet(Adders(q)) /\ Cardinality(Adders(q)) \in Nat
      BY SMTT(30), AddersBounded
    <3>2. Cardinality(Adders(q) \ {p}) = Cardinality(Adders(q)) - 1
      BY ZenonT(30), <2>1, <3>1, FS_RemoveElement
    <3>3. IsFiniteSet(Adders(q) \ {p})
      BY <3>1, FS_Subset
    <3>4. Cardinality(Adders(q) \ {p}) \in Nat
      BY <3>3, FS_CardinalityType
    <3> QED
      BY <2>1, <3>1, <3>2, <3>4
  <2>3. /\ Charge(q) = MaxChunk * a + MaxChunk /\ MaxChunk * a \in Nat
        /\ MaxChunk * Cardinality(Adders(q)') = MaxChunk * a
    <3>1. MaxChunk \in Nat /\ a <= a
      OBVIOUS
    <3>2. MaxChunk * a \in Nat /\ MaxChunk * (a + 1) = MaxChunk * a + MaxChunk
      BY <3>1, Times
    <3> QED
      BY <2>2, <3>2 DEF Charge
  <2>4. /\ usage'[q] = usage[q] + call[p].value
        /\ usage[q] \in Nat /\ used[q] \in Nat /\ MaxLimit \in Nat
        /\ MaxChunk \in Nat /\ call[p].value \in Nat /\ call[p].value <= MaxChunk
    <3>1. usage' = [usage EXCEPT ![q] = @ + call[p].value]
      BY <1>5 DEF Add
    <3>2. usage[q] \in Nat /\ used[q] \in Nat /\ MaxLimit \in Nat
      BY DEF ValueNoLimit
    <3>3. MaxChunk \in Nat /\ call[p].value \in Nat /\ call[p].value <= MaxChunk
      BY <1>1
    <3> QED
      BY <3>1, <3>2, <3>3
  <2>5. Charge(q) \in Nat /\ Allowed(q) \in Nat /\ Charge(q) <= Allowed(q)
    BY SMTT(30), AddersBounded
  <2>6. /\ used[q] <= MaxLimit
        /\ usage[q] > 0 => usage[q] + used[q] + Charge(q) <= MaxLimit + Allowed(q)
    BY <2>1 DEF Over, Charge, Allowed
  <2>7. PICK m \in Nat, n \in Nat, v \in Nat :
          /\ m = MaxChunk * a /\ n = usage[q] /\ v = call[p].value
    BY ZenonT(30), <2>3, <2>4
  <2>8. n + v + used[q] + m <= MaxLimit + Allowed(q)
    <3>1. Charge(q) = m + MaxChunk /\ v <= MaxChunk
      BY <2>3, <2>4, <2>7
    <3>2. n > 0 => n + used[q] + Charge(q) <= MaxLimit + Allowed(q)
      BY <2>6, <2>7
    <3>3. /\ used[q] \in Nat /\ MaxLimit \in Nat /\ MaxChunk \in Nat
          /\ used[q] <= MaxLimit
      BY <2>4, <2>6
    <3>4. CASE n = 0
      BY ONLY <2>5, <2>7, <3>1, <3>3, <3>4
    <3>5. CASE n > 0
      BY ONLY <2>5, <2>7, <3>1, <3>2, <3>3, <3>5
    <3> QED
      BY <3>4, <3>5
  <2>9. usage'[q] + used[q] + MaxChunk * Cardinality(Adders(q)')
          <= MaxLimit + Allowed(q)
    <3>1. usage'[q] = n + v /\ MaxChunk * Cardinality(Adders(q)') = m
      BY <2>3, <2>4, <2>7
    <3>2. used[q] \in Nat /\ n + v + used[q] + m = n + v + used[q] + m
      BY <2>4
    <3> QED
      BY ONLY <2>8, <3>1, <3>2
  <2> QED
    BY <1>1, <1>2, <1>5, <2>6, <2>9 DEF Over, Allowed, Users
<1> QED
  BY <1>4, <1>5

LEMMA OverNext ==
  ASSUME Inv, Inv', OverInv, [Next]_vars
  PROVE  OverInv'
<1> SUFFICES ASSUME MaxLimit # ValueNoLimit, NEW q \in Quotas
             PROVE  Over(q)'
  BY DEF OverInv
<1> USE ConstantTypes DEF Inv, TypeOK, At, counters
<1>0. Over(q) /\ \A x \in Quotas : Over(x)
  BY DEF OverInv
<1>1. ASSUME NEW x \in Quotas, New(x)
      PROVE  Over(q)'
  <2>1. UNCHANGED <<call, usage>> /\ live' = live \cup {x} /\ x \notin live
    BY <1>1 DEF New
  <2>2. Adders(q)' = Adders(q)
    BY <2>1 DEF Adders
  <2>3. CASE x # q
    <3>1. used'[q] = used[q]
      BY <1>1, <2>3 DEF New
    <3> QED
      BY <1>0, <2>1, <2>2, <3>1, OverKept
  <2>4. CASE x = q
    <3>1. usage'[q] = 0 /\ ~(usage'[q] > 0)
      BY <1>0, <2>1, <2>4 DEF Over
    <3>2. Adders(q) = {}
      <4>1. ASSUME NEW p \in Adders(q) PROVE FALSE
        <5>1. p \in Workers /\ call[p].pc = "add" /\ call[p].on = q
          BY DEF Adders, Workers
        <5>2. Proper(p, call[p])
          BY <5>1 DEF CallInv
        <5> QED
          BY <2>1, <2>4, <5>1, <5>2 DEF Proper
      <4> QED
        BY <4>1
    <3> QED
      BY <2>2, <3>1, <3>2 DEF Over
  <2> QED
    BY <2>3, <2>4
<1>2. ASSUME NEW p \in Proxies, Forward(p)
      PROVE  Over(q)'
  <2>1. PICK a \in Quotas : a = Src[p]
    BY SMTT(30)
  <2>k. PICK k \in 1 .. MaxChunk : \E j \in 0 .. k :
          Enter(p, SrcCall(idle, Src[p], k, j))
    BY ZenonT(30), <1>2 DEF Forward, SrcCall
  <2>0. PICK j \in 0 .. k : Enter(p, SrcCall(idle, Src[p], k, j))
    BY <2>k
  <2>2. PICK m \in 0 .. MaxChunk, n \in 0 .. MaxChunk : Enter(p, SrcCall(idle, a, m, n))
    <3>1. k \in 0 .. MaxChunk /\ j \in 0 .. MaxChunk
      OBVIOUS
    <3> QED
      BY <2>0, <2>1, <3>1, Zenon
  <2>3. PICK c : c = SrcCall(idle, a, m, n)
    OBVIOUS
  <2>4. c \in Calls /\ c.pc = "check"
    <3>1. c \in Calls
      BY ONLY <2>3, CheckCall, IdleCall
    <3>2. c.pc = "check"
      BY ONLY <2>3, CheckCall, IdleCall
    <3> QED
      BY <3>1, <3>2
  <2>5. Enter(p, c) /\ p \in Workers /\ call[p].pc = "idle"
    BY <1>2, <2>2, <2>3 DEF Workers, Forward
  <2>6. call'[p] = c /\ \A x \in Workers : x # p => call'[x] = call[x]
    BY ZenonT(30), <2>4, <2>5, EnterCall
  <2>7. Adders(q)' = Adders(q)
    BY ZenonT(30), <2>4, <2>5, <2>6, AddersKept
  <2> QED
    BY <1>0, <1>2, <2>7, OverKept DEF Forward
<1>3. ASSUME NEW p \in Proxies, Check(p)
      PROVE  Over(q)'
  BY ZenonT(30), <1>0, <1>3, OverCheck
<1>4. ASSUME NEW p \in Proxies, Add(p)
      PROVE  Over(q)'
  BY ZenonT(30), <1>0, <1>4, OverAdd
<1>5. ASSUME NEW c \in Committers, NEW x \in Quotas, Commit(c, x)
      PROVE  Over(q)'
  <2>1. Adders(q)' = Adders(q)
    BY SMTT(30), <1>5 DEF Commit, Enter, Adders, Workers
  <2> QED
    BY <1>0, <1>5, <2>1, OverKept DEF Commit
<1>6. ASSUME NEW w \in Workers, CommitStep(w)
      PROVE  Over(q)'
  <2>1. Adders(q)' = Adders(q) /\ live' = live /\ used' = used
    BY ZenonT(30), <1>6, CommitStepQuiet, AddersKept
  <2>2. CASE usage' = usage
    BY <1>0, <2>1, <2>2, OverKept
  <2>3. CASE Swap(w)
    <3>1. call[w].on \in Quotas
      BY <2>3 DEF Swap, CallInv, Proper
    <3>2. usage' = [usage EXCEPT ![call[w].on] = 0]
      BY <2>3 DEF Swap
    <3>3. CASE q = call[w].on
      <4>1. usage'[q] = 0 /\ ~(usage'[q] > 0)
        BY <3>1, <3>2, <3>3
      <4>2. Adders(q)' # {} => used'[q] <= MaxLimit
        BY <1>0, <2>1 DEF Over
      <4> QED
        BY <4>1, <4>2 DEF Over
    <3>4. CASE q # call[w].on
      BY <1>0, <2>1, <3>1, <3>2, <3>4, OverKept
    <3> QED
      BY <3>3, <3>4
  <2> QED
    BY ZenonT(30), <1>6, <2>2, <2>3
    DEF CommitStep, Load, SubmitFails, ReadRecent, ReadNone,
    Update, Insert
<1>7. ASSUME UNCHANGED vars
      PROVE  Over(q)'
  BY <1>0, <1>7, OverKept DEF vars, Adders
<1> QED
  BY <1>1, <1>2, <1>3, <1>4, <1>5, <1>6, <1>7 DEF Next

\* The check in AddUsage and the addition after it are two steps of
\* concurrent proxies.  For any number of transports, quotas and sessions and
\* any packet size, between two commits a quota is overrun by at most one
\* packet per transport that counts on it.
THEOREM Overshoot == Spec => []OvershootBounded
<1>1. Init => OverInv
  BY IdleCall, ConstantTypes DEF Init, OverInv, Over, Adders, Workers
<1>2. Inv /\ Inv' /\ OverInv /\ [Next]_vars => OverInv'
  BY OverNext
<1>3. Inv /\ OverInv => OvershootBounded
  <2> SUFFICES ASSUME Inv, OverInv, MaxLimit # ValueNoLimit,
                      NEW q \in Quotas, usage[q] > 0
               PROVE  usage[q] + used[q] <= MaxLimit + Allowed(q)
    BY DEF OvershootBounded, Allowed
  <2>1. usage[q] + used[q] + Charge(q) <= MaxLimit + Allowed(q)
    BY DEF OverInv, Over, Charge, Allowed
  <2>2. Charge(q) \in Nat /\ Allowed(q) \in Nat
    BY AddersBounded
  <2>3. usage[q] \in Nat /\ used[q] \in Nat /\ MaxLimit \in Nat
    BY ConstantTypes DEF Inv, TypeOK, ValueNoLimit
  <2> QED
    BY ONLY <2>1, <2>2, <2>3
<1> QED
  BY Invariance, <1>1, <1>2, <1>3, PTL DEF Spec

-----------------------------------------------------------------------------
(* NotOverbilled.  An update overwrites a record with the usage read before *)
(* plus its own amount, so records do not add up to stored; but there is a  *)
(* share of stored for each record that covers the record and everything a  *)
(* worker has read of it.                                                   *)

Covered(paid) ==
  /\ Len(paid) = Len(records) /\ Total(paid) = stored
  /\ \A i \in 1 .. Len(records) : records[i] <= paid[i]
  /\ \A w \in Workers : call[w].pc = "update" => call[w].seen <= paid[call[w].flow]

Paid == \E paid \in Seq(Nat) : Covered(paid)

\* No worker comes out of the step with a record it has just read.
NothingRead == \A w \in Workers : call'[w].pc = "update" => call'[w] = call[w]

LEMMA EnterReadsNothing ==
  ASSUME Inv, NEW w \in Workers, NEW c \in Calls, Enter(w, c), c.pc # "update"
  PROVE  NothingRead
BY EnterCall DEF Inv, NothingRead

LEMMA PaidKept ==
  ASSUME Paid, NothingRead, UNCHANGED <<records, stored>>
  PROVE  Paid'
BY DEF Paid, Covered, NothingRead

\* Only ReadRecent reads a record.
LEMMA ReadsNothing ==
  ASSUME Inv, [Next]_vars, \A w \in Workers : ~ReadRecent(w)
  PROVE  NothingRead
<1> USE ConstantTypes DEF Inv, TypeOK
<1>1. ASSUME NEW q \in Quotas, New(q) PROVE NothingRead
  BY <1>1 DEF New, NothingRead
<1>2. ASSUME NEW p \in Proxies, Forward(p) PROVE NothingRead
  <2>1. PICK nr \in 1 .. MaxChunk : \E nw \in 0 .. nr :
          Enter(p, SrcCall(idle, Src[p], nr, nw))
    BY ZenonT(30), <1>2 DEF Forward, SrcCall
  <2>2. PICK nw \in 0 .. nr : Enter(p, SrcCall(idle, Src[p], nr, nw))
    BY <2>1
  <2>3. p \in Workers /\ Src[p] \in Quotas /\ nr \in 0 .. MaxChunk /\ nw \in 0 .. MaxChunk
    BY DEF Workers
  <2> QED
    BY Zenon, <2>2, <2>3, CheckCall, IdleCall, EnterReadsNothing
<1>3. ASSUME NEW p \in Proxies, Check(p) PROVE NothingRead
  <2>1. p \in Workers
    BY DEF Workers
  <2>2. PICK l \in {"load", "add"} : Enter(p, [call[p] EXCEPT !.pc = l])
    BY Zenon, <1>3 DEF Check, Goto
  <2>3. l \in Labels
    BY DEF Labels
  <2> QED
    BY Zenon, <2>1, <2>2, <2>3, GotoCall, EnterReadsNothing
<1>4. ASSUME NEW p \in Proxies, Add(p) PROVE NothingRead
  <2>1. p \in Workers /\ call[p].rest \in 0 .. MaxChunk /\ Dst[p] \in Quotas
    BY CallTypes DEF Workers
  <2>2. Enter(p, DstCall(idle, Dst[p], call[p].rest)) \/ Enter(p, idle)
    BY <1>4 DEF Add, Return, DstCall
  <2> QED
    BY Zenon, <2>1, <2>2, CheckRestCall, IdleCall, EnterReadsNothing
<1>5. ASSUME NEW c \in Committers, NEW q \in Quotas, Commit(c, q) PROVE NothingRead
  <2>1. c \in Workers /\ Enter(c, [idle EXCEPT !.pc = "load", !.on = q])
    BY <1>5 DEF Commit, Workers
  <2> QED
    BY Zenon, <2>1, LoadCall, IdleCall, EnterReadsNothing
<1>6. ASSUME NEW w \in Workers, Load(w) \/ ReadNone(w) PROVE NothingRead
  <2>1. \/ Enter(w, [call[w] EXCEPT !.pc = "swap"])
        \/ Enter(w, [call[w] EXCEPT !.pc = "insert"])
        \/ Enter(w, idle)
    BY <1>6 DEF Load, ReadNone, Goto, Return
  <2>2. "swap" \in Labels /\ "insert" \in Labels
    BY DEF Labels
  <2>3. call[w] \in Calls
    OBVIOUS
  <2>4. ASSUME NEW l \in {"swap", "insert"}, Enter(w, [call[w] EXCEPT !.pc = l])
        PROVE  NothingRead
    <3>1. l \in Labels /\ l # "update"
      BY <2>2
    <3> QED
      BY Zenon, <2>3, <2>4, <3>1, GotoCall, EnterReadsNothing
  <2>5. Enter(w, idle) => NothingRead
    BY Zenon, IdleCall, EnterReadsNothing
  <2> QED
    BY Zenon, <2>1, <2>4, <2>5
<1>7. ASSUME NEW w \in Workers, Swap(w) PROVE NothingRead
  <2>1. call[w].on \in Quotas
    BY <1>7 DEF Swap, CallInv, Proper, At
  <2>2. usage[call[w].on] \in Nat
    BY <2>1
  <2>3. Enter(w, [call[w] EXCEPT !.pc = "read", !.amount = usage[call[w].on]])
    BY <1>7 DEF Swap
  <2> QED
    BY Zenon, <2>2, <2>3, ReadCall, EnterReadsNothing
<1>8. ASSUME NEW w \in Workers, SubmitFails(w) \/ Update(w) \/ Insert(w) PROVE NothingRead
  <2>1. Enter(w, idle)
    BY <1>8 DEF SubmitFails, Update, Insert, Return
  <2> QED
    BY <2>1, IdleCall, EnterReadsNothing
<1>9. UNCHANGED vars => NothingRead
  BY DEF vars, NothingRead
<1> QED
  BY Zenon, <1>1, <1>2, <1>3, <1>4, <1>5, <1>6, <1>7, <1>8, <1>9 DEF Next, CommitStep

LEMMA PaidStep ==
  ASSUME Inv, Paid, [Next]_vars
  PROVE  Paid'
<1>1. PICK paid \in Seq(Nat) : Covered(paid)
  BY DEF Paid
<1>2. /\ records \in Seq(Nat) /\ call \in [Workers -> Calls] /\ Len(records) \in Nat
      /\ stored \in Nat
  BY DEF Inv, TypeOK
<1>3. ASSUME NEW w \in Workers, call[w].pc = "update"
      PROVE  call[w].flow \in 1 .. Len(records)
  BY <1>3 DEF Inv, CallInv, Proper
<1>4. \A w \in Workers : call[w].amount \in Nat /\ call[w].seen \in Nat
  BY <1>2, CallTypes
<1>5. ASSUME NEW w \in Workers, ReadRecent(w) PROVE Paid'
  <2>1. PICK i \in 1 .. Len(records) : Enter(w, MergeCall(call[w], i, records[i]))
    <3>1. DOMAIN records = 1 .. Len(records)
      BY <1>2
    <3> QED
      BY Zenon, <1>5, <3>1 DEF ReadRecent, MergeCall
  <2>2. PICK b \in Calls, m \in Nat, n \in Nat : b = call[w] /\ m = i /\ n = records[i]
    <3>1. call[w] \in Calls /\ i \in Nat /\ records[i] \in Nat
      BY <1>2
    <3> QED
      BY Zenon, <3>1
  <2>c. PICK c : c = MergeCall(b, m, n)
    OBVIOUS
  <2>3. c \in Calls /\ c.flow = m /\ c.seen = n
    <3>1. c \in Calls
      BY ONLY <2>c, UpdateCall
    <3>2. c.flow = m /\ c.seen = n
      BY ZenonT(30), <2>c DEF MergeCall, Calls
    <3> QED
      BY <3>1, <3>2
  <2>4. call'[w] = c /\ \A x \in Workers : x # w => call'[x] = call[x]
    BY Zenon, <2>1, <2>2, <2>c, <2>3, EnterCall DEF Inv
  <2>5. UNCHANGED <<records, stored>>
    BY <1>5 DEF ReadRecent
  <2>6. Covered(paid)'
    BY <1>1, <2>2, <2>3, <2>4, <2>5 DEF Covered
  <2> QED
    BY <2>6 DEF Paid
<1>6. ASSUME NEW w \in Workers, Update(w) PROVE Paid'
  <2>1. PICK i \in 1 .. Len(records), a \in Nat, n \in Nat :
          i = call[w].flow /\ a = call[w].amount /\ n = call[w].seen /\ n <= paid[i]
    BY <1>1, <1>3, <1>4, <1>6 DEF Update, At, Covered
  <2>2. records' = [records EXCEPT ![i] = n + a] /\ stored' = stored + a
    BY <2>1, <1>6 DEF Update
  <2> DEFINE more == [paid EXCEPT ![i] = @ + a]
  <2>3. /\ more \in Seq(Nat) /\ Len(more) = Len(paid) /\ Len(paid) = Len(records)
        /\ more[i] = paid[i] + a /\ \A j \in 1 .. Len(paid) : j # i => more[j] = paid[j]
        /\ \A j \in 1 .. Len(paid) : paid[j] \in Nat /\ paid[j] <= more[j]
    BY <1>1 DEF Covered
  <2> HIDE DEF more
  <2>4. Total(more) = stored'
    <3>1. Total(more) = Total(paid) + a
      BY <2>3, TotalUpdate
    <3> QED
      BY <1>1, <2>2, <3>1 DEF Covered
  <2>5. Len(records') = Len(records) /\ \A j \in 1 .. Len(records') : records'[j] <= more[j]
    <3>1. ASSUME NEW j \in 1 .. Len(records) PROVE records'[j] <= more[j]
      <4>1. CASE j = i
        <5>1. records'[j] = n + a /\ i \in 1 .. Len(paid)
          BY <1>2, <2>2, <2>3, <4>1
        <5> QED
          BY <2>1, <2>3, <4>1, <5>1
      <4>2. CASE j # i
        BY <1>1, <1>2, <2>2, <2>3, <4>2 DEF Covered
      <4> QED
        BY <4>1, <4>2
    <3>2. Len(records') = Len(records)
      BY <1>2, <2>2
    <3> QED
      BY <3>1, <3>2
  <2>6. ASSUME NEW x \in Workers, call'[x].pc = "update"
        PROVE  call'[x].seen <= more[call'[x].flow]
    <3>1. NothingRead
      <4>1. Enter(w, idle)
        BY <1>6 DEF Update, Return
      <4> QED
        BY <4>1, IdleCall, EnterReadsNothing
    <3>2. call'[x] = call[x] /\ call[x].pc = "update"
      BY <2>6, <3>1 DEF NothingRead
    <3>3. call[x].flow \in 1 .. Len(paid) /\ call[x].seen <= paid[call[x].flow]
      BY <1>1, <1>3, <2>3, <3>2 DEF Covered
    <3> QED
      BY <1>4, <2>3, <3>2, <3>3
  <2>7. Covered(more)'
    BY <2>3, <2>4, <2>5, <2>6 DEF Covered
  <2> QED
    BY <2>3, <2>7 DEF Paid
<1>7. ASSUME NEW w \in Workers, Insert(w) PROVE Paid'
  <2>1. PICK a \in Nat : a = call[w].amount
    BY <1>4
  <2>2. records' = Append(records, a) /\ stored' = stored + a
    BY <1>7, <2>1 DEF Insert
  <2> DEFINE more == Append(paid, a)
  <2>3. /\ Total(more) = stored' /\ more \in Seq(Nat)
    BY <1>1, <2>2, TotalAppend DEF Covered
  <2>4. Len(more) = Len(records') /\ \A j \in 1 .. Len(records') : records'[j] <= more[j]
    BY <1>1, <1>2, <2>2 DEF Covered
  <2>5. \A j \in 1 .. Len(paid) : more[j] = paid[j]
    OBVIOUS
  <2> HIDE DEF more
  <2>6. ASSUME NEW x \in Workers, call'[x].pc = "update"
        PROVE  call'[x].seen <= more[call'[x].flow]
    <3>1. NothingRead
      <4>1. Enter(w, idle)
        BY <1>7 DEF Insert, Return
      <4> QED
        BY <4>1, IdleCall, EnterReadsNothing
    <3>2. call'[x] = call[x] /\ call[x].pc = "update"
      BY <2>6, <3>1 DEF NothingRead
    <3>3. call[x].flow \in 1 .. Len(paid) /\ call[x].seen <= paid[call[x].flow]
      BY <1>1, <1>3, <3>2 DEF Covered
    <3> QED
      BY <2>5, <3>2, <3>3
  <2>7. Covered(more)'
    BY <2>3, <2>4, <2>6 DEF Covered
  <2> QED
    BY <2>3, <2>7 DEF Paid
<1>8. CASE \A w \in Workers : ~ReadRecent(w) /\ ~Update(w) /\ ~Insert(w)
  <2>1. UNCHANGED <<records, stored>>
    BY Zenon, <1>8
    DEF Next, CommitStep, New, Forward, Check, Add, Commit, Load, Swap, SubmitFails, ReadNone, vars
  <2> QED
    BY <1>8, <2>1, ReadsNothing, PaidKept
<1> QED
  BY Zenon, <1>5, <1>6, <1>7, <1>8

\* Whatever the updates lose, the flow records of a device never add up to
\* more than was submitted.
THEOREM NeverOverbilled == Spec => []NotOverbilled
<1>1. Init => Paid
  <2> SUFFICES ASSUME Init PROVE Paid
    OBVIOUS
  <2> DEFINE paid == Append(<<>>, Recorded)
  <2>1. paid \in Seq(Nat) /\ Total(paid) = Recorded /\ paid = records
    <3>1. Recorded \in Nat /\ <<>> \in Seq(Nat) /\ records = <<Recorded>>
      BY ConstantTypes DEF Init
    <3>2. paid \in Seq(Nat) /\ paid = <<Recorded>>
      BY <3>1
    <3>3. Total(paid) = Total(<<>>) + Recorded
      BY Zenon, <3>1, TotalAppend
    <3> QED
      BY <3>1, <3>2, <3>3, TotalEmpty
  <2> HIDE DEF paid
  <2>2. \A i \in 1 .. Len(records) : records[i] <= paid[i]
    BY <2>1
  <2>3. Covered(paid)
    BY <2>1, <2>2, IdleCall DEF Init, Covered
  <2> QED
    BY <2>1, <2>3 DEF Paid
<1>2. Inv /\ Paid /\ [Next]_vars => Paid'
  BY PaidStep
<1>3. Inv /\ Paid => NotOverbilled
  <2> SUFFICES ASSUME Inv, Paid PROVE Total(records) <= stored
    BY DEF NotOverbilled
  <2>1. PICK paid \in Seq(Nat) : Covered(paid)
    BY DEF Paid
  <2>2. records \in Seq(Nat)
    BY DEF Inv, TypeOK
  <2> QED
    BY <2>1, <2>2, TotalMonotonic DEF Covered
<1> QED
  BY Invariance, <1>1, <1>2, <1>3, PTL DEF Spec

-------------------------------------------------------------------------------
Pcs == {"idle", "last", "stamp", "sum", "deposit", "check", "consume", "record",
        "return", "forget", "store"}

CallerStates == [pc : Pcs, n : Nat, now : Nat, last : Nat, added : Nat, current : Int]

BucketTypes ==
  /\ clock \in Nat /\ lastUpdate \in Nat
  /\ available \in Int /\ taken \in Int /\ lastConsumed \in Int
  /\ caller \in [Threads -> CallerStates]

(* Between its stamp and its deposit a thread owes the bucket the tokens of *)
(* the interval it stamped.                                                 *)
Owing(t) == caller[t].pc \in {"sum", "deposit"}
Interval(t) == (caller[t].last + 1)..caller[t].now

(* The ticks whose tokens have been deposited, or were none. *)
Credited == {k \in 1..lastUpdate : \A t \in Threads : Owing(t) => k \notin Interval(t)}

(* What a thread is to add is no more than the rate gives for its interval, *)
Earned ==
  \A t \in Threads :
    caller[t].pc \in {"stamp", "sum", "deposit"} =>
      /\ caller[t].last < caller[t].now
      /\ RateDen * caller[t].added <= RateNum * (caller[t].now - caller[t].last)

(* and no tick is in the intervals of two threads. *)
IntervalsApart ==
  /\ \A t \in Threads : Owing(t) => caller[t].now <= lastUpdate
  /\ \A t, u \in Threads : Owing(t) /\ Owing(u) /\ t # u => Interval(t) \cap Interval(u) = {}

Backed ==
  RateDen * (taken + available) <= RateDen * Burst + RateNum * Cardinality(Credited)

BucketIInv == BucketTypes /\ Earned /\ IntervalsApart /\ Backed

-------------------------------------------------------------------------------
(* Integer division rounds down. *)
LEMMA DivBelow ==
  ASSUME NEW d \in Nat \ {0}, NEW k \in Nat
  PROVE  (k \div d) \in Nat /\ d * (k \div d) <= k
  OBVIOUS

(* Multiplication by the denominator of the rate distributes, *)
LEMMA Spread ==
  ASSUME NEW d \in Nat, NEW x \in Int, NEW y \in Int
  PROVE  d * (x + y) = d * x + d * y /\ d * (x - y) = d * x - d * y
  OBVIOUS

(* and is monotonic. *)
LEMMA Grows ==
  ASSUME NEW d \in Nat, NEW x \in Int, NEW y \in Int, x <= y
  PROVE  d * x <= d * y
  OBVIOUS

(* A set of ticks up to n is finite and has at most n elements. *)
LEMMA TicksFinite ==
  ASSUME NEW n \in Nat, NEW S \in SUBSET (1..n)
  PROVE  IsFiniteSet(S) /\ Cardinality(S) \in Nat /\ Cardinality(S) <= n
  <1>1. IsFiniteSet(1..n) /\ Cardinality(1..n) = n
    BY FS_Interval
  <1> QED
    BY <1>1, FS_Subset, FS_CardinalityType, Zenon

(* So the credited ticks can be counted. *)
LEMMA CreditedFinite ==
  ASSUME BucketTypes
  PROVE  /\ IsFiniteSet(Credited) /\ Cardinality(Credited) \in Nat
         /\ Cardinality(Credited) <= lastUpdate
  <1>1. lastUpdate \in Nat /\ Credited \in SUBSET (1..lastUpdate)
    BY DEF BucketTypes, Credited
  <1> QED
    BY <1>1, TicksFinite

(* A step of a thread that neither stamps an interval nor deposits one. *)
LEMMA QuietKeeps ==
  ASSUME BucketIInv, NEW t \in Threads, NEW now \in CallerStates, Step(t, now),
         now.pc \in {"sum", "deposit"} <=> Owing(t),
         Owing(t) => /\ now.last = caller[t].last /\ now.now = caller[t].now
                     /\ now.added = caller[t].added,
         now.pc = "stamp" => /\ now.last < now.now
                             /\ RateDen * now.added <= RateNum * (now.now - now.last),
         available' \in Int, taken' \in Int, taken' + available' <= taken + available,
         lastConsumed' \in Int,
         UNCHANGED <<clock, lastUpdate>>
  PROVE  BucketIInv'
  <1>1. caller'[t] = now /\ \A u \in Threads \ {t} : caller'[u] = caller[u]
    BY DEF BucketIInv, BucketTypes, Step
  <1>2. BucketTypes'
    BY DEF BucketIInv, BucketTypes, Step
  <1>3. \A u \in Threads : Owing(u)' <=> Owing(u)
    BY <1>1 DEF Owing
  <1>4. \A u \in Threads : Owing(u) => Interval(u)' = Interval(u)
    BY <1>1 DEF Interval
  <1>5. Earned'
    BY <1>1 DEF BucketIInv, Earned, Owing, CallerStates
  <1>6. IntervalsApart'
    <2>1. \A u \in Threads : Owing(u) => caller'[u].now = caller[u].now
      BY <1>1
    <2> QED
      BY <2>1, <1>3, <1>4 DEF BucketIInv, IntervalsApart
  <1>7. Credited' = Credited
    BY <1>3, <1>4 DEF Credited
  <1>8. Backed'
    <2> DEFINE c == Cardinality(Credited)
    <2>1. c \in Nat /\ RateDen \in Nat /\ RateNum \in Nat /\ Burst \in Nat
      BY CreditedFinite, BucketAssumption DEF BucketIInv
    <2>2. taken + available \in Int /\ taken' + available' \in Int
      BY DEF BucketIInv, BucketTypes
    <2>3. RateDen * (taken' + available') <= RateDen * (taken + available)
      BY ONLY <2>1, <2>2, Grows, taken' + available' <= taken + available
    <2>4. RateDen * (taken + available) <= RateDen * Burst + RateNum * c
      BY DEF BucketIInv, Backed
    <2>5. /\ RateDen * Burst + RateNum * c \in Int
          /\ RateDen * (taken + available) \in Int /\ RateDen * (taken' + available') \in Int
      BY ONLY <2>1, <2>2
    <2>6. RateDen * (taken' + available') <= RateDen * Burst + RateNum * c
      BY ONLY <2>3, <2>4, <2>5
    <2> QED
      BY <2>6, <1>7 DEF Backed
  <1> QED
    BY <1>2, <1>5, <1>6, <1>8 DEF BucketIInv

(* The winner of the compare-and-swap takes the interval up to its clock. *)
LEMMA StampKeeps ==
  ASSUME BucketIInv, NEW t \in Threads, Stamp(t)
  PROVE  BucketIInv'
  <1> DEFINE me == caller[t]
             after == [me EXCEPT !.pc = IF lastUpdate = me.last /\ me.added > 0
                                        THEN "sum" ELSE "check"]
  <1>1. me \in CallerStates /\ me.pc = "stamp" /\ after \in CallerStates
    BY DEF Stamp, BucketAt, BucketIInv, BucketTypes, CallerStates, Pcs
  <1>2. after.last = me.last /\ after.now = me.now /\ after.added = me.added
    BY <1>1 DEF CallerStates
  <1>3. CASE lastUpdate # me.last
    <2>1. after.pc = "check" /\ Step(t, after) /\ ~Owing(t)
      BY <1>1, <1>3 DEF Stamp, CallerStates, Owing
    <2>2. UNCHANGED <<clock, lastUpdate, available, taken, lastConsumed>>
      BY <1>3 DEF Stamp
    <2>3. /\ available' \in Int /\ taken' \in Int /\ lastConsumed' \in Int
          /\ taken' + available' <= taken + available
      BY <2>2 DEF BucketIInv, BucketTypes
    <2> HIDE DEF after
    <2> QED
      BY <1>1, <2>1, <2>2, <2>3, QuietKeeps
  <1>4. CASE lastUpdate = me.last
    <2>1. /\ lastUpdate' = me.now /\ caller' = [caller EXCEPT ![t] = after]
          /\ UNCHANGED <<clock, available, taken, lastConsumed>>
      BY <1>4 DEF Stamp, Step
    <2>2. /\ me.last \in Nat /\ me.now \in Nat /\ me.added \in Nat /\ me.last < me.now
          /\ RateDen * me.added <= RateNum * (me.now - me.last)
      BY <1>1 DEF BucketIInv, Earned, CallerStates
    <2>3. caller'[t] = after /\ \A u \in Threads \ {t} : caller'[u] = caller[u]
      BY <2>1 DEF BucketIInv, BucketTypes
    <2>4. BucketTypes'
      <3> HIDE DEF after
      <3> QED
        BY <1>1, <2>1, <2>2 DEF BucketIInv, BucketTypes
    <2>5. Earned'
      BY Zenon, <1>1, <1>2, <2>2, <2>3 DEF BucketIInv, Earned
    <2>6. /\ \A u \in Threads \ {t} : (Owing(u)' <=> Owing(u)) /\ Interval(u)' = Interval(u)
          /\ Interval(t)' = (me.last + 1)..me.now
          /\ ~Owing(t)
      BY <1>1, <1>2, <2>3 DEF Owing, Interval
    <2>7. \A u \in Threads : Owing(u) => caller[u].now \in Nat /\ caller[u].now <= me.last
      BY <1>4 DEF BucketIInv, BucketTypes, IntervalsApart, CallerStates
    <2>8. \A u \in Threads : Owing(u) => Interval(u) \cap (me.last + 1)..me.now = {}
      BY <2>2, <2>7 DEF Interval
    <2>9. IntervalsApart'
      <3>1. \A u \in Threads : Owing(u)' => caller'[u].now <= lastUpdate'
        BY <1>2, <2>1, <2>2, <2>3, <2>6, <2>7
      <3>2. \A u, v \in Threads :
              Owing(u)' /\ Owing(v)' /\ u # v => Interval(u)' \cap Interval(v)' = {}
        BY Zenon, <2>6, <2>8 DEF BucketIInv, IntervalsApart
      <3> QED
        BY <3>1, <3>2 DEF IntervalsApart
    <2>10. Credited \subseteq Credited'
      <3> SUFFICES ASSUME NEW k \in Credited PROVE k \in Credited'
        OBVIOUS
      <3>1. k \in 1..me.last /\ \A u \in Threads : Owing(u) => k \notin Interval(u)
        BY <1>4 DEF Credited
      <3>2. k \in 1..lastUpdate' /\ k \notin (me.last + 1)..me.now
        BY <3>1, <2>1, <2>2
      <3>3. \A u \in Threads : Owing(u)' => k \notin Interval(u)'
        BY Zenon, <3>1, <3>2, <2>6
      <3> QED
        BY <3>2, <3>3 DEF Credited
    <2>11. Backed'
      <3> DEFINE c == Cardinality(Credited)
                 d == Cardinality(Credited)'
      <3>1. c \in Nat /\ d \in Nat /\ c <= d
        <4>1. c \in Nat
          BY CreditedFinite DEF BucketIInv
        <4>2. IsFiniteSet(Credited)' /\ d \in Nat
          <5>1. lastUpdate' \in Nat /\ Credited' \in SUBSET (1..lastUpdate')
            BY <2>4 DEF BucketTypes, Credited
          <5> QED
            BY <5>1, TicksFinite
        <4>3. Credited \in SUBSET Credited'
          BY <2>10
        <4> QED
          BY <4>1, <4>2, <4>3, FS_Subset, Zenon
      <3>2. RateDen \in Nat /\ RateNum \in Nat /\ Burst \in Nat /\ taken + available \in Int
        BY BucketAssumption DEF BucketIInv, BucketTypes
      <3>3. RateDen * (taken + available) <= RateDen * Burst + RateNum * c
        BY DEF BucketIInv, Backed
      <3> HIDE DEF c, d
      <3>4. RateNum * c <= RateNum * d
        BY ONLY <3>1, <3>2, Grows
      <3>5. /\ RateDen * (taken + available) \in Int /\ RateDen * Burst \in Int
            /\ RateNum * c \in Int /\ RateNum * d \in Int
        BY ONLY <3>1, <3>2
      <3>6. RateDen * (taken + available) <= RateDen * Burst + RateNum * d
        BY ONLY <3>3, <3>4, <3>5
      <3> QED
        BY <3>6, <2>1 DEF Backed, d
    <2> QED
      BY <2>4, <2>5, <2>9, <2>11 DEF BucketIInv
  <1> QED
    BY <1>3, <1>4

(* A deposit pays for the interval of its thread. *)
LEMMA DepositKeeps ==
  ASSUME BucketIInv, NEW t \in Threads, Deposit(t)
  PROVE  BucketIInv'
  <1> DEFINE me == caller[t]
  <1>1. /\ me \in CallerStates /\ me.pc = "deposit" /\ Owing(t)
        /\ me.last \in Nat /\ me.now \in Nat /\ me.added \in Nat /\ me.current \in Int
        /\ me.last < me.now /\ RateDen * me.added <= RateNum * (me.now - me.last)
        /\ me.now <= lastUpdate
    BY DEF Deposit, BucketAt, BucketIInv, BucketTypes, CallerStates, Earned, Owing, IntervalsApart
  <1>2. CASE available # me.current
    <2> DEFINE after == [me EXCEPT !.pc = "sum"]
    <2>1. /\ after \in CallerStates /\ after.pc = "sum" /\ Step(t, after)
          /\ after.last = me.last /\ after.now = me.now /\ after.added = me.added
      BY <1>1, <1>2 DEF Deposit, CallerStates, Pcs
    <2>2. UNCHANGED <<clock, lastUpdate, available, taken, lastConsumed>>
      BY <1>2 DEF Deposit
    <2>3. /\ available' \in Int /\ taken' \in Int /\ lastConsumed' \in Int
          /\ taken' + available' <= taken + available
      BY <2>2 DEF BucketIInv, BucketTypes
    <2> HIDE DEF after
    <2> QED
      BY <1>1, <2>1, <2>2, <2>3, QuietKeeps
  <1>3. CASE available = me.current
    <2> DEFINE after == [me EXCEPT !.pc = "check"]
    <2>1. /\ after \in CallerStates /\ after.pc = "check" /\ caller' = [caller EXCEPT ![t] = after]
          /\ available' = Capped(available + me.added)
          /\ UNCHANGED <<clock, lastUpdate, taken, lastConsumed>>
      BY <1>1, <1>3 DEF Deposit, CallerStates, Pcs, Step
    <2>2. caller'[t] = after /\ \A u \in Threads \ {t} : caller'[u] = caller[u]
      BY <2>1 DEF BucketIInv, BucketTypes
    <2> HIDE DEF after
    <2>3. /\ available' \in Int /\ available' <= available + me.added
          /\ available \in Int /\ taken \in Int /\ lastUpdate \in Nat
      BY <1>1, <2>1, BucketAssumption DEF BucketIInv, BucketTypes, Capped
    <2>4. BucketTypes'
      BY <2>1, <2>3 DEF BucketIInv, BucketTypes
    <2>5. Earned'
      BY <2>1, <2>2 DEF BucketIInv, Earned
    <2>6. /\ ~Owing(t)'
          /\ \A u \in Threads \ {t} : (Owing(u)' <=> Owing(u)) /\ Interval(u)' = Interval(u)
      BY <2>1, <2>2 DEF Owing, Interval
    <2>7. IntervalsApart'
      BY <2>1, <2>2, <2>6 DEF BucketIInv, IntervalsApart
    <2>8. Credited' = Credited \cup Interval(t) /\ Credited \cap Interval(t) = {}
      <3>1. Interval(t) \subseteq 1..lastUpdate
        BY <1>1, <2>3 DEF Interval
      <3>2. \A u \in Threads \ {t} : Owing(u) => Interval(u) \cap Interval(t) = {}
        BY <1>1 DEF BucketIInv, IntervalsApart
      <3> QED
        BY <1>1, <2>1, <2>6, <3>1, <3>2 DEF Credited
    <2>9. Backed'
      <3> DEFINE c == Cardinality(Credited)
                 d == Cardinality(Credited)'
                 len == me.now - me.last
      <3>1. c \in Nat /\ len \in Nat /\ d = c + len
        <4>1. IsFiniteSet(Credited) /\ c \in Nat
          BY CreditedFinite DEF BucketIInv
        <4>2. IsFiniteSet(Interval(t)) /\ Cardinality(Interval(t)) = len
          <5>1. me.last + 1 \in Int /\ me.now \in Int /\ me.last + 1 <= me.now
            BY <1>1
          <5>2. /\ IsFiniteSet((me.last + 1)..me.now)
                /\ Cardinality((me.last + 1)..me.now) = me.now - (me.last + 1) + 1
            BY <5>1, FS_Interval
          <5> QED
            BY <1>1, <5>2 DEF Interval
        <4>3. Cardinality(Credited \cup Interval(t))
                = Cardinality(Credited) + Cardinality(Interval(t)) - Cardinality(Credited \cap Interval(t))
          BY <4>1, <4>2, FS_Union, Zenon
        <4>4. Cardinality(Credited)' = c + len - 0
          BY <4>2, <4>3, <2>8, FS_EmptySet
        <4> QED
          BY <4>1, <4>4, <1>1
      <3>2. RateDen \in Nat /\ RateNum \in Nat /\ Burst \in Nat
        BY BucketAssumption
      <3>3. RateDen * (taken + available) <= RateDen * Burst + RateNum * c
        BY DEF BucketIInv, Backed
      <3>4. RateDen * me.added <= RateNum * len
        BY <1>1
      <3>5. RateDen * (taken + available') <= RateDen * (taken + available) + RateDen * me.added
        <4>1. taken + available' <= (taken + available) + me.added
          BY <1>1, <2>3
        <4>2. RateDen * (taken + available') <= RateDen * ((taken + available) + me.added)
          BY ONLY <4>1, <3>2, <2>3, <1>1, Grows
        <4>3. RateDen * ((taken + available) + me.added) = RateDen * (taken + available) + RateDen * me.added
          BY ONLY <3>2, <2>3, <1>1, Spread
        <4> QED
          BY ONLY <4>2, <4>3
      <3> HIDE DEF c, d, len
      <3>6. RateNum * d = RateNum * c + RateNum * len
        BY ONLY <3>1, <3>2, Spread
      <3>7. /\ RateDen * (taken + available) \in Int /\ RateDen * Burst \in Int
            /\ RateNum * c \in Int /\ RateNum * len \in Int /\ RateDen * me.added \in Int
            /\ RateDen * (taken + available') \in Int
        BY ONLY <1>1, <2>3, <3>1, <3>2
      <3>8. RateDen * (taken + available') <= RateDen * Burst + RateNum * d
        BY ONLY <3>3, <3>4, <3>5, <3>6, <3>7
      <3> QED
        BY <3>8, <2>1 DEF Backed, d
    <2> QED
      BY <2>4, <2>5, <2>7, <2>9 DEF BucketIInv
  <1> QED
    BY <1>2, <1>3

(* A bucket starts with its burst and no interval credited. *)
LEMMA BucketInitInv == BucketInit => BucketIInv
  <1> SUFFICES ASSUME BucketInit PROVE BucketIInv
    OBVIOUS
  <1>1. BucketTypes /\ Earned /\ IntervalsApart
    BY BucketAssumption
       DEF BucketInit, BucketTypes, Earned, IntervalsApart, Owing, Idle, CallerStates, Pcs
  <1>2. Credited = {}
    BY DEF BucketInit, Credited
  <1>3. Backed
    BY <1>2, FS_EmptySet, BucketAssumption DEF BucketInit, Backed
  <1> QED
    BY <1>1, <1>3 DEF BucketIInv

(* A step that changes only the locals of a thread without an interval. *)
LEMMA LocalKeeps ==
  ASSUME BucketIInv, NEW t \in Threads, NEW after \in CallerStates, Step(t, after), ~Owing(t),
         after.pc \notin {"stamp", "sum", "deposit"}, lastConsumed' \in Int,
         UNCHANGED <<clock, lastUpdate, available, taken>>
  PROVE  BucketIInv'
  <1>1. available' \in Int /\ taken' \in Int /\ taken' + available' <= taken + available
    BY DEF BucketIInv, BucketTypes
  <1> QED
    BY <1>1, QuietKeeps

(* LoadLast computes what its interval earns, rounded down. *)
LEMMA LoadLastKeeps ==
  ASSUME BucketIInv, NEW t \in Threads, LoadLast(t)
  PROVE  BucketIInv'
  <1> DEFINE elapsed == caller[t].now - lastUpdate
             added == IF elapsed > 0 THEN (elapsed * RateNum) \div RateDen ELSE 0
             after == [caller[t] EXCEPT !.pc = IF elapsed > 0 THEN "stamp" ELSE "check",
                                        !.last = lastUpdate, !.added = added]
  <1>1. Step(t, after) /\ ~Owing(t) /\ UNCHANGED <<clock, lastUpdate, available, taken, lastConsumed>>
    BY DEF LoadLast, BucketAt, Owing
  <1>2. /\ caller[t] \in CallerStates /\ lastUpdate \in Nat
        /\ elapsed \in Int /\ caller[t].now \in Nat
    BY DEF CallerStates, BucketIInv, BucketTypes
  <1>3. added \in Nat /\ (elapsed > 0 => RateDen * added <= RateNum * elapsed)
    <2>1. CASE elapsed > 0
      <3> HIDE DEF elapsed
      <3>1. /\ elapsed * RateNum \in Nat /\ RateDen \in Nat \ {0}
            /\ elapsed * RateNum = RateNum * elapsed
        BY <1>2, <2>1, BucketAssumption
      <3>2. /\ (elapsed * RateNum) \div RateDen \in Nat
            /\ RateDen * ((elapsed * RateNum) \div RateDen) <= elapsed * RateNum
        BY ONLY <3>1, DivBelow
      <3> QED
        BY <2>1, <3>1, <3>2
    <2>2. CASE ~(elapsed > 0)
      BY <2>2
    <2> QED
      BY <2>1, <2>2
  <1>4. /\ available' \in Int /\ taken' \in Int /\ lastConsumed' \in Int
        /\ taken' + available' <= taken + available
    BY <1>1 DEF BucketIInv, BucketTypes
  <1> HIDE DEF added
  <1>5. /\ after \in CallerStates /\ after.pc = (IF elapsed > 0 THEN "stamp" ELSE "check")
        /\ after.last = lastUpdate /\ after.now = caller[t].now /\ after.added = added
    BY Zenon, <1>2, <1>3 DEF CallerStates, Pcs
  <1>6. after.pc = "stamp" =>
          /\ after.last < after.now
          /\ RateDen * after.added <= RateNum * (after.now - after.last)
    BY <1>2, <1>3, <1>5
  <1> HIDE DEF after, elapsed
  <1>7. after.pc \notin {"sum", "deposit"}
    BY <1>5
  <1> QED
    BY <1>1, <1>4, <1>5, <1>6, <1>7, QuietKeeps

(* Every step of AllowN, PutBack and the clock keeps the invariant. *)
LEMMA BucketStep == BucketIInv /\ [BucketNext]_bucketVars => BucketIInv'
  <1> SUFFICES ASSUME BucketIInv, [BucketNext]_bucketVars PROVE BucketIInv'
    OBVIOUS
  <1>1. CASE Tick \/ UNCHANGED bucketVars
    <2>1. UNCHANGED <<lastUpdate, available, caller, taken, lastConsumed>> /\ clock' \in Nat
      BY <1>1 DEF Tick, bucketVars, BucketIInv, BucketTypes
    <2> QED
      BY <2>1 DEF BucketIInv, BucketTypes, Earned, IntervalsApart, Backed, Credited, Owing, Interval
  <1>2. /\ clock \in Nat /\ available \in Int /\ taken \in Int /\ lastConsumed \in Int
        /\ caller \in [Threads -> CallerStates] /\ Idle \in CallerStates /\ Idle.pc = "idle"
    BY DEF BucketIInv, BucketTypes, Idle, CallerStates, Pcs
  <1>4. ASSUME NEW t \in Threads, NEW n \in Requests, AllowN(t, n) PROVE BucketIInv'
    <2> DEFINE after == [Idle EXCEPT !.pc = "last", !.n = n, !.now = clock]
    <2>1. after \in CallerStates /\ after.pc = "last"
      BY Zenon, <1>2, BucketAssumption DEF Idle, CallerStates, Pcs
    <2> HIDE DEF after
    <2> QED
      BY Zenon, <1>2, <1>4, <2>1, LocalKeeps DEF AllowN, BucketAt, Owing, after
  <1>5. ASSUME NEW t \in Threads, NEW n \in Requests, PutBack(t, n) PROVE BucketIInv'
    <2> DEFINE after == [Idle EXCEPT !.pc = "return", !.n = n, !.current = available]
    <2>1. after \in CallerStates /\ after.pc = "return"
      BY ZenonT(30), <1>2, BucketAssumption DEF Idle, CallerStates, Pcs
    <2> HIDE DEF after
    <2> QED
      BY Zenon, <1>2, <1>5, <2>1, LocalKeeps DEF PutBack, BucketAt, Owing, after
  <1>6. ASSUME NEW t \in Threads, LoadSum(t) PROVE BucketIInv'
    <2> DEFINE after == [caller[t] EXCEPT !.pc = "deposit", !.current = available]
    <2>1. /\ after \in CallerStates /\ after.pc = "deposit"
          /\ after.last = caller[t].last /\ after.now = caller[t].now /\ after.added = caller[t].added
      BY Zenon, <1>2 DEF CallerStates, Pcs
    <2>2. Step(t, after) /\ Owing(t) /\ UNCHANGED <<clock, lastUpdate, available, taken, lastConsumed>>
      BY <1>6 DEF LoadSum, BucketAt, Owing
    <2>3. /\ available' \in Int /\ taken' \in Int /\ lastConsumed' \in Int
          /\ taken' + available' <= taken + available
      BY <1>2, <2>2
    <2> HIDE DEF after
    <2> QED
      BY ZenonT(30), <2>1, <2>2, <2>3, QuietKeeps
  <1>7. ASSUME NEW t \in Threads, LoadAvailable(t) PROVE BucketIInv'
    <2> DEFINE after == [caller[t] EXCEPT !.pc = "consume", !.current = available]
    <2>1. after \in CallerStates /\ after.pc = "consume"
      BY Zenon, <1>2 DEF CallerStates, Pcs
    <2>2. Step(t, IF available >= caller[t].n THEN after ELSE Idle) /\ ~Owing(t)
      BY <1>7 DEF LoadAvailable, BucketAt, Owing
    <2> HIDE DEF after
    <2> QED
      BY <1>2, <1>7, <2>1, <2>2, LocalKeeps DEF LoadAvailable
  <1>8. ASSUME NEW t \in Threads, Record(t) \/ StoreConsumed(t) PROVE BucketIInv'
    <2>1. lastConsumed' \in Int
      BY <1>2, <1>8 DEF Record, StoreConsumed, CallerStates
    <2>2. Step(t, Idle) /\ ~Owing(t) /\ UNCHANGED <<clock, lastUpdate, available, taken>>
      BY <1>8 DEF Record, StoreConsumed, BucketAt, Owing
    <2> QED
      BY <1>2, <2>1, <2>2, LocalKeeps
  <1>9. ASSUME NEW t \in Threads, LoadConsumed(t) PROVE BucketIInv'
    <2> DEFINE after == [caller[t] EXCEPT !.pc = "store", !.current = lastConsumed]
    <2>1. after \in CallerStates /\ after.pc = "store"
      BY Zenon, <1>2 DEF CallerStates, Pcs
    <2> HIDE DEF after
    <2> QED
      BY Zenon, <1>2, <1>9, <2>1, LocalKeeps DEF LoadConsumed, BucketAt, Owing, after
  <1>3. ASSUME NEW t \in Threads, Consume(t) \/ Returned(t)
        PROVE  BucketIInv'
    <2>1. /\ caller[t] \in CallerStates /\ caller[t].n \in Nat
          /\ available \in Int /\ taken \in Int /\ lastConsumed \in Int
      BY DEF BucketIInv, BucketTypes, CallerStates
    <2>2. /\ available' \in Int /\ taken' \in Int /\ lastConsumed' \in Int
          /\ taken' + available' <= taken + available /\ UNCHANGED <<clock, lastUpdate>>
      BY <1>3, <2>1, BucketAssumption DEF Consume, Returned, Capped
    <2>3. PICK after \in CallerStates :
            Step(t, after) /\ after.pc \in {"record", "last", "forget", "return"}
      <3>1. /\ [caller[t] EXCEPT !.pc = "record"] \in CallerStates
            /\ [caller[t] EXCEPT !.pc = "last"] \in CallerStates
            /\ [caller[t] EXCEPT !.pc = "forget"] \in CallerStates
            /\ [caller[t] EXCEPT !.current = available] \in CallerStates
        BY <2>1 DEF CallerStates, Pcs
      <3>2. /\ [caller[t] EXCEPT !.pc = "record"].pc = "record"
            /\ [caller[t] EXCEPT !.pc = "last"].pc = "last"
            /\ [caller[t] EXCEPT !.pc = "forget"].pc = "forget"
            /\ [caller[t] EXCEPT !.current = available].pc = caller[t].pc
        BY <2>1 DEF CallerStates
      <3> QED
        BY <1>3, <3>1, <3>2, Zenon DEF Consume, Returned, BucketAt
    <2>4. ~Owing(t)
      BY <1>3 DEF Consume, Returned, BucketAt, Owing
    <2> QED
      BY <2>2, <2>3, <2>4, QuietKeeps
  <1> QED
    BY <1>1, <1>3, <1>4, <1>5, <1>6, <1>7, <1>8, <1>9, LoadLastKeeps, StampKeeps, DepositKeeps
       DEF BucketNext

(* For any callers, rate, burst and interleaving of the atomic operations,  *)
(* the bucket never grants more than the burst and the rate allow.          *)
THEOREM BucketNeverOverGrants == BucketSpec => []NeverOverGrants
  <1>1. BucketIInv => NeverOverGrants
    <2> SUFFICES ASSUME BucketIInv PROVE NeverOverGrants
      OBVIOUS
    <2> DEFINE c == Cardinality(Credited)
    <2>1. c \in Nat /\ c <= lastUpdate
      BY CreditedFinite DEF BucketIInv
    <2>2. /\ RateDen \in Nat /\ RateNum \in Nat /\ Burst \in Nat
          /\ lastUpdate \in Nat /\ taken + available \in Int
      BY BucketAssumption DEF BucketIInv, BucketTypes
    <2>3. RateDen * (taken + available) <= RateDen * Burst + RateNum * c
      BY DEF BucketIInv, Backed
    <2> HIDE DEF c
    <2>4. RateNum * c <= RateNum * lastUpdate
      BY ONLY <2>1, <2>2, Grows
    <2>5. /\ RateDen * (taken + available) \in Int /\ RateDen * Burst \in Int
          /\ RateNum * c \in Int /\ RateNum * lastUpdate \in Int
      BY ONLY <2>1, <2>2
    <2>6. RateDen * (taken + available) <= RateDen * Burst + RateNum * lastUpdate
      BY ONLY <2>3, <2>4, <2>5
    <2> QED
      BY <2>6 DEF NeverOverGrants
  <1> QED
    BY <1>1, BucketInitInv, BucketStep, PTL DEF BucketSpec

-------------------------------------------------------------------------------
(* The range is the one of the network, and every address given out lies in *)
(* it, but for the fixed offsets that overflow.                             *)
InRange ==
  /\ ipnet \in Networks
  /\ startIP = StartAvailable(ipnet) /\ endIP = EndAvailable(ipnet)
  /\ \A ip \in allocated : ip \in (startIP..endIP) \cup Overflowed

PoolIInv == lease \in [Clients -> Int \cup {NoLease}] /\ LeasesDistinct /\ InRange

-------------------------------------------------------------------------------
(* An address that is in range and not given out may be granted. *)
LEMMA GrantKeeps ==
  ASSUME PoolIInv, NEW c \in Clients, NEW ip \in Int, Grant(c, ip), UNCHANGED poolConfig,
         ip \notin allocated, ip \in (startIP..endIP) \cup Overflowed
  PROVE  PoolIInv'
  <1>1. allocated' = allocated \cup {ip} /\ lease' = [lease EXCEPT ![c] = ip]
    BY DEF Grant
  <1>2. lease' \in [Clients -> Int \cup {NoLease}]
    BY <1>1 DEF PoolIInv
  <1>3. lease'[c] = ip /\ \A d \in Clients \ {c} : lease'[d] = lease[d]
    BY <1>1 DEF PoolIInv
  <1>4. LeasesDistinct'
    BY <1>1, <1>3 DEF PoolIInv, LeasesDistinct
  <1>5. InRange'
    BY <1>1 DEF PoolIInv, InRange, poolConfig, Overflowed
  <1> QED
    BY <1>2, <1>4, <1>5 DEF PoolIInv

(* A refusal changes nothing. *)
LEMMA PoolQuiet ==
  ASSUME PoolIInv, UNCHANGED <<poolConfig, allocated, lease>>
  PROVE  PoolIInv'
  BY DEF PoolIInv, LeasesDistinct, InRange, poolConfig, Overflowed

(* The ends of the range are integers. *)
LEMMA RangeIsInt ==
  ASSUME PoolIInv
  PROVE  startIP \in Nat /\ endIP \in Int /\ Word \in Nat \ {0}
  <1>1. /\ ipnet.ip \in Nat /\ ipnet.size \in Nat \ {0} /\ ipnet.ip + ipnet.size <= Word
        /\ Octet \in Nat \ {0} /\ Word \in Nat
    BY PoolAssumption DEF PoolIInv, InRange, PoolAddresses
  <1>2. ipnet.ip % Octet \in 0..(Octet - 1) /\ ipnet.ip % Octet <= ipnet.ip
    BY <1>1
  <1>3. (ipnet.ip + ipnet.size - 1) % Octet \in Int
    BY <1>1
  <1> QED
    BY <1>1, <1>2, <1>3 DEF PoolIInv, InRange, StartAvailable, EndAvailable

(* A fixed offset grants an address of the range or one that overflowed. *)
LEMMA ByOffsetKeeps ==
  ASSUME PoolIInv, NEW c \in Clients, NEW fixed \in FixedIPs, AssignByOffset(c, fixed)
  PROVE  PoolIInv'
  <1> DEFINE ip == (startIP + fixed) % Word
  <1>1. startIP \in Nat /\ endIP \in Int /\ Word \in Nat \ {0} /\ fixed \in Nat
    BY RangeIsInt, PoolAssumption
  <1>2. ip \in Nat /\ (startIP + fixed < Word => ip = startIP + fixed)
    BY <1>1
  <1>4. UNCHANGED poolConfig
    BY Zenon DEF AssignByOffset
  <1>3. CASE Grant(c, ip) /\ ip \notin allocated /\ ~(ip > endIP)
    <2>1. CASE startIP + fixed < Word
      BY <1>1, <1>2, <1>3, <1>4, <2>1, GrantKeeps
    <2>2. CASE ~(startIP + fixed < Word)
      <3>1. ip \in Overflowed
        BY <1>1, <2>2 DEF Overflowed
      <3> QED
        BY <1>2, <1>3, <1>4, <3>1, GrantKeeps
    <2> QED
      BY <2>1, <2>2
  <1> QED
    BY <1>3, PoolQuiet DEF AssignByOffset, Refuse

(* Every operation of the pool keeps the invariant. *)
LEMMA PoolStep == PoolIInv /\ [PoolNext]_poolVars => PoolIInv'
  <1> SUFFICES ASSUME PoolIInv, [PoolNext]_poolVars PROVE PoolIInv'
    OBVIOUS
  <1>1. startIP \in Nat /\ endIP \in Int
    BY RangeIsInt
  <1>2. ASSUME NEW c \in Clients, AssignRandom(c) PROVE PoolIInv'
    <2>1. ASSUME NEW ip \in (startIP..endIP) \ allocated, Grant(c, ip) PROVE PoolIInv'
      <3>1. UNCHANGED poolConfig
        BY <1>2, Zenon DEF AssignRandom
      <3> QED
        BY <1>1, <2>1, <3>1, GrantKeeps
    <2> QED
      BY <1>2, <2>1, PoolQuiet DEF AssignRandom, Refuse
  <1>3. ASSUME NEW c \in Clients, NEW ip \in PoolAddresses, AssignSpecific(c, ip) PROVE PoolIInv'
    <2>1. ip \in Int
      BY PoolAssumption DEF PoolAddresses
    <2>2. CASE Grant(c, ip) /\ ip \notin allocated /\ ~(ip < startIP \/ ip > endIP)
      <3>1. UNCHANGED poolConfig
        BY <1>3, Zenon DEF AssignSpecific
      <3> QED
        BY <1>1, <2>1, <2>2, <3>1, GrantKeeps
    <2> QED
      BY <1>3, <2>2, PoolQuiet DEF AssignSpecific, Refuse
  <1>4. ASSUME NEW c \in Clients, ReleaseIP(c) PROVE PoolIInv'
    <2>1. /\ lease' = [lease EXCEPT ![c] = NoLease] /\ lease[c] # NoLease
          /\ allocated' = allocated \ {lease[c]} /\ UNCHANGED poolConfig
      BY <1>4 DEF ReleaseIP, PoolIInv, LeasesDistinct
    <2>2. lease' \in [Clients -> Int \cup {NoLease}]
      BY <2>1 DEF PoolIInv
    <2>3. lease'[c] = NoLease /\ \A d \in Clients \ {c} : lease'[d] = lease[d]
      BY <2>1 DEF PoolIInv
    <2>4. LeasesDistinct'
      BY <2>1, <2>3 DEF PoolIInv, LeasesDistinct
    <2>5. InRange'
      BY <2>1 DEF PoolIInv, InRange, poolConfig, Overflowed
    <2> QED
      BY <2>2, <2>4, <2>5 DEF PoolIInv
  <1>5. CASE Reload
    <2>1. UNCHANGED <<ipnet, startIP, endIP, allocated, lease>>
      BY <1>5 DEF Reload, LoadFromData, Bytes, PoolIInv, InRange
    <2> QED
      BY <2>1 DEF PoolIInv, LeasesDistinct, InRange, Overflowed
  <1>6. CASE UNCHANGED poolVars
    BY <1>6, PoolQuiet DEF poolVars, poolConfig
  <1> QED
    BY <1>2, <1>3, <1>4, <1>5, <1>6, ByOffsetKeeps DEF PoolNext

(* A new pool has the range of its network and nothing given out. *)
LEMMA PoolInitInv == PoolInit => PoolIInv
  BY DEF PoolInit, PoolIInv, LeasesDistinct, InRange

(* For any pool, any clients and any fixed addresses, no two clients hold   *)
(* one address and none is held unmarked, across releases and reloads.      *)
THEOREM LeasesStayDistinct == PoolSpec => []LeasesDistinct
  <1>1. PoolIInv => LeasesDistinct
    BY DEF PoolIInv
  <1> QED
    BY <1>1, PoolInitInv, PoolStep, PTL DEF PoolSpec

-------------------------------------------------------------------------------
(* A number that an octet divides is a multiple of it, *)
LEMMA WholeMultiple ==
  ASSUME NEW o \in Nat \ {0}, NEW x \in Nat, x % o = 0
  PROVE  x \div o \in Nat /\ x = o * (x \div o)
  OBVIOUS

(* With whole octets the range leaves out exactly the first and the last    *)
(* address of the network.                                                  *)
LEMMA WholeOctets ==
  ASSUME NEW o \in Nat \ {0}, NEW x \in Nat \ {0}, x % o = 0
  PROVE  (x - 1) % o = o - 1
  <1> DEFINE q == x \div o
             p == (x - 1) \div o
             r == (x - 1) % o
  <1>1. q \in Nat /\ x = o * q
    OBVIOUS
  <1>2. p \in Int /\ r \in 0..(o - 1) /\ x - 1 = o * p + r
    OBVIOUS
  <1> HIDE DEF p, q, r
  <1>3. o * (q - p) = r + 1
    <2>1. o * (q - p) = o * q - o * p /\ o * q \in Int /\ o * p \in Int
      BY ONLY <1>1, <1>2, o \in Nat \ {0}
    <2> QED
      BY <1>1, <1>2, <2>1
  <1>4. q - p \in Int /\ r + 1 \in 1..o
    BY <1>1, <1>2
  <1>5. q - p >= 1
    <2>1. SUFFICES ASSUME q - p <= 0 PROVE o * (q - p) <= 0
      BY <1>3, <1>4
    <2> QED
      BY <1>4, <2>1
  <1>6. o * (q - p) >= o
    BY <1>4, <1>5
  <1> QED
    BY <1>2, <1>3, <1>4, <1>6 DEF r

(* For any pool of whole octets and any sequence of calls, only host        *)
(* addresses are given out, but for the fixed offsets that overflow.        *)
THEOREM OnlyHostsGivenOut == PoolSpec => []HostAddressesOnly
  <1>1. PoolIInv => HostAddressesOnly
    <2> SUFFICES ASSUME PoolIInv, ipnet.ip % Octet = 0, ipnet.size % Octet = 0,
                        NEW ip \in allocated \ Overflowed
                 PROVE  ipnet.ip < ip /\ ip < ipnet.ip + ipnet.size - 1
      BY DEF HostAddressesOnly
    <2> DEFINE end == ipnet.ip + ipnet.size
    <2>1. /\ ipnet.ip \in Nat /\ ipnet.size \in Nat \ {0} /\ Octet \in Nat \ {0}
          /\ end \in Nat \ {0}
      BY PoolAssumption DEF PoolIInv, InRange, PoolAddresses
    <2>2. end % Octet = 0
      <3> DEFINE i == ipnet.ip \div Octet
                 j == ipnet.size \div Octet
      <3>1. i \in Nat /\ j \in Nat /\ ipnet.ip = Octet * i /\ ipnet.size = Octet * j
        BY <2>1, WholeMultiple, Zenon
      <3> HIDE DEF i, j
      <3>2. end = Octet * (i + j)
        BY <2>1, <3>1
      <3> QED
        BY <2>1, <3>1, <3>2
    <2>3. (end - 1) % Octet = Octet - 1
      BY <2>1, <2>2, WholeOctets
    <2>4. startIP = ipnet.ip + 1 /\ endIP = end - 2
      <3> DEFINE last == ipnet.ip + ipnet.size - 1
      <3>1. /\ startIP = (ipnet.ip - (ipnet.ip % Octet)) + 1
            /\ endIP = (last - (last % Octet)) + Octet - 2
        BY Zenon DEF PoolIInv, InRange, StartAvailable, EndAvailable
      <3>2. last = end - 1
        BY <2>1
      <3> HIDE DEF last
      <3>3. startIP = (ipnet.ip - 0) + 1 /\ endIP = ((end - 1) - (Octet - 1)) + Octet - 2
        BY <2>3, <3>1, <3>2
      <3> QED
        BY <2>1, <3>3
    <2>5. ip \in startIP..endIP
      BY DEF PoolIInv, InRange
    <2> QED
      BY <2>1, <2>4, <2>5
  <1> QED
    BY <1>1, PoolInitInv, PoolStep, PTL DEF PoolSpec

===============================================================================
