----------------------------- MODULE HubTxProofs ------------------------------
(*****************************************************************************)
(* Proofs about what the client sends, for any number of destinations,       *)
(* events and packets and any sizes of packets, batches and queues. In the   *)
(* transmit side of its hub events have one owner, the packets of a          *)
(* destination are written in the order they were read, and the loops never  *)
(* wait for each other (HubTx). In a transport, packets arrive whole and in  *)
(* order, compressed and encrypted or not (PacketBatch).                     *)
(*****************************************************************************)
EXTENDS HubTx, PacketBatch, SeqFoldProofs

HubTypes ==
  /\ pool \subseteq Events
  /\ reading \in Events \cup {NoEvent}
  /\ txChan \in Seq(Events)
  /\ \A p \in pushing : p[2] \in Events
  /\ queue \in [Dests -> Seq(Events)]
  /\ collected \in [Dests -> Seq(Events)]

(* EventOwnedOnce, by positions: what is free, read or on its way to the    *)
(* router,                                                                  *)
BeforeRouting ==
  /\ reading \notin pool
  /\ \A i \in 1..Len(txChan) : txChan[i] \notin pool /\ txChan[i] # reading
  /\ \A i, j \in 1..Len(txChan) : txChan[i] = txChan[j] => i = j

(* pushed to a destination,                                                 *)
Routed ==
  /\ \A p \in pushing : p[2] \notin pool /\ p[2] # reading
  /\ \A p \in pushing : \A i \in 1..Len(txChan) : txChan[i] # p[2]
  /\ \A p, q \in pushing : p[2] = q[2] => p = q

(* waiting in the queue of one, or collected for a write.                   *)
AtDest(at) ==
  /\ \A d \in Dests : \A i \in 1..Len(at[d]) : at[d][i] \notin pool /\ at[d][i] # reading
  /\ \A d \in Dests : \A i \in 1..Len(at[d]) : \A j \in 1..Len(txChan) : at[d][i] # txChan[j]
  /\ \A d \in Dests : \A i \in 1..Len(at[d]) : \A p \in pushing : at[d][i] # p[2]
  /\ \A c, d \in Dests : \A i \in 1..Len(at[c]), j \in 1..Len(at[d]) :
       at[c][i] = at[d][j] => c = d /\ i = j

QueueOnce == AtDest(queue)
CollectedOnce == AtDest(collected)

QueuedApart ==
  \A c, d \in Dests : \A i \in 1..Len(queue[c]), j \in 1..Len(collected[d]) :
    queue[c][i] # collected[d][j]

HubIInv ==
  /\ HubTypes
  /\ BeforeRouting /\ Routed
  /\ QueueOnce /\ CollectedOnce /\ QueuedApart

(* txLoopN takes at least one event of a queue that has any. *)
LEMMA TakenSome ==
  ASSUME HubTypes, NEW d \in Dests, queue[d] # <<>>
  PROVE  Taken(d) \in 1..Len(queue[d])
  <1> DEFINE S == {n \in 1..Len(queue[d]) : n = Len(queue[d]) \/ FillsWrite(d, n)}
  <1>1. Len(queue[d]) \in Nat \ {0}
    BY DEF HubTypes
  <1>2. S \subseteq Nat /\ S # {}
    BY <1>1
  <1>3. PICK n \in S : \A m \in S : ~(<<m, n>> \in OpToRel(<, Nat))
    BY <1>2, NatLessThanWellFounded, WFMin, Zenon
  <1>4. \A m \in S : ~(m < n)
    BY Zenon, <1>2, <1>3 DEF OpToRel
  <1>5. ASSUME NEW m \in 1..n - 1 PROVE ~FillsWrite(d, m)
    <2>1. m \in 1..Len(queue[d]) /\ m < n
      BY <1>1
    <2> QED
      BY <1>4, <2>1
  <1> QED
    BY <1>5 DEF Taken

(* An element of s followed by t is one of s or one of t; *)
LEMMA ConcatAt ==
  ASSUME NEW S, NEW s \in Seq(S), NEW t \in Seq(S), NEW e \in Range(s \o t)
  PROVE  (\E n \in 1..Len(s) : e = s[n]) \/ (\E n \in 1..Len(t) : e = t[n])
  <1>1. DOMAIN (s \o t) = 1..Len(s) + Len(t)
    OBVIOUS
  <1>2. PICK i \in 1..Len(s) + Len(t) : e = (s \o t)[i]
    BY <1>1 DEF Range
  <1>3. e = IF i <= Len(s) THEN s[i] ELSE t[i - Len(s)]
    BY <1>2
  <1> QED
    BY <1>3

(* and none comes twice if none does in s or in t and they share none. *)
LEMMA ConcatInjective ==
  ASSUME NEW S, NEW s \in Seq(S), NEW t \in Seq(S),
         \A i, j \in 1..Len(s) : s[i] = s[j] => i = j,
         \A i, j \in 1..Len(t) : t[i] = t[j] => i = j,
         \A i \in 1..Len(s), j \in 1..Len(t) : s[i] # t[j]
  PROVE  IsInjective(s \o t)
  <1>1. DOMAIN (s \o t) = 1..Len(s) + Len(t)
    OBVIOUS
  <1>2. \A i \in 1..Len(s) + Len(t) :
           (s \o t)[i] = IF i <= Len(s) THEN s[i] ELSE t[i - Len(s)]
    OBVIOUS
  <1>3. Len(s) \in Nat /\ Len(t) \in Nat
    OBVIOUS
  <1> QED
    BY SMTT(30), <1>1, <1>2, <1>3 DEF IsInjective

(* The parts of the invariant say that events have one owner. *)
LEMMA HubIInvOwned == HubIInv => EventOwnedOnce
  <1> SUFFICES ASSUME HubIInv PROVE EventOwnedOnce
    OBVIOUS
  <1> USE DEF HubIInv
  <1>1. \A i \in Range(txChan) : \E n \in 1..Len(txChan) : i = txChan[n]
    BY DEF HubTypes, Range
  <1>2. ASSUME NEW d \in Dests, NEW e \in Range(queue[d] \o collected[d])
        PROVE  \/ \E n \in 1..Len(queue[d]) : e = queue[d][n]
               \/ \E n \in 1..Len(collected[d]) : e = collected[d][n]
    <2>1. queue[d] \in Seq(Events) /\ collected[d] \in Seq(Events)
      BY DEF HubTypes
    <2> QED
      BY <2>1, ConcatAt
  <1>3. reading \notin pool /\ IsInjective(txChan)
    BY SMTT(30) DEF BeforeRouting, IsInjective, HubTypes
  <1>4. Range(txChan) \cap (pool \cup {reading}) = {}
    BY <1>1 DEF BeforeRouting
  <1>5. \A p \in pushing : /\ p[2] \notin pool \cup {reading} \cup Range(txChan)
                           /\ \A q \in pushing : p[2] = q[2] => p = q
    BY <1>1 DEF Routed
  <1>6. ASSUME NEW d \in Dests PROVE IsInjective(queue[d] \o collected[d])
    <2>1. queue[d] \in Seq(Events) /\ collected[d] \in Seq(Events)
      BY DEF HubTypes
    <2>2. \A i, j \in 1..Len(queue[d]) : queue[d][i] = queue[d][j] => i = j
      BY DEF QueueOnce, AtDest
    <2>3. \A i, j \in 1..Len(collected[d]) : collected[d][i] = collected[d][j] => i = j
      BY DEF CollectedOnce, AtDest
    <2>4. \A i \in 1..Len(queue[d]), j \in 1..Len(collected[d]) : queue[d][i] # collected[d][j]
      BY DEF QueuedApart
    <2> QED
      BY Zenon, <2>1, <2>2, <2>3, <2>4, ConcatInjective
  <1>7. ASSUME NEW d \in Dests, NEW e \in Range(queue[d] \o collected[d])
        PROVE  e \notin pool \cup ({reading} \ {NoEvent}) \cup Range(txChan) \cup {p[2] : p \in pushing}
    <2>1. ASSUME NEW at \in {queue, collected}, NEW n \in 1..Len(at[d]), e = at[d][n]
          PROVE  e \notin pool /\ e # reading /\ e \notin Range(txChan) /\ \A p \in pushing : e # p[2]
      <3>1. AtDest(at)
        BY <2>1 DEF QueueOnce, CollectedOnce
      <3> QED
        BY <1>1, <2>1, <3>1 DEF AtDest
    <2>2. e \notin pool /\ e # reading /\ e \notin Range(txChan) /\ \A p \in pushing : e # p[2]
      BY <1>2, <2>1
    <2> QED
      BY <2>2
  <1>8. ASSUME NEW d \in Dests, NEW c \in Dests \ {d}, NEW e \in Range(queue[d] \o collected[d])
        PROVE  e \notin Range(queue[c] \o collected[c])
    <2>1. ASSUME NEW at \in {queue, collected}
          PROVE \A i \in 1..Len(at[d]), j \in 1..Len(at[c]) : at[d][i] # at[c][j]
      <3>1. AtDest(at)
        BY <2>1 DEF QueueOnce, CollectedOnce
      <3> QED
        BY <3>1 DEF AtDest
    <2>2. \A i \in 1..Len(queue[d]), j \in 1..Len(queue[c]) : queue[d][i] # queue[c][j]
      BY <2>1
    <2>3. \A i \in 1..Len(collected[d]), j \in 1..Len(collected[c]) : collected[d][i] # collected[c][j]
      BY <2>1
    <2>4. \A i \in 1..Len(queue[d]), j \in 1..Len(collected[c]) : queue[d][i] # collected[c][j]
      BY DEF QueuedApart
    <2>5. \A i \in 1..Len(queue[c]), j \in 1..Len(collected[d]) : queue[c][i] # collected[d][j]
      BY DEF QueuedApart
    <2>6. ASSUME e \in Range(queue[c] \o collected[c])
          PROVE  \/ \E n \in 1..Len(queue[c]) : e = queue[c][n]
                 \/ \E n \in 1..Len(collected[c]) : e = collected[c][n]
      BY Zenon, <1>2, <2>6
    <2>7. \/ \E n \in 1..Len(queue[d]) : e = queue[d][n]
          \/ \E n \in 1..Len(collected[d]) : e = collected[d][n]
      BY <1>2
    <2> QED
      BY <2>2, <2>3, <2>4, <2>5, <2>6, <2>7, Zenon
  <1> QED
    BY SMTT(30), <1>3, <1>4, <1>5, <1>6, <1>7, <1>8 DEF EventOwnedOnce

(* Nothing changes for the queues, or for what is collected, when neither   *)
(* they nor the events elsewhere move.                                      *)
LEMMA QueuesUnmoved ==
  ASSUME QueueOnce, UNCHANGED <<pool, reading, txChan, pushing, queue>> PROVE QueueOnce'
  BY SMTT(30) DEF QueueOnce, AtDest

(* The same for what is collected. *)
LEMMA CollectedUnmoved ==
  ASSUME CollectedOnce, UNCHANGED <<pool, reading, txChan, pushing, collected>>
  PROVE  CollectedOnce'
  BY SMTT(30) DEF CollectedOnce, AtDest

(* A step that moves no event. *)
LEMMA UnmovedOwned ==
  ASSUME HubIInv, UNCHANGED <<pool, reading, txChan, pushing, queue, collected>> PROVE HubIInv'
  <1> USE DEF HubIInv
  <1>1. HubTypes'
    BY Zenon DEF HubTypes
  <1>2. BeforeRouting' /\ Routed'
    BY Zenon DEF BeforeRouting, Routed
  <1>3. QueueOnce'
    BY QueuesUnmoved
  <1>4. CollectedOnce'
    BY CollectedUnmoved
  <1>5. QueuedApart'
    BY Zenon DEF QueuedApart
  <1> QED
    BY SMTT(30), <1>1, <1>2, <1>3, <1>4, <1>5

(* Read takes a free event; *)
LEMMA ReadOwned ==
  ASSUME HubIInv, NEW targets, Read(targets) PROVE HubIInv'
  <1>1. PICK e \in pool : reading' = e /\ pool' = pool \ {e}
    BY Zenon DEF Read, Get
  <1>2. UNCHANGED <<txChan, pushing, queue, collected>> /\ reading = NoEvent
    BY DEF Read, destVars
  <1> USE DEF HubIInv
  <1>3. HubTypes'
    BY <1>1, <1>2 DEF HubTypes
  <1>4. BeforeRouting'
    BY <1>1, <1>2 DEF BeforeRouting
  <1>5. Routed'
    BY <1>1, <1>2 DEF Routed
  <1>6. QueueOnce'
    BY <1>1, <1>2 DEF QueueOnce, AtDest
  <1>7. CollectedOnce'
    BY <1>1, <1>2 DEF CollectedOnce, AtDest
  <1>8. QueuedApart'
    BY <1>2 DEF QueuedApart
  <1> QED
    BY <1>3, <1>4, <1>5, <1>6, <1>7, <1>8

(* Enqueue moves it to the hub's channel; *)
LEMMA EnqueueOwned ==
  ASSUME HubIInv, Enqueue PROVE HubIInv'
  <1>1. /\ UNCHANGED <<pool, pushing, queue, collected>> /\ reading \in Events
        /\ reading' = NoEvent /\ txChan' = Append(txChan, reading)
    BY DEF Enqueue, destVars, HubIInv, HubTypes
  <1> USE DEF HubIInv
  <1>2. /\ txChan' \in Seq(Events) /\ Len(txChan') = Len(txChan) + 1 /\ Len(txChan) \in Nat
        /\ \A i \in 1..Len(txChan') : txChan'[i] = IF i <= Len(txChan) THEN txChan[i] ELSE reading
    BY <1>1 DEF HubTypes
  <1>3. NoEvent \notin Events /\ pool \subseteq Events
    BY DEF Events, NoEvent, HubTypes
  <1>4. HubTypes'
    BY <1>1, <1>2 DEF HubTypes
  <1>5. BeforeRouting'
    BY <1>1, <1>2, <1>3 DEF BeforeRouting, HubTypes
  <1>6. Routed'
    BY <1>1, <1>2, <1>3 DEF Routed, HubTypes
  <1>7. QueueOnce'
    <2>1. \A d \in Dests : \A i \in 1..Len(queue[d]) : queue[d][i] # NoEvent
      BY <1>3 DEF HubTypes
    <2>2. ASSUME NEW d \in Dests, NEW i \in 1..Len(queue'[d])
          PROVE  queue'[d][i] \notin pool' /\ queue'[d][i] # reading'
      BY <1>1, <2>1 DEF QueueOnce, AtDest
    <2>3. ASSUME NEW d \in Dests, NEW i \in 1..Len(queue'[d]), NEW j \in 1..Len(txChan')
          PROVE  queue'[d][i] # txChan'[j]
      BY <1>1, <1>2 DEF QueueOnce, AtDest
    <2>4. ASSUME NEW d \in Dests, NEW i \in 1..Len(queue'[d]), NEW p \in pushing'
          PROVE  queue'[d][i] # p[2]
      BY <1>1 DEF QueueOnce, AtDest
    <2>5. ASSUME NEW a \in Dests, NEW b \in Dests,
                 NEW i \in 1..Len(queue'[a]), NEW j \in 1..Len(queue'[b]), queue'[a][i] = queue'[b][j]
          PROVE  a = b /\ i = j
      BY <1>1, <2>5 DEF QueueOnce, AtDest
    <2> QED
      BY <2>2, <2>3, <2>4, <2>5, Zenon DEF QueueOnce, AtDest
  <1>8. CollectedOnce'
    <2>1. \A d \in Dests : \A i \in 1..Len(collected[d]) : collected[d][i] # NoEvent
      BY <1>3 DEF HubTypes
    <2>2. ASSUME NEW d \in Dests, NEW i \in 1..Len(collected'[d])
          PROVE  collected'[d][i] \notin pool' /\ collected'[d][i] # reading'
      BY <1>1, <2>1 DEF CollectedOnce, AtDest
    <2>3. ASSUME NEW d \in Dests, NEW i \in 1..Len(collected'[d]), NEW j \in 1..Len(txChan')
          PROVE  collected'[d][i] # txChan'[j]
      BY <1>1, <1>2 DEF CollectedOnce, AtDest
    <2>4. ASSUME NEW d \in Dests, NEW i \in 1..Len(collected'[d]), NEW p \in pushing'
          PROVE  collected'[d][i] # p[2]
      BY <1>1 DEF CollectedOnce, AtDest
    <2>5. ASSUME NEW a \in Dests, NEW b \in Dests,
                 NEW i \in 1..Len(collected'[a]), NEW j \in 1..Len(collected'[b]), collected'[a][i] = collected'[b][j]
          PROVE  a = b /\ i = j
      BY <1>1, <2>5 DEF CollectedOnce, AtDest
    <2> QED
      BY <2>2, <2>3, <2>4, <2>5, Zenon DEF CollectedOnce, AtDest
  <1>9. QueuedApart'
    BY SMTT(30), <1>1 DEF QueuedApart
  <1> QED
    BY SMTT(30), <1>4, <1>5, <1>6, <1>7, <1>8, <1>9

(* RouteEvent hands it to a destination, or copies it to free events that   *)
(* go to one destination each.                                              *)
LEMMA RouteOwned ==
  ASSUME HubIInv, RouteEvent PROVE HubIInv'
  <1> USE DEF HubIInv
  <1>1. /\ UNCHANGED <<reading, queue, collected>> /\ pushing = {}
        /\ txChan # <<>> /\ txChan' = Tail(txChan)
    BY DEF RouteEvent, destVars
  <1>2. PICK e : e = Head(txChan)
    OBVIOUS
  <1>3. /\ e \in Events /\ Len(txChan) \in Nat \ {0} /\ e = txChan[1]
        /\ txChan' \in Seq(Events) /\ Len(txChan') = Len(txChan) - 1
        /\ \A i \in 1..Len(txChan') : txChan'[i] = txChan[i + 1]
    BY <1>1, <1>2 DEF HubTypes
  <1>4. /\ e \notin pool /\ e # reading
        /\ \A i \in 1..Len(txChan') : txChan'[i] # e
    BY <1>3 DEF BeforeRouting
  <1>5. /\ \A p \in pushing' : p[2] \in Events /\ p[2] \notin pool' /\ p[2] \in pool \cup {e}
        /\ \A p, q \in pushing' : p[2] = q[2] => p = q
        /\ pool' \subseteq pool \cup {e}
    <2>1. ASSUME NEW batch, FastPath(e, batch)
          PROVE  pushing' = {<<dstOf[batch[1]], e>>} /\ pool' = pool
      BY <2>1 DEF FastPath
    <2>2. ASSUME NEW batch, FastPath(e, batch) PROVE <1>5
      BY SMTT(30), <1>3, <1>4, <2>1, <2>2
    <2>3. ASSUME NEW batch, Split(e, batch) PROVE <1>5
      <3>1. PICK fresh \in [Targets(batch) -> pool] :
              /\ IsInjective(fresh)
              /\ pushing' = {<<d, fresh[d]>> : d \in Targets(batch)}
              /\ pool' = (pool \ Range(fresh)) \cup {e}
        BY <2>3 DEF Split
      <3>2. \A p \in pushing' : p = <<p[1], fresh[p[1]]>> /\ p[2] = fresh[p[1]] /\ p[1] \in Targets(batch)
        BY <3>1
      <3>3. \A d \in Targets(batch) : fresh[d] \in pool /\ fresh[d] \in Range(fresh)
        BY <3>1 DEF Range
      <3>4. \A c, d \in Targets(batch) : fresh[c] = fresh[d] => c = d
        BY <3>1 DEF IsInjective
      <3>5. pool \subseteq Events
        BY DEF HubTypes
      <3> QED
        BY SMTT(30), <1>4, <3>1, <3>2, <3>3, <3>4, <3>5
    <2>4. \E batch : FastPath(e, batch) \/ Split(e, batch)
      BY <1>2 DEF RouteEvent
    <2> QED
      BY <2>2, <2>3, <2>4
  <1>6. HubTypes'
    BY SMTT(30), <1>1, <1>3, <1>5 DEF HubTypes
  <1>7. BeforeRouting'
    BY SMTT(30), <1>1, <1>3, <1>4, <1>5 DEF BeforeRouting
  <1>8. Routed'
    BY SMTT(30), <1>1, <1>3, <1>4, <1>5 DEF Routed, BeforeRouting
  <1>9. QueueOnce'
    BY SMTT(30), <1>1, <1>3, <1>4, <1>5 DEF QueueOnce, AtDest
  <1>10. CollectedOnce'
    BY SMTT(30), <1>1, <1>3, <1>4, <1>5 DEF CollectedOnce, AtDest
  <1>11. QueuedApart'
    BY <1>1 DEF QueuedApart
  <1> QED
    BY <1>6, <1>7, <1>8, <1>9, <1>10, <1>11

(* A push of an event out of the hub's hand to the end of a queue. *)
LEMMA PushedOwned ==
  ASSUME HubIInv, NEW d \in Dests, NEW e \in Events, <<d, e>> \in pushing,
         UNCHANGED <<pool, reading, txChan, collected>>,
         pushing' = pushing \ {<<d, e>>}, queue' = [queue EXCEPT ![d] = Append(@, e)]
  PROVE  HubIInv'
  <1> USE DEF HubIInv
  <1>1. /\ queue[d] \in Seq(Events) /\ queue' \in [Dests -> Seq(Events)]
        /\ \A c \in Dests \ {d} : queue'[c] = queue[c]
        /\ queue'[d] = Append(queue[d], e)
    BY DEF HubTypes
  <1>2. /\ Len(queue'[d]) = Len(queue[d]) + 1 /\ Len(queue[d]) \in Nat
        /\ \A i \in 1..Len(queue'[d]) : queue'[d][i] = IF i <= Len(queue[d]) THEN queue[d][i] ELSE e
    BY <1>1
  <1>3. ASSUME NEW c \in Dests, NEW i \in 1..Len(queue'[c])
        PROVE  \/ i \in 1..Len(queue[c]) /\ queue'[c][i] = queue[c][i]
               \/ c = d /\ i = Len(queue[d]) + 1 /\ queue'[c][i] = e
    BY <1>1, <1>2
  <1>4. /\ e \notin pool /\ e # reading
        /\ \A i \in 1..Len(txChan) : txChan[i] # e
        /\ \A p \in pushing : p[2] = e => p = <<d, e>>
    BY DEF Routed
  <1>5. /\ \A c \in Dests : \A i \in 1..Len(queue[c]) : queue[c][i] # e
        /\ \A c \in Dests : \A i \in 1..Len(collected[c]) : collected[c][i] # e
    BY DEF QueueOnce, CollectedOnce, AtDest
  <1>6. HubTypes'
    BY <1>1 DEF HubTypes
  <1>7. BeforeRouting'
    BY DEF BeforeRouting
  <1>8. Routed'
    BY DEF Routed
  <1>9. QueueOnce'
    <2>1. ASSUME NEW c \in Dests, NEW i \in 1..Len(queue'[c])
          PROVE  queue'[c][i] \notin pool' /\ queue'[c][i] # reading'
      BY SMTT(30), <1>3, <1>4 DEF QueueOnce, AtDest
    <2>2. ASSUME NEW c \in Dests, NEW i \in 1..Len(queue'[c]), NEW j \in 1..Len(txChan')
          PROVE  queue'[c][i] # txChan'[j]
      BY SMTT(30), <1>3, <1>4 DEF QueueOnce, AtDest
    <2>3. ASSUME NEW c \in Dests, NEW i \in 1..Len(queue'[c]), NEW p \in pushing'
          PROVE  queue'[c][i] # p[2]
      BY SMTT(30), <1>3, <1>4 DEF QueueOnce, AtDest
    <2>4. \A a, b \in Dests : \A i \in 1..Len(queue'[a]), j \in 1..Len(queue'[b]) :
             queue'[a][i] = queue'[b][j] => a = b /\ i = j
      <3> TAKE a \in Dests, b \in Dests
      <3> TAKE i \in 1..Len(queue'[a]), j \in 1..Len(queue'[b])
      <3>1. \/ i \in 1..Len(queue[a]) /\ queue'[a][i] = queue[a][i]
            \/ a = d /\ i = Len(queue[d]) + 1 /\ queue'[a][i] = e
        BY <1>3
      <3>2. \/ j \in 1..Len(queue[b]) /\ queue'[b][j] = queue[b][j]
            \/ b = d /\ j = Len(queue[d]) + 1 /\ queue'[b][j] = e
        BY <1>3
      <3> QED
        BY SMTT(30), <1>5, <3>1, <3>2 DEF QueueOnce, AtDest
    <2> QED
      BY <2>1, <2>2, <2>3, <2>4, Zenon DEF QueueOnce, AtDest
  <1>10. CollectedOnce'
    BY DEF CollectedOnce, AtDest
  <1>11. QueuedApart'
    BY <1>3, <1>5 DEF QueuedApart
  <1> QED
    BY SMTT(30), <1>6, <1>7, <1>8, <1>9, <1>10, <1>11

(* Negotiate may push it, drop it or leave it; *)
LEMMA NegotiateOwned ==
  ASSUME HubIInv, NEW d \in Dests, NEW e \in Events, Negotiate(d, e) PROVE HubIInv'
  <1>1. <<d, e>> \in pushing /\ UNCHANGED <<reading, txChan, collected>>
    BY DEF Negotiate, CanNegotiate
  <1>2. CASE UNCHANGED <<pushing, pool, queue>>
    BY <1>1, <1>2, UnmovedOwned
  <1>3. CASE pushing' = pushing \ {<<d, e>>} /\ pool' = pool \cup {e} /\ UNCHANGED queue
    <2> USE DEF HubIInv
    <2>1. /\ e # reading
          /\ \A i \in 1..Len(txChan) : txChan[i] # e
          /\ \A p \in pushing' : p[2] # e
      BY <1>1, <1>3 DEF Routed
    <2>2. HubTypes'
      BY <1>1, <1>3 DEF HubTypes
    <2>3. BeforeRouting'
      BY SMTT(30), <1>1, <1>3, <2>1 DEF BeforeRouting
    <2>4. Routed'
      BY SMTT(30), <1>1, <1>3, <2>1 DEF Routed
    <2>5. QueueOnce'
      BY SMTT(30), <1>1, <1>3 DEF QueueOnce, AtDest
    <2>6. CollectedOnce'
      BY <1>1, <1>3 DEF CollectedOnce, AtDest
    <2>7. QueuedApart'
      BY <1>1, <1>3 DEF QueuedApart
    <2> QED
      BY SMTT(30), <2>2, <2>3, <2>4, <2>5, <2>6, <2>7
  <1>4. CASE /\ pushing' = pushing \ {<<d, e>>} /\ queue' = [queue EXCEPT ![d] = Append(@, e)]
             /\ UNCHANGED pool
    BY Zenon, <1>1, <1>4, PushedOwned
  <1> QED
    BY <1>2, <1>3, <1>4 DEF Negotiate, putTxEvents

(* txLoopN takes a first part of its queue; *)
LEMMA CollectOwned ==
  ASSUME HubIInv, NEW d \in Dests, Collect(d) PROVE HubIInv'
  <1> USE DEF HubIInv
  <1>1. PICK n \in 1..Len(queue[d]) : n = Taken(d)
    BY TakenSome DEF Collect, CanCollect
  <1>2. /\ UNCHANGED <<pool, reading, txChan, pushing>> /\ collected[d] = <<>>
        /\ collected' = [collected EXCEPT ![d] = SubSeq(queue[d], 1, n)]
        /\ queue' = [queue EXCEPT ![d] = SubSeq(queue[d], n + 1, Len(queue[d]))]
    BY <1>1 DEF Collect, CanCollect, TakeEvents
  <1>3. /\ queue[d] \in Seq(Events) /\ Len(queue[d]) \in Nat
        /\ DOMAIN queue = Dests /\ DOMAIN collected = Dests
    BY DEF HubTypes
  <1>4. /\ SubSeq(queue[d], 1, n) \in Seq(Events)
        /\ Len(SubSeq(queue[d], 1, n)) = n
        /\ \A i \in 1..n : SubSeq(queue[d], 1, n)[i] = queue[d][i]
    BY <1>1, <1>3
  <1>5. /\ SubSeq(queue[d], n + 1, Len(queue[d])) \in Seq(Events)
        /\ Len(SubSeq(queue[d], n + 1, Len(queue[d]))) = Len(queue[d]) - n
        /\ \A i \in 1..Len(queue[d]) - n : SubSeq(queue[d], n + 1, Len(queue[d]))[i] = queue[d][i + n]
    BY SMTT(30), <1>1, <1>3
  <1>6. HubTypes'
    BY SMTT(30), <1>2, <1>4, <1>5 DEF HubTypes
  <1>7. ASSUME NEW c \in Dests, NEW i \in 1..Len(queue'[c])
        PROVE  \E j \in 1..Len(queue[c]) : /\ queue'[c][i] = queue[c][j]
                                           /\ j = IF c = d THEN i + n ELSE i
    <2>1. CASE c = d
      <3>1. queue'[c] = SubSeq(queue[d], n + 1, Len(queue[d]))
        BY <1>2, <1>3, <2>1
      <3>2. i \in 1..Len(queue[d]) - n /\ i + n \in 1..Len(queue[d])
        BY <1>3, <1>5, <3>1
      <3> QED
        BY Zenon, <1>5, <2>1, <3>1, <3>2
    <2>2. CASE c # d
      BY <1>2, <1>3, <2>2
    <2> QED
      BY <2>1, <2>2
  <1>8. ASSUME NEW c \in Dests, NEW i \in 1..Len(collected'[c])
        PROVE  \/ c = d /\ i \in 1..n /\ i \in 1..Len(queue[c]) /\ collected'[c][i] = queue[c][i]
               \/ c # d /\ i \in 1..Len(collected[c]) /\ collected'[c][i] = collected[c][i]
    BY SMTT(30), <1>1, <1>2, <1>3, <1>4
  <1>9. BeforeRouting'
    BY <1>2 DEF BeforeRouting
  <1>10. Routed'
    BY <1>2 DEF Routed
  <1>11. QueueOnce'
    <2>1. ASSUME NEW c \in Dests, NEW i \in 1..Len(queue'[c])
          PROVE  queue'[c][i] \notin pool' /\ queue'[c][i] # reading'
      <3>1. PICK k \in 1..Len(queue[c]) : queue'[c][i] = queue[c][k]
        BY <1>7
      <3>2. pool' = pool /\ reading' = reading
        BY <1>2
      <3>3. queue[c][k] \notin pool /\ queue[c][k] # reading
        BY <3>2 DEF QueueOnce, AtDest
      <3> QED
        BY <3>1, <3>2, <3>3
    <2>2. ASSUME NEW c \in Dests, NEW i \in 1..Len(queue'[c]), NEW j \in 1..Len(txChan')
          PROVE  queue'[c][i] # txChan'[j]
      <3>1. PICK k \in 1..Len(queue[c]) : queue'[c][i] = queue[c][k]
        BY <1>7
      <3>2. j \in 1..Len(txChan) /\ txChan' = txChan
        BY <1>2
      <3>3. queue[c][k] # txChan[j]
        BY <3>2 DEF QueueOnce, AtDest
      <3> QED
        BY <3>1, <3>2, <3>3
    <2>3. ASSUME NEW c \in Dests, NEW i \in 1..Len(queue'[c]), NEW p \in pushing'
          PROVE  queue'[c][i] # p[2]
      <3>1. PICK k \in 1..Len(queue[c]) : queue'[c][i] = queue[c][k]
        BY <1>7
      <3>2. p \in pushing
        BY <1>2
      <3>3. queue[c][k] # p[2]
        BY <3>2 DEF QueueOnce, AtDest
      <3> QED
        BY <3>1, <3>2, <3>3
    <2>4. \A a, b \in Dests : \A i \in 1..Len(queue'[a]), j \in 1..Len(queue'[b]) :
             queue'[a][i] = queue'[b][j] => a = b /\ i = j
      <3> TAKE a \in Dests, b \in Dests
      <3> TAKE i \in 1..Len(queue'[a]), j \in 1..Len(queue'[b])
      <3>1. PICK k \in 1..Len(queue[a]) : queue'[a][i] = queue[a][k] /\ k = IF a = d THEN i + n ELSE i
        BY <1>7
      <3>2. PICK l \in 1..Len(queue[b]) : queue'[b][j] = queue[b][l] /\ l = IF b = d THEN j + n ELSE j
        BY ZenonT(30), <1>7
      <3>3. queue[a][k] = queue[b][l] => a = b /\ k = l
        BY DEF QueueOnce, AtDest
      <3>4. i \in Int /\ j \in Int /\ n \in Int
        BY <1>1
      <3> QED
        BY SMTT(30), <3>1, <3>2, <3>3, <3>4
    <2> QED
      BY <2>1, <2>2, <2>3, <2>4, Zenon DEF QueueOnce, AtDest
  <1>12. CollectedOnce'
    <2>1. ASSUME NEW c \in Dests, NEW i \in 1..Len(collected'[c])
          PROVE  collected'[c][i] \notin pool' /\ collected'[c][i] # reading'
      <3>1. \/ \E k \in 1..Len(queue[c]) : collected'[c][i] = queue[c][k]
            \/ \E k \in 1..Len(collected[c]) : collected'[c][i] = collected[c][k]
        BY <1>8
      <3> QED
        BY SMTT(30), <1>2, <3>1 DEF QueueOnce, CollectedOnce, AtDest
    <2>2. ASSUME NEW c \in Dests, NEW i \in 1..Len(collected'[c]), NEW j \in 1..Len(txChan')
          PROVE  collected'[c][i] # txChan'[j]
      BY SMTT(30), <1>2, <1>8 DEF QueueOnce, CollectedOnce, AtDest
    <2>3. ASSUME NEW c \in Dests, NEW i \in 1..Len(collected'[c]), NEW p \in pushing'
          PROVE  collected'[c][i] # p[2]
      BY SMTT(30), <1>2, <1>8 DEF QueueOnce, CollectedOnce, AtDest
    <2>4. \A a, b \in Dests : \A i \in 1..Len(collected'[a]), j \in 1..Len(collected'[b]) :
             collected'[a][i] = collected'[b][j] => a = b /\ i = j
      <3> TAKE a \in Dests, b \in Dests
      <3> TAKE i \in 1..Len(collected'[a]), j \in 1..Len(collected'[b])
      <3>1. \/ a = d /\ i \in 1..Len(queue[a]) /\ collected'[a][i] = queue[a][i]
            \/ a # d /\ i \in 1..Len(collected[a]) /\ collected'[a][i] = collected[a][i]
        BY <1>8
      <3>2. \/ b = d /\ j \in 1..Len(queue[b]) /\ collected'[b][j] = queue[b][j]
            \/ b # d /\ j \in 1..Len(collected[b]) /\ collected'[b][j] = collected[b][j]
        BY <1>8
      <3> QED
        BY SMTT(30), <3>1, <3>2 DEF QueueOnce, CollectedOnce, AtDest, QueuedApart
    <2> QED
      BY <2>1, <2>2, <2>3, <2>4, ZenonT(30) DEF CollectedOnce, AtDest
  <1>13. QueuedApart'
    <2> SUFFICES ASSUME NEW a \in Dests, NEW b \in Dests,
                        NEW i \in 1..Len(queue'[a]), NEW j \in 1..Len(collected'[b])
                 PROVE  queue'[a][i] # collected'[b][j]
      BY DEF QueuedApart
    <2>1. PICK k \in 1..Len(queue[a]) : queue'[a][i] = queue[a][k] /\ k = IF a = d THEN i + n ELSE i
      BY <1>7
    <2>2. CASE b = d /\ j \in 1..n /\ j \in 1..Len(queue[b]) /\ collected'[b][j] = queue[b][j]
      <3>1. queue[a][k] = queue[b][j] => a = b /\ k = j
        BY <2>2 DEF QueueOnce, AtDest
      <3> QED
        BY SMTT(30), <1>1, <2>1, <2>2, <3>1
    <2>3. CASE b # d /\ j \in 1..Len(collected[b]) /\ collected'[b][j] = collected[b][j]
      BY <2>1, <2>3 DEF QueuedApart
    <2> QED
      BY SMTT(30), <1>8, <2>2, <2>3
  <1> QED
    BY <1>6, <1>9, <1>10, <1>11, <1>12, <1>13

(* and its events are free again once the write is over. *)
LEMMA RecycleOwned ==
  ASSUME HubIInv, NEW d \in Dests, Recycle(d), UNCHANGED <<reading, txChan, pushing, queue>>
  PROVE  HubIInv'
  <1> USE DEF HubIInv
  <1>1. /\ pool' = pool \cup Range(collected[d])
        /\ collected' = [collected EXCEPT ![d] = <<>>]
    BY DEF Recycle, putTxEvents
  <1>2. /\ collected[d] \in Seq(Events) /\ collected' \in [Dests -> Seq(Events)]
        /\ collected'[d] = <<>> /\ \A c \in Dests \ {d} : collected'[c] = collected[c]
    BY <1>1 DEF HubTypes
  <1>3. \A e \in pool' : e \in pool \/ \E n \in 1..Len(collected[d]) : e = collected[d][n]
    BY <1>1, <1>2 DEF Range
  <1>4. \A c \in Dests : \A i \in 1..Len(collected'[c]) :
           c # d /\ i \in 1..Len(collected[c]) /\ collected'[c][i] = collected[c][i]
    BY <1>2
  <1>5. HubTypes'
    BY SMTT(30), <1>1, <1>2, <1>3 DEF HubTypes
  <1>6. BeforeRouting'
    BY <1>3 DEF BeforeRouting, CollectedOnce, AtDest
  <1>7. Routed'
    BY <1>3 DEF Routed, CollectedOnce, AtDest
  <1>8. QueueOnce'
    <2>1. ASSUME NEW c \in Dests, NEW i \in 1..Len(queue'[c])
          PROVE  queue'[c][i] \notin pool' /\ queue'[c][i] # reading'
      BY SMTT(30), <1>3 DEF QueueOnce, AtDest, QueuedApart
    <2>2. \A c \in Dests : \A i \in 1..Len(queue'[c]) : \A j \in 1..Len(txChan') : queue'[c][i] # txChan'[j]
      BY SMTT(30) DEF QueueOnce, AtDest
    <2>3. \A c \in Dests : \A i \in 1..Len(queue'[c]) : \A p \in pushing' : queue'[c][i] # p[2]
      BY SMTT(30) DEF QueueOnce, AtDest
    <2>4. \A a, b \in Dests : \A i \in 1..Len(queue'[a]), j \in 1..Len(queue'[b]) :
             queue'[a][i] = queue'[b][j] => a = b /\ i = j
      BY SMTT(30) DEF QueueOnce, AtDest
    <2> QED
      BY <2>1, <2>2, <2>3, <2>4, Zenon DEF QueueOnce, AtDest
  <1>9. CollectedOnce'
    <2>1. ASSUME NEW c \in Dests, NEW i \in 1..Len(collected'[c])
          PROVE  collected'[c][i] \notin pool' /\ collected'[c][i] # reading'
      <3>1. c # d /\ i \in 1..Len(collected[c]) /\ collected'[c][i] = collected[c][i]
        BY Zenon, <1>4
      <3>2. collected[c][i] \notin pool /\ collected[c][i] # reading
        BY Zenon, <3>1 DEF CollectedOnce, AtDest
      <3>3. \A n \in 1..Len(collected[d]) : collected[c][i] # collected[d][n]
        BY Zenon, <3>1 DEF CollectedOnce, AtDest
      <3> QED
        BY Zenon, <1>3, <3>1, <3>2, <3>3
    <2>2. ASSUME NEW c \in Dests, NEW i \in 1..Len(collected'[c]), NEW j \in 1..Len(txChan')
          PROVE  collected'[c][i] # txChan'[j]
      BY <1>4 DEF CollectedOnce, AtDest
    <2>3. ASSUME NEW c \in Dests, NEW i \in 1..Len(collected'[c]), NEW p \in pushing'
          PROVE  collected'[c][i] # p[2]
      BY SMTT(30), <1>4 DEF CollectedOnce, AtDest
    <2>4. \A a, b \in Dests : \A i \in 1..Len(collected'[a]), j \in 1..Len(collected'[b]) :
             collected'[a][i] = collected'[b][j] => a = b /\ i = j
      BY <1>4 DEF CollectedOnce, AtDest
    <2> QED
      BY <2>1, <2>2, <2>3, <2>4, ZenonT(30) DEF CollectedOnce, AtDest
  <1>10. QueuedApart'
    BY <1>4 DEF QueuedApart
  <1> QED
    BY SMTT(30), <1>5, <1>6, <1>7, <1>8, <1>9, <1>10

(* Every step of the hub keeps the invariant. *)
LEMMA HubStepOwned == HubIInv /\ [HubNext]_hubVars => HubIInv'
  <1> SUFFICES ASSUME HubIInv, [HubNext]_hubVars PROVE HubIInv'
    OBVIOUS
  <1>2. CASE Enqueue
    BY <1>2, EnqueueOwned
  <1>3. CASE RouteEvent
    BY <1>3, RouteOwned
  <1>4. ASSUME NEW d \in Dests, NEW e \in Events, Negotiate(d, e) PROVE HubIInv'
    BY <1>4, NegotiateOwned
  <1>5. ASSUME NEW d \in Dests, NEW e \in Events, Push(d, e) PROVE HubIInv'
    BY Zenon, <1>5, PushedOwned DEF Push, CanPush
  <1>6. ASSUME NEW targets, Read(targets) PROVE HubIInv'
    BY <1>6, ReadOwned
  <1>7. ASSUME NEW d \in Dests, Collect(d) PROVE HubIInv'
    BY <1>7, CollectOwned
  <1>8. ASSUME NEW d \in Dests, Written(d) PROVE HubIInv'
    BY <1>8, RecycleOwned DEF Written
  <1>9. ASSUME NEW d \in Dests, WriteFails(d) PROVE HubIInv'
    BY <1>9, RecycleOwned DEF WriteFails
  <1>10. ASSUME NEW d \in Dests, WriteNil(d) \/ Exit(d) \/ Upgrade(d) \/ Withdraw(d) PROVE HubIInv'
    BY <1>10, UnmovedOwned DEF WriteNil, Exit, Upgrade, Withdraw, destVars
  <1>11. CASE Stop
    BY <1>11, UnmovedOwned DEF Stop, destVars
  <1>12. CASE UNCHANGED hubVars
    BY <1>12, UnmovedOwned DEF hubVars
  <1> QED
    BY SMTT(30), <1>2, <1>3, <1>4, <1>5, <1>6, <1>7, <1>8, <1>9, <1>10, <1>11, <1>12
       DEF HubNext, HubStep, DestStep

LEMMA HubInitOwned == HubInit => HubIInv
  BY DEF HubInit, HubIInv, HubTypes, BeforeRouting, Routed, QueueOnce, CollectedOnce, AtDest,
         QueuedApart, NoEvent, Events

(* However reading, routing, negotiations, failed writes, upgrades and      *)
(* withdrawals interleave, and whatever the sizes of batches, queues and    *)
(* pool, an event of the transmit side is in one hand: no loop fills or     *)
(* recycles a buffer that another is still going to write.                  *)
THEOREM TxEventsOwnedOnce == HubSpec => []EventOwnedOnce
  BY HubInitOwned, HubStepOwned, HubIInvOwned, PTL DEF HubSpec

-------------------------------------------------------------------------------
(* s holds packets that were read; those of d, or packets without a route.  *)
AllRead(D, s) == \A i \in 1..Len(s) : s[i] \in 1..Len(D)
OwnOf(D, r, d, s) == \A i \in 1..Len(s) : D[s[i]] = d \/ D[s[i]] \notin r

Buffered(b, D) ==
  b \in [Events -> Seq(Nat)] /\ \A e \in Events : Increasing(b[e]) /\ AllRead(D, b[e])

Logged(w, D) ==
  w \in [Dests -> Seq(Nat)] /\ \A d \in Dests : Increasing(w[d]) /\ AllRead(D, w[d])

PushedTo(d) == {e \in Events : <<d, e>> \in pushing}
InHand == {reading} \ {NoEvent}
Way(d) == Els(collected[d]) \cup Els(queue[d]) \cup PushedTo(d)

Data ==
  /\ dstOf \in Seq(Dests \cup {NoRoute}) /\ Buffered(buffer, dstOf) /\ Logged(writtenTo, dstOf)
  /\ routed \subseteq Dests /\ pushing \subseteq Dests \X Events

InLine ==
  \A d \in Dests :
    Lined(buffer, writtenTo[d], collected[d], queue[d], PushedTo(d), txChan, InHand)

OnePush == \A d \in Dests : \A e, f \in PushedTo(d) : e = f

OwnPackets ==
  \A d \in Dests : /\ OwnOf(dstOf, routed, d, writtenTo[d])
                   /\ \A e \in Way(d) : OwnOf(dstOf, routed, d, buffer[e])

OrderIInv == Data /\ InLine /\ OnePush /\ OwnPackets

LEMMA OwnWithin ==
  ASSUME NEW D, NEW r, NEW q \in SUBSET r, NEW d, NEW s, NEW t, OwnOf(D, r, d, s), Within(t, s)
  PROVE  OwnOf(D, q, d, t)
  BY ZenonT(30) DEF OwnOf, Within

LEMMA KnownWithin ==
  ASSUME NEW D, NEW s, NEW t, AllRead(D, s), Within(t, s)
  PROVE  AllRead(D, t)
  BY Zenon DEF AllRead, Within

(* A step that moves no packet. *)
LEMMA QuietOrdered ==
  ASSUME OrderIInv, routed' \subseteq routed,
         UNCHANGED <<dstOf, buffer, reading, txChan, pushing, queue, collected, writtenTo>>
  PROVE  OrderIInv'
  <1> USE DEF OrderIInv
  <1>1. Data'
    BY DEF Data
  <1>2. InLine' /\ OnePush'
    BY Zenon DEF InLine, OnePush, PushedTo, InHand
  <1>3. OwnPackets'
    BY DEF OwnPackets, OwnOf, Way, PushedTo
  <1> QED
    BY <1>1, <1>2, <1>3

LEMMA EventsOfSeq ==
  ASSUME HubTypes
  PROVE  /\ Els(txChan) \subseteq Events
         /\ \A d \in Dests : Way(d) \subseteq Events
  BY DEF HubTypes, Els, Way, PushedTo

LEMMA EnqueueOrdered ==
  ASSUME HubIInv, OrderIInv, Enqueue PROVE OrderIInv'
  <1> USE DEF OrderIInv
  <1>1. /\ UNCHANGED <<dstOf, buffer, pushing, routed, queue, collected, writtenTo>>
        /\ reading \in Events /\ reading # NoEvent /\ txChan \in Seq(Events)
        /\ reading' = NoEvent /\ txChan' = Append(txChan, reading)
    BY DEF Enqueue, destVars, HubIInv, HubTypes
  <1>2. Data' /\ OnePush' /\ OwnPackets'
    BY Zenon, <1>1 DEF Data, OnePush, OwnPackets, Way, PushedTo
  <1>3. InHand = {reading} /\ InHand' = {}
    BY <1>1 DEF InHand
  <1>4. ASSUME NEW d \in Dests
        PROVE  Lined(buffer, writtenTo[d], collected[d], queue[d], PushedTo(d), Append(txChan, reading), {})
    <2>1. Lined(buffer, writtenTo[d], collected[d], queue[d], PushedTo(d), txChan, {reading})
      BY Zenon, <1>3 DEF InLine
    <2> QED
      BY <1>1, <2>1, LinedEnqueue
  <1>5. InLine'
    BY Zenon, <1>1, <1>3, <1>4 DEF InLine, PushedTo
  <1> QED
    BY <1>2, <1>5

LEMMA PushedOrdered ==
  ASSUME HubIInv, OrderIInv, NEW d \in Dests, NEW e \in Events, <<d, e>> \in pushing,
         UNCHANGED <<dstOf, buffer, reading, txChan, routed, collected, writtenTo>>,
         pushing' = pushing \ {<<d, e>>}, queue' = [queue EXCEPT ![d] = Append(@, e)]
  PROVE  OrderIInv'
  <1> USE DEF OrderIInv
  <1>1. /\ queue[d] \in Seq(Events) /\ queue'[d] = Append(queue[d], e)
        /\ \A c \in Dests \ {d} : queue'[c] = queue[c]
    BY DEF HubIInv, HubTypes
  <1>2. PushedTo(d) = {e}
    BY DEF OnePush, PushedTo
  <1>3. PushedTo(d)' = {} /\ \A c \in Dests \ {d} : PushedTo(c)' = PushedTo(c)
    BY <1>2 DEF PushedTo
  <1>4. ASSUME NEW c \in Dests
        PROVE  Lined(buffer, writtenTo[c], collected[c], queue'[c], PushedTo(c)', txChan, InHand)
    <2>1. Lined(buffer, writtenTo[c], collected[c], queue[c], PushedTo(c), txChan, InHand)
      BY Zenon DEF InLine
    <2>2. CASE c = d
      <3>1. Lined(buffer, writtenTo[d], collected[d], queue[d], {e}, txChan, InHand)
        BY Zenon, <1>2, <2>1, <2>2
      <3>2. Lined(buffer, writtenTo[d], collected[d], Append(queue[d], e), {}, txChan, InHand)
        BY <1>1, <3>1, LinedPush
      <3> QED
        BY Zenon, <1>1, <1>3, <2>2, <3>2
    <2>3. CASE c # d
      BY Zenon, <1>1, <1>3, <2>1, <2>3
    <2> QED
      BY <2>2, <2>3
  <1>5. InLine'
    BY Zenon, <1>4 DEF InLine, InHand
  <1>6. Data' /\ OnePush'
    BY DEF Data, OnePush, PushedTo
  <1>7. ASSUME NEW c \in Dests PROVE Way(c)' \subseteq Way(c)
    <2>1. CASE c = d
      <3>1. Els(queue'[d]) = Els(queue[d]) \cup {e}
        BY <1>1 DEF Els
      <3> QED
        BY <1>2, <1>3, <2>1, <3>1 DEF Way
    <2>2. CASE c # d
      BY <1>1, <1>3, <2>2 DEF Way
    <2> QED
      BY <2>1, <2>2
  <1>8. OwnPackets'
    BY Zenon, <1>7 DEF OwnPackets
  <1> QED
    BY <1>5, <1>6, <1>8

LEMMA CollectOrdered ==
  ASSUME HubIInv, OrderIInv, NEW d \in Dests, Collect(d) PROVE OrderIInv'
  <1> USE DEF OrderIInv
  <1>1. PICK n \in 1..Len(queue[d]) : n = Taken(d)
    BY TakenSome DEF Collect, CanCollect, HubIInv
  <1>2. /\ UNCHANGED <<dstOf, buffer, reading, txChan, pushing, routed, writtenTo>>
        /\ collected[d] = <<>>
        /\ collected' = [collected EXCEPT ![d] = SubSeq(queue[d], 1, n)]
        /\ queue' = [queue EXCEPT ![d] = SubSeq(queue[d], n + 1, Len(queue[d]))]
    BY <1>1 DEF Collect, CanCollect, TakeEvents
  <1>3. /\ queue \in [Dests -> Seq(Events)] /\ collected \in [Dests -> Seq(Events)]
    BY DEF HubIInv, HubTypes
  <1>4. /\ collected'[d] = SubSeq(queue[d], 1, n)
        /\ queue'[d] = SubSeq(queue[d], n + 1, Len(queue[d]))
        /\ \A c \in Dests \ {d} : collected'[c] = collected[c] /\ queue'[c] = queue[c]
    BY Zenon, <1>2, <1>3
  <1>5. ASSUME NEW c \in Dests
        PROVE  Lined(buffer, writtenTo[c], collected'[c], queue'[c], PushedTo(c), txChan, InHand)
    <2>1. Lined(buffer, writtenTo[c], collected[c], queue[c], PushedTo(c), txChan, InHand)
      BY Zenon DEF InLine
    <2>2. CASE c = d
      <3>1. Lined(buffer, writtenTo[d], <<>>, queue[d], PushedTo(d), txChan, InHand)
        BY Zenon, <1>2, <2>1, <2>2
      <3>2. queue[d] \in Seq(Events)
        BY <1>3
      <3>3. Lined(buffer, writtenTo[d], SubSeq(queue[d], 1, n), SubSeq(queue[d], n + 1, Len(queue[d])),
                  PushedTo(d), txChan, InHand)
        BY <3>1, <3>2, LinedCollect
      <3> QED
        BY Zenon, <1>4, <2>2, <3>3
    <2>3. CASE c # d
      BY Zenon, <1>4, <2>1, <2>3
    <2> QED
      BY <2>2, <2>3
  <1>6. InLine'
    BY Zenon, <1>2, <1>5 DEF InLine, InHand, PushedTo
  <1>7. Data' /\ OnePush'
    BY Zenon, <1>2 DEF Data, OnePush, PushedTo
  <1>8. ASSUME NEW c \in Dests PROVE Way(c)' \subseteq Way(c)
    <2>1. PushedTo(c)' = PushedTo(c)
      BY <1>2 DEF PushedTo
    <2>2. CASE c = d
      <3>1. queue[d] \in Seq(Events) /\ Len(queue[d]) \in Nat
        BY <1>3
      <3>2. Els(SubSeq(queue[d], 1, n)) \subseteq Els(queue[d])
        BY <3>1 DEF Els
      <3>3. Els(SubSeq(queue[d], n + 1, Len(queue[d]))) \subseteq Els(queue[d])
        BY <3>1 DEF Els
      <3> QED
        BY ZenonT(30), <1>4, <2>1, <2>2, <3>2, <3>3 DEF Way
    <2>3. CASE c # d
      BY <1>4, <2>1, <2>3 DEF Way
    <2> QED
      BY <2>2, <2>3
  <1>9. OwnPackets'
    BY Zenon, <1>2, <1>8 DEF OwnPackets
  <1> QED
    BY <1>6, <1>7, <1>9

(* Events that are recycled lose their packets. *)
LEMMA EmptiedWithin ==
  ASSUME Data, NEW evs, buffer' = [e \in Events |-> IF e \in evs THEN <<>> ELSE buffer[e]]
  PROVE  Buffered(buffer', dstOf) /\ \A e \in Events : Within(buffer'[e], buffer[e])
  <1>1. Buffered(buffer, dstOf)
    BY DEF Data
  <1>2. \A e \in Events : buffer'[e] = <<>> \/ buffer'[e] = buffer[e]
    OBVIOUS
  <1>3. buffer' \in [Events -> Seq(Nat)]
    BY <1>1 DEF Buffered
  <1>4. Increasing(<<>>) /\ AllRead(dstOf, <<>>)
    BY DEF Increasing, AllRead
  <1>5. \A e \in Events : Increasing(buffer'[e]) /\ AllRead(dstOf, buffer'[e])
    BY Zenon, <1>1, <1>2, <1>4 DEF Buffered
  <1>6. \A e \in Events : Within(buffer'[e], buffer[e])
    BY Zenon, <1>2, WithinSame, WithinEmpty
  <1> QED
    BY <1>3, <1>5, <1>6 DEF Buffered

LEMMA NegotiateOrdered ==
  ASSUME HubIInv, OrderIInv, NEW d \in Dests, NEW e \in Events, Negotiate(d, e) PROVE OrderIInv'
  <1>1. /\ <<d, e>> \in pushing
        /\ UNCHANGED <<dstOf, reading, txChan, collected, routed, writtenTo>>
    BY DEF Negotiate, CanNegotiate
  <1>2. CASE UNCHANGED <<pushing, buffer, queue>>
    BY <1>1, <1>2, QuietOrdered
  <1>3. CASE /\ pushing' = pushing \ {<<d, e>>} /\ UNCHANGED queue
             /\ buffer' = [f \in Events |-> IF f \in {e} THEN <<>> ELSE buffer[f]]
    <2> USE DEF OrderIInv
    <2>1. Buffered(buffer', dstOf) /\ \A f \in Events : Within(buffer'[f], buffer[f])
      BY Zenon, <1>3, EmptiedWithin
    <2>2. Data'
      BY <1>1, <1>3, <2>1 DEF Data
    <2>3. \A c \in Dests : PushedTo(c)' \in SUBSET PushedTo(c)
      BY <1>3 DEF PushedTo
    <2>4. OnePush'
      BY <2>3 DEF OnePush
    <2>5. InHand \subseteq Events /\ InHand' = InHand
      BY <1>1 DEF InHand, HubIInv, HubTypes
    <2>6. ASSUME NEW c \in Dests
          PROVE  Lined(buffer', writtenTo[c], collected[c], queue[c], PushedTo(c)', txChan, InHand)
      <3>1. Els(collected[c]) \cup Els(queue[c]) \cup PushedTo(c)' \cup Els(txChan) \cup InHand \subseteq Events
        BY <2>3, <2>5, EventsOfSeq DEF Way, HubIInv
      <3>2. Lined(buffer, writtenTo[c], collected[c], queue[c], PushedTo(c), txChan, InHand)
        BY Zenon DEF InLine
      <3>3. \A f \in Els(collected[c]) \cup Els(queue[c]) \cup PushedTo(c)' \cup Els(txChan) \cup InHand :
              Within(buffer'[f], buffer[f])
        BY <2>1, <3>1
      <3> QED
        BY Zenon, <2>3, <3>2, <3>3, LinedShrinks
    <2>7. InLine'
      BY Zenon, <1>1, <1>3, <2>5, <2>6 DEF InLine
    <2>8. ASSUME NEW c \in Dests, NEW f \in Way(c)' PROVE OwnOf(dstOf, routed, c, buffer'[f])
      <3>1. f \in Way(c) /\ f \in Events
        BY <1>1, <1>3, <2>3, EventsOfSeq DEF Way, HubIInv
      <3>2. routed \in SUBSET routed /\ Within(buffer'[f], buffer[f]) /\ OwnOf(dstOf, routed, c, buffer[f])
        BY <2>1, <3>1 DEF OwnPackets
      <3> QED
        BY ZenonT(30), <3>2, OwnWithin
    <2>9. OwnPackets'
      BY Zenon, <1>1, <2>8 DEF OwnPackets
    <2> QED
      BY <2>2, <2>4, <2>7, <2>9
  <1>4. CASE /\ pushing' = pushing \ {<<d, e>>} /\ queue' = [queue EXCEPT ![d] = Append(@, e)]
             /\ UNCHANGED buffer
    BY Zenon, <1>1, <1>4, PushedOrdered
  <1> QED
    BY <1>2, <1>3, <1>4 DEF Negotiate, putTxEvents

(* The packets of the events that d's loop has collected. *)
LEMMA PacketsCollected ==
  ASSUME HubTypes, OrderIInv, NEW d \in Dests, NEW w, w = PacketsOf(collected[d])
  PROVE  w \in Seq(Nat) /\ Increasing(w) /\ Drawn(w, buffer, Els(collected[d]))
  <1> DEFINE evs == collected[d]
             ss == [i \in DOMAIN evs |-> buffer[evs[i]]]
  <1>1. evs \in Seq(Events) /\ DOMAIN evs = 1..Len(evs) /\ Len(evs) \in Nat
    BY DEF HubTypes
  <1>2. \A i \in 1..Len(evs) : evs[i] \in Events /\ evs[i] \in Els(evs)
    BY <1>1 DEF Els
  <1>3. buffer \in [Events -> Seq(Nat)] /\ \A e \in Events : Increasing(buffer[e])
    BY DEF OrderIInv, Data, Buffered
  <1>4. Sorted(buffer, evs)
    <2>1. Lined(buffer, writtenTo[d], evs, queue[d], PushedTo(d), txChan, InHand)
      BY Zenon DEF OrderIInv, InLine
    <2> QED
      BY Zenon, <2>1 DEF Lined
  <1> HIDE DEF evs
  <1>5. /\ ss \in Seq(Seq(Nat)) /\ Len(ss) = Len(evs)
        /\ \A i \in 1..Len(ss) : ss[i] = buffer[evs[i]]
    BY <1>1, <1>2, <1>3
  <1>6. w = Joined(ss)
    BY Zenon DEF PacketsOf, evs
  <1> HIDE DEF ss
  <1>7. /\ \A i \in 1..Len(ss) : Increasing(ss[i])
        /\ \A i, j \in 1..Len(ss) : i < j => AllLess(ss[i], ss[j])
    BY Zenon, <1>2, <1>3, <1>4, <1>5 DEF Sorted
  <1>8. w \in Seq(Nat) /\ Increasing(w)
    BY <1>5, <1>6, <1>7, JoinedFrom, JoinedIncreasing
  <1>9. Drawn(w, buffer, Els(evs))
    <2> SUFFICES ASSUME NEW k \in 1..Len(w)
                 PROVE  \E e \in Els(evs) : \E i \in 1..Len(buffer[e]) : w[k] = buffer[e][i]
      BY DEF Drawn
    <2>1. \A m \in 1..Len(Joined(ss)) :
            \E n \in 1..Len(ss) : \E i \in 1..Len(ss[n]) : Joined(ss)[m] = ss[n][i]
      BY Zenon, <1>5, JoinedFrom
    <2>2. PICK n \in 1..Len(ss) : \E i \in 1..Len(ss[n]) : w[k] = ss[n][i]
      BY Zenon, <1>6, <2>1
    <2>3. evs[n] \in Els(evs) /\ ss[n] = buffer[evs[n]]
      BY Zenon, <1>2, <1>5
    <2> QED
      BY Zenon, <2>2, <2>3
  <1> QED
    BY <1>8, <1>9 DEF evs

(* One write takes a first part of them. *)
LEMMA OneWritePart ==
  ASSUME HubAssumption, NEW w \in Seq(Nat), Increasing(w)
  PROVE  OneWrite(w) \in Seq(Nat) /\ Increasing(OneWrite(w)) /\ Within(OneWrite(w), w)
  <1> DEFINE n == IF Len(w) < MaxTxEventBuf THEN Len(w) ELSE MaxTxEventBuf
             u == SubSeq(w, 1, n)
  <1>1. n \in 0..Len(w) /\ Len(w) \in Nat
    BY DEF HubAssumption
  <1> HIDE DEF n
  <1>2. /\ u \in Seq(Nat) /\ Len(u) = n
        /\ \A i \in 1..n : u[i] = w[i] /\ i \in 1..Len(w)
    BY <1>1
  <1>3. OneWrite(w) = u
    BY DEF OneWrite, n
  <1> HIDE DEF u
  <1> QED
    BY Zenon, <1>2, <1>3 DEF Increasing, Within

(* The events of a write that is over, after writing w of them. *)
LEMMA RecycleOrdered ==
  ASSUME HubIInv, OrderIInv, NEW d \in Dests, Recycle(d), NEW w \in Seq(Nat), Increasing(w),
         Drawn(w, buffer, Els(collected[d])),
         writtenTo' = [writtenTo EXCEPT ![d] = @ \o w],
         UNCHANGED <<dstOf, reading, txChan, pushing, routed, queue>>
  PROVE  OrderIInv'
  <1> USE DEF OrderIInv
  <1>1. /\ collected' = [collected EXCEPT ![d] = <<>>]
        /\ buffer' = [f \in Events |-> IF f \in Range(collected[d]) THEN <<>> ELSE buffer[f]]
    BY DEF Recycle, putTxEvents
  <1>2. Buffered(buffer', dstOf) /\ \A f \in Events : Within(buffer'[f], buffer[f])
    BY Zenon, <1>1, EmptiedWithin
  <1>3. /\ collected \in [Dests -> Seq(Events)]
        /\ writtenTo \in [Dests -> Seq(Nat)]
        /\ \A c \in Dests : Increasing(writtenTo[c]) /\ AllRead(dstOf, writtenTo[c])
    BY DEF HubIInv, HubTypes, Data, Logged
  <1>4. /\ collected'[d] = <<>> /\ writtenTo'[d] = writtenTo[d] \o w
        /\ \A c \in Dests \ {d} : collected'[c] = collected[c] /\ writtenTo'[c] = writtenTo[c]
    BY Zenon, <1>1, <1>3
  <1>5. /\ \A c \in Dests : PushedTo(c)' = PushedTo(c)
        /\ InHand' = InHand /\ InHand \subseteq Events
    BY DEF PushedTo, InHand, HubIInv, HubTypes
  <1>6. /\ Lined(buffer, writtenTo[d] \o w, <<>>, queue[d], PushedTo(d), txChan, InHand)
        /\ Increasing(writtenTo[d] \o w)
    <2>1. Lined(buffer, writtenTo[d], collected[d], queue[d], PushedTo(d), txChan, InHand)
      BY Zenon DEF InLine
    <2>2. writtenTo[d] \in Seq(Nat) /\ Increasing(writtenTo[d])
      BY <1>3
    <2> QED
      BY Zenon, <2>1, <2>2, LinedWritten
  <1>7. ASSUME NEW c \in Dests
        PROVE  Lined(buffer, writtenTo'[c], collected'[c], queue[c], PushedTo(c), txChan, InHand)
    BY Zenon, <1>4, <1>6 DEF InLine
  <1>8. \A c \in Dests : Els(collected'[c]) \subseteq Els(collected[c])
    <2>1. Els(<<>>) = {}
      BY DEF Els
    <2> QED
      BY <1>4, <2>1
  <1>9. ASSUME NEW c \in Dests
        PROVE  Lined(buffer', writtenTo'[c], collected'[c], queue[c], PushedTo(c), txChan, InHand)
    <2>1. Els(collected'[c]) \cup Els(queue[c]) \cup PushedTo(c) \cup Els(txChan) \cup InHand \subseteq Events
      BY ZenonT(30), <1>5, <1>8, EventsOfSeq DEF Way, HubIInv
    <2>2. \A f \in Els(collected'[c]) \cup Els(queue[c]) \cup PushedTo(c) \cup Els(txChan) \cup InHand :
            Within(buffer'[f], buffer[f])
      BY <1>2, <2>1
    <2>3. PushedTo(c) \in SUBSET PushedTo(c)
      OBVIOUS
    <2> QED
      BY Zenon, <1>7, <2>2, <2>3, LinedShrinks
  <1>10. InLine'
    BY Zenon, <1>5, <1>9 DEF InLine
  <1>11. Within(w, w) /\ AllRead(dstOf, w) /\ OwnOf(dstOf, routed, d, w)
    <2>1. ASSUME NEW k \in 1..Len(w)
          PROVE  w[k] \in 1..Len(dstOf) /\ (dstOf[w[k]] = d \/ dstOf[w[k]] \notin routed)
      <3>1. PICK e \in Els(collected[d]) : \E i \in 1..Len(buffer[e]) : w[k] = buffer[e][i]
        BY Zenon DEF Drawn
      <3>2. e \in Events /\ e \in Way(d)
        BY EventsOfSeq DEF Way, HubIInv
      <3>3. AllRead(dstOf, buffer[e]) /\ OwnOf(dstOf, routed, d, buffer[e])
        BY <3>2 DEF Data, Buffered, OwnPackets
      <3> QED
        BY Zenon, <3>1, <3>3 DEF AllRead, OwnOf
    <2> QED
      BY <2>1, WithinSame DEF AllRead, OwnOf
  <1>12. AllRead(dstOf, writtenTo[d] \o w) /\ OwnOf(dstOf, routed, d, writtenTo[d] \o w)
    <2>1. writtenTo[d] \in Seq(Nat) /\ AllRead(dstOf, writtenTo[d]) /\ OwnOf(dstOf, routed, d, writtenTo[d])
      BY <1>3 DEF OwnPackets
    <2>2. Pieces(writtenTo[d] \o w, writtenTo[d], w)
      BY <2>1, ConcatPieces
    <2>3. AllRead(dstOf, writtenTo[d] \o w)
      BY Zenon, <1>11, <2>1, <2>2 DEF Pieces, AllRead
    <2>4. OwnOf(dstOf, routed, d, writtenTo[d] \o w)
      BY Zenon, <1>11, <2>1, <2>2 DEF Pieces, OwnOf
    <2> QED
      BY ZenonT(30), <2>3, <2>4
  <1>13. Logged(writtenTo', dstOf)
    <2>1. writtenTo' \in [Dests -> Seq(Nat)]
      BY <1>3
    <2> QED
      BY Zenon, <1>3, <1>4, <1>6, <1>12, <2>1 DEF Logged
  <1>14. Data' /\ OnePush'
    BY Zenon, <1>2, <1>5, <1>13 DEF Data, OnePush
  <1>15. ASSUME NEW c \in Dests, NEW f \in Way(c)' PROVE OwnOf(dstOf, routed, c, buffer'[f])
    <2>1. f \in Way(c) /\ f \in Events
      BY ZenonT(30), <1>5, <1>8, EventsOfSeq DEF Way, HubIInv
    <2>2. routed \in SUBSET routed /\ Within(buffer'[f], buffer[f]) /\ OwnOf(dstOf, routed, c, buffer[f])
      BY <1>2, <2>1 DEF OwnPackets
    <2> QED
      BY Zenon, <2>2, OwnWithin
  <1>16. OwnPackets'
    BY Zenon, <1>4, <1>12, <1>15 DEF OwnPackets
  <1> QED
    BY <1>10, <1>14, <1>16

LEMMA WrittenOrdered ==
  ASSUME HubIInv, OrderIInv, NEW d \in Dests, Written(d) PROVE OrderIInv'
  <1> DEFINE v == PacketsOf(collected[d])
             w == OneWrite(v)
  <1>1. v \in Seq(Nat) /\ Increasing(v) /\ Drawn(v, buffer, Els(collected[d]))
    BY Zenon, PacketsCollected DEF HubIInv
  <1>2. writtenTo' = [writtenTo EXCEPT ![d] = @ \o w]
    BY Zenon DEF Written
  <1> HIDE DEF v
  <1>3. w \in Seq(Nat) /\ Increasing(w) /\ Within(w, v)
    BY Zenon, <1>1, HubAssumption, OneWritePart
  <1> HIDE DEF w
  <1>4. Drawn(w, buffer, Els(collected[d]))
    BY ZenonT(30), <1>1, <1>3, DrawnWithin
  <1>5. Recycle(d) /\ UNCHANGED <<dstOf, reading, txChan, pushing, routed, queue>>
    BY DEF Written
  <1> QED
    BY Zenon, <1>2, <1>3, <1>4, <1>5, RecycleOrdered

LEMMA WriteFailsOrdered ==
  ASSUME HubIInv, OrderIInv, NEW d \in Dests, WriteFails(d) PROVE OrderIInv'
  <1> DEFINE w == <<>>
  <1>1. writtenTo \in [Dests -> Seq(Nat)] /\ writtenTo' = writtenTo
    BY DEF WriteFails, OrderIInv, Data, Logged
  <1>2. writtenTo[d] \o w = writtenTo[d]
    BY <1>1
  <1>3. writtenTo' = [writtenTo EXCEPT ![d] = @ \o w]
    BY Zenon, <1>1, <1>2
  <1>4. Recycle(d) /\ UNCHANGED <<dstOf, reading, txChan, pushing, routed, queue>>
    BY DEF WriteFails
  <1>5. w \in Seq(Nat) /\ Increasing(w) /\ 1..Len(w) = {}
    BY DEF Increasing
  <1> HIDE DEF w
  <1>6. Drawn(w, buffer, Els(collected[d]))
    BY Zenon, <1>5 DEF Drawn
  <1> QED
    BY Zenon, <1>3, <1>4, <1>5, <1>6, RecycleOrdered

(* A free event is on nobody's way. *)
LEMMA PoolApart ==
  ASSUME HubIInv, NEW e \in pool
  PROVE  e \notin InHand /\ e \notin Els(txChan) /\ \A d \in Dests : e \notin Way(d)
  <1> USE DEF HubIInv
  <1>1. e \notin InHand
    BY DEF InHand, BeforeRouting
  <1>2. e \notin Els(txChan)
    BY DEF Els, BeforeRouting
  <1>3. ASSUME NEW d \in Dests PROVE e \notin Els(queue[d]) /\ e \notin Els(collected[d])
    BY DEF Els, QueueOnce, CollectedOnce, AtDest
  <1>4. ASSUME NEW d \in Dests PROVE e \notin PushedTo(d)
    BY DEF PushedTo, Routed
  <1> QED
    BY <1>1, <1>2, <1>3, <1>4 DEF Way

(* Read takes the packets that come next. *)
LEMMA ReadOrdered ==
  ASSUME HubIInv, OrderIInv, NEW targets \in Seq(Dests \cup {NoRoute}), Read(targets)
  PROVE  OrderIInv'
  <1> USE DEF OrderIInv
  <1> DEFINE v == [i \in DOMAIN targets |-> Len(dstOf) + i]
             N == Len(dstOf)
             D == dstOf \o targets
  <1>1. PICK e \in pool : reading' = e /\ buffer' = [buffer EXCEPT ![e] = v]
    BY Zenon DEF Read, Get
  <1>2. /\ UNCHANGED <<txChan, pushing, routed, queue, collected, writtenTo>>
        /\ reading = NoEvent /\ dstOf' = D
    BY DEF Read, destVars
  <1>3. e \in Events /\ e # NoEvent /\ dstOf \in Seq(Dests \cup {NoRoute}) /\ N \in Nat
    BY DEF HubIInv, HubTypes, Events, NoEvent, Data
  <1>4. /\ D \in Seq(Dests \cup {NoRoute}) /\ Len(D) = N + Len(targets) /\ Len(targets) \in Nat
        /\ \A k \in 1..N : k \in 1..Len(D) /\ D[k] = dstOf[k]
    BY <1>3
  <1>5. /\ v \in Seq(Nat) /\ Len(v) = Len(targets)
        /\ \A i \in 1..Len(v) : v[i] = N + i
    BY <1>3
  <1> HIDE DEF v, D
  <1>6. Increasing(v) /\ AllRead(D, v)
    BY <1>3, <1>4, <1>5 DEF Increasing, AllRead
  <1>7. ASSUME NEW s, AllRead(dstOf, s) PROVE AllRead(D, s) /\ AllLess(s, v)
    <2>1. AllRead(D, s)
      BY Zenon, <1>4, <1>7 DEF AllRead
    <2>2. ASSUME NEW i \in 1..Len(s), NEW j \in 1..Len(v) PROVE s[i] < v[j]
      BY <1>3, <1>5, <1>7 DEF AllRead
    <2> QED
      BY <2>1, <2>2 DEF AllLess
  <1>8. ASSUME NEW s, AllRead(dstOf, s), NEW d, OwnOf(dstOf, routed, d, s) PROVE OwnOf(D, routed, d, s)
    BY Zenon, <1>4, <1>8 DEF AllRead, OwnOf
  <1>9. /\ buffer \in [Events -> Seq(Nat)] /\ writtenTo \in [Dests -> Seq(Nat)]
        /\ \A f \in Events : Increasing(buffer[f]) /\ AllRead(dstOf, buffer[f])
        /\ \A d \in Dests : Increasing(writtenTo[d]) /\ AllRead(dstOf, writtenTo[d])
    BY DEF Data, Buffered, Logged
  <1>10. buffer'[e] = v /\ \A f \in Events \ {e} : buffer'[f] = buffer[f]
    BY Zenon, <1>1, <1>3, <1>9
  <1>11. Buffered(buffer', D)
    <2>1. buffer' \in [Events -> Seq(Nat)]
      BY Zenon, <1>1, <1>5, <1>9
    <2> QED
      BY Zenon, <1>6, <1>7, <1>9, <1>10, <2>1 DEF Buffered
  <1>12. Logged(writtenTo, D)
    BY Zenon, <1>7, <1>9 DEF Logged
  <1>13. Data'
    BY <1>2, <1>4, <1>11, <1>12 DEF Data
  <1>14. \A d \in Dests : PushedTo(d)' = PushedTo(d) /\ Way(d)' = Way(d)
    BY Zenon, <1>2 DEF PushedTo, Way
  <1>15. OnePush'
    BY Zenon, <1>14 DEF OnePush
  <1>16. InHand = {} /\ InHand' = {e}
    BY <1>1, <1>2, <1>3 DEF InHand
  <1>17. /\ \A f \in Els(txChan) : f \in Events \ {e}
         /\ \A d \in Dests : \A f \in Way(d) : f \in Events \ {e}
    BY PoolApart, EventsOfSeq DEF HubIInv
  <1>18. ASSUME NEW d \in Dests
         PROVE  Lined(buffer', writtenTo[d], collected[d], queue[d], PushedTo(d), txChan, {e})
    <2>1. Lined(buffer, writtenTo[d], collected[d], queue[d], PushedTo(d), txChan, {})
      BY Zenon, <1>16 DEF InLine
    <2>2. \A f \in Els(collected[d]) \cup Els(queue[d]) \cup PushedTo(d) \cup Els(txChan) : f \in Events \ {e}
      BY <1>17 DEF Way
    <2>3. \A f \in Els(collected[d]) \cup Els(queue[d]) \cup PushedTo(d) \cup Els(txChan) :
            buffer'[f] = buffer[f] /\ AllLess(buffer[f], buffer'[e])
      BY <1>7, <1>9, <1>10, <2>2
    <2>4. AllLess(writtenTo[d], buffer'[e])
      BY <1>7, <1>9, <1>10
    <2> QED
      BY Zenon, <2>1, <2>3, <2>4, LinedRead
  <1>19. InLine'
    BY Zenon, <1>2, <1>14, <1>16, <1>18 DEF InLine
  <1>20. OwnPackets'
    <2>1. ASSUME NEW d \in Dests, NEW f \in Way(d) PROVE OwnOf(D, routed, d, buffer'[f])
      <3>1. f \in Events /\ buffer'[f] = buffer[f]
        BY <1>10, <1>17
      <3> QED
        BY Zenon, <1>8, <1>9, <3>1 DEF OwnPackets
    <2>2. ASSUME NEW d \in Dests PROVE OwnOf(D, routed, d, writtenTo[d])
      BY Zenon, <1>8, <1>9 DEF OwnPackets
    <2> QED
      BY Zenon, <1>2, <1>14, <2>1, <2>2 DEF OwnPackets
  <1> QED
    BY <1>13, <1>15, <1>19, <1>20

(* RouteBatch keeps exactly the packets that have a route. *)
LEMMA ValidPackets ==
  ASSUME Data, NEW e \in Events, NEW valid, valid = ValidRoutes(e)
  PROVE  /\ valid \in Seq(Nat) /\ Increasing(valid) /\ Within(valid, buffer[e])
         /\ \A k \in 1..Len(valid) : dstOf[valid[k]] \in routed
         /\ \A i \in 1..Len(buffer[e]) :
              dstOf[buffer[e][i]] \in routed => \E k \in 1..Len(valid) : valid[k] = buffer[e][i]
  <1> DEFINE s == buffer[e]
             S == {p \in Range(s) : dstOf[p] \in routed}
  <1>1. s \in Seq(Nat) /\ Increasing(s)
    BY DEF Data, Buffered
  <1>2. valid = Among(s, S)
    BY DEF ValidRoutes
  <1>3. \A i \in 1..Len(s) : s[i] \in S <=> dstOf[s[i]] \in routed
    BY <1>1 DEF Range
  <1> HIDE DEF s, S
  <1>4. /\ valid \in Seq(Nat) /\ Increasing(valid)
        /\ \A k \in 1..Len(valid) : \E n \in 1..Len(s) : s[n] \in S /\ valid[k] = s[n]
    <2>1. /\ Among(s, S) \in Seq(Nat)
          /\ \A k \in 1..Len(Among(s, S)) :
               \E n \in 1..Len(s) : s[n] \in S /\ Among(s, S)[k] = s[n]
          /\ Increasing(s) => Increasing(Among(s, S))
      BY <1>1, AmongFrom
    <2> QED
      BY Zenon, <1>1, <1>2, <2>1
  <1>5. \A i \in 1..Len(s) : s[i] \in S => \E k \in 1..Len(valid) : valid[k] = s[i]
    <2>1. ASSUME NEW n \in 1..Len(s), s[n] \in S
          PROVE  \E k \in 1..Len(Among(s, S)) : Among(s, S)[k] = s[n]
      BY <1>1, <2>1, AmongAll
    <2> QED
      BY Zenon, <1>2, <2>1
  <1>6. Within(valid, s) /\ \A k \in 1..Len(valid) : dstOf[valid[k]] \in routed
    BY Zenon, <1>3, <1>4 DEF Within
  <1> QED
    BY Zenon, <1>3, <1>4, <1>5, <1>6 DEF s

(* The event at the head of the hub's channel goes on, in whole or in parts *)
(* for each destination.                                                    *)
LEMMA RouteOrdered ==
  ASSUME HubIInv, OrderIInv, RouteEvent PROVE OrderIInv'
  <1> USE DEF OrderIInv
  <1>1. /\ UNCHANGED <<dstOf, reading, routed, queue, collected, writtenTo>> /\ pushing = {}
        /\ txChan # <<>> /\ txChan' = Tail(txChan) /\ txChan \in Seq(Events)
    BY DEF RouteEvent, destVars, HubIInv, HubTypes
  <1>2. PICK e : e = Head(txChan)
    OBVIOUS
  <1>3. /\ e \in Events /\ e \in Els(txChan) /\ e \notin pool
        /\ Els(Tail(txChan)) \subseteq Els(txChan)
    <2>1. e = txChan[1] /\ 1 \in 1..Len(txChan)
      BY <1>1, <1>2
    <2>2. e \in Events /\ e \in Els(txChan)
      BY <1>1, <2>1 DEF Els
    <2>3. \A i \in 1..Len(Tail(txChan)) : Tail(txChan)[i] = txChan[i + 1] /\ i + 1 \in 1..Len(txChan)
      BY <1>1
    <2>4. Els(Tail(txChan)) \subseteq Els(txChan)
      BY Zenon, <2>3 DEF Els
    <2> QED
      BY <2>2, <2>4, PoolApart
  <1>4. \A d \in Dests : PushedTo(d) = {}
    BY <1>1 DEF PushedTo
  <1>5. InHand' = InHand /\ InHand \subseteq Events
    BY <1>1 DEF InHand, HubIInv, HubTypes
  <1>6. PICK valid : valid = ValidRoutes(e)
    OBVIOUS
  <1>7. /\ valid \in Seq(Nat) /\ Increasing(valid) /\ Within(valid, buffer[e])
        /\ \A k \in 1..Len(valid) : dstOf[valid[k]] \in routed
        /\ \A i \in 1..Len(buffer[e]) :
             dstOf[buffer[e][i]] \in routed => \E k \in 1..Len(valid) : valid[k] = buffer[e][i]
    BY ZenonT(30), <1>3, <1>6, ValidPackets
  <1>8. routed \subseteq Dests /\ Buffered(buffer, dstOf)
    BY DEF Data
  <1>9. ASSUME Buffered(buffer', dstOf), pushing' \subseteq Dests \X Events, OnePush',
               \A f \in Events \ {e} : f \notin pool => Within(buffer'[f], buffer[f]),
               \A d \in Dests : \A f \in PushedTo(d)' :
                 Within(buffer'[f], buffer[e]) /\ OwnOf(dstOf, routed, d, buffer'[f])
        PROVE  OrderIInv'
    <2>1. Data'
      BY <1>1, <1>9 DEF Data
    <2>2. ASSUME NEW f, f \in InHand \/ f \in Els(Tail(txChan)) \/ \E d \in Dests : f \in Way(d)
          PROVE  Within(buffer'[f], buffer[f])
      <3>1. f \in Events /\ f \notin pool
        BY <1>3, <1>5, <2>2, PoolApart, EventsOfSeq DEF HubIInv
      <3>2. f # e
        <4>1. CASE f \in InHand
          BY <1>1, <1>2, <4>1 DEF InHand, HubIInv, BeforeRouting
        <4>2. CASE f \in Els(Tail(txChan))
          <5>1. PICK i \in 1..Len(Tail(txChan)) : f = Tail(txChan)[i]
            BY <4>2 DEF Els
          <5>2. f = txChan[i + 1] /\ i + 1 \in 1..Len(txChan) /\ e = txChan[1] /\ 1 \in 1..Len(txChan) /\ i + 1 # 1
            BY <1>1, <1>2, <5>1
          <5> QED
            BY Zenon, <5>2 DEF HubIInv, BeforeRouting
        <4>3. ASSUME NEW d \in Dests, f \in Way(d) PROVE f # e
          <5>1. f \in Els(queue[d]) \/ f \in Els(collected[d])
            BY <1>4, <4>3 DEF Way
          <5>2. PICK j \in 1..Len(txChan) : e = txChan[j]
            BY ZenonT(30), <1>3 DEF Els
          <5> QED
            BY <5>1, <5>2 DEF Els, HubIInv, QueueOnce, CollectedOnce, AtDest
        <4> QED
          BY <2>2, <4>1, <4>2, <4>3
      <3> QED
        BY <1>9, <3>1, <3>2
    <2>3. ASSUME NEW d \in Dests
          PROVE  Lined(buffer', writtenTo[d], collected[d], queue[d], PushedTo(d)', Tail(txChan), InHand)
      <3>1. Lined(buffer, writtenTo[d], collected[d], queue[d], {}, txChan, InHand)
        BY Zenon, <1>4 DEF InLine
      <3>2. \A f \in Els(collected[d]) \cup Els(queue[d]) \cup Els(Tail(txChan)) \cup InHand :
              Within(buffer'[f], buffer[f])
        BY <2>2 DEF Way
      <3>3. \A f \in PushedTo(d)' : Within(buffer'[f], buffer[Head(txChan)])
        BY Zenon, <1>2, <1>9
      <3> QED
        BY <1>1, <3>1, <3>2, <3>3, LinedRoute
    <2>4. InLine'
      BY Zenon, <1>1, <1>5, <2>3 DEF InLine
    <2>5. ASSUME NEW d \in Dests, NEW f \in Way(d)' PROVE OwnOf(dstOf, routed, d, buffer'[f])
      <3>1. CASE f \in PushedTo(d)'
        BY Zenon, <1>9, <3>1
      <3>2. CASE f \in Way(d)
        <4>1. Within(buffer'[f], buffer[f]) /\ OwnOf(dstOf, routed, d, buffer[f]) /\ routed \in SUBSET routed
          BY <2>2, <3>2 DEF OwnPackets
        <4> QED
          BY Zenon, <4>1, OwnWithin
      <3>3. f \in PushedTo(d)' \/ f \in Way(d)
        BY <1>1 DEF Way
      <3> QED
        BY <3>1, <3>2, <3>3
    <2>6. OwnPackets'
      BY Zenon, <1>1, <2>5 DEF OwnPackets
    <2> QED
      BY <1>9, <2>1, <2>4, <2>6
  <1>10. CASE valid # <<>> /\ AllSame(valid) /\ FastPath(e, valid)
    <2>1. PICK d : d = dstOf[valid[1]]
      OBVIOUS
    <2>2. 1 \in 1..Len(valid) /\ DOMAIN valid = 1..Len(valid)
      BY <1>7, <1>10
    <2>3. d \in Dests /\ pushing' = {<<d, e>>} /\ buffer' = buffer
      BY <1>7, <1>8, <1>10, <2>1, <2>2 DEF FastPath
    <2>4. \A c \in Dests : \A f \in PushedTo(c)' : c = d /\ f = e
      BY <2>3 DEF PushedTo
    <2>5. OwnOf(dstOf, routed, d, buffer[e])
      <3>1. ASSUME NEW i \in 1..Len(buffer[e]), dstOf[buffer[e][i]] \in routed
            PROVE  dstOf[buffer[e][i]] = d
        <4>1. PICK k \in 1..Len(valid) : valid[k] = buffer[e][i]
          BY Zenon, <1>7, <3>1
        <4> QED
          BY Zenon, <1>10, <2>1, <2>2, <4>1 DEF AllSame
      <3> QED
        BY Zenon, <3>1 DEF OwnOf
    <2>6. Buffered(buffer', dstOf) /\ pushing' \subseteq Dests \X Events
      BY <1>3, <1>8, <2>3
    <2>7. OnePush'
      BY Zenon, <2>4 DEF OnePush
    <2>8. \A f \in Events \ {e} : f \notin pool => Within(buffer'[f], buffer[f])
      BY Zenon, <2>3, WithinSame
    <2>9. \A c \in Dests : \A f \in PushedTo(c)' :
            Within(buffer'[f], buffer[e]) /\ OwnOf(dstOf, routed, c, buffer'[f])
      BY Zenon, <2>3, <2>4, <2>5, WithinSame
    <2> QED
      BY Zenon, <1>9, <2>6, <2>7, <2>8, <2>9
  <1>11. CASE Split(e, valid)
    <2>1. PICK fresh \in [Targets(valid) -> pool] :
            /\ IsInjective(fresh)
            /\ pushing' = {<<d, fresh[d]>> : d \in Targets(valid)}
            /\ buffer' = [f \in Events |->
                 IF \E d \in Targets(valid) : fresh[d] = f
                 THEN Among(valid, {p \in Range(valid) : fresh[dstOf[p]] = f})
                 ELSE IF f = e THEN <<>> ELSE buffer[f]]
      BY Zenon, <1>11 DEF Split
    <2>2. DOMAIN valid = 1..Len(valid) /\ Targets(valid) \subseteq Dests /\ pool \subseteq Events
      <3>1. DOMAIN valid = 1..Len(valid)
        BY <1>7
      <3>2. Targets(valid) \subseteq Dests
        BY Zenon, <1>7, <1>8, <3>1 DEF Targets
      <3> QED
        BY <3>1, <3>2 DEF HubIInv, HubTypes
    <2>3. ASSUME NEW d \in Targets(valid)
          PROVE  /\ fresh[d] \in Events /\ buffer'[fresh[d]] \in Seq(Nat)
                 /\ Increasing(buffer'[fresh[d]]) /\ AllRead(dstOf, buffer'[fresh[d]])
                 /\ Within(buffer'[fresh[d]], buffer[e])
                 /\ OwnOf(dstOf, routed, d, buffer'[fresh[d]])
      <3> DEFINE S == {p \in Range(valid) : fresh[dstOf[p]] = fresh[d]}
      <3>1. fresh[d] \in Events
        BY <2>1, <2>2
      <3>2. buffer'[fresh[d]] = Among(valid, S)
        BY Zenon, <2>1, <3>1
      <3>3. ASSUME NEW p \in S PROVE dstOf[p] = d
        <4>1. dstOf[p] \in Targets(valid) /\ fresh[dstOf[p]] = fresh[d]
          BY ZenonT(30) DEF Targets, Range
        <4> QED
          BY Zenon, <2>1, <4>1 DEF IsInjective
      <3> HIDE DEF S
      <3>4. /\ Among(valid, S) \in Seq(Nat)
            /\ \A k \in 1..Len(Among(valid, S)) :
                 \E n \in 1..Len(valid) : valid[n] \in S /\ Among(valid, S)[k] = valid[n]
            /\ Increasing(valid) => Increasing(Among(valid, S))
        BY <1>7, AmongFrom
      <3>5. Within(Among(valid, S), valid) /\ OwnOf(dstOf, routed, d, Among(valid, S))
        BY Zenon, <3>3, <3>4 DEF Within, OwnOf
      <3>6. Within(Among(valid, S), buffer[e])
        BY Zenon, <1>7, <3>5, WithinTwice
      <3>7. AllRead(dstOf, Among(valid, S))
        BY Zenon, <1>3, <1>8, <3>6, KnownWithin DEF Buffered
      <3> QED
        BY Zenon, <1>7, <3>1, <3>2, <3>4, <3>5, <3>6, <3>7
    <2>4. ASSUME NEW f \in Events, \A d \in Targets(valid) : fresh[d] # f
          PROVE  buffer'[f] = <<>> \/ buffer'[f] = buffer[f]
      BY Zenon, <2>1, <2>4
    <2>5. Buffered(buffer', dstOf)
      <3>1. buffer' = [f \in Events |-> buffer'[f]]
        BY Zenon, <2>1
      <3>2. <<>> \in Seq(Nat) /\ Increasing(<<>>) /\ AllRead(dstOf, <<>>)
        BY DEF Increasing, AllRead
      <3>3. ASSUME NEW f \in Events
            PROVE  buffer'[f] \in Seq(Nat) /\ Increasing(buffer'[f]) /\ AllRead(dstOf, buffer'[f])
        <4>1. CASE \E d \in Targets(valid) : fresh[d] = f
          BY Zenon, <2>3, <4>1
        <4>2. CASE \A d \in Targets(valid) : fresh[d] # f
          BY Zenon, <1>8, <2>4, <3>2, <4>2 DEF Buffered
        <4> QED
          BY Zenon, <4>1, <4>2
      <3> QED
        BY Zenon, <3>1, <3>3 DEF Buffered
    <2>6. \A f \in Events \ {e} : f \notin pool => Within(buffer'[f], buffer[f])
      <3> SUFFICES ASSUME NEW f \in Events \ {e}, f \notin pool PROVE Within(buffer'[f], buffer[f])
        BY Zenon
      <3>1. \A d \in Targets(valid) : fresh[d] # f
        BY Zenon, <2>1
      <3>2. f \in Events
        OBVIOUS
      <3> QED
        BY Zenon, <2>4, <3>1, <3>2, WithinSame, WithinEmpty
    <2>7. \A c \in Dests : \A f \in PushedTo(c)' : c \in Targets(valid) /\ f = fresh[c]
      BY <2>1 DEF PushedTo
    <2>8. pushing' \subseteq Dests \X Events
      BY <2>1, <2>2, <2>3
    <2>9. OnePush'
      BY Zenon, <2>7 DEF OnePush
    <2>10. \A c \in Dests : \A f \in PushedTo(c)' :
             Within(buffer'[f], buffer[e]) /\ OwnOf(dstOf, routed, c, buffer'[f])
      BY Zenon, <2>3, <2>7
    <2> QED
      BY Zenon, <1>9, <2>5, <2>6, <2>8, <2>9, <2>10
  <1> QED
    BY Zenon, <1>2, <1>6, <1>10, <1>11 DEF RouteEvent

(* Every step of the hub keeps the invariant. *)
LEMMA HubStepOrdered == HubIInv /\ OrderIInv /\ [HubNext]_hubVars => OrderIInv'
  <1> SUFFICES ASSUME HubIInv, OrderIInv, [HubNext]_hubVars PROVE OrderIInv'
    OBVIOUS
  <1>2. CASE Enqueue
    BY <1>2, EnqueueOrdered
  <1>3. CASE RouteEvent
    BY <1>3, RouteOrdered
  <1>4. ASSUME NEW d \in Dests, NEW e \in Events, Negotiate(d, e) PROVE OrderIInv'
    BY <1>4, NegotiateOrdered
  <1>5. ASSUME NEW d \in Dests, NEW e \in Events, Push(d, e) PROVE OrderIInv'
    BY Zenon, <1>5, PushedOrdered DEF Push, CanPush
  <1>6. ASSUME NEW n \in 1..BatchSize, NEW targets \in [1..n -> Dests \cup {NoRoute}], Read(targets)
        PROVE  OrderIInv'
    <2>1. targets \in Seq(Dests \cup {NoRoute})
      BY HubAssumption DEF HubAssumption
    <2> QED
      BY <1>6, <2>1, ReadOrdered
  <1>7. ASSUME NEW d \in Dests, Collect(d) PROVE OrderIInv'
    BY <1>7, CollectOrdered
  <1>8. ASSUME NEW d \in Dests, Written(d) PROVE OrderIInv'
    BY <1>8, WrittenOrdered
  <1>9. ASSUME NEW d \in Dests, WriteFails(d) PROVE OrderIInv'
    BY <1>9, WriteFailsOrdered
  <1>10. ASSUME NEW d \in Dests, WriteNil(d) \/ Exit(d) \/ Upgrade(d) \/ Withdraw(d)
         PROVE  OrderIInv'
    <2>1. /\ UNCHANGED <<dstOf, buffer, reading, txChan, pushing, queue, collected, writtenTo>>
          /\ routed' \subseteq routed
      BY <1>10 DEF WriteNil, Exit, Upgrade, Withdraw, destVars
    <2> QED
      BY <2>1, QuietOrdered
  <1>11. CASE Stop
    BY <1>11, QuietOrdered DEF Stop, destVars
  <1>12. CASE UNCHANGED hubVars
    BY <1>12, QuietOrdered DEF hubVars
  <1> QED
    BY Zenon, <1>2, <1>3, <1>4, <1>5, <1>6, <1>7, <1>8, <1>9, <1>10, <1>11, <1>12
       DEF HubNext, HubStep, DestStep

LEMMA HubInitOrdered == HubInit => OrderIInv
  <1> SUFFICES ASSUME HubInit PROVE OrderIInv
    OBVIOUS
  <1>1. <<>> \in Seq(Nat) /\ Increasing(<<>>) /\ AllRead(dstOf, <<>>) /\ Els(<<>>) = {}
    BY DEF Increasing, AllRead, Els
  <1>2. Data
    BY <1>1 DEF HubInit, Data, Buffered, Logged
  <1>3. \A d \in Dests : PushedTo(d) = {} /\ Way(d) = {} /\ InHand = {}
    BY <1>1 DEF HubInit, PushedTo, Way, InHand
  <1>4. OnePush
    BY <1>3 DEF OnePush
  <1>5. InLine
    BY <1>1, <1>3 DEF HubInit, InLine, Lined, Sorted, AllBelow
  <1>6. OwnPackets
    BY <1>1, <1>3 DEF HubInit, OwnPackets, OwnOf
  <1> QED
    BY <1>2, <1>4, <1>5, <1>6 DEF OrderIInv

(* However many packets and destinations there are: through splits of a     *)
(* batch, full queues, failed writes, upgrades, withdrawals and reused      *)
(* events, a destination gets its packets in the order of reading, none     *)
(* twice, and no packet that had a route to another.                        *)
THEOREM PacketsWrittenInOrder == HubSpec => []WrittenInOrder
  <1>1. OrderIInv => WrittenInOrder
    <2> SUFFICES ASSUME OrderIInv, NEW d \in Dests,
                        NEW i \in DOMAIN writtenTo[d], NEW j \in DOMAIN writtenTo[d]
                 PROVE  /\ i < j => writtenTo[d][i] < writtenTo[d][j]
                        /\ dstOf[writtenTo[d][i]] = d \/ dstOf[writtenTo[d][i]] \notin routed
      BY DEF WrittenInOrder
    <2>1. DOMAIN writtenTo[d] = 1..Len(writtenTo[d]) /\ Increasing(writtenTo[d])
      BY DEF OrderIInv, Data, Logged
    <2>2. OwnOf(dstOf, routed, d, writtenTo[d])
      BY DEF OrderIInv, OwnPackets
    <2> QED
      BY Zenon, <2>1, <2>2 DEF Increasing, OwnOf
  <1> QED
    BY <1>1, HubInitOwned, HubInitOrdered, HubStepOwned, HubStepOrdered, PTL DEF HubSpec

-------------------------------------------------------------------------------
(* A loop returns only when its destination was closed or the hub stopped,  *)
(* and both last.                                                           *)
LEMMA ExitStep ==
  ASSUME \A d \in exited : Signalled(d), [HubNext]_hubVars
  PROVE  \A d \in exited' : Signalled(d)'
  <1> USE DEF Signalled
  <1>1. ASSUME UNCHANGED <<closed, exited, stopped>> PROVE \A d \in exited' : Signalled(d)'
    BY <1>1
  <1>2. ASSUME NEW d \in Dests, Exit(d) PROVE \A c \in exited' : Signalled(c)'
    BY <1>2 DEF Exit
  <1>3. ASSUME NEW d \in Dests, Withdraw(d) PROVE \A c \in exited' : Signalled(c)'
    BY <1>3 DEF Withdraw
  <1>4. CASE Stop
    BY <1>4 DEF Stop, destVars
  <1>5. ASSUME NEW d \in Dests, Collect(d) \/ Written(d) \/ WriteFails(d) \/ WriteNil(d) \/ Upgrade(d)
        PROVE  UNCHANGED <<closed, exited, stopped>>
    BY Zenon, <1>5 DEF Collect, Written, WriteFails, WriteNil, Upgrade, destVars
  <1>6. ASSUME NEW d \in Dests, NEW e \in Events, Negotiate(d, e) \/ Push(d, e)
        PROVE  UNCHANGED <<closed, exited, stopped>>
    BY Zenon, <1>6 DEF Negotiate, Push
  <1>7. ASSUME NEW targets, Enqueue \/ RouteEvent \/ Read(targets)
        PROVE  UNCHANGED <<closed, exited, stopped>>
    BY Zenon, <1>7 DEF Enqueue, RouteEvent, Read, destVars
  <1>8. CASE UNCHANGED hubVars
    BY <1>1, <1>8 DEF hubVars
  <1> QED
    BY Zenon, <1>1, <1>2, <1>3, <1>4, <1>5, <1>6, <1>7, <1>8 DEF HubNext, HubStep, DestStep

(* A push that waits for room waits for a loop that has something to write  *)
(* or to collect, unless the destination is closed or the hub stopped.      *)
THEOREM HubLoopNeverStuck == HubSpec => []HubNeverStuck
  <1> DEFINE I == HubIInv /\ OrderIInv /\ \A d \in exited : Signalled(d)
  <1>1. HubInit => I
    BY HubInitOwned, HubInitOrdered DEF HubInit
  <1>2. I /\ [HubNext]_hubVars => I'
    BY HubStepOwned, HubStepOrdered, ExitStep
  <1>3. I => HubNeverStuck
    <2> SUFFICES ASSUME I, ~stopped, NEW p \in pushing, p[1] \notin closed,
                        ~CanNegotiate(p[1], p[2]), ~CanPush(p[1], p[2]), collected[p[1]] = <<>>
                 PROVE  CanCollect(p[1])
      BY Zenon DEF HubNeverStuck
    <2>1. p = <<p[1], p[2]>> /\ p[1] \in Dests
      BY DEF OrderIInv, Data
    <2>2. Len(queue[p[1]]) \in Nat /\ ~(Len(queue[p[1]]) < MaxTxEventBuf)
      <3>1. queue[p[1]] \in Seq(Events)
        BY <2>1 DEF HubIInv, HubTypes
      <3>2. <<p[1], p[2]>> \in pushing
        BY Zenon, <2>1
      <3>3. ~(Len(queue[p[1]]) < MaxTxEventBuf)
        BY Zenon, <3>2 DEF CanNegotiate, CanPush
      <3> QED
        BY <3>1, <3>3
    <2>3. queue[p[1]] # <<>>
      BY <2>2, HubAssumption DEF HubAssumption
    <2>4. p[1] \notin exited
      BY DEF Signalled
    <2> QED
      BY <2>3, <2>4 DEF CanCollect
  <1> HIDE DEF I
  <1> QED
    BY <1>1, <1>2, <1>3, PTL DEF HubSpec

-------------------------------------------------------------------------------
(* A nonempty set of integers with a bound has a greatest element. *)
LEMMA Greatest ==
  ASSUME NEW S \in SUBSET Int, S # {}, NEW N \in Int, \A x \in S : x <= N
  PROVE  \E e \in S : \A x \in S : x <= e
  <1> DEFINE Free == {n \in Nat : \A x \in S : x < N - n}
  <1>1. SUFFICES ASSUME \A e \in S : \E x \in S : x > e
                 PROVE  FALSE
    OBVIOUS
  <1>2. 0 \in Free
    <2>1. ASSUME NEW x \in S PROVE x < N
      <3>1. PICK y \in S : y > x
        BY <1>1
      <3> QED BY <3>1
    <2> QED BY <2>1
  <1>3. ASSUME NEW n \in Free PROVE n + 1 \in Free
    <2>1. ASSUME NEW x \in S PROVE x < N - (n + 1)
      <3>1. PICK y \in S : y > x
        BY <1>1
      <3>2. y < N - n
        OBVIOUS
      <3> QED BY <3>1, <3>2
    <2> QED BY <2>1
  <1>4. Free = Nat
    <2> HIDE DEF Free
    <2>1. Free \in SUBSET Nat
      BY DEF Free
    <2> QED BY <1>2, <1>3, <2>1, Induction
  <1>5. PICK x \in S : TRUE
    BY Zenon
  <1>6. N - x \in Nat /\ N - (N - x) = x
    BY SMT
  <1>7. x < N - (N - x)
    BY <1>4, <1>6, Zenon
  <1> QED BY <1>6, <1>7, SMT

(* A part of a sequence of numbers is one. *)
LEMMA SubSeqNat ==
  ASSUME NEW s \in Seq(Nat), NEW a \in 1..Len(s), NEW b \in a..Len(s)
  PROVE  SubSeq(s, a, b) \in Seq(Nat) /\ DOMAIN SubSeq(s, a, b) = 1..(b - a + 1)
  OBVIOUS

(* What batchWrite computes as the length of its data is a number. *)
LEMMA DataLenType ==
  ASSUME NEW sizes \in Seq(Nat)
  PROVE  DataLen(sizes) \in Nat /\ DataLen(sizes) >= 2
  <1> DEFINE half == Len(sizes) \div 2
             share(lo, hi) == [i \in 1..(hi - lo) |-> 2 + sizes[lo + i]]
  <1>1. /\ Len(sizes) \in Nat /\ half \in Nat /\ half <= Len(sizes)
        /\ \A i \in 1..Len(sizes) : sizes[i] \in Nat
    OBVIOUS
  <1>2. ASSUME NEW lo \in Nat, NEW hi \in Nat, lo <= hi, hi <= Len(sizes)
        PROVE  share(lo, hi) \in Seq(Nat)
    <2>1. \A i \in 1..(hi - lo) : lo + i \in 1..Len(sizes)
      BY <1>1, <1>2
    <2>2. \A i \in 1..(hi - lo) : sizes[lo + i] \in Nat
      BY <1>1, <2>1, Zenon
    <2>3. hi - lo \in Nat
      BY <1>2
    <2> QED BY <2>2, <2>3
  <1>3. share(0, half) \in Seq(Nat) /\ share(half, Len(sizes)) \in Seq(Nat)
    <2> HIDE DEF half, share
    <2> QED BY <1>1, <1>2
  <1>4. Total(share(0, half)) \in Nat /\ Total(share(half, Len(sizes))) \in Nat
    <2> HIDE DEF half, share
    <2> QED BY <1>3, TotalType
  <1>5. DataLen(sizes) = 2 + Total(share(0, half)) + Total(share(half, Len(sizes)))
    BY DEF DataLen
  <1> HIDE DEF half, share
  <1> QED BY <1>4, <1>5

-------------------------------------------------------------------------------
(* The packets a message that begins with packet a and ends with b holds. *)
Run(a, b) == [i \in 1..(b - a + 1) |-> a + i - 1]

(* How the sizes of the source are related. *)
LEMMA Sizes ==
  /\ MaxTransportByteSize \in Nat /\ MaxTransportByteSize > 1000
  /\ MaxDataLen = MaxTransportByteSize - 5
  /\ Uint16 = MaxTransportByteSize + 1
  /\ DefaultCompressThreshold \in Nat /\ DefaultCompressThreshold > 1000
  BY DEF MaxTransportByteSize, MaxDataLen, Uint16, DefaultCompressThreshold

(* What BaseOverhead sets aside leaves room for the header of a message. *)
LEMMA LeavesRoom ==
  ASSUME NEW D \in Nat, NEW B \in Nat, NEW M \in Nat, D >= 2, B >= 9, D - 2 <= M - B
  PROVE  D \in 2..(M - 7)
  OBVIOUS

(* What the sender knows between two messages. *)
Sending ==
  /\ pktOpts \in [encrypt : BOOLEAN, compress : BOOLEAN]
  /\ packets \in BatchInputs
  /\ start \in 1..(Len(packets) + 1)

(* The loop ends somewhere. *)
LEMMA BatchEndChosen ==
  ASSUME Sending
  PROVE  /\ packets \in Seq(Nat) /\ Len(packets) \in Nat /\ start \in Nat
         /\ BatchEnd \in BatchEnds /\ BatchEnd \in Int
  <1>1. packets \in Seq(1..RxMTU) /\ RxMTU \in Nat
    BY InputsAssumption DEF Sending
  <1>2. packets \in Seq(Nat) /\ Len(packets) \in Nat /\ start \in Nat
    BY <1>1 DEF Sending
  <1>3. BatchEnds \in SUBSET Int /\ BatchEnds # {}
    BY <1>2 DEF BatchEnds
  <1>4. Len(packets) \in Int /\ \A x \in BatchEnds : x <= Len(packets)
    BY <1>2 DEF BatchEnds, Sending
  <1>5. \E e \in BatchEnds : \A x \in BatchEnds : x <= e
    BY <1>3, <1>4, Greatest, Zenon
  <1>6. BatchEnd \in BatchEnds
    BY <1>5 DEF BatchEnd
  <1>7. BatchEnd \in Int
    BY <1>3, <1>6, Zenon
  <1> QED BY <1>2, <1>6, <1>7, Zenon

(* One iteration of the loop takes at least one packet, at most             *)
(* MaxTransportBatchSize, and no more than a message can hold.              *)
LEMMA BatchEndFits ==
  ASSUME Sending, start <= Len(packets), BatchEnd >= start
  PROVE  /\ BatchEnd \in start..Len(packets)
         /\ BatchEnd - start < MaxTransportBatchSize
         /\ DataLen(SubSeq(packets, start, BatchEnd)) \in 2..(MaxTransportByteSize - 7)
  <1>1. packets \in Seq(Nat) /\ Len(packets) \in Nat /\ start \in Nat
    BY BatchEndChosen, Zenon
  <1>2. BatchEnd \in BatchEnds
    BY BatchEndChosen, Zenon
  <1>3. /\ BatchEnd \in start..Len(packets)
        /\ BatchEnd - start < MaxTransportBatchSize
        /\ DataLen(SubSeq(packets, start, BatchEnd)) - 2
             <= MaxTransportByteSize - BaseOverhead
    <2>1. BatchEnd # start - 1
      BY <1>1
    <2> QED BY <1>2, <2>1 DEF BatchEnds
  <1> DEFINE sizes == SubSeq(packets, start, BatchEnd)
  <1>4. sizes \in Seq(Nat)
    <2>1. start \in 1..Len(packets)
      BY <1>1, SMT DEF Sending
    <2> QED BY <1>1, <1>3, <2>1, SubSeqNat, Zenon
  <1>5. DataLen(sizes) \in Nat /\ DataLen(sizes) >= 2
    BY <1>4, DataLenType, Zenon
  <1>6. BaseOverhead \in Nat /\ BaseOverhead >= 9
    BY DEF BaseOverhead, TagSize
  <1>7. DataLen(sizes) - 2 <= MaxTransportByteSize - BaseOverhead
    BY <1>3
  <1>8. DataLen(sizes) \in 2..(MaxTransportByteSize - 7)
    BY <1>5, <1>6, <1>7, Sizes, LeavesRoom, Zenon
  <1> QED BY <1>3, <1>8, Zenon

-------------------------------------------------------------------------------
(* The message before encryption: the batch as it is, or compressed to less *)
(* than its length.                                                         *)
Packed(m, D, ids) ==
  \/ m.typ = "batch" /\ m.len = D /\ m.body = ids
  \/ /\ m.typ = "compress" /\ m.len \in 0..(D - 1)
     /\ m.body = [typ |-> "batch", len |-> D, body |-> ids]
     /\ 3 + D <= MaxTransportByteSize - 7

(* A call reads and writes apart, and within the buffers. *)
Apart(c) ==
  /\ ~Overlap(c[1], c[2])
  /\ c[1].hi <= MaxTransportByteSize /\ c[2].hi <= MaxTransportByteSize

(* Where the message lies leaves three bytes in front for its header. *)
Placed(m) ==
  /\ m.at.lo \in Nat /\ m.at.lo >= 3
  /\ m.at.hi \in Nat /\ m.at.hi <= MaxTransportByteSize
  /\ \A c \in m.calls : Apart(c)

(* Where the compressor reads and what it may write fit cryptoBuffer. *)
LEMMA CompressRoom ==
  ASSUME NEW D \in 2..(MaxTransportByteSize - 7), CompressError(3 + D) = NoErr
  PROVE  /\ CompressSource(3 + D).buf = "crypto"
         /\ CompressSource(3 + D).lo \in Nat
         /\ CompressSource(3 + D).hi \in Nat /\ CompressSource(3 + D).hi >= 3 + D
         /\ CompressSource(3 + D).lo < CompressSource(3 + D).hi
         /\ CompressSource(3 + D).hi + (3 + D) + ZstdOverhead <= MaxTransportByteSize
  <1> DEFINE src == CompressSource(3 + D)
  <1>1. MaxTransportByteSize \in Nat /\ D \in Nat
    BY Sizes
  <1>2. \/ src = Region("crypto", 0, 3 + D)
        \/ src = Region("crypto", 7, 7 + (3 + D))
    BY Zenon DEF CompressSource
  <1>3. /\ src.buf = "crypto" /\ src.lo \in Nat
        /\ src.hi \in Nat /\ src.hi >= 3 + D /\ src.lo < src.hi
    <2> HIDE DEF src
    <2>1. CASE src = Region("crypto", 0, 3 + D)
      <3>1. src.buf = "crypto" /\ src.lo = 0 /\ src.hi = 3 + D
        BY <2>1, SMT DEF Region
      <3> QED BY <1>1, <3>1
    <2>2. CASE src = Region("crypto", 7, 7 + (3 + D))
      <3>1. src.buf = "crypto" /\ src.lo = 7 /\ src.hi = 7 + (3 + D)
        BY <2>2, SMT DEF Region
      <3> QED BY <1>1, <3>1
    <2> QED BY <1>2, <2>1, <2>2
  <1>4. ~(MaxTransportByteSize - src.hi < 3 + D + ZstdOverhead)
    BY Zenon DEF CompressError, NoErr
  <1>5. src.hi + (3 + D) + ZstdOverhead <= MaxTransportByteSize
    <2> HIDE DEF src
    <2> QED BY <1>1, <1>3, <1>4 DEF ZstdOverhead
  <1> QED BY <1>3, <1>5, Zenon

(* What a compressor may return for type, length and data of a batch. *)
LEMMA CompressedLensType ==
  ASSUME NEW D \in Nat, D > 1000, NEW clen \in CompressedLens(3 + D)
  PROVE  clen \in Nat /\ clen <= 3 + D + ZstdOverhead
  BY DEF CompressedLens, ZstdOverhead

(* A message on its way through the layers, from its fields. *)
Msg(typ, len, body, at, calls, err) ==
  [typ |-> typ, len |-> len, body |-> body, at |-> at, calls |-> calls, err |-> err]

(* Its fields, and what replacing one of them leaves. *)
LEMMA MsgFields ==
  ASSUME NEW t, NEW l, NEW b, NEW a, NEW c, NEW e, NEW x
  PROVE  LET m == Msg(t, l, b, a, c, e) IN
         /\ m.typ = t /\ m.len = l /\ m.body = b /\ m.at = a /\ m.calls = c /\ m.err = e
         /\ [m EXCEPT !.err = x] = Msg(t, l, b, a, c, x)
         /\ [m EXCEPT !.calls = x] = Msg(t, l, b, a, x, e)
  BY SMT DEF Msg

(* The batch as batchWrite puts it together. *)
PlainBatch(D, ids) == Msg("batch", D, ids, Region("buffer", 7, 7 + D), {}, NoErr)

(* A message has these fields and no other. *)
IsMsg(m) == \E t, l, b, a, c, x : m = Msg(t, l, b, a, c, x)

(* The batch is where its header says, and nothing has been called. *)
LEMMA PlainPlaced ==
  ASSUME NEW D \in 2..(MaxTransportByteSize - 7), NEW ids
  PROVE  /\ Packed(PlainBatch(D, ids), D, ids) /\ Placed(PlainBatch(D, ids))
         /\ PlainBatch(D, ids).err = NoErr
  <1> DEFINE p == PlainBatch(D, ids)
  <1>1. MaxTransportByteSize \in Nat /\ D \in Nat /\ 7 + D \in Nat
        /\ 7 + D <= MaxTransportByteSize
    BY Sizes
  <1>2. /\ p.typ = "batch" /\ p.len = D /\ p.body = ids /\ p.calls = {} /\ p.err = NoErr
        /\ p.at.lo = 7 /\ p.at.hi = 7 + D
    BY SMT DEF PlainBatch, Msg, Region
  <1> HIDE DEF p
  <1>3. Packed(p, D, ids)
    BY <1>2, Zenon DEF Packed
  <1>4. Placed(p)
    <2>1. p.at.lo \in Nat /\ p.at.lo >= 3 /\ p.at.hi \in Nat
      BY <1>1, <1>2
    <2> QED BY <1>1, <1>2, <2>1, Zenon DEF Placed
  <1> QED BY <1>2, <1>3, <1>4, Zenon DEF p

(* The compression layer keeps the batch, or puts one behind its source. *)
LEMMA CompressKeeps ==
  ASSUME NEW D \in 2..(MaxTransportByteSize - 7), NEW ids,
         NEW clen \in CompressedLens(3 + D)
  PROVE  LET m == Compress(PlainBatch(D, ids), clen) IN
         IsMsg(m) /\ Placed(m) /\ (m.err = NoErr => Packed(m, D, ids))
  <1> DEFINE p == PlainBatch(D, ids)
             src == CompressSource(3 + D)
             dst == Region("crypto", src.hi, src.hi + clen)
             m == Compress(p, clen)
  <1> SUFFICES IsMsg(m) /\ Placed(m) /\ (m.err = NoErr => Packed(m, D, ids))
    OBVIOUS
  <1>1. MaxTransportByteSize \in Nat /\ D \in Nat
    BY Sizes
  <1>2. p.typ = "batch" /\ p.len = D /\ p.body = ids
    BY SMT DEF PlainBatch, Msg
  <1>3. Packed(p, D, ids) /\ Placed(p) /\ p.err = NoErr
    BY PlainPlaced, Zenon
  <1>4. CASE ~pktOpts.compress \/ D < DefaultCompressThreshold
    <2>1. m = p
      BY <1>2, <1>4, Zenon DEF Compress
    <2> HIDE DEF m, p
    <2>2. IsMsg(p)
      BY Zenon DEF IsMsg, PlainBatch, p
    <2> QED BY <1>3, <2>1, <2>2, Zenon
  <1>5. CASE ~(~pktOpts.compress \/ D < DefaultCompressThreshold) /\ CompressError(3 + D) # NoErr
    <2>1. m = [p EXCEPT !.err = CompressError(3 + D)]
      BY <1>2, <1>5, Zenon DEF Compress
    <2>2. m = Msg("batch", D, ids, Region("buffer", 7, 7 + D), {}, CompressError(3 + D))
      BY <2>1, MsgFields, SMT DEF PlainBatch
    <2>3. m.at = p.at /\ m.calls = p.calls /\ m.err = CompressError(3 + D)
      <3> HIDE DEF m
      <3> QED BY <2>2, MsgFields, SMT DEF PlainBatch
    <2> HIDE DEF m, p
    <2>4. IsMsg(m)
      BY <2>2, Zenon DEF IsMsg
    <2> QED BY <1>3, <1>5, <2>3, <2>4, Zenon DEF Placed
  <1>6. CASE ~(~pktOpts.compress \/ D < DefaultCompressThreshold) /\ CompressError(3 + D) = NoErr
    <2>1. /\ src.buf = "crypto" /\ src.lo \in Nat
          /\ src.hi \in Nat /\ src.hi >= 3 + D /\ src.lo < src.hi
          /\ src.hi + (3 + D) + ZstdOverhead <= MaxTransportByteSize
      BY <1>6, CompressRoom, Zenon
    <2>2. D > 1000
      BY <1>1, <1>6, Sizes
    <2>3. clen \in Nat /\ clen <= 3 + D + ZstdOverhead
      BY <1>1, <2>2, CompressedLensType, Zenon
    <2> HIDE DEF src
    <2>4. /\ dst.buf = "crypto" /\ dst.lo = src.hi /\ dst.hi = src.hi + clen
          /\ dst.lo \in Nat /\ dst.hi \in Nat /\ dst.lo >= 3
          /\ dst.hi <= MaxTransportByteSize /\ src.hi <= MaxTransportByteSize
      BY <1>1, <2>1, <2>3, SMT DEF Region, ZstdOverhead
    <2> HIDE DEF dst
    <2>5. Apart(<<src, dst>>)
      BY <2>1, <2>4, SMT DEF Apart, Overlap
    <2>6. CASE clen < D
      <3>1. m = Msg("compress", clen, [typ |-> "batch", len |-> D, body |-> ids],
                    dst, {<<src, dst>>}, NoErr)
        BY <1>2, <1>6, <2>6, Zenon DEF Compress, Msg, src, dst
      <3>2. /\ m.typ = "compress" /\ m.len = clen /\ m.at = dst /\ m.calls = {<<src, dst>>}
            /\ m.body = [typ |-> "batch", len |-> D, body |-> ids]
        BY <3>1, MsgFields, SMT
      <3> HIDE DEF m
      <3>3. Placed(m)
        BY <2>4, <2>5, <3>2, Zenon DEF Placed
      <3>4. clen \in 0..(D - 1) /\ 3 + D <= MaxTransportByteSize - 7
        BY <1>1, <2>1, <2>3, <2>6 DEF ZstdOverhead
      <3>5. IsMsg(m)
        BY <3>1, Zenon DEF IsMsg
      <3> QED BY <3>2, <3>3, <3>4, <3>5, Zenon DEF Packed
    <2>7. CASE ~(clen < D)
      <3>1. m = [p EXCEPT !.calls = {<<src, dst>>}]
        BY <1>2, <1>6, <2>7, Zenon DEF Compress, src, dst
      <3>2. m = Msg("batch", D, ids, Region("buffer", 7, 7 + D), {<<src, dst>>}, NoErr)
        <4> HIDE DEF m
        <4> DEFINE calls == {<<src, dst>>}
        <4>1. m = [p EXCEPT !.calls = calls]
          BY <3>1, Zenon
        <4> HIDE DEF calls
        <4>2. m = Msg("batch", D, ids, Region("buffer", 7, 7 + D), calls, NoErr)
          BY <4>1, MsgFields, SMT DEF PlainBatch
        <4> QED BY <4>2, Zenon DEF calls
      <3>3. /\ m.at = p.at /\ m.calls = {<<src, dst>>}
            /\ m.typ = p.typ /\ m.len = p.len /\ m.body = p.body
        <4> HIDE DEF m
        <4> QED BY <3>2, MsgFields, SMT DEF PlainBatch
      <3> HIDE DEF m, p
      <3>4. Placed(m)
        BY <1>3, <2>5, <3>3, Zenon DEF Placed
      <3>5. IsMsg(m)
        BY <3>2, Zenon DEF IsMsg
      <3> QED BY <1>2, <3>3, <3>4, <3>5, Zenon DEF Packed
    <2> QED BY <2>6, <2>7
  <1> QED BY <1>4, <1>5, <1>6, Zenon

-------------------------------------------------------------------------------
(* The remainder of a number below the modulus. *)
LEMMA ModBelow ==
  ASSUME NEW x \in Nat, NEW n \in Nat, x < n
  PROVE  x % n = x
  BY SMT

(* A length that fits a buffer is kept by the 16 bits of the header. *)
LEMMA KeptBy16Bits ==
  ASSUME NEW x \in 0..MaxTransportByteSize
  PROVE  x % Uint16 = x
  <1>1. x \in Nat /\ Uint16 \in Nat /\ x < Uint16
    BY Sizes
  <1> QED BY <1>1, ModBelow, Zenon

(* The message under the encryption, as Decrypt returns it. *)
Bare(typ, len, body) == [typ |-> typ, len |-> len, body |-> body, err |-> NoErr]

(* ReadMessage gets the packets ids out of w without an error. *)
Reads(w, ids) ==
  /\ w.len \in 0..(MaxTransportByteSize - 7)
  /\ ReadMessage(w).err = NoErr /\ ReadMessage(w).body = ids

(* Decompress undoes the compression layer. *)
LEMMA DecompressReads ==
  ASSUME NEW D \in 2..(MaxTransportByteSize - 7), NEW ids, NEW t, NEW l, NEW b,
         Packed(Bare(t, l, b), D, ids)
  PROVE  LET d == Decompress(Bare(t, l, b)) IN d.err = NoErr /\ d.body = ids
  <1> DEFINE m == Bare(t, l, b)
             d == Decompress(m)
  <1> SUFFICES d.err = NoErr /\ d.body = ids
    OBVIOUS
  <1>1. m.typ = t /\ m.len = l /\ m.body = b /\ m.err = NoErr
    BY SMT DEF Bare
  <1> HIDE DEF m
  <1>2. CASE m.typ = "batch" /\ m.len = D /\ m.body = ids
    <2>1. d = m
      BY <1>2, Zenon DEF Decompress
    <2> HIDE DEF d
    <2> QED BY <1>1, <1>2, <2>1, Zenon
  <1>3. CASE /\ m.typ = "compress" /\ m.len \in 0..(D - 1)
             /\ m.body = [typ |-> "batch", len |-> D, body |-> ids]
             /\ 3 + D <= MaxTransportByteSize - 7
    <2>1. m.body.typ = "batch" /\ m.body.len = D /\ m.body.body = ids
      BY <1>3, SMT
    <2>2. ~(3 + m.body.len > MaxTransportByteSize - 7)
      BY <1>3, <2>1, Sizes
    <2>3. 3 + m.body.len \in 0..MaxTransportByteSize
      BY <1>3, <2>1, Sizes
    <2>4. Fits(3 + m.body.len, m.body)
      <3>1. (3 + m.body.len) % Uint16 = 3 + m.body.len
        BY <2>3, KeptBy16Bits, Zenon
      <3> QED BY <2>3, <3>1, Sizes, SMT DEF Fits
    <2>5. d = Bare(m.body.typ, m.body.len, m.body.body)
      BY <1>1, <1>3, <2>2, <2>4, Zenon DEF Decompress, Bare
    <2> HIDE DEF d
    <2> QED BY <2>1, <2>5, SMT DEF Bare
  <1> QED BY <1>2, <1>3, Zenon DEF Packed, m

(* Without encryption the other side reads what was written. *)
LEMMA PlainReads ==
  ASSUME NEW D \in 2..(MaxTransportByteSize - 7), NEW ids, NEW m, Packed(m, D, ids)
  PROVE  Reads(Writable(m), ids)
  <1> DEFINE w == Writable(m)
             r == Bare(w.typ, w.len, w.body)
  <1>1. m.len \in 0..(MaxTransportByteSize - 7) /\ m.typ # "encrypted"
    BY Sizes DEF Packed
  <1>2. m.len \in 0..MaxTransportByteSize /\ 7 + m.len \in 0..MaxTransportByteSize
    BY <1>1, Sizes
  <1>3. m.len % Uint16 = m.len /\ (7 + m.len) % Uint16 = 7 + m.len
    BY <1>2, KeptBy16Bits, Zenon
  <1>4. w.typ = m.typ /\ w.len = m.len /\ w.body = m.body
    BY <1>3, SMT DEF Writable
  <1> HIDE DEF w
  <1>5. Packed(r, D, ids) /\ r.typ = m.typ
    <2>1. r.typ = m.typ /\ r.len = m.len /\ r.body = m.body
      BY <1>4, SMT DEF Bare
    <2> HIDE DEF r
    <2> QED BY <2>1, Zenon DEF Packed
  <1>6. Decrypt(r) = r
    <2> HIDE DEF r
    <2> QED BY <1>1, <1>5, Zenon DEF Decrypt
  <1>7. ~((7 + w.len) % Uint16 < 7)
    BY <1>1, <1>3, <1>4, Sizes
  <1>8. ReadMessage(w) = Decompress(r)
    BY <1>6, <1>7, Zenon DEF ReadMessage, Bare
  <1>9. Decompress(r).err = NoErr /\ Decompress(r).body = ids
    BY <1>5, DecompressReads, SMT
  <1> QED BY <1>1, <1>4, <1>8, <1>9, Zenon DEF Reads, w

(* With encryption the other side reads what was written. *)
LEMMA SealedReads ==
  ASSUME NEW D \in 2..(MaxTransportByteSize - 7), NEW ids, NEW m, Packed(m, D, ids),
         NEW e, e.typ = "encrypted", e.len = m.len + 43, e.len <= MaxTransportByteSize - 7,
         e.body = [typ |-> m.typ, len |-> m.len, body |-> m.body]
  PROVE  Reads(Writable(e), ids)
  <1> DEFINE w == Writable(e)
             r == Bare(m.typ, m.len, m.body)
  <1>1. m.len \in Nat
    BY Sizes DEF Packed
  <1>2. /\ e.len \in 0..(MaxTransportByteSize - 7) /\ e.len \in 0..MaxTransportByteSize
        /\ 7 + e.len \in 0..MaxTransportByteSize
        /\ 3 + m.len \in 0..MaxTransportByteSize
        /\ e.len - NonceSize - TagSize = 3 + m.len
    BY <1>1, Sizes DEF NonceSize, TagSize
  <1>3. /\ e.len % Uint16 = e.len /\ (7 + e.len) % Uint16 = 7 + e.len
        /\ (3 + m.len) % Uint16 = 3 + m.len
    BY <1>2, KeptBy16Bits, Zenon
  <1>4. w.typ = "encrypted" /\ w.len = e.len /\ w.body = e.body
    BY <1>3, SMT DEF Writable
  <1> HIDE DEF w
  <1>5. w.body.typ = m.typ /\ w.body.len = m.len /\ w.body.body = m.body
    BY <1>4, SMT
  <1>6. Packed(r, D, ids)
    <2>1. r.typ = m.typ /\ r.len = m.len /\ r.body = m.body
      BY SMT DEF Bare
    <2> HIDE DEF r
    <2> QED BY <2>1, Zenon DEF Packed
  <1>7. Fits(w.len - NonceSize - TagSize, w.body)
    BY <1>1, <1>2, <1>3, <1>4, <1>5, SMT DEF Fits
  <1> DEFINE o == Bare(w.typ, w.len, w.body)
  <1>8. Decrypt(o) = r
    <2>1. o.typ = w.typ /\ o.len = w.len /\ o.body = w.body
      BY SMT DEF Bare
    <2> HIDE DEF o
    <2>2. Decrypt(o) = Bare(w.body.typ, w.body.len, w.body.body)
      BY <1>4, <1>7, <2>1, Zenon DEF Decrypt, Bare
    <2> QED BY <1>5, <2>2, Zenon
  <1>9. ~((7 + w.len) % Uint16 < 7)
    BY <1>2, <1>3, <1>4, Sizes
  <1>10. ReadMessage(w) = Decompress(r)
    <2>1. ReadMessage(w) = Decompress(Decrypt(o))
      BY <1>9, Zenon DEF ReadMessage, Bare
    <2> QED BY <1>8, <2>1, Zenon
  <1>11. Decompress(r).err = NoErr /\ Decompress(r).body = ids
    BY <1>6, DecompressReads, SMT
  <1> QED BY <1>2, <1>4, <1>10, <1>11, Zenon DEF Reads, w

(* The encryption layer works apart, and undoing the layers gives the       *)
(* packets back.                                                            *)
LEMMA EncryptKeeps ==
  ASSUME NEW D \in 2..(MaxTransportByteSize - 7), NEW ids, NEW m, Placed(m),
         m.err = NoErr => Packed(m, D, ids), IsMsg(m)
  PROVE  LET e == Encrypt(m) IN
         /\ \A pair \in e.calls : Apart(pair)
         /\ e.err = NoErr => Reads(Writable(e), ids)
  <1> DEFINE innerLen == 3 + m.len
             sealedLen == innerLen + NonceSize + TagSize
             dst == SealTarget(innerLen, sealedLen)
             buf == IF innerLen + sealedLen <= MaxTransportByteSize THEN "crypto" ELSE "buffer"
             calls == m.calls \cup {<<Region(buf, 0, 3), m.at>>, <<Region(buf, 0, innerLen), dst>>}
             e == Encrypt(m)
  <1> SUFFICES /\ \A pair \in e.calls : Apart(pair)
               /\ e.err = NoErr => Reads(Writable(e), ids)
    OBVIOUS
  <1>1. CASE ~pktOpts.encrypt \/ m.err # NoErr
    <2>1. e = m
      BY <1>1, Zenon DEF Encrypt
    <2> HIDE DEF e
    <2>2. m.err = NoErr => Reads(Writable(m), ids)
      BY PlainReads, Zenon
    <2> QED BY <2>1, <2>2, Zenon DEF Placed
  <1>2. CASE ~(~pktOpts.encrypt \/ m.err # NoErr) /\ sealedLen > MaxTransportByteSize - 7
    <2>1. e = [m EXCEPT !.err = "ErrMessageTooLarge"]
      BY <1>2, Zenon DEF Encrypt
    <2> HIDE DEF e
    <2>2. PICK t, l, b, a, c, x : m = Msg(t, l, b, a, c, x)
      BY Zenon DEF IsMsg
    <2>3. e = Msg(t, l, b, a, c, "ErrMessageTooLarge")
      BY <2>1, <2>2, MsgFields, SMT
    <2>4. e.calls = m.calls /\ e.err = "ErrMessageTooLarge"
      BY <2>2, <2>3, MsgFields, SMT
    <2> QED BY <2>4, Zenon DEF Placed, NoErr
  <1>3. CASE ~(~pktOpts.encrypt \/ m.err # NoErr) /\ ~(sealedLen > MaxTransportByteSize - 7)
    <2>1. e = Msg("encrypted", sealedLen, [typ |-> m.typ, len |-> m.len, body |-> m.body],
                  dst, calls, NoErr)
      BY <1>3, Zenon DEF Encrypt, Msg
    <2>2. Packed(m, D, ids) /\ m.len \in Nat
      <3>1. Packed(m, D, ids)
        BY <1>3, Zenon
      <3> QED BY <3>1, Sizes DEF Packed
    <2>3. sealedLen = m.len + 43 /\ sealedLen <= MaxTransportByteSize - 7
          /\ innerLen \in Nat /\ sealedLen \in Nat /\ innerLen < sealedLen
      BY <1>3, <2>2, Sizes DEF NonceSize, TagSize
    <2> HIDE DEF e, calls, dst, buf, innerLen, sealedLen
    <2>4. /\ e.typ = "encrypted" /\ e.len = sealedLen /\ e.calls = calls
          /\ e.body = [typ |-> m.typ, len |-> m.len, body |-> m.body]
      BY <2>1, MsgFields, SMT
    <2>5. Reads(Writable(e), ids)
      BY <2>2, <2>3, <2>4, SealedReads, ZenonT(30)
    <2>6. Apart(<<Region(buf, 0, 3), m.at>>)
      BY Sizes, SMT DEF Apart, Overlap, Region, Placed
    <2>7. Apart(<<Region(buf, 0, innerLen), dst>>)
      <3>1. CASE innerLen + sealedLen <= MaxTransportByteSize
        BY <2>3, <3>1, Sizes, SMT DEF Apart, Overlap, Region, dst, SealTarget
      <3>2. CASE ~(innerLen + sealedLen <= MaxTransportByteSize)
        BY <2>3, <3>2, Sizes, SMT DEF Apart, Overlap, Region, dst, SealTarget, buf
      <3> QED BY <3>1, <3>2
    <2> QED BY <2>4, <2>5, <2>6, <2>7, Zenon DEF Placed, calls
  <1> QED BY <1>1, <1>2, <1>3, ZenonT(30)

(* What batchWrite makes of the packets the loop has chosen. *)
LEMMA WriteKeeps ==
  ASSUME Sending, start <= Len(packets), BatchEnd >= start,
         NEW clen \in CompressedLens(3 + DataLen(SubSeq(packets, start, BatchEnd)))
  PROVE  LET m == batchWrite(start, BatchEnd, clen) IN
         /\ \A pair \in m.calls : Apart(pair)
         /\ m.err = NoErr => Reads(Writable(m), Run(start, BatchEnd))
  <1> DEFINE sizes == SubSeq(packets, start, BatchEnd)
             D == DataLen(sizes)
             ids == Run(start, BatchEnd)
             m == batchWrite(start, BatchEnd, clen)
             inner == Compress(PlainBatch(D, ids), clen)
  <1> SUFFICES /\ \A pair \in m.calls : Apart(pair)
               /\ m.err = NoErr => Reads(Writable(m), ids)
    OBVIOUS
  <1>1. /\ BatchEnd \in start..Len(packets)
        /\ D \in 2..(MaxTransportByteSize - 7)
    BY BatchEndFits, Zenon
  <1>2. Plain(sizes, start) = PlainBatch(D, ids)
    <2>1. DOMAIN sizes = 1..(BatchEnd - start + 1)
      <3>1. packets \in Seq(Nat)
        BY InputsAssumption DEF Sending
      <3>2. start \in 1..Len(packets)
        BY <1>1, <3>1, SMT DEF Sending
      <3> QED BY <1>1, <3>1, <3>2, SubSeqNat, Zenon
    <2>2. [i \in DOMAIN sizes |-> start + i - 1] = ids
      BY <2>1, Zenon DEF Run
    <2> HIDE DEF sizes, ids
    <2> QED BY <2>2, Zenon DEF Plain, PlainBatch, Msg
  <1>3. ~(D > MaxDataLen)
    <2> HIDE DEF D
    <2> QED BY <1>1, Sizes, SMT
  <1>4. m = Encrypt(inner)
    <2>1. PlainBatch(D, ids).len = D
      <3> HIDE DEF D, ids
      <3> QED BY SMT DEF PlainBatch, Msg
    <2> HIDE DEF D, ids
    <2> QED BY <1>2, <1>3, <2>1, Zenon DEF batchWrite
  <1>5. IsMsg(inner) /\ Placed(inner) /\ (inner.err = NoErr => Packed(inner, D, ids))
    <2>1. clen \in CompressedLens(3 + D)
      OBVIOUS
    <2> HIDE DEF D, ids
    <2> QED BY <1>1, <2>1, CompressKeeps, Zenon
  <1> HIDE DEF m, inner, D, ids
  <1>6. /\ \A pair \in Encrypt(inner).calls : Apart(pair)
        /\ Encrypt(inner).err = NoErr => Reads(Writable(Encrypt(inner)), ids)
    BY <1>1, <1>5, EncryptKeeps, Zenon
  <1> QED BY <1>4, <1>6, ZenonT(30)

-------------------------------------------------------------------------------
(* What one iteration of BatchWrite does: it fails and writes nothing, or   *)
(* writes a message with the packets from start on.                         *)
LEMMA WriteStep ==
  ASSUME Sending, BatchWrite
  PROVE  /\ UNCHANGED <<pktOpts, packets, received, rxErr>>
         /\ \A pair \in touched' : pair \in touched \/ Apart(pair)
         /\ \/ UNCHANGED <<start, wire>>
            \/ \E e \in start..Len(packets) : \E w :
                 /\ e - start < MaxTransportBatchSize
                 /\ start' = e + 1 /\ wire' = Append(wire, w)
                 /\ Reads(w, Run(start, e))
  <1>1. UNCHANGED <<pktOpts, packets, received, rxErr>>
    BY Zenon DEF BatchWrite
  <1>2. CASE BatchEnd < start
    <2>1. UNCHANGED <<start, wire, touched>>
      BY <1>2, Zenon DEF BatchWrite
    <2> QED BY <1>1, <2>1, Zenon
  <1>3. CASE ~(BatchEnd < start)
    <2>1. start <= Len(packets)
      BY Zenon DEF BatchWrite
    <2>2. BatchEnd >= start
      <3>1. start \in Nat /\ BatchEnd \in Int
        BY BatchEndChosen, Zenon
      <3> QED BY <1>3, <3>1
    <2>3. BatchEnd \in start..Len(packets) /\ BatchEnd - start < MaxTransportBatchSize
      BY <2>1, <2>2, BatchEndFits, Zenon
    <2>4. PICK clen \in CompressedLens(3 + DataLen(SubSeq(packets, start, BatchEnd))) :
            LET m == batchWrite(start, BatchEnd, clen) IN
            /\ touched' = m.calls
            /\ IF m.err = NoErr
               THEN start' = BatchEnd + 1 /\ wire' = Append(wire, Writable(m))
               ELSE UNCHANGED <<start, wire>>
      BY <1>3, Zenon DEF BatchWrite
    <2> DEFINE m == batchWrite(start, BatchEnd, clen)
    <2>5. /\ \A pair \in m.calls : Apart(pair)
          /\ m.err = NoErr => Reads(Writable(m), Run(start, BatchEnd))
      BY <2>1, <2>2, WriteKeeps, Zenon
    <2>6. /\ touched' = m.calls
          /\ IF m.err = NoErr
             THEN start' = BatchEnd + 1 /\ wire' = Append(wire, Writable(m))
             ELSE UNCHANGED <<start, wire>>
      BY <2>4, Zenon
    <2> HIDE DEF m
    <2>7. CASE m.err = NoErr
      BY <1>1, <2>3, <2>5, <2>6, <2>7, Zenon
    <2>8. CASE m.err # NoErr
      BY <1>1, <2>5, <2>6, <2>8, Zenon
    <2> QED BY <2>7, <2>8
  <1> QED BY <1>2, <1>3

(* Every step keeps the sender's state; *)
LEMMA SendingKept ==
  ASSUME Sending, [PktNext]_pktVars
  PROVE  Sending'
  <1>1. CASE BatchWrite
    <2>1. /\ UNCHANGED <<pktOpts, packets>>
          /\ start' = start \/ \E e \in start..Len(packets) : start' = e + 1
      BY <1>1, WriteStep, Zenon
    <2>2. Len(packets) \in Nat /\ start \in Nat /\ start >= 1
      BY BatchEndChosen DEF Sending
    <2>3. start' \in 1..(Len(packets) + 1)
      <3>1. CASE start' = start
        BY <3>1, Zenon DEF Sending
      <3>2. CASE \E e \in start..Len(packets) : start' = e + 1
        <4>1. PICK e \in start..Len(packets) : start' = e + 1
          BY <3>2, Zenon
        <4> QED BY <2>2, <4>1, SMT
      <3> QED BY <2>1, <3>1, <3>2
    <2> QED BY <2>1, <2>3, Zenon DEF Sending
  <1>2. CASE HandleBatch
    BY <1>2, Zenon DEF HandleBatch, Sending
  <1>3. CASE UNCHANGED pktVars
    BY <1>3, Zenon DEF pktVars, Sending
  <1> QED BY <1>1, <1>2, <1>3 DEF PktNext

(* and the buffers apart. *)
LEMMA ApartKept ==
  ASSUME Sending, BuffersApart, [PktNext]_pktVars
  PROVE  BuffersApart'
  <1>1. CASE BatchWrite
    <2>1. \A pair \in touched' : pair \in touched \/ Apart(pair)
      BY <1>1, WriteStep, Zenon
    <2> QED BY <2>1, Zenon DEF BuffersApart, Apart
  <1>2. CASE HandleBatch
    BY <1>2, Zenon DEF HandleBatch, BuffersApart
  <1>3. CASE UNCHANGED pktVars
    BY <1>3, Zenon DEF pktVars, BuffersApart
  <1> QED BY <1>1, <1>2, <1>3 DEF PktNext

(* Compress and Encrypt never write over what they read nor past the end of *)
(* their buffers, for packets of any sizes.                                 *)
THEOREM LayersApart == PktSpec => []BuffersApart
  <1>1. PktInit => Sending /\ BuffersApart
    <2>1. ASSUME PktInit PROVE Sending
      <3>1. packets \in Seq(Nat)
        BY <2>1, InputsAssumption DEF PktInit
      <3> QED BY <2>1, <3>1 DEF PktInit, Sending
    <2>2. PktInit => BuffersApart
      BY Zenon DEF PktInit, BuffersApart
    <2> QED BY <2>1, <2>2
  <1>2. Sending /\ BuffersApart /\ [PktNext]_pktVars => Sending' /\ BuffersApart'
    BY SendingKept, ApartKept
  <1> QED BY <1>1, <1>2, PTL DEF PktSpec

-------------------------------------------------------------------------------
(* The first and the last packet ReadMessage gets out of a message. *)
First(w) == ReadMessage(w).body[1]
Last(w) == ReadMessage(w).body[Len(ReadMessage(w).body)]

(* A message holds the packets from its first to its last. *)
Whole(w) ==
  /\ First(w) \in Nat /\ Last(w) \in Nat
  /\ First(w) >= 1 /\ First(w) <= Last(w) /\ Last(w) <= Len(packets)
  /\ Last(w) - First(w) < MaxTransportBatchSize
  /\ Reads(w, Run(First(w), Last(w)))

(* The messages W continue where r packets were received, and end before    *)
(* packet s.                                                                *)
Chain(W, r, s) ==
  /\ Len(W) = 0 => r = s - 1
  /\ Len(W) # 0 => First(W[1]) = r + 1 /\ Last(W[Len(W)]) = s - 1
  /\ \A i \in 1..(Len(W) - 1) : First(W[i + 1]) = Last(W[i]) + 1

Messages(W) == \E T : W \in Seq(T)

(* Every message holds its packets, they follow each other from the one the *)
(* receiver waits for up to the next to be written, and with room for a     *)
(* full batch the receiver has met no error.                                *)
Arriving ==
  /\ Messages(wire) /\ \A i \in 1..Len(wire) : Whole(wire[i])
  /\ Len(received) \in Nat /\ Len(received) <= Len(packets)
  /\ received = Run(1, Len(received))
  /\ rxErr = NoErr => Chain(wire, Len(received), start)
  /\ RxBatchSize >= MaxTransportBatchSize => rxErr = NoErr

(* A run of packets, and its ends. *)
LEMMA RunEnds ==
  ASSUME NEW a \in Nat, NEW b \in Nat, a <= b
  PROVE  /\ Run(a, b) \in Seq(Nat) /\ Len(Run(a, b)) = b - a + 1
         /\ Run(a, b)[1] = a /\ Run(a, b)[Len(Run(a, b))] = b
  BY DEF Run

(* Sequences are equal when their elements are. *)
LEMMA SameElements ==
  ASSUME NEW s \in Seq(Nat), NEW t \in Seq(Nat), NEW n \in Nat, Len(s) = n, Len(t) = n,
         \A i \in 1..n : s[i] = i, \A i \in 1..n : t[i] = i
  PROVE  s = t
  <1>1. DOMAIN s = 1..n /\ DOMAIN t = 1..n
    OBVIOUS
  <1>2. s = [i \in 1..n |-> s[i]] /\ t = [i \in 1..n |-> t[i]]
    BY <1>1
  <1> QED BY <1>2

(* The packets of the next message continue the run that was received. *)
LEMMA RunContinues ==
  ASSUME NEW r \in Nat, NEW b \in Nat, r < b
  PROVE  Run(1, r) \o Run(r + 1, b) = Run(1, b) /\ Len(Run(1, b)) = b
  <1> DEFINE s == Run(1, r)
             t == Run(r + 1, b)
             u == s \o t
  <1>1. s \in Seq(Nat) /\ Len(s) = r /\ \A i \in 1..r : s[i] = i
    BY DEF Run
  <1>2. t \in Seq(Nat) /\ Len(t) = b - r /\ \A i \in 1..(b - r) : t[i] = r + i
    BY DEF Run
  <1>3. Run(1, b) \in Seq(Nat) /\ Len(Run(1, b)) = b /\ \A i \in 1..b : Run(1, b)[i] = i
    BY DEF Run
  <1> HIDE DEF s, t
  <1>4. /\ u \in Seq(Nat) /\ Len(u) = Len(s) + Len(t)
        /\ \A i \in 1..Len(s) : u[i] = s[i]
        /\ \A i \in Len(s) + 1..Len(s) + Len(t) : u[i] = t[i - Len(s)]
    BY <1>1, <1>2, ConcatElements, Zenon
  <1>5. ASSUME NEW i \in 1..b PROVE u[i] = i
    <2> HIDE DEF u
    <2>1. CASE i \in 1..r
      BY <1>1, <1>4, <2>1
    <2>2. CASE i \notin 1..r
      <3>1. /\ i - r \in 1..(b - r) /\ r + (i - r) = i
            /\ i \in Len(s) + 1..Len(s) + Len(t)
        BY <1>1, <1>2, <2>2
      <3>2. u[i] = t[i - r] /\ t[i - r] = r + (i - r)
        BY <1>1, <1>2, <1>4, <3>1, Zenon
      <3> QED BY <3>1, <3>2, Zenon
    <2> QED BY <2>1, <2>2, Zenon
  <1> HIDE DEF u
  <1>6. u = Run(1, b)
    <2>1. Len(u) = b
      BY <1>1, <1>2, <1>4
    <2> QED BY <1>3, <1>4, <1>5, <2>1, SameElements, Zenon
  <1> QED BY <1>3, <1>6 DEF u, s, t

(* A message that reads as a run is whole. *)
LEMMA RunIsWhole ==
  ASSUME NEW a \in Nat, NEW b \in Nat, a >= 1, a <= b, b <= Len(packets),
         b - a < MaxTransportBatchSize, NEW w, Reads(w, Run(a, b))
  PROVE  Whole(w) /\ First(w) = a /\ Last(w) = b
  <1>1. Run(a, b)[1] = a /\ Run(a, b)[Len(Run(a, b))] = b
    BY RunEnds, Zenon
  <1>2. ReadMessage(w).body = Run(a, b)
    BY Zenon DEF Reads
  <1>3. First(w) = a /\ Last(w) = b
    BY <1>1, <1>2, Zenon DEF First, Last
  <1> QED BY <1>3, Zenon DEF Whole

(* BatchWrite puts a message behind the others. *)
LEMMA ChainGrows ==
  ASSUME NEW T, NEW W \in Seq(T), NEW w, NEW r \in Nat, NEW s \in Nat, NEW e \in Nat,
         Chain(W, r, s), First(w) = s, Last(w) = e
  PROVE  Chain(Append(W, w), r, e + 1)
  <1> DEFINE V == Append(W, w)
  <1>1. Len(W) \in Nat /\ Len(V) = Len(W) + 1 /\ V[Len(V)] = w
        /\ \A i \in 1..Len(W) : V[i] = W[i]
    OBVIOUS
  <1> HIDE DEF V
  <1>2. Len(V) # 0 /\ Last(V[Len(V)]) = (e + 1) - 1
    BY <1>1
  <1>3. First(V[1]) = r + 1
    <2>1. CASE Len(W) = 0
      BY <1>1, <2>1 DEF Chain
    <2>2. CASE Len(W) # 0
      BY <1>1, <2>2 DEF Chain
    <2> QED BY <2>1, <2>2
  <1>4. ASSUME NEW i \in 1..(Len(V) - 1) PROVE First(V[i + 1]) = Last(V[i]) + 1
    <2>1. CASE i = Len(W)
      BY <1>1, <2>1 DEF Chain
    <2>2. CASE i # Len(W)
      <3>1. i \in 1..(Len(W) - 1) /\ i \in 1..Len(W) /\ i + 1 \in 1..Len(W)
        BY <1>1, <2>2
      <3> QED BY <1>1, <3>1, Zenon DEF Chain
    <2> QED BY <2>1, <2>2
  <1> QED BY <1>2, <1>3, <1>4, Zenon DEF Chain, V

(* HandleBatch takes the first message off. *)
LEMMA ChainShrinks ==
  ASSUME NEW T, NEW W \in Seq(T), Len(W) # 0, NEW r \in Nat, NEW s \in Nat,
         Chain(W, r, s), \A i \in 1..Len(W) : Last(W[i]) \in Nat
  PROVE  Chain(Tail(W), Last(W[1]), s)
  <1> DEFINE V == Tail(W)
  <1>1. Len(W) \in Nat /\ Len(V) = Len(W) - 1 /\ \A i \in 1..Len(V) : V[i] = W[i + 1]
    OBVIOUS
  <1> HIDE DEF V
  <1>2. ASSUME Len(V) = 0 PROVE Last(W[1]) = s - 1
    <2>1. Len(W) = 1
      BY <1>1, <1>2
    <2> QED BY <2>1, Zenon DEF Chain
  <1>3. ASSUME Len(V) # 0 PROVE First(V[1]) = Last(W[1]) + 1 /\ Last(V[Len(V)]) = s - 1
    <2>1. 1 \in 1..(Len(W) - 1) /\ 1 \in 1..Len(V) /\ Len(V) \in 1..Len(V)
          /\ Len(V) + 1 = Len(W)
      BY <1>1, <1>3
    <2>2. V[1] = W[1 + 1] /\ V[Len(V)] = W[Len(W)]
      BY <1>1, <2>1, Zenon
    <2> QED BY <2>1, <2>2, Zenon DEF Chain
  <1>4. ASSUME NEW i \in 1..(Len(V) - 1) PROVE First(V[i + 1]) = Last(V[i]) + 1
    <2>1. i \in 1..Len(V) /\ i + 1 \in 1..Len(V) /\ i + 1 \in 1..(Len(W) - 1)
      BY <1>1
    <2>2. V[i] = W[i + 1] /\ V[i + 1] = W[(i + 1) + 1]
      BY <1>1, <2>1, Zenon
    <2> QED BY <2>1, <2>2, Zenon DEF Chain
  <1> QED BY <1>2, <1>3, <1>4, Zenon DEF Chain, V

(* BatchWrite keeps what arrives. *)
LEMMA WriteArriving ==
  ASSUME Sending, Arriving, BatchWrite
  PROVE  Arriving'
  <1>1. packets' = packets /\ received' = received /\ rxErr' = rxErr
    BY WriteStep, Zenon
  <1>2. CASE UNCHANGED <<start, wire>>
    BY <1>1, <1>2, Zenon DEF Arriving, Whole
  <1>3. CASE \E e \in start..Len(packets) : \E w :
               /\ e - start < MaxTransportBatchSize
               /\ start' = e + 1 /\ wire' = Append(wire, w)
               /\ Reads(w, Run(start, e))
    <2>a. PICK e \in start..Len(packets) : \E w :
            /\ e - start < MaxTransportBatchSize
            /\ start' = e + 1 /\ wire' = Append(wire, w)
            /\ Reads(w, Run(start, e))
      BY <1>3, Zenon
    <2>1. PICK w :
            /\ e - start < MaxTransportBatchSize
            /\ start' = e + 1 /\ wire' = Append(wire, w)
            /\ Reads(w, Run(start, e))
      BY <2>a, Zenon
    <2>2. Len(packets) \in Nat /\ start \in Nat /\ start >= 1
      BY BatchEndChosen DEF Sending
    <2>3. e \in Nat /\ start <= e /\ e <= Len(packets)
      BY <2>2
    <2>4. Whole(w) /\ First(w) = start /\ Last(w) = e
      BY <2>1, <2>2, <2>3, RunIsWhole, Zenon
    <2>5. PICK T : wire \in Seq(T)
      BY Zenon DEF Arriving, Messages
    <2>6. /\ Append(wire, w) \in Seq(T \cup {w}) /\ Len(Append(wire, w)) = Len(wire) + 1
          /\ Len(wire) \in Nat
          /\ \A i \in 1..Len(wire) : Append(wire, w)[i] = wire[i]
          /\ Append(wire, w)[Len(wire) + 1] = w
      BY <2>5
    <2>7. Messages(wire')
      BY <2>1, <2>6, Zenon DEF Messages
    <2>8. ASSUME NEW i \in 1..Len(wire') PROVE Whole(wire'[i])
      <3>1. CASE i \in 1..Len(wire)
        BY <2>1, <2>6, <3>1, Zenon DEF Arriving
      <3>2. CASE i \notin 1..Len(wire)
        <4>1. i = Len(wire) + 1
          BY <2>1, <2>6, <3>2
        <4> QED BY <2>1, <2>4, <2>6, <4>1, Zenon
      <3> QED BY <3>1, <3>2, Zenon
    <2>9. rxErr = NoErr => Chain(wire', Len(received), start')
      <3>1. Len(received) \in Nat
        BY Zenon DEF Arriving
      <3>2. ASSUME Chain(wire, Len(received), start)
            PROVE  Chain(Append(wire, w), Len(received), e + 1)
        BY <2>2, <2>3, <2>4, <2>5, <3>1, <3>2, ChainGrows, Zenon
      <3> QED BY <2>1, <3>2, Zenon DEF Arriving
    <2> QED BY <1>1, <2>7, <2>8, <2>9, Zenon DEF Arriving, Whole
  <1> QED BY <1>2, <1>3, WriteStep, Zenon

(* What HandleBatch gets out of the message it takes. *)
LEMMA HandledMessage ==
  ASSUME Sending, Arriving, HandleBatch
  PROVE  LET w == wire[1] IN
         /\ Len(wire) # 0 /\ wire' = Tail(wire) /\ rxErr = NoErr
         /\ UNCHANGED <<pktOpts, packets, start>>
         /\ rxErr' = NoErr => received' = received \o Run(First(w), Last(w))
         /\ rxErr' # NoErr => received' = received
         /\ RxBatchSize >= MaxTransportBatchSize => rxErr' = NoErr
  <1> DEFINE w == wire[1]
             ids == Run(First(w), Last(w))
             err == ParseBatch(ids)
  <1>1. PICK T : wire \in Seq(T)
    BY Zenon DEF Arriving, Messages
  <1>2. /\ Len(wire) # 0 /\ wire # <<>> /\ Head(wire) = w /\ 1 \in 1..Len(wire)
        /\ wire' = Tail(wire) /\ rxErr = NoErr /\ UNCHANGED <<pktOpts, packets, start>>
    BY <1>1 DEF HandleBatch
  <1>3. Whole(w)
    BY <1>2, Zenon DEF Arriving
  <1>4. ReadMessage(w).err = NoErr /\ ReadMessage(w).body = ids
    BY <1>3, Zenon DEF Whole, Reads
  <1>5. rxErr' = err /\ received' = IF err = NoErr THEN received \o ids ELSE received
    BY <1>2, <1>4, Zenon DEF HandleBatch
  <1>6. ASSUME RxBatchSize >= MaxTransportBatchSize PROVE err = NoErr
    <2>1. /\ First(w) \in Nat /\ Last(w) \in Nat /\ First(w) >= 1 /\ First(w) <= Last(w)
          /\ Last(w) <= Len(packets) /\ Last(w) - First(w) < MaxTransportBatchSize
      BY <1>3, Zenon DEF Whole
    <2>2. ids \in Seq(Nat) /\ Len(ids) = Last(w) - First(w) + 1
      BY <2>1, RunEnds, Zenon
    <2>3. ~(Len(ids) > RxBatchSize)
      <3>1. RxBatchSize \in Nat /\ MaxTransportBatchSize \in Nat
        BY InputsAssumption DEF MaxTransportBatchSize
      <3> HIDE DEF ids, w
      <3> QED BY <1>6, <2>1, <2>2, <3>1
    <2>4. ASSUME NEW i \in DOMAIN ids PROVE ~(packets[ids[i]] > RxMTU)
      <3>1. i \in 1..(Last(w) - First(w) + 1) /\ ids[i] = First(w) + i - 1
        BY Zenon DEF Run
      <3>2. First(w) + i - 1 \in 1..Len(packets)
        <4> HIDE DEF w
        <4>1. Len(packets) \in Nat
          BY BatchEndChosen, Zenon
        <4> QED BY <2>1, <3>1, <4>1
      <3>3. packets \in Seq(1..RxMTU) /\ RxMTU \in Nat
        BY InputsAssumption DEF Sending
      <3>4. \A k \in 1..Len(packets) : packets[k] \in 1..RxMTU
        BY <3>3
      <3>5. packets[ids[i]] \in 1..RxMTU
        BY <3>1, <3>2, <3>4, Zenon
      <3> HIDE DEF ids
      <3> QED BY <3>3, <3>5
    <2> HIDE DEF ids
    <2> QED BY <2>3, <2>4, Zenon DEF ParseBatch
  <1> HIDE DEF err, ids
  <1> QED BY <1>2, <1>5, <1>6, Zenon DEF ids

(* HandleBatch keeps what arrives. *)
LEMMA HandleArriving ==
  ASSUME Sending, Arriving, HandleBatch
  PROVE  Arriving'
  <1> DEFINE w == wire[1]
             r == Len(received)
  <1>1. /\ Len(wire) # 0 /\ wire' = Tail(wire) /\ rxErr = NoErr
        /\ packets' = packets /\ start' = start
        /\ rxErr' = NoErr => received' = received \o Run(First(w), Last(w))
        /\ rxErr' # NoErr => received' = received
        /\ RxBatchSize >= MaxTransportBatchSize => rxErr' = NoErr
    BY HandledMessage, Zenon
  <1>2. PICK T : wire \in Seq(T)
    BY Zenon DEF Arriving, Messages
  <1>3. /\ Tail(wire) \in Seq(T) /\ Len(wire) \in Nat /\ Len(Tail(wire)) = Len(wire) - 1
        /\ \A i \in 1..Len(Tail(wire)) : i + 1 \in 1..Len(wire) /\ Tail(wire)[i] = wire[i + 1]
        /\ 1 \in 1..Len(wire)
    BY <1>1, <1>2
  <1>4. Messages(wire') /\ \A i \in 1..Len(wire') : Whole(wire'[i])
    BY <1>1, <1>3, Zenon DEF Arriving, Messages
  <1>5. /\ First(w) \in Nat /\ Last(w) \in Nat /\ First(w) <= Last(w)
        /\ Last(w) <= Len(packets)
    BY <1>3, Zenon DEF Arriving, Whole
  <1>6. r \in Nat /\ r <= Len(packets) /\ received = Run(1, r)
    BY Zenon DEF Arriving
  <1>7. CASE rxErr' = NoErr
    <2>1. Chain(wire, r, start)
      BY <1>1, Zenon DEF Arriving
    <2>2. First(w) = r + 1
      BY <1>1, <2>1, Zenon DEF Chain
    <2>3. r < Last(w)
      <3> HIDE DEF r, w
      <3> QED BY <1>5, <1>6, <2>2
    <2>4. received' = Run(1, Last(w)) /\ Len(received') = Last(w)
      <3> HIDE DEF r, w
      <3>1. Run(1, r) \o Run(r + 1, Last(w)) = Run(1, Last(w)) /\ Len(Run(1, Last(w))) = Last(w)
        BY <1>5, <1>6, <2>3, RunContinues, Zenon
      <3>2. received' = Run(1, r) \o Run(r + 1, Last(w))
        BY <1>1, <1>6, <1>7, <2>2, Zenon
      <3> QED BY <3>1, <3>2, Zenon
    <2>5. Chain(wire', Last(w), start)
      <3>1. start \in Nat
        BY BatchEndChosen, Zenon
      <3>2. \A i \in 1..Len(wire) : Last(wire[i]) \in Nat
        BY Zenon DEF Arriving, Whole
      <3> QED BY <1>1, <1>2, <1>6, <2>1, <3>1, <3>2, ChainShrinks, Zenon
    <2> QED BY <1>1, <1>4, <1>5, <1>7, <2>4, <2>5, Zenon DEF Arriving, Whole
  <1>8. CASE rxErr' # NoErr
    BY <1>1, <1>4, <1>6, <1>8, Zenon DEF Arriving, Whole
  <1> QED BY <1>7, <1>8

(* What holds at every moment. *)
LEMMA ArrivingAlways == PktSpec => [](Sending /\ Arriving)
  <1>1. PktInit => Sending /\ Arriving
    <2>1. ASSUME PktInit PROVE Sending
      <3>1. packets \in Seq(Nat)
        BY <2>1, InputsAssumption DEF PktInit
      <3> QED BY <2>1, <3>1 DEF PktInit, Sending
    <2>2. ASSUME PktInit PROVE Arriving
      <3>1. wire = <<>> /\ received = <<>> /\ start = 1 /\ rxErr = NoErr
        BY <2>2, Zenon DEF PktInit
      <3>2. /\ wire \in Seq({}) /\ Len(wire) = 0 /\ 1..Len(wire) = {}
            /\ 1..(Len(wire) - 1) = {}
        BY <3>1
      <3>3. Len(received) = 0 /\ Run(1, Len(received)) = received
        BY <3>1 DEF Run
      <3>4. Len(packets) \in Nat
        BY <2>1, <2>2, BatchEndChosen, Zenon
      <3>5. Chain(wire, Len(received), start)
        BY <3>1, <3>2, <3>3 DEF Chain
      <3> QED BY <3>1, <3>2, <3>3, <3>4, <3>5, SMT DEF Arriving, Messages
    <2> QED BY <2>1, <2>2
  <1>2. ASSUME Sending, Arriving, [PktNext]_pktVars PROVE Sending' /\ Arriving'
    <2>1. CASE BatchWrite
      BY <1>2, <2>1, WriteArriving, SendingKept, Zenon
    <2>2. CASE HandleBatch
      BY <1>2, <2>2, HandleArriving, SendingKept, Zenon
    <2>3. CASE UNCHANGED pktVars
      BY <1>2, <2>3, Zenon DEF pktVars, Sending, Arriving, Whole
    <2> QED BY <1>2, <2>1, <2>2, <2>3, Zenon DEF PktNext
  <1> QED BY <1>1, <1>2, PTL DEF PktSpec

(* The indices of the model stay in their ranges, and a message written     *)
(* leaves room for its header in MaxTransportByteSize.                      *)
THEOREM PacketTypes == PktSpec => []PktTypeOK
  <1>1. ASSUME Sending, Arriving PROVE PktTypeOK
    <2>1. Messages(wire) /\ \A i \in 1..Len(wire) : wire[i].len <= MaxTransportByteSize - 7
      <3>1. \A i \in 1..Len(wire) : wire[i].len \in 0..(MaxTransportByteSize - 7)
        BY <1>1, Zenon DEF Arriving, Whole, Reads
      <3>2. Messages(wire)
        BY <1>1, Zenon DEF Arriving
      <3> QED BY <3>1, <3>2, Sizes
    <2>2. DOMAIN wire = 1..Len(wire)
      <3>1. PICK T : wire \in Seq(T)
        BY <2>1, Zenon DEF Messages
      <3> QED BY <3>1
    <2>3. DOMAIN packets = 1..Len(packets) /\ Len(packets) \in Nat
      <3>1. packets \in Seq(Nat)
        BY <1>1, BatchEndChosen, Zenon
      <3> QED BY <3>1
    <2>4. ASSUME NEW i \in DOMAIN received PROVE received[i] \in DOMAIN packets
      <3>1. /\ received = Run(1, Len(received)) /\ Len(received) \in Nat
            /\ Len(received) <= Len(packets)
        BY <1>1, Zenon DEF Arriving
      <3> DEFINE r == Len(received)
      <3>2. i \in 1..r /\ received[i] = i
        BY <3>1, <2>4 DEF Run
      <3> HIDE DEF r
      <3>3. i \in 1..Len(packets)
        BY <2>3, <3>1, <3>2 DEF r
      <3> QED BY <2>3, <3>2, <3>3, Zenon
    <2> QED BY <1>1, <2>1, <2>2, <2>4, Zenon DEF PktTypeOK, Sending
  <1> QED BY <1>1, ArrivingAlways, PTL

(* However the packets are sized and whatever layers are on, a receiver     *)
(* with room for MaxTransportBatchSize packets gets the packets of          *)
(* BatchWrite once each, in order and without an error, and has all those   *)
(* of the messages written once it has read them.                           *)
THEOREM PacketsArrive ==
  ASSUME RxBatchSize >= MaxTransportBatchSize
  PROVE  PktSpec => []PacketsArriveInOrder
  <1>1. ASSUME Sending, Arriving PROVE PacketsArriveInOrder
    <2>1. rxErr = NoErr /\ Chain(wire, Len(received), start)
      BY <1>1, Zenon DEF Arriving
    <2>2. received = [i \in DOMAIN received |-> i]
      <3>1. received = Run(1, Len(received)) /\ Len(received) \in Nat
        BY <1>1, Zenon DEF Arriving
      <3> DEFINE r == Len(received)
      <3>2. Run(1, r) = [i \in 1..r |-> i]
        <4> HIDE DEF r
        <4> QED BY <3>1 DEF Run, r
      <3> QED BY <3>1, <3>2
    <2>3. wire = <<>> => Len(received) = start - 1
      BY <2>1 DEF Chain
    <2> QED BY <2>1, <2>2, <2>3, Zenon DEF PacketsArriveInOrder
  <1> QED BY <1>1, ArrivingAlways, PTL

===============================================================================
