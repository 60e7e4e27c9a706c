------------------------------ MODULE LinkProofs ------------------------------
(*****************************************************************************)
(* Proofs about links, for any number of clients, connections, streams and   *)
(* messages: the receive side of the client's hub (HubRx), the direct link   *)
(* two clients negotiate (PeerUpgrade), the relayed connections (TcpRelay),  *)
(* what is counted of them (RelayMeter), and the routes that a client is     *)
(* told of (ClientSync).                                                     *)
(*****************************************************************************)
EXTENDS HubRx, PeerUpgrade, TcpRelay, RelayMeter, ClientSync, TLAPS

RxTypes ==
  /\ rxPool \subseteq RxEvents
  /\ rxChan \in Seq(RxEvents)
  /\ holding \in [Streams -> RxEvents \cup {RxNoEvent}]
  /\ rxBuffer \in [RxEvents -> {<<>>} \cup Streams \X Nat]
  /\ sent \in [Streams -> Nat]
  /\ delivered \in Seq(Streams \X Nat)

(* RxEventOwnedOnce, by positions in the queue. *)
OwnedOnce ==
  /\ \A i \in 1..Len(rxChan) : rxChan[i] \notin rxPool
  /\ \A i, j \in 1..Len(rxChan) : i # j => rxChan[i] # rxChan[j]
  /\ \A s \in Streams : holding[s] \notin rxPool
  /\ \A s \in Streams : \A i \in 1..Len(rxChan) : holding[s] # rxChan[i]
  /\ \A s, t \in Streams : s # t => holding[s] = RxNoEvent \/ holding[s] # holding[t]

(* A queued event holds a message read before the one its reader holds, *)
Filled ==
  /\ \A s \in Streams : holding[s] # RxNoEvent => rxBuffer[holding[s]] = <<s, sent[s]>>
  /\ \A i \in 1..Len(rxChan) :
       LET m == rxBuffer[rxChan[i]] IN
       /\ m \in Streams \X Nat /\ m[2] <= sent[m[1]]
       /\ holding[m[1]] # RxNoEvent => m[2] < sent[m[1]]

(* and so has every message handed over been. *)
Earlier ==
  \A i \in 1..Len(delivered) :
    LET m == delivered[i] IN
    m[2] <= sent[m[1]] /\ (holding[m[1]] # RxNoEvent => m[2] < sent[m[1]])

(* The queue is in order, and after what was handed over. *)
Ordered ==
  /\ \A i, j \in 1..Len(rxChan) :
       i < j /\ rxBuffer[rxChan[i]][1] = rxBuffer[rxChan[j]][1] =>
         rxBuffer[rxChan[i]][2] < rxBuffer[rxChan[j]][2]
  /\ \A i \in 1..Len(delivered), j \in 1..Len(rxChan) :
       delivered[i][1] = rxBuffer[rxChan[j]][1] => delivered[i][2] < rxBuffer[rxChan[j]][2]
  /\ \A i, j \in 1..Len(delivered) :
       i < j /\ delivered[i][1] = delivered[j][1] => delivered[i][2] < delivered[j][2]

RxIInv == RxTypes /\ OwnedOnce /\ Filled /\ Earlier /\ Ordered

(* No event has the name that says there is none. *)
LEMMA RxFacts == RxNoEvent \notin RxEvents
  BY RxAssumption DEF RxEvents, RxNoEvent

LEMMA RxInitInv == RxInit => RxIInv
  <1> SUFFICES ASSUME RxInit PROVE RxIInv
    OBVIOUS
  <1>1. RxTypes
    BY DEF RxInit, RxTypes
  <1>2. OwnedOnce
    BY RxFacts DEF RxInit, OwnedOnce
  <1>3. Filled /\ Earlier /\ Ordered
    BY DEF RxInit, Filled, Earlier, Ordered
  <1> QED
    BY <1>1, <1>2, <1>3 DEF RxIInv

LEMMA ReceiveKeeps ==
  ASSUME RxIInv, NEW s \in Streams, Receive(s)
  PROVE  RxIInv'
  <1> DEFINE e == CHOOSE free \in rxPool : TRUE
  <1>1. e \in rxPool /\ e \in RxEvents
    BY DEF Receive, RxIInv, RxTypes
  <1>2. /\ rxPool' = rxPool \ {e} /\ rxBuffer' = [rxBuffer EXCEPT ![e] = <<s, sent[s] + 1>>]
        /\ holding' = [holding EXCEPT ![s] = e] /\ sent' = [sent EXCEPT ![s] = @ + 1]
        /\ holding[s] = RxNoEvent /\ rxChan' = rxChan /\ delivered' = delivered
    BY DEF Receive
  <1> HIDE DEF e
  <1> USE RxFacts
  <1>3. \A i \in 1..Len(rxChan) : rxChan[i] \in RxEvents /\ rxChan[i] # e
    BY <1>1 DEF RxIInv, RxTypes, OwnedOnce
  <1>4. \A i \in 1..Len(rxChan) : rxBuffer'[rxChan[i]] = rxBuffer[rxChan[i]]
    BY <1>2, <1>3 DEF RxIInv, RxTypes
  <1>5. /\ \A t \in Streams : sent'[t] \in Nat /\ sent[t] \in Nat /\ sent[t] <= sent'[t]
        /\ sent'[s] = sent[s] + 1 /\ \A t \in Streams \ {s} : sent'[t] = sent[t]
    BY <1>2 DEF RxIInv, RxTypes
  <1>6. \A t \in Streams \ {s} : holding'[t] = holding[t] /\ holding[t] # e
    BY <1>1, <1>2 DEF RxIInv, RxTypes, OwnedOnce
  <1>7. holding'[s] = e
    BY <1>2 DEF RxIInv, RxTypes
  <1>8. RxTypes'
    BY <1>1, <1>2, <1>5 DEF RxIInv, RxTypes
  <1>9. OwnedOnce'
    BY <1>2, <1>3, <1>6, <1>7 DEF RxIInv, OwnedOnce
  <1>10. Filled'
    <2>1. ASSUME NEW t \in Streams, holding'[t] # RxNoEvent
          PROVE  rxBuffer'[holding'[t]] = <<t, sent'[t]>>
      <3>1. CASE t = s
        BY <3>1, <1>1, <1>2, <1>5, <1>7 DEF RxIInv, RxTypes
      <3>2. CASE t # s
        BY <3>2, <2>1, <1>2, <1>5, <1>6 DEF RxIInv, RxTypes, Filled
      <3> QED
        BY <3>1, <3>2
    <2>2. ASSUME NEW i \in 1..Len(rxChan)
          PROVE  LET m == rxBuffer[rxChan[i]] IN
                 /\ m \in Streams \X Nat /\ m[2] <= sent'[m[1]]
                 /\ holding'[m[1]] # RxNoEvent => m[2] < sent'[m[1]]
      <3> DEFINE m == rxBuffer[rxChan[i]]
      <3>1. m \in Streams \X Nat /\ m[2] <= sent[m[1]] /\ (holding[m[1]] # RxNoEvent => m[2] < sent[m[1]])
        BY DEF RxIInv, Filled
      <3> HIDE DEF m
      <3>2. m[1] \in Streams /\ m[2] \in Nat
        BY <3>1
      <3>3. m[2] <= sent'[m[1]] /\ (holding'[m[1]] # RxNoEvent => m[2] < sent'[m[1]])
        BY <3>1, <3>2, <1>5, <1>6
      <3> QED
        BY <3>1, <3>3 DEF m
    <2> QED
      BY ZenonT(30), <2>1, <2>2, <1>2, <1>4 DEF Filled
  <1>11. Earlier'
    <2>1. ASSUME NEW i \in 1..Len(delivered)
          PROVE  LET m == delivered[i] IN
                 m[2] <= sent'[m[1]] /\ (holding'[m[1]] # RxNoEvent => m[2] < sent'[m[1]])
      <3>1. delivered[i] \in Streams \X Nat
        BY DEF RxIInv, RxTypes
      <3>2. delivered[i][1] \in Streams /\ delivered[i][2] \in Nat
        BY <3>1
      <3> QED
        BY <3>2, <1>5, <1>6 DEF RxIInv, Earlier
    <2> QED
      BY <2>1, <1>2 DEF Earlier
  <1>12. Ordered'
    <2>1. ASSUME NEW i \in 1..Len(rxChan), NEW j \in 1..Len(rxChan), i < j,
                 rxBuffer'[rxChan[i]][1] = rxBuffer'[rxChan[j]][1]
          PROVE  rxBuffer'[rxChan[i]][2] < rxBuffer'[rxChan[j]][2]
      BY <1>4, <2>1 DEF RxIInv, Ordered
    <2>2. ASSUME NEW i \in 1..Len(delivered), NEW j \in 1..Len(rxChan),
                 delivered[i][1] = rxBuffer'[rxChan[j]][1]
          PROVE  delivered[i][2] < rxBuffer'[rxChan[j]][2]
      BY <1>4, <2>2 DEF RxIInv, Ordered
    <2> QED
      BY <1>2, <2>1, <2>2 DEF RxIInv, Ordered
  <1> QED
    BY <1>8, <1>9, <1>10, <1>11, <1>12 DEF RxIInv

LEMMA QueueKeeps ==
  ASSUME RxIInv, NEW s \in Streams, QueueEvent(s)
  PROVE  RxIInv'
  <1> DEFINE e == holding[s]
             n == Len(rxChan)
  <1>1. /\ e # RxNoEvent /\ rxChan' = Append(rxChan, e) /\ holding' = [holding EXCEPT ![s] = RxNoEvent]
        /\ UNCHANGED <<rxPool, rxBuffer, sent, delivered>>
    BY DEF QueueEvent, PushEvent
  <1>2. e \in RxEvents /\ n \in Nat
    BY <1>1 DEF RxIInv, RxTypes
  <1>3. /\ Len(rxChan') = n + 1 /\ rxChan'[n + 1] = e /\ rxChan' \in Seq(RxEvents)
        /\ \A i \in 1..n : rxChan'[i] = rxChan[i]
    BY <1>1, <1>2 DEF RxIInv, RxTypes
  <1>4. \A i \in 1..Len(rxChan') : i \in 1..n \/ i = n + 1
    BY <1>2, <1>3
  <1>5. rxBuffer[e] = <<s, sent[s]>> /\ sent[s] \in Nat
    BY <1>1 DEF RxIInv, RxTypes, Filled
  <1>6. /\ holding'[s] = RxNoEvent /\ \A t \in Streams \ {s} : holding'[t] = holding[t]
        /\ holding' \in [Streams -> RxEvents \cup {RxNoEvent}]
    BY <1>1 DEF RxIInv, RxTypes
  <1>7. \A i \in 1..n : rxChan[i] \in RxEvents /\ rxChan[i] # e
    BY <1>2 DEF RxIInv, RxTypes, OwnedOnce
  <1>8. \A t \in Streams \ {s} : holding[t] # e
    BY <1>1 DEF RxIInv, OwnedOnce
  <1>9. e \notin rxPool /\ RxNoEvent \notin rxPool
    BY <1>1, RxFacts DEF RxIInv, RxTypes, OwnedOnce
  <1> HIDE DEF e, n
  <1> USE RxFacts
  <1>10. RxTypes'
    BY <1>1, <1>3, <1>6 DEF RxIInv, RxTypes
  <1>11. OwnedOnce'
    <2>1. \A i \in 1..Len(rxChan') : rxChan'[i] \notin rxPool'
      BY <1>1, <1>3, <1>4, <1>9 DEF RxIInv, OwnedOnce, n
    <2>2. \A i, j \in 1..Len(rxChan') : i # j => rxChan'[i] # rxChan'[j]
      BY <1>3, <1>4, <1>7 DEF RxIInv, OwnedOnce, n
    <2>3. \A t \in Streams : holding'[t] \notin rxPool'
      BY <1>1, <1>6, <1>9 DEF RxIInv, OwnedOnce
    <2>4. \A t \in Streams : \A i \in 1..Len(rxChan') : holding'[t] # rxChan'[i]
      BY <1>2, <1>3, <1>4, <1>6, <1>7, <1>8 DEF RxIInv, OwnedOnce, n
    <2>5. \A t, u \in Streams : t # u => holding'[t] = RxNoEvent \/ holding'[t] # holding'[u]
      BY Zenon, <1>6 DEF RxIInv, RxTypes, OwnedOnce
    <2> QED
      BY <2>1, <2>2, <2>3, <2>4, <2>5 DEF OwnedOnce
  <1>12. Filled'
    <2>1. \A t \in Streams : holding'[t] # RxNoEvent => rxBuffer'[holding'[t]] = <<t, sent'[t]>>
      BY <1>1, <1>6 DEF RxIInv, Filled
    <2>2. ASSUME NEW i \in 1..n
          PROVE  LET m == rxBuffer[rxChan[i]] IN
                 /\ m \in Streams \X Nat /\ m[2] <= sent[m[1]]
                 /\ holding'[m[1]] # RxNoEvent => m[2] < sent[m[1]]
      BY <1>6 DEF RxIInv, Filled, n
    <2>3. <<s, sent[s]>> \in Streams \X Nat /\ sent[s] <= sent[s] /\ ~(holding'[s] # RxNoEvent)
      BY <1>5, <1>6
    <2>4. ASSUME NEW i \in 1..Len(rxChan')
          PROVE  LET m == rxBuffer'[rxChan'[i]] IN
                 /\ m \in Streams \X Nat /\ m[2] <= sent'[m[1]]
                 /\ holding'[m[1]] # RxNoEvent => m[2] < sent'[m[1]]
      <3>1. CASE i \in 1..n
        BY <3>1, <2>2, <1>1, <1>3
      <3>2. CASE i = n + 1
        <4>1. rxBuffer'[rxChan'[i]] = <<s, sent[s]>> /\ sent' = sent
          BY <3>2, <1>1, <1>3, <1>5
        <4> QED
          BY <4>1, <2>3
      <3> QED
        BY <3>1, <3>2, <1>4
    <2> QED
      BY <2>1, <2>4 DEF Filled
  <1>13. Earlier'
    <2>1. ASSUME NEW i \in 1..Len(delivered)
          PROVE  LET m == delivered[i] IN
                 m[2] <= sent[m[1]] /\ (holding'[m[1]] # RxNoEvent => m[2] < sent[m[1]])
      <3>1. delivered[i][1] \in Streams
        BY DEF RxIInv, RxTypes
      <3> QED
        BY <3>1, <1>6 DEF RxIInv, Earlier
    <2> QED
      BY <2>1, <1>1 DEF Earlier
  <1>14. Ordered'
    <2>1. \A i \in 1..n : rxBuffer[rxChan[i]][1] = s => rxBuffer[rxChan[i]][2] < sent[s]
      BY <1>1 DEF RxIInv, Filled, e, n
    <2>2. \A i \in 1..Len(delivered) : delivered[i][1] = s => delivered[i][2] < sent[s]
      BY <1>1 DEF RxIInv, Earlier, e
    <2>3. <<s, sent[s]>>[1] = s /\ <<s, sent[s]>>[2] = sent[s]
      OBVIOUS
    <2>4. ASSUME NEW i \in 1..Len(rxChan'), NEW j \in 1..Len(rxChan'), i < j,
                 rxBuffer[rxChan'[i]][1] = rxBuffer[rxChan'[j]][1]
          PROVE  rxBuffer[rxChan'[i]][2] < rxBuffer[rxChan'[j]][2]
      <3>1. i \in 1..n
        BY <2>4, <1>2, <1>3 DEF n
      <3>2. CASE j \in 1..n
        BY <2>4, <3>1, <3>2, <1>3 DEF RxIInv, Ordered, n
      <3>3. CASE j = n + 1
        BY <2>1, <2>3, <2>4, <3>1, <3>3, <1>3, <1>5
      <3> QED
        BY <3>2, <3>3, <1>4
    <2>5. ASSUME NEW i \in 1..Len(delivered), NEW j \in 1..Len(rxChan'),
                 delivered[i][1] = rxBuffer[rxChan'[j]][1]
          PROVE  delivered[i][2] < rxBuffer[rxChan'[j]][2]
      <3>2. CASE j \in 1..n
        BY <2>5, <3>2, <1>3 DEF RxIInv, Ordered, n
      <3>3. CASE j = n + 1
        BY <2>2, <2>3, <2>5, <3>3, <1>3, <1>5
      <3> QED
        BY <3>2, <3>3, <1>4
    <2> QED
      BY <2>4, <2>5, <1>1 DEF RxIInv, Ordered
  <1> QED
    BY <1>10, <1>11, <1>12, <1>13, <1>14 DEF RxIInv

(* The writer takes the first event and hands its message over or not. *)
LEMMA TakeKeeps ==
  ASSUME RxIInv, rxChan # <<>>,
         rxPool' = rxPool \cup {Head(rxChan)}, rxChan' = Tail(rxChan),
         rxBuffer' = [rxBuffer EXCEPT ![Head(rxChan)] = <<>>],
         \/ delivered' = delivered
         \/ delivered' = Append(delivered, rxBuffer[Head(rxChan)]),
         UNCHANGED <<sent, holding>>
  PROVE  RxIInv'
  <1> DEFINE e == Head(rxChan)
             n == Len(rxChan)
             m == rxBuffer[e]
             d == Len(delivered)
  <1>1. /\ n \in Nat /\ n >= 1 /\ e = rxChan[1] /\ e \in RxEvents /\ d \in Nat
        /\ Len(rxChan') = n - 1 /\ rxChan' \in Seq(RxEvents)
        /\ \A i \in 1..Len(rxChan') : rxChan'[i] = rxChan[i + 1] /\ i + 1 \in 1..n /\ i + 1 # 1
    BY DEF RxIInv, RxTypes
  <1>2. m \in Streams \X Nat /\ m[2] <= sent[m[1]] /\ (holding[m[1]] # RxNoEvent => m[2] < sent[m[1]])
    BY <1>1 DEF RxIInv, Filled
  <1>3. \A i \in 2..n : rxChan[i] # e /\ rxChan[i] \in RxEvents /\ rxBuffer'[rxChan[i]] = rxBuffer[rxChan[i]]
    BY <1>1 DEF RxIInv, RxTypes, OwnedOnce
  <1>4. \A i \in 1..Len(rxChan') : i + 1 \in 2..n /\ rxBuffer'[rxChan'[i]] = rxBuffer[rxChan[i + 1]]
    BY <1>1, <1>3
  <1>5. \A s \in Streams : holding[s] # e
    BY <1>1 DEF RxIInv, OwnedOnce
  <1>6. /\ delivered' \in Seq(Streams \X Nat)
        /\ \A i \in 1..Len(delivered') :
             \/ i \in 1..d /\ delivered'[i] = delivered[i]
             \/ i = d + 1 /\ delivered'[i] = m /\ Len(delivered') = d + 1
    <2>1. delivered \in Seq(Streams \X Nat)
      BY DEF RxIInv, RxTypes
    <2>2. CASE delivered' = delivered
      BY <2>1, <2>2
    <2>3. CASE delivered' = Append(delivered, m)
      <3> HIDE DEF m
      <3>1. delivered' \in Seq(Streams \X Nat)
        BY <1>2, <2>1, <2>3
      <3>2. Len(delivered') = d + 1 /\ delivered'[d + 1] = m
        BY <2>1, <2>3
      <3>3. \A i \in 1..d : delivered'[i] = delivered[i]
        BY <2>1, <2>3
      <3> HIDE DEF d
      <3> QED
        BY <1>1, <3>1, <3>2, <3>3
    <2> QED
      BY <2>2, <2>3
  <1> HIDE DEF e, n, m, d
  <1> USE RxFacts
  <1>8. RxTypes'
    BY <1>1, <1>6 DEF RxIInv, RxTypes, e
  <1>9. OwnedOnce'
    <2>1. \A i \in 1..Len(rxChan') : rxChan'[i] \notin rxPool'
      BY <1>1, <1>3, <1>4 DEF RxIInv, OwnedOnce, e, n
    <2>2. \A i, j \in 1..Len(rxChan') : i # j => rxChan'[i] # rxChan'[j]
      BY <1>1 DEF RxIInv, OwnedOnce, n
    <2>3. \A s \in Streams : holding'[s] \notin rxPool'
      BY <1>5 DEF RxIInv, OwnedOnce, e
    <2>4. \A s \in Streams : \A i \in 1..Len(rxChan') : holding'[s] # rxChan'[i]
      BY <1>1 DEF RxIInv, OwnedOnce, n
    <2>5. \A s, t \in Streams : s # t => holding'[s] = RxNoEvent \/ holding'[s] # holding'[t]
      BY DEF RxIInv, OwnedOnce
    <2> QED
      BY <2>1, <2>2, <2>3, <2>4, <2>5 DEF OwnedOnce
  <1>10. Filled'
    <2>1. ASSUME NEW s \in Streams, holding[s] # RxNoEvent
          PROVE  rxBuffer'[holding[s]] = <<s, sent[s]>>
      BY <2>1, <1>5 DEF RxIInv, RxTypes, Filled, e
    <2>2. ASSUME NEW i \in 1..Len(rxChan')
          PROVE  LET k == rxBuffer[rxChan[i + 1]] IN
                 /\ k \in Streams \X Nat /\ k[2] <= sent[k[1]]
                 /\ holding[k[1]] # RxNoEvent => k[2] < sent[k[1]]
      BY <1>1 DEF RxIInv, Filled, n
    <2> QED
      BY <2>1, <2>2, <1>4 DEF Filled
  <1>11. Earlier'
    BY <1>2, <1>6 DEF RxIInv, Earlier, d
  <1>12. Ordered'
    <2>1. \A j \in 2..n : m[1] = rxBuffer[rxChan[j]][1] => m[2] < rxBuffer[rxChan[j]][2]
      BY <1>1 DEF RxIInv, Ordered, n, m
    <2>2. \A i \in 1..d : delivered[i][1] = m[1] => delivered[i][2] < m[2]
      BY <1>1 DEF RxIInv, Ordered, n, m, d
    <2>3. ASSUME NEW i \in 1..Len(rxChan'), NEW j \in 1..Len(rxChan'), i < j,
                 rxBuffer[rxChan[i + 1]][1] = rxBuffer[rxChan[j + 1]][1]
          PROVE  rxBuffer[rxChan[i + 1]][2] < rxBuffer[rxChan[j + 1]][2]
      BY <2>3, <1>1 DEF RxIInv, Ordered, n
    <2>4. ASSUME NEW i \in 1..Len(delivered'), NEW j \in 1..Len(rxChan'),
                 delivered'[i][1] = rxBuffer[rxChan[j + 1]][1]
          PROVE  delivered'[i][2] < rxBuffer[rxChan[j + 1]][2]
      BY ZenonT(30), <2>1, <2>4, <1>1, <1>4, <1>6 DEF RxIInv, Ordered, n, d
    <2>5. ASSUME NEW i \in 1..Len(delivered'), NEW j \in 1..Len(delivered'), i < j,
                 delivered'[i][1] = delivered'[j][1]
          PROVE  delivered'[i][2] < delivered'[j][2]
      <3>1. i \in 1..d /\ delivered'[i] = delivered[i]
        BY <2>5, <1>1, <1>6
      <3>2. CASE j \in 1..d /\ delivered'[j] = delivered[j]
        BY <2>5, <3>1, <3>2 DEF RxIInv, Ordered, d
      <3>3. CASE delivered'[j] = m
        BY <2>2, <2>5, <3>1, <3>3
      <3> QED
        BY <3>2, <3>3, <1>6
    <2>6. ASSUME NEW i \in 1..Len(rxChan'), NEW j \in 1..Len(rxChan'), i < j,
                 rxBuffer'[rxChan'[i]][1] = rxBuffer'[rxChan'[j]][1]
          PROVE  rxBuffer'[rxChan'[i]][2] < rxBuffer'[rxChan'[j]][2]
      <3>1. /\ rxBuffer'[rxChan'[i]] = rxBuffer[rxChan[i + 1]]
            /\ rxBuffer'[rxChan'[j]] = rxBuffer[rxChan[j + 1]]
        BY <1>4, Zenon
      <3> QED
        BY <2>3, <2>6, <3>1, Zenon
    <2>7. ASSUME NEW i \in 1..Len(delivered'), NEW j \in 1..Len(rxChan'),
                 delivered'[i][1] = rxBuffer'[rxChan'[j]][1]
          PROVE  delivered'[i][2] < rxBuffer'[rxChan'[j]][2]
      <3>1. rxBuffer'[rxChan'[j]] = rxBuffer[rxChan[j + 1]]
        BY <1>4, Zenon
      <3> QED
        BY <2>4, <2>7, <3>1, Zenon
    <2> QED
      BY <2>5, <2>6, <2>7, Zenon DEF Ordered
  <1> QED
    BY <1>8, <1>9, <1>10, <1>11, <1>12 DEF RxIInv

LEMMA RxStepInv == RxIInv /\ [RxNext]_rxVars => RxIInv'
  <1> SUFFICES ASSUME RxIInv, [RxNext]_rxVars PROVE RxIInv'
    OBVIOUS
  <1>1. ASSUME UNCHANGED <<rxBuffer, rxPool, sent, holding, rxChan, delivered>> PROVE RxIInv'
    BY SMTT(30), <1>1 DEF RxIInv, RxTypes, OwnedOnce, Filled, Earlier, Ordered
  <1>2. ASSUME NEW s \in Streams, SkipMessage(s) \/ ReaderEnds(s) PROVE RxIInv'
    BY <1>1, <1>2 DEF SkipMessage, ReaderEnds
  <1>3. CASE writeDevice
    BY <1>3, TakeKeeps DEF writeDevice
  <1>4. CASE WriteError
    BY <1>4, TakeKeeps DEF WriteError
  <1>5. CASE RxStop \/ UNCHANGED rxVars
    BY <1>1, <1>5 DEF RxStop, rxVars
  <1> QED
    BY <1>2, <1>3, <1>4, <1>5, ReceiveKeeps, QueueKeeps DEF RxNext

(* With any number of streams, a failing writer and a hub that stops, no    *)
(* event of the pool is in two hands.                                       *)
THEOREM RxEventsOwned == RxSpec => []RxEventOwnedOnce
  <1>1. RxIInv => RxEventOwnedOnce
    <2> SUFFICES ASSUME RxIInv PROVE RxEventOwnedOnce
      OBVIOUS
    <2>1. DOMAIN rxChan = 1..Len(rxChan)
      BY DEF RxIInv, RxTypes
    <2> QED
      BY <2>1 DEF RxIInv, OwnedOnce, RxEventOwnedOnce, IsInjective, Range
  <1> QED
    BY <1>1, RxInitInv, RxStepInv, PTL DEF RxSpec

(* The device gets the messages of every stream in the order they were      *)
(* read, although streams share the queue and writers change.               *)
THEOREM RxDeliversInOrder == RxSpec => []RxInOrder
  <1>1. RxIInv => RxInOrder
    <2> SUFFICES ASSUME RxIInv PROVE RxInOrder
      OBVIOUS
    <2>1. DOMAIN delivered = 1..Len(delivered)
      BY DEF RxIInv, RxTypes
    <2> QED
      BY <2>1 DEF RxIInv, Ordered, RxInOrder
  <1> QED
    BY <1>1, RxInitInv, RxStepInv, PTL DEF RxSpec

-------------------------------------------------------------------------------
(* RxNothingLost, by positions: the message was handed over or lost, is in  *)
(* the queue, or is in the hand of its reader.                              *)
GoneOut(m) == m \in lost \/ \E k \in 1..Len(delivered) : delivered[k] = m
Queued(m) == \E k \in 1..Len(rxChan) : rxBuffer[rxChan[k]] = m
InHand(s, m) == holding[s] # RxNoEvent /\ rxBuffer[holding[s]] = m

Accounted ==
  \A s \in Streams : \A i \in 1..sent[s] :
    GoneOut(<<s, i>>) \/ Queued(<<s, i>>) \/ InHand(s, <<s, i>>)

(* A message just read is in the hand of its reader; *)
LEMMA ReceiveAccounts ==
  ASSUME RxIInv, Accounted, NEW s \in Streams, Receive(s)
  PROVE  Accounted'
  <1> DEFINE e == CHOOSE free \in rxPool : TRUE
  <1>1. e \in rxPool /\ e \in RxEvents
    BY DEF Receive, RxIInv, RxTypes
  <1>2. /\ rxBuffer' = [rxBuffer EXCEPT ![e] = <<s, sent[s] + 1>>]
        /\ holding' = [holding EXCEPT ![s] = e] /\ sent' = [sent EXCEPT ![s] = @ + 1]
        /\ holding[s] = RxNoEvent /\ UNCHANGED <<rxChan, delivered, lost>>
    BY DEF Receive
  <1> HIDE DEF e
  <1>3. /\ holding'[s] = e /\ e # RxNoEvent /\ rxBuffer'[e] = <<s, sent[s] + 1>>
        /\ sent[s] \in Nat /\ sent'[s] = sent[s] + 1 /\ \A t \in Streams \ {s} : sent'[t] = sent[t]
    BY <1>1, <1>2, RxFacts DEF RxIInv, RxTypes
  <1> SUFFICES ASSUME NEW t \in Streams, NEW i \in 1..sent'[t]
               PROVE  (GoneOut(<<t, i>>) \/ Queued(<<t, i>>) \/ InHand(t, <<t, i>>))'
    BY DEF Accounted
  <1>4. GoneOut(<<t, i>>) => GoneOut(<<t, i>>)'
    BY <1>2 DEF GoneOut
  <1>5. Queued(<<t, i>>) => Queued(<<t, i>>)'
    <2>1. \A k \in 1..Len(rxChan) : rxBuffer'[rxChan[k]] = rxBuffer[rxChan[k]]
      BY <1>1, <1>2 DEF RxIInv, RxTypes, OwnedOnce
    <2> QED
      BY <1>2, <2>1 DEF Queued
  <1>6. InHand(t, <<t, i>>) => InHand(t, <<t, i>>)'
    BY <1>1, <1>2 DEF RxIInv, RxTypes, OwnedOnce, InHand
  <1>7. CASE t = s /\ i = sent[s] + 1
    BY <1>3, <1>7 DEF InHand
  <1>8. CASE ~(t = s /\ i = sent[s] + 1)
    <2>1. i \in 1..sent[t]
      BY <1>3, <1>8
    <2> QED
      BY <1>4, <1>5, <1>6, <2>1 DEF Accounted
  <1> QED
    BY <1>7, <1>8

(* and when it is queued its place changes. *)
LEMMA QueueAccounts ==
  ASSUME RxIInv, Accounted, NEW s \in Streams, QueueEvent(s)
  PROVE  Accounted'
  <1>1. /\ rxChan' = Append(rxChan, holding[s]) /\ holding' = [holding EXCEPT ![s] = RxNoEvent]
        /\ UNCHANGED <<rxBuffer, sent, delivered, lost>> /\ holding[s] # RxNoEvent
    BY DEF QueueEvent, PushEvent
  <1>2. /\ rxChan'[Len(rxChan) + 1] = holding[s] /\ Len(rxChan) + 1 \in 1..Len(rxChan')
        /\ \A k \in 1..Len(rxChan) : rxChan'[k] = rxChan[k] /\ k \in 1..Len(rxChan')
    BY <1>1 DEF RxIInv, RxTypes
  <1> SUFFICES ASSUME NEW t \in Streams, NEW i \in 1..sent[t]
               PROVE  (GoneOut(<<t, i>>) \/ Queued(<<t, i>>) \/ InHand(t, <<t, i>>))'
    BY <1>1 DEF Accounted
  <1>3. GoneOut(<<t, i>>) => GoneOut(<<t, i>>)'
    BY <1>1 DEF GoneOut
  <1>4. Queued(<<t, i>>) => Queued(<<t, i>>)'
    BY <1>1, <1>2 DEF Queued
  <1>5. InHand(t, <<t, i>>) => InHand(t, <<t, i>>)' \/ Queued(<<t, i>>)'
    <2>1. CASE t = s
      BY <1>1, <1>2, <2>1 DEF Queued, InHand
    <2>2. CASE t # s
      BY <1>1, <2>2 DEF InHand, RxIInv, RxTypes
    <2> QED
      BY <2>1, <2>2
  <1> QED
    BY <1>3, <1>4, <1>5 DEF Accounted

(* The writer hands the first message over or loses it. *)
LEMMA TakeAccounts ==
  ASSUME RxIInv, Accounted, rxChan # <<>>, rxChan' = Tail(rxChan),
         rxBuffer' = [rxBuffer EXCEPT ![Head(rxChan)] = <<>>],
         \/ delivered' = delivered /\ lost' = lost \cup {rxBuffer[Head(rxChan)]}
         \/ delivered' = Append(delivered, rxBuffer[Head(rxChan)]) /\ lost' = lost,
         UNCHANGED <<sent, holding>>
  PROVE  Accounted'
  <1> DEFINE e == Head(rxChan)
             m == rxBuffer[e]
  <1>1. /\ e = rxChan[1] /\ 1 \in 1..Len(rxChan)
        /\ \A k \in 1..Len(rxChan) : k # 1 => k - 1 \in 1..Len(rxChan') /\ rxChan'[k - 1] = rxChan[k]
    BY DEF RxIInv, RxTypes
  <1>2. \A k \in 1..Len(rxChan) : k # 1 => rxBuffer'[rxChan[k]] = rxBuffer[rxChan[k]]
    BY <1>1 DEF RxIInv, RxTypes, OwnedOnce
  <1>3. m \in Streams \X Nat /\ delivered \in Seq(Streams \X Nat)
    BY <1>1 DEF RxIInv, RxTypes, Filled
  <1> HIDE DEF m, e
  <1>4. \A x : x = m \/ GoneOut(x) => GoneOut(x)'
    <2>1. CASE delivered' = delivered /\ lost' = lost \cup {m}
      BY <2>1 DEF GoneOut
    <2>2. CASE delivered' = Append(delivered, m) /\ lost' = lost
      <3>1. /\ Len(delivered') \in 1..Len(delivered') /\ delivered'[Len(delivered')] = m
            /\ \A k \in 1..Len(delivered) : k \in 1..Len(delivered') /\ delivered'[k] = delivered[k]
        BY <1>3, <2>2
      <3> QED
        BY <2>2, <3>1 DEF GoneOut
    <2> QED
      BY <2>1, <2>2 DEF m, e
  <1> SUFFICES ASSUME NEW s \in Streams, NEW i \in 1..sent[s]
               PROVE  (GoneOut(<<s, i>>) \/ Queued(<<s, i>>) \/ InHand(s, <<s, i>>))'
    BY DEF Accounted
  <1>5. ASSUME NEW k \in 1..Len(rxChan), rxBuffer[rxChan[k]] = <<s, i>>
        PROVE  GoneOut(<<s, i>>)' \/ Queued(<<s, i>>)'
    <2>1. CASE k = 1
      <3>1. m = <<s, i>>
        BY <1>1, <1>5, <2>1 DEF m
      <3> QED
        BY <1>4, <3>1
    <2>2. CASE k # 1
      <3>1. k - 1 \in 1..Len(rxChan') /\ rxBuffer'[rxChan'[k - 1]] = <<s, i>>
        BY Zenon, <1>1, <1>2, <1>5, <2>2
      <3> QED
        BY <3>1, Zenon DEF Queued
    <2> QED
      BY <2>1, <2>2
  <1>6. InHand(s, <<s, i>>) => InHand(s, <<s, i>>)'
    BY <1>1 DEF RxIInv, RxTypes, OwnedOnce, InHand, e
  <1> QED
    BY <1>4, <1>5, <1>6, Zenon DEF Accounted, Queued

(* Every step keeps account of every message. *)
LEMMA AccountsStep == RxIInv /\ Accounted /\ [RxNext]_rxVars => Accounted'
  <1> SUFFICES ASSUME RxIInv, Accounted, [RxNext]_rxVars PROVE Accounted'
    OBVIOUS
  <1>1. ASSUME UNCHANGED <<rxBuffer, sent, holding, rxChan, delivered, lost>> PROVE Accounted'
    BY <1>1 DEF Accounted, GoneOut, Queued, InHand
  <1>2. ASSUME NEW s \in Streams, SkipMessage(s) \/ ReaderEnds(s) PROVE Accounted'
    BY <1>1, <1>2 DEF SkipMessage, ReaderEnds
  <1>3. CASE writeDevice
    BY <1>3, TakeAccounts DEF writeDevice
  <1>4. CASE WriteError
    BY <1>4, TakeAccounts DEF WriteError
  <1>5. CASE RxStop \/ UNCHANGED rxVars
    BY <1>1, <1>5 DEF RxStop, rxVars
  <1> QED
    BY <1>2, <1>3, <1>4, <1>5, ReceiveAccounts, QueueAccounts DEF RxNext

(* Whatever the streams, the length of the queue and the writers do, only a *)
(* failed write to the device loses a message that was read.                *)
THEOREM RxLosesNothing == RxSpec => []RxNothingLost
  <1>1. RxInit => Accounted
    BY DEF RxInit, Accounted
  <1>2. RxIInv /\ Accounted => RxNothingLost
    <2> SUFFICES ASSUME RxIInv, Accounted, NEW s \in Streams, NEW i \in 1..sent[s]
                 PROVE  \/ <<s, i>> \in Range(delivered) \cup lost
                        \/ \E e \in Range(rxChan) \cup Range(holding) :
                             e # RxNoEvent /\ rxBuffer[e] = <<s, i>>
      BY DEF RxNothingLost
    <2>1. /\ DOMAIN delivered = 1..Len(delivered) /\ DOMAIN rxChan = 1..Len(rxChan)
          /\ DOMAIN holding = Streams
          /\ \A k \in 1..Len(rxChan) : rxChan[k] # RxNoEvent
      BY RxFacts DEF RxIInv, RxTypes
    <2> QED
      BY <2>1, Zenon DEF Accounted, GoneOut, Queued, InHand, Range
  <1> QED
    BY <1>1, <1>2, RxInitInv, RxStepInv, AccountsStep, PTL DEF RxSpec

-------------------------------------------------------------------------------
TxStates == {"idle", "wait", "done", "gone"}
RxStates == {"idle", "accept", "wait", "done", "gone", "never"}

UpTypes ==
  /\ dialer \in [StreamIds -> Sides \cup {None}]
  /\ txEval \in [StreamIds -> TxStates] /\ rxEval \in [StreamIds -> RxStates]
  /\ openAt \in [Sides -> SUBSET StreamIds] /\ readBy \in [Sides -> SUBSET StreamIds]
  /\ connections \in [Sides -> SUBSET StreamIds]
  /\ \A s \in StreamIds : dialer[s] = None => txEval[s] = "idle" /\ rxEval[s] = "idle"

(* Where the evaluation of a side is: the dialler's or the acceptor's. *)
Eval(c, s) == IF c = dialer[s] THEN txEval[s] ELSE rxEval[s]

(* A side keeps its end open while it evaluates, reads the stream only      *)
(* after a pass, and after a pass reads it or has closed it: it refused it, *)
(* or met its end.                                                          *)
EvalInv ==
  \A c \in Sides, s \in StreamIds :
    /\ dialer[s] = None => s \notin readBy[c]
    /\ dialer[s] # None =>
         /\ Eval(c, s) \in {"accept", "wait"} => s \in openAt[c]
         /\ s \in readBy[c] => Eval(c, s) = "done"
         /\ Eval(c, s) = "done" => s \in readBy[c] \/ s \notin openAt[c]

UpIInv == UpTypes /\ UpTypeOK /\ EvalInv

LEMMA OtherFacts ==
  ASSUME NEW c \in Sides
  PROVE  Other(c) \in Sides /\ Other(c) # c /\ \A d \in Sides : d = c \/ d = Other(c)
  <1>1. PICK a \in Sides, b \in Sides : a # b /\ Sides = {a, b}
    BY UpgradeAssumption
  <1>2. \E d \in Sides : d # c
    BY <1>1
  <1>3. Other(c) \in Sides /\ Other(c) # c
    BY <1>2 DEF Other
  <1> QED
    BY <1>1, <1>3

LEMMA StreamFacts ==
  None \notin StreamIds /\ Relayed \notin StreamIds /\ None # Relayed /\ None \notin Sides
  BY UpgradeAssumption DEF StreamIds

LEMMA UpInitInv == UpInit => UpIInv
  <1> SUFFICES ASSUME UpInit PROVE UpIInv
    OBVIOUS
  <1>1. UpTypes
    BY DEF UpInit, UpTypes, TxStates, RxStates
  <1>2. UpTypeOK
    BY DEF UpInit, UpTypeOK, Transports
  <1>3. EvalInv
    BY DEF UpInit, EvalInv
  <1> QED
    BY <1>1, <1>2, <1>3 DEF UpIInv

(* A step of one side's evaluation of one stream: every other evaluation    *)
(* and every other end stay as they are.                                    *)
OneEval(c, s) ==
  /\ dialer' = dialer
  /\ \A d \in Sides, t \in StreamIds :
       d # c \/ t # s => /\ Eval(d, t)' = Eval(d, t)
                         /\ t \in openAt'[d] <=> t \in openAt[d]
                         /\ t \in readBy'[d] <=> t \in readBy[d]

LEMMA OneEvalKeeps ==
  ASSUME UpIInv, NEW c \in Sides, NEW s \in StreamIds, dialer[s] # None, OneEval(c, s),
         Eval(c, s)' \in {"accept", "wait"} => s \in openAt'[c],
         s \in readBy'[c] => Eval(c, s)' = "done",
         Eval(c, s)' = "done" => s \in readBy'[c] \/ s \notin openAt'[c]
  PROVE  EvalInv'
  <1> SUFFICES ASSUME NEW d \in Sides, NEW t \in StreamIds
               PROVE  /\ dialer'[t] = None => t \notin readBy'[d]
                      /\ dialer'[t] # None =>
                           /\ Eval(d, t)' \in {"accept", "wait"} => t \in openAt'[d]
                           /\ t \in readBy'[d] => Eval(d, t)' = "done"
                           /\ Eval(d, t)' = "done" => t \in readBy'[d] \/ t \notin openAt'[d]
    BY DEF EvalInv
  <1>1. CASE d = c /\ t = s
    BY <1>1 DEF OneEval
  <1>2. CASE d # c \/ t # s
    BY <1>2 DEF OneEval, UpIInv, EvalInv
  <1> QED
    BY <1>1, <1>2

(* Both sides end an evaluation that passes with replaceP2P. *)
LEMMA ReplaceKeeps ==
  ASSUME UpIInv, NEW c \in Sides, NEW s \in StreamIds, dialer[s] # None,
         Eval(c, s) = "wait", replaceP2P(c, s), Eval(c, s)' = "done",
         dialer' = dialer,
         \A d \in Sides, t \in StreamIds : d # c \/ t # s => Eval(d, t)' = Eval(d, t),
         txEval' \in [StreamIds -> TxStates], rxEval' \in [StreamIds -> RxStates],
         \A t \in StreamIds : dialer[t] = None => txEval'[t] = "idle" /\ rxEval'[t] = "idle"
  PROVE  UpIInv'
  <1>1. s \in openAt[c] /\ s \notin readBy[c]
    BY DEF UpIInv, EvalInv
  <1>2. CASE upFallback[c] # None \/ IsP2P(upTx[c])
    <2>1. /\ openAt' = [openAt EXCEPT ![c] = @ \ {s}]
          /\ UNCHANGED <<readBy, upTx, upFallback, connections>>
      BY <1>2 DEF replaceP2P
    <2>2. UpTypes' /\ UpTypeOK'
      BY <1>1, <2>1 DEF UpIInv, UpTypes, UpTypeOK
    <2>3. OneEval(c, s) /\ s \notin openAt'[c] /\ s \notin readBy'[c]
      BY <1>1, <2>1 DEF OneEval, UpIInv, UpTypes
    <2> QED
      BY <2>2, <2>3, OneEvalKeeps DEF UpIInv
  <1>3. CASE ~(upFallback[c] # None \/ IsP2P(upTx[c]))
    <2>1. /\ upTx' = [upTx EXCEPT ![c] = s] /\ upFallback' = [upFallback EXCEPT ![c] = upTx[c]]
          /\ readBy' = [readBy EXCEPT ![c] = @ \cup {s}]
          /\ connections' = [connections EXCEPT ![c] = @ \cup {s}] /\ openAt' = openAt
      BY <1>3 DEF replaceP2P
    <2>2. upTx[c] \in {None, Relayed}
      BY <1>3 DEF UpIInv, UpTypeOK, Transports, IsP2P
    <2>3. UpTypes'
      BY <2>1 DEF UpIInv, UpTypes
    <2>4. UpTypeOK'
      <3>1. upTx' \in [Sides -> Transports] /\ upFallback' \in [Sides -> {None, Relayed}]
        BY <2>1, <2>2 DEF UpIInv, UpTypeOK, Transports
      <3>2. ASSUME NEW d \in Sides
            PROVE  /\ readBy'[d] \subseteq openAt'[d] /\ readBy'[d] \subseteq connections'[d]
                   /\ upFallback'[d] # None => upTx'[d] # None
        BY <1>1, <2>1, StreamFacts DEF UpIInv, UpTypes, UpTypeOK
      <3> QED
        BY <3>1, <3>2 DEF UpTypeOK
    <2>5. OneEval(c, s) /\ s \in readBy'[c]
      BY SMTT(30), <2>1 DEF OneEval, UpIInv, UpTypes
    <2> QED
      BY <2>3, <2>4, <2>5, OneEvalKeeps DEF UpIInv
  <1> QED
    BY <1>2, <1>3

(* A side that gives up a stream it does not read; it may close its end. *)
LEMMA GiveUpKeeps ==
  ASSUME UpIInv, NEW c \in Sides, NEW s \in StreamIds, dialer[s] # None,
         Eval(c, s) \in {"accept", "wait"}, Eval(c, s)' \in {"gone", "never"},
         openAt' \in {openAt, [openAt EXCEPT ![c] = @ \ {s}]},
         UNCHANGED <<dialer, readBy, upTx, upFallback, connections>>,
         \A d \in Sides, t \in StreamIds : d # c \/ t # s => Eval(d, t)' = Eval(d, t),
         txEval' \in [StreamIds -> TxStates], rxEval' \in [StreamIds -> RxStates],
         \A t \in StreamIds : dialer[t] = None => txEval'[t] = "idle" /\ rxEval'[t] = "idle"
  PROVE  UpIInv'
  <1>1. s \notin readBy[c]
    BY Zenon DEF UpIInv, EvalInv
  <1>2. UpTypes' /\ UpTypeOK'
    BY <1>1 DEF UpIInv, UpTypes, UpTypeOK
  <1>3. OneEval(c, s)
    BY DEF OneEval, UpIInv, UpTypes
  <1>4. Eval(c, s)' \notin {"accept", "wait", "done"} /\ s \notin readBy'[c]
    BY <1>1
  <1>5. EvalInv'
    BY Zenon, <1>3, <1>4, OneEvalKeeps
  <1> QED
    BY Zenon, <1>2, <1>5 DEF UpIInv

LEMMA UpStepInv == UpIInv /\ [UpNext]_upVars => UpIInv'
  <1> SUFFICES ASSUME UpIInv, [UpNext]_upVars PROVE UpIInv'
    OBVIOUS
  <1> USE StreamFacts
  <1>0. ASSUME NEW s \in StreamIds, txEval[s] # "idle" \/ rxEval[s] # "idle"
        PROVE  /\ dialer[s] \in Sides /\ dialer[s] # None
               /\ Other(dialer[s]) \in Sides /\ Other(dialer[s]) # dialer[s]
               /\ \A d \in Sides : d = dialer[s] \/ d = Other(dialer[s])
    BY <1>0, OtherFacts DEF UpIInv, UpTypes
  <1>1. ASSUME NEW s \in StreamIds, TxFail(s) \/ TxTimeout(s) PROVE UpIInv'
    <2>1. txEval[s] = "wait" /\ txEval' = [txEval EXCEPT ![s] = "gone"] /\ rxEval' = rxEval /\ dialer' = dialer
      BY <1>1 DEF TxFail, TxTimeout
    <2>2. dialer[s] \in Sides /\ dialer[s] # None
      BY <2>1, <1>0
    <2>3. Eval(dialer[s], s) = "wait" /\ Eval(dialer[s], s)' = "gone"
      BY <2>1 DEF Eval, UpIInv, UpTypes
    <2>4. \A d \in Sides, t \in StreamIds : d # dialer[s] \/ t # s => Eval(d, t)' = Eval(d, t)
      BY <2>1 DEF Eval, UpIInv, UpTypes
    <2>5. /\ txEval' \in [StreamIds -> TxStates] /\ rxEval' \in [StreamIds -> RxStates]
          /\ \A t \in StreamIds : dialer[t] = None => txEval'[t] = "idle" /\ rxEval'[t] = "idle"
      BY <2>1, <2>2 DEF UpIInv, UpTypes, TxStates
    <2>6. /\ openAt' \in {openAt, [openAt EXCEPT ![dialer[s]] = @ \ {s}]}
          /\ UNCHANGED <<dialer, readBy, upTx, upFallback, connections>>
      BY <1>1 DEF TxFail, TxTimeout
    <2> QED
      BY <2>2, <2>3, <2>4, <2>5, <2>6, GiveUpKeeps
  <1>2. ASSUME NEW s \in StreamIds, RxFail(s) \/ RxTimeout(s) \/ Unknown(s) PROVE UpIInv'
    <2>1. PICK to \in {"gone", "never"} :
            /\ rxEval[s] \in {"accept", "wait"} /\ rxEval' = [rxEval EXCEPT ![s] = to]
            /\ txEval' = txEval /\ dialer' = dialer
      BY <1>2 DEF RxFail, RxTimeout, Unknown, UpIInv, UpTypes
    <2>2. PICK c \in Sides : /\ c = Other(dialer[s]) /\ dialer[s] # None
                             /\ c # dialer[s] /\ \A d \in Sides : d = dialer[s] \/ d = c
      BY <2>1, <1>0
    <2>3. Eval(c, s) = rxEval[s] /\ Eval(c, s)' = to
      BY <2>1, <2>2 DEF Eval, UpIInv, UpTypes
    <2>4. \A d \in Sides, t \in StreamIds : d # c \/ t # s => Eval(d, t)' = Eval(d, t)
      BY <2>1, <2>2 DEF Eval, UpIInv, UpTypes
    <2>5. /\ txEval' \in [StreamIds -> TxStates] /\ rxEval' \in [StreamIds -> RxStates]
          /\ \A t \in StreamIds : dialer[t] = None => txEval'[t] = "idle" /\ rxEval'[t] = "idle"
      BY <2>1, <2>2 DEF UpIInv, UpTypes, RxStates
    <2>6. /\ openAt' \in {openAt, [openAt EXCEPT ![c] = @ \ {s}]}
          /\ UNCHANGED <<dialer, readBy, upTx, upFallback, connections>>
      BY <1>2, <2>2 DEF RxFail, RxTimeout, Unknown
    <2> QED
      BY <2>1, <2>2, <2>3, <2>4, <2>5, <2>6, GiveUpKeeps
  <1>3. ASSUME NEW s \in StreamIds, TxPass(s) PROVE UpIInv'
    <2>1. txEval[s] = "wait" /\ txEval' = [txEval EXCEPT ![s] = "done"] /\ rxEval' = rxEval /\ dialer' = dialer
      BY <1>3 DEF TxPass
    <2>2. dialer[s] \in Sides /\ dialer[s] # None
      BY <2>1, <1>0
    <2>3. Eval(dialer[s], s) = "wait" /\ Eval(dialer[s], s)' = "done"
      BY <2>1 DEF Eval, UpIInv, UpTypes
    <2>4. \A d \in Sides, t \in StreamIds : d # dialer[s] \/ t # s => Eval(d, t)' = Eval(d, t)
      BY <2>1 DEF Eval, UpIInv, UpTypes
    <2>5. /\ txEval' \in [StreamIds -> TxStates] /\ rxEval' \in [StreamIds -> RxStates]
          /\ \A t \in StreamIds : dialer[t] = None => txEval'[t] = "idle" /\ rxEval'[t] = "idle"
      BY <2>1, <2>2 DEF UpIInv, UpTypes, TxStates
    <2>6. replaceP2P(dialer[s], s)
      BY <1>3 DEF TxPass
    <2> QED
      BY <2>1, <2>2, <2>3, <2>4, <2>5, <2>6, ReplaceKeeps
  <1>4. ASSUME NEW s \in StreamIds, RxPass(s) PROVE UpIInv'
    <2>1. rxEval[s] = "wait" /\ rxEval' = [rxEval EXCEPT ![s] = "done"] /\ txEval' = txEval /\ dialer' = dialer
      BY <1>4 DEF RxPass
    <2>2. PICK c \in Sides : /\ c = Other(dialer[s]) /\ dialer[s] # None
                             /\ c # dialer[s] /\ \A d \in Sides : d = dialer[s] \/ d = c
      BY <2>1, <1>0
    <2>3. Eval(c, s) = "wait" /\ Eval(c, s)' = "done"
      BY <2>1, <2>2 DEF Eval, UpIInv, UpTypes
    <2>4. \A d \in Sides, t \in StreamIds : d # c \/ t # s => Eval(d, t)' = Eval(d, t)
      BY <2>1, <2>2 DEF Eval, UpIInv, UpTypes
    <2>5. /\ txEval' \in [StreamIds -> TxStates] /\ rxEval' \in [StreamIds -> RxStates]
          /\ \A t \in StreamIds : dialer[t] = None => txEval'[t] = "idle" /\ rxEval'[t] = "idle"
      BY <2>1, <2>2 DEF UpIInv, UpTypes, RxStates
    <2>6. replaceP2P(c, s)
      BY Zenon, <1>4, <2>2 DEF RxPass
    <2> QED
      BY <2>1, <2>2, <2>3, <2>4, <2>5, <2>6, ReplaceKeeps
  <1>5. ASSUME NEW s \in StreamIds, Pong(s) PROVE UpIInv'
    <2>1. /\ rxEval[s] = "accept" /\ rxEval' = [rxEval EXCEPT ![s] = "wait"]
          /\ UNCHANGED <<dialer, txEval, openAt, readBy, upTx, upFallback, connections>>
      BY <1>5 DEF Pong
    <2>2. PICK c \in Sides : /\ c = Other(dialer[s]) /\ dialer[s] # None
                             /\ c # dialer[s] /\ \A d \in Sides : d = dialer[s] \/ d = c
      BY <2>1, <1>0
    <2>3. Eval(c, s) = "accept" /\ Eval(c, s)' = "wait"
      BY <2>1, <2>2 DEF Eval, UpIInv, UpTypes
    <2>4. OneEval(c, s)
      BY <2>1, <2>2 DEF OneEval, Eval, UpIInv, UpTypes
    <2>5. UpTypes' /\ UpTypeOK'
      BY <2>1, <2>2 DEF UpIInv, UpTypes, UpTypeOK, RxStates
    <2>6. s \in openAt[c] /\ s \notin readBy[c]
      BY Zenon, <2>2, <2>3 DEF UpIInv, EvalInv
    <2> QED
      BY <2>1, <2>2, <2>3, <2>4, <2>5, <2>6, OneEvalKeeps DEF UpIInv
  <1>6. ASSUME NEW c \in Sides, NEW s \in StreamIds, tryP2P(c, s) PROVE UpIInv'
    <2>1. /\ dialer[s] = None /\ dialer' = [dialer EXCEPT ![s] = c]
          /\ txEval' = [txEval EXCEPT ![s] = "wait"] /\ rxEval' = [rxEval EXCEPT ![s] = "accept"]
          /\ openAt' = [d \in Sides |-> openAt[d] \cup {s}]
          /\ UNCHANGED <<readBy, upTx, upFallback, connections>>
      BY Zenon, <1>6 DEF tryP2P
    <2>2. UpTypes' /\ UpTypeOK'
      <3>1. UpTypes'
        BY <2>1 DEF UpIInv, UpTypes, TxStates, RxStates
      <3>2. UpTypeOK'
        BY <2>1, <3>1 DEF UpIInv, UpTypes, UpTypeOK
      <3> QED
        BY <3>1, <3>2
    <2>3. ASSUME NEW d \in Sides, NEW t \in StreamIds
          PROVE  /\ dialer'[t] = None => t \notin readBy'[d]
                 /\ dialer'[t] # None =>
                      /\ Eval(d, t)' \in {"accept", "wait"} => t \in openAt'[d]
                      /\ t \in readBy'[d] => Eval(d, t)' = "done"
                      /\ Eval(d, t)' = "done" => t \in readBy'[d] \/ t \notin openAt'[d]
      <3>1. CASE t = s
        BY <3>1, <2>1 DEF Eval, UpIInv, UpTypes, EvalInv
      <3>2. CASE t # s
        <4>1. /\ dialer'[t] = dialer[t] /\ txEval'[t] = txEval[t] /\ rxEval'[t] = rxEval[t]
              /\ t \in openAt'[d] <=> t \in openAt[d]
          BY <3>2, <2>1 DEF UpIInv, UpTypes
        <4> QED
          BY <4>1, <2>1 DEF Eval, UpIInv, EvalInv
      <3> QED
        BY <3>1, <3>2
    <2> QED
      BY Zenon, <2>2, <2>3 DEF UpIInv, EvalInv
  <1>7. ASSUME NEW c \in Sides, NEW s \in StreamIds, ReadEnds(c, s) PROVE UpIInv'
    <2>1. /\ s \in readBy[c] /\ readBy' = [readBy EXCEPT ![c] = @ \ {s}]
          /\ openAt' = [openAt EXCEPT ![c] = @ \ {s}]
          /\ UNCHANGED <<dialer, txEval, rxEval, upTx, upFallback, connections>>
      BY Zenon, <1>7 DEF ReadEnds
    <2>2. dialer[s] # None /\ Eval(c, s) = "done" /\ Eval(c, s)' = "done"
      BY Zenon, <2>1 DEF UpIInv, EvalInv, Eval
    <2>3. UpTypes' /\ UpTypeOK'
      BY <2>1 DEF UpIInv, UpTypes, UpTypeOK
    <2>4. OneEval(c, s) /\ s \notin openAt'[c] /\ s \notin readBy'[c]
      BY <2>1 DEF OneEval, Eval, UpIInv, UpTypes
    <2> QED
      BY <2>2, <2>3, <2>4, OneEvalKeeps DEF UpIInv
  <1>8. ASSUME UNCHANGED <<dialer, txEval, rxEval, openAt, readBy, connections, upFallback>>, UpTypeOK'
        PROVE  UpIInv'
    BY <1>8 DEF UpIInv, UpTypes, EvalInv, Eval
  <1>9. ASSUME NEW c \in Sides, NegotiateRelay(c) \/ WriteBreaks(c) PROVE UpIInv'
    <2>1. UpTypeOK'
      BY ZenonT(30), <1>9 DEF NegotiateRelay, WriteBreaks, FallBack, UpIInv, UpTypeOK, Transports
    <2> QED
      BY SMTT(30), <1>8, <1>9, <2>1 DEF NegotiateRelay, WriteBreaks
  <1>10. CASE (\E s \in StreamIds : NetworkCuts(s)) \/ UNCHANGED upVars
    BY Zenon, <1>8, <1>10 DEF NetworkCuts, upVars, UpIInv, UpTypeOK
  <1> QED
    BY <1>1, <1>2, <1>3, <1>4, <1>5, <1>6, <1>7, <1>9, <1>10 DEF UpNext, EvalStep

(* Transports stay what they may be: a direct stream is never a fallback,   *)
(* and a hub reads only streams it keeps open and has recorded.             *)
THEOREM TransportsTyped == UpSpec => []UpTypeOK
  <1>1. UpIInv => UpTypeOK
    BY SMTT(30) DEF UpIInv
  <1> QED
    BY <1>1, UpInitInv, UpStepInv, PTL DEF UpSpec

(* When both evaluations of a stream passed, whoever dialled and however    *)
(* many streams crossed, a side that still sends on it has a reader.        *)
THEOREM SentOnStreamIsRead == UpSpec => []SentIsRead
  <1>1. UpIInv => SentIsRead
    <2> SUFFICES ASSUME UpIInv, NEW c \in Sides, IsP2P(upTx[c]), Alive(upTx[c]),
                        rxEval[upTx[c]] = "done", txEval[upTx[c]] = "done"
                 PROVE  upTx[c] \in readBy[Other(c)]
      BY Zenon DEF SentIsRead
    <2>1. upTx[c] \in StreamIds /\ dialer[upTx[c]] # None /\ Other(c) \in Sides
      BY OtherFacts DEF IsP2P, UpIInv, UpTypes
    <2>2. Eval(Other(c), upTx[c]) = "done" /\ upTx[c] \in openAt[Other(c)]
      BY <2>1 DEF Eval, Alive
    <2> QED
      BY ZenonT(30), <2>1, <2>2 DEF UpIInv, EvalInv
  <1> QED
    BY <1>1, UpInitInv, UpStepInv, PTL DEF UpSpec

-------------------------------------------------------------------------------
Places == {"unused", "backlog", "submit", "first", "leaked", "handover", "control", "rx",
           "negotiate", "acked", "relay", "orphan", "closed"}

RelayTypes ==
  /\ kind \in [Conns -> {<<>>} \cup Clients \X Clients]
  /\ at \in [Conns -> Places]
  /\ backlog \in Seq(Conns)
  /\ submitting \in Conns \cup {NoConn}
  /\ owner \in [Conns -> SUBSET Clients]
  /\ rxOf \in [Clients -> Conns \cup {NoConn}]
  /\ target \in [Conns -> Conns \cup {NoConn}]

(* A connection that waits to be accepted waits once, and the one being     *)
(* handed to the pool is where the accept loop has it.                      *)
QueuedOnce ==
  /\ \A i \in 1..Len(backlog) : at[backlog[i]] = "backlog"
  /\ \A i, j \in 1..Len(backlog) : i # j => backlog[i] # backlog[j]
  /\ submitting # NoConn => at[submitting] = "submit"

(* Only data connections get past the handover. *)
DataOnly ==
  \A c \in Conns :
    at[c] \in {"rx", "negotiate", "acked", "relay"} => kind[c] \in Clients \X Clients

(* What a session keeps is a receive connection of its address, *)
RxKept ==
  \A ip \in Clients :
    rxOf[ip] # NoConn => at[rxOf[ip]] = "rx" /\ kind[rxOf[ip]] = <<ip, ip>>

(* and so is what is written to. *)
TargetKept ==
  \A c \in Conns :
    at[c] = "relay" => /\ target[c] # NoConn
                       /\ at[target[c]] = "rx" /\ kind[target[c]] = <<Dest(c), Dest(c)>>

RelayIInv == RelayTypes /\ QueuedOnce /\ DataOnly /\ RxKept /\ TargetKept

LEMMA ConnFacts == NoConn \notin Conns /\ Conns \subseteq Nat
  BY RelayAssumption DEF Conns, NoConn

LEMMA RelayInitInv == RelayInit => RelayIInv
  <1> SUFFICES ASSUME RelayInit PROVE RelayIInv
    OBVIOUS
  <1>1. RelayTypes
    BY DEF RelayInit, RelayTypes, Places
  <1>2. QueuedOnce
    BY DEF RelayInit, QueuedOnce
  <1>3. DataOnly /\ RxKept /\ TargetKept
    BY DEF RelayInit, DataOnly, RxKept, TargetKept
  <1> QED
    BY <1>1, <1>2, <1>3 DEF RelayIInv

(* A step that moves one connection, which is neither kept nor written to,  *)
(* and leaves kinds alone.                                                  *)
LEMMA DialKeeps ==
  ASSUME RelayIInv, NEW c \in Conns, at[c] = "unused",
         NEW k \in {<<>>} \cup Clients \X Clients, kind' = [kind EXCEPT ![c] = k],
         Move(c, "backlog"), backlog' = Append(backlog, c),
         submitting' = submitting, owner' \in [Conns -> SUBSET Clients],
         rxOf' = rxOf, target' = target
  PROVE  RelayIInv'
  <1> USE ConnFacts DEF RelayIInv, RelayTypes, Move
  <1>1. RelayTypes'
    <2>1. kind' \in [Conns -> {<<>>} \cup Clients \X Clients]
      OBVIOUS
    <2>2. at' \in [Conns -> Places]
      BY DEF Places
    <2>3. backlog' \in Seq(Conns)
      OBVIOUS
    <2> QED
      BY <2>1, <2>2, <2>3
  <1>2. QueuedOnce'
    <2>1. Len(backlog') = Len(backlog) + 1 /\ backlog'[Len(backlog) + 1] = c
      OBVIOUS
    <2>2. \A i \in 1..Len(backlog) : backlog'[i] = backlog[i] /\ backlog[i] # c
      BY DEF QueuedOnce
    <2>3. \A i \in 1..Len(backlog) : at'[backlog[i]] = "backlog"
      BY <2>2 DEF QueuedOnce
    <2>4. \A i \in 1..Len(backlog') : i \in 1..Len(backlog) \/ i = Len(backlog) + 1
      BY <2>1
    <2>5. \A i \in 1..Len(backlog') : at'[backlog'[i]] = "backlog"
      BY <2>1, <2>2, <2>3, <2>4
    <2>6. \A i, j \in 1..Len(backlog') : i # j => backlog'[i] # backlog'[j]
      BY <2>1, <2>2, <2>4 DEF QueuedOnce
    <2> QED
      BY <2>5, <2>6 DEF QueuedOnce
  <1>3. DataOnly'
    BY DEF DataOnly, Places
  <1>4. RxKept'
    BY DEF RxKept, Places
  <1>5. TargetKept'
    BY DEF TargetKept, Dest, Places
  <1> QED
    BY <1>1, <1>2, <1>3, <1>4, <1>5

(* A step that moves a connection of the server side from where it is not   *)
(* queued, kept or written to, to where it is not kept or relayed yet.      *)
LEMMA MoveKeeps ==
  ASSUME RelayIInv, NEW c \in Conns, NEW place \in Places,
         at[c] \notin {"backlog", "submit", "rx"}, place # "relay",
         place \in {"rx", "negotiate", "acked"} => kind[c] \in Clients \X Clients,
         Move(c, place), kind' = kind, backlog' = backlog, submitting' = submitting,
         owner' = owner, target' = target,
         \/ rxOf' = rxOf
         \/ \E ip \in Clients : rxOf' = [rxOf EXCEPT ![ip] = NoConn]
         \/ \E ip \in Clients : /\ rxOf' = [rxOf EXCEPT ![ip] = c]
                                /\ place = "rx" /\ kind[c] = <<ip, ip>>
  PROVE  RelayIInv'
  <1> USE ConnFacts DEF RelayIInv, RelayTypes, Move
  <1>1. RelayTypes'
    BY DEF Places
  <1>2. QueuedOnce'
    BY DEF QueuedOnce
  <1>3. DataOnly'
    BY DEF DataOnly
  <1>4. RxKept'
    BY DEF RxKept
  <1>5. TargetKept'
    BY DEF TargetKept, Dest
  <1> QED
    BY <1>1, <1>2, <1>3, <1>4, <1>5

LEMMA RelayStepInv == RelayIInv /\ [RelayNext]_relayVars => RelayIInv'
  <1> SUFFICES ASSUME RelayIInv, [RelayNext]_relayVars PROVE RelayIInv'
    OBVIOUS
  <1> USE ConnFacts
  <1>1. ASSUME NEW c \in Conns, NEW ip \in Clients, DialControl(c, ip) PROVE RelayIInv'
    <2>1. kind' = [kind EXCEPT ![c] = kind[c]]
      BY <1>1 DEF DialControl, RelayIInv, RelayTypes
    <2>2. kind[c] \in {<<>>} \cup Clients \X Clients
      BY DEF RelayIInv, RelayTypes
    <2>3. owner' \in [Conns -> SUBSET Clients]
      BY <1>1 DEF DialControl, RelayIInv, RelayTypes
    <2> QED
      BY Zenon, <1>1, <2>1, <2>2, <2>3, DialKeeps DEF DialControl, Unused
  <1>2. ASSUME NEW c \in Conns, NEW src \in Clients, NEW dst \in Clients, DialData(c, src, dst)
        PROVE  RelayIInv'
    <2>1. <<src, dst>> \in {<<>>} \cup Clients \X Clients
      OBVIOUS
    <2>2. owner' \in [Conns -> SUBSET Clients]
      BY <1>2 DEF DialData, RelayIInv, RelayTypes
    <2> QED
      BY Zenon, <1>2, <2>1, <2>2, DialKeeps DEF DialData, Unused
  <1>3. CASE AcceptConn
    <2>1. RelayTypes'
      BY <1>3 DEF AcceptConn, RelayIInv, RelayTypes, Move, Places
    <2>2. QueuedOnce'
      BY <1>3 DEF AcceptConn, RelayIInv, RelayTypes, QueuedOnce, Move
    <2>3. at[Head(backlog)] = "backlog" /\ Head(backlog) \in Conns
      BY <1>3 DEF AcceptConn, RelayIInv, RelayTypes, QueuedOnce
    <2>4. DataOnly' /\ RxKept' /\ TargetKept'
      BY <1>3, <2>3 DEF AcceptConn, RelayIInv, RelayTypes, DataOnly, RxKept, TargetKept, Move, Dest
    <2> QED
      BY <2>1, <2>2, <2>4 DEF RelayIInv
  <1>4. CASE Submit
    <2>1. submitting \in Conns /\ at[submitting] = "submit"
      BY <1>4 DEF Submit, FreeWorker, RelayIInv, RelayTypes, QueuedOnce
    <2>2. RelayTypes' /\ QueuedOnce'
      BY <1>4, <2>1 DEF Submit, RelayIInv, RelayTypes, QueuedOnce, Move, Places
    <2>3. DataOnly' /\ RxKept'
      BY <1>4, <2>1 DEF Submit, RelayIInv, RelayTypes, DataOnly, RxKept, Move
    <2>4. TargetKept'
      BY <1>4, <2>1 DEF Submit, RelayIInv, RelayTypes, TargetKept, Move, Dest
    <2> QED
      BY Zenon, <2>2, <2>3, <2>4 DEF RelayIInv
  <1>5. ASSUME NEW c \in Conns, FirstTimeout(c) PROVE RelayIInv'
    BY <1>5, MoveKeeps DEF FirstTimeout, Places
  <1>6. ASSUME NEW c \in Conns, AckTimeout(c) PROVE RelayIInv'
    BY <1>6 DEF AckTimeout, RelayIInv, RelayTypes, QueuedOnce, DataOnly, RxKept, TargetKept, Dest
  <1>7. ASSUME NEW c \in Conns, dispatch(c) PROVE RelayIInv'
    <2>1. at[c] = "first" /\ kind[c] \in {<<>>} \cup Clients \X Clients
      BY SMTT(30), <1>7 DEF dispatch, RelayIInv, RelayTypes
    <2>2. CASE IsControl(c)
      BY ZenonT(30), <1>7, <2>1, <2>2, MoveKeeps DEF dispatch, Places
    <2>3. CASE ~IsControl(c)
      <3>1. kind[c] \in Clients \X Clients
        BY <2>1, <2>3 DEF IsControl
      <3>2. Dest(c) \in Clients /\ (Source(c) = Dest(c) => kind[c] = <<Dest(c), Dest(c)>>)
        BY <3>1 DEF Dest, Source
      <3> QED
        BY ZenonT(30), <1>7, <2>1, <2>3, <3>1, <3>2, MoveKeeps DEF dispatch, DispatchData, Places
    <2> QED
      BY <2>2, <2>3
  <1>8. ASSUME NEW c \in Conns, NEW ip \in Clients, Accept(c, ip) PROVE RelayIInv'
    BY <1>8, MoveKeeps DEF Accept, Places
  <1>9. ASSUME NEW c \in Conns, AcceptTransport(c) PROVE RelayIInv'
    <2>1. kind[c] \in Clients \X Clients
      BY <1>9 DEF AcceptTransport, IsControl, RelayIInv, RelayTypes
    <2> QED
      BY <1>9, <2>1, MoveKeeps DEF AcceptTransport, Places
  <1>10. ASSUME NEW c \in Conns, negotiation(c) PROVE RelayIInv'
    <2>1. kind[c] \in Clients \X Clients
      BY Zenon, <1>10 DEF negotiation, RelayIInv, DataOnly
    <2>2. /\ at[c] = "negotiate" /\ \E place \in {"acked", "closed"} : Move(c, place)
          /\ UNCHANGED <<kind, backlog, submitting, owner, rxOf, target>>
      BY <1>10 DEF negotiation
    <2> QED
      BY ZenonT(30), <2>1, <2>2, MoveKeeps DEF Places
  <1>11. ASSUME NEW c \in Conns, handleTransport(c) PROVE RelayIInv'
    <2>1. at[c] = "acked" /\ kind[c] \in Clients \X Clients
      BY Zenon, <1>11 DEF handleTransport, RelayIInv, DataOnly
    <2>2. CASE rxOf[Dest(c)] = NoConn
      BY ZenonT(30), <1>11, <2>1, <2>2, MoveKeeps DEF handleTransport, GetDstTransportWriter, Places
    <2>3. CASE rxOf[Dest(c)] # NoConn
      <3>1. Dest(c) \in Clients
        BY <2>1 DEF Dest
      <3>2. rxOf[Dest(c)] \in Conns /\ at[rxOf[Dest(c)]] = "rx"
              /\ kind[rxOf[Dest(c)]] = <<Dest(c), Dest(c)>>
        BY <2>3, <3>1 DEF RelayIInv, RelayTypes, RxKept
      <3>8. /\ at' = [at EXCEPT ![c] = "relay"] /\ target' = [target EXCEPT ![c] = rxOf[Dest(c)]]
            /\ UNCHANGED <<kind, backlog, submitting, owner, rxOf>>
        BY <1>11, <2>3 DEF handleTransport, GetDstTransportWriter, Move
      <3>3. RelayTypes'
        BY <3>8, <3>2 DEF RelayIInv, RelayTypes, Places
      <3>4. QueuedOnce'
        BY <3>8, <2>1 DEF RelayIInv, RelayTypes, QueuedOnce
      <3>5. DataOnly'
        BY <3>8, <2>1 DEF RelayIInv, RelayTypes, DataOnly
      <3>6. RxKept'
        BY <3>8, <2>1 DEF RelayIInv, RelayTypes, RxKept
      <3>7. TargetKept'
        <4>1. ASSUME NEW d \in Conns, at'[d] = "relay"
              PROVE  /\ target'[d] # NoConn /\ at'[target'[d]] = "rx"
                     /\ kind[target'[d]] = <<kind[d][2], kind[d][2]>>
          <5>1. CASE d = c
            BY <5>1, <3>8, <3>2, <2>1 DEF RelayIInv, RelayTypes, Dest
          <5>2. CASE d # c
            BY <4>1, <5>2, <3>8, <2>1 DEF RelayIInv, RelayTypes, TargetKept, Dest
          <5> QED
            BY <5>1, <5>2
        <4> QED
          BY Zenon, <4>1, <3>8 DEF TargetKept, Dest
      <3> QED
        BY <3>3, <3>4, <3>5, <3>6, <3>7 DEF RelayIInv
    <2> QED
      BY <2>2, <2>3
  <1>12. ASSUME NEW c \in Conns, RelayEnds(c) PROVE RelayIInv'
    BY Zenon, <1>12, MoveKeeps DEF RelayEnds, Places
  <1>13. ASSUME NEW ip \in Clients, EndSession(ip) PROVE RelayIInv'
    <2>1. \A c \in Conns : at'[c] = at[c] \/ (at[c] = "control" /\ at'[c] = "closed")
      BY <1>13 DEF EndSession
    <2>2. RelayTypes' /\ QueuedOnce'
      BY <1>13, <2>1 DEF EndSession, RelayIInv, RelayTypes, QueuedOnce, Places
    <2>3. DataOnly' /\ RxKept' /\ TargetKept'
      BY <1>13, <2>1 DEF EndSession, RelayIInv, RelayTypes, DataOnly, RxKept, TargetKept, Dest
    <2> QED
      BY <2>2, <2>3 DEF RelayIInv
  <1>14. CASE UNCHANGED relayVars
    BY <1>14 DEF relayVars, RelayIInv, RelayTypes, QueuedOnce, DataOnly, RxKept, TargetKept, Dest
  <1> QED
    BY <1>1, <1>2, <1>3, <1>4, <1>5, <1>6, <1>7, <1>8, <1>9, <1>10, <1>11, <1>12, <1>13, <1>14
    DEF RelayNext, ServerStep

(* Whatever connections are dialled, accepted late, given up or left over   *)
(* from sessions that ended, the relay for an address writes only to a      *)
(* connection that the client of that address dialled to receive on.        *)
THEOREM RelayReachesDestination == RelaySpec => []RelayedToDestination
  <1>1. RelayIInv => RelayedToDestination
    BY DEF RelayIInv, TargetKept, RelayedToDestination, In
  <1> QED
    BY <1>1, RelayInitInv, RelayStepInv, PTL DEF RelaySpec

-------------------------------------------------------------------------------
(* Between two rounds the network's total is what the session's counter was *)
(* at the last sample; in a round, what was loaded lies between that and    *)
(* what has been counted since.                                             *)
MeterIInv ==
  /\ total \in Nat /\ lastTotal \in Nat /\ loaded \in Nat /\ speed \in Int /\ networkTotal \in Int
  /\ sampler \in {"idle", "loaded", "stored"}
  /\ lastTotal <= total
  /\ sampler = "loaded" => lastTotal <= loaded /\ loaded <= total
  /\ sampler # "stored" => networkTotal = lastTotal
  /\ sampler = "stored" => networkTotal + speed = lastTotal

LEMMA MeterStepInv == MeterIInv /\ [MeterNext]_meterVars => MeterIInv'
  <1> SUFFICES ASSUME MeterIInv, [MeterNext]_meterVars PROVE MeterIInv'
    OBVIOUS
  <1> USE MeterAssumption DEF MeterIInv
  <1>1. CASE MeterTick
    BY <1>1 DEF MeterTick
  <1>2. CASE LoadTotal
    BY <1>2 DEF LoadTotal
  <1>3. CASE UpdateStats
    BY <1>3 DEF UpdateStats, StoreStats
  <1>4. CASE updateSessionMetrics
    BY <1>4 DEF updateSessionMetrics, AddSpeed
  <1>5. ASSUME NEW p \in Proxies, Write(p) \/ WaitN(p) \/ Wake(p) PROVE MeterIInv'
    BY <1>5 DEF Write, WaitN, Wake
  <1>6. ASSUME NEW p \in Proxies, Count(p) \/ QuotaEnds(p) PROVE MeterIInv'
    BY <1>6 DEF Count, QuotaEnds
  <1>7. CASE UNCHANGED meterVars
    BY <1>7 DEF meterVars
  <1> QED
    BY <1>1, <1>2, <1>3, <1>4, <1>5, <1>6, <1>7 DEF MeterNext

(* The background loop adds every byte of a session's counter up to its     *)
(* last sample to the network's total exactly once, for any number of       *)
(* relay loops that count while it loads, stores and adds.                  *)
THEOREM NetworkCountsEveryByteOnce == MeterSpec => []NetworkCountsOnce
  <1>1. MeterInit => MeterIInv
    BY DEF MeterInit, MeterIInv
  <1>2. MeterIInv => NetworkCountsOnce
    BY DEF MeterIInv, NetworkCountsOnce
  <1> QED
    BY <1>1, <1>2, MeterStepInv, PTL DEF MeterSpec

-------------------------------------------------------------------------------
LEMMA RoutesStep == RoutesLeadSomewhere /\ [SyncNext]_syncVars => RoutesLeadSomewhere'
  <1> SUFFICES ASSUME RoutesLeadSomewhere, [SyncNext]_syncVars PROVE RoutesLeadSomewhere'
    OBVIOUS
  <1> USE DEF RoutesLeadSomewhere
  <1>1. ASSUME UNCHANGED clientVars PROVE RoutesLeadSomewhere'
    BY <1>1 DEF clientVars
  <1>2. CASE ServerNext
    <2>1. UNCHANGED clientVars
      BY <1>2 DEF ServerNext, Join, RegisterBump, Release, Delete, RegisterPeer
    <2> QED
      BY <1>1, <2>1
  <1>3. CASE SyncRoutes
    BY <1>3 DEF SyncRoutes, updateRouter
  <1>4. CASE StartReconnect
    BY <1>4 DEF StartReconnect, ReleaseAll
  <1>5. CASE Ping \/ SyncPeers \/ PeersCurrent
    BY <1>5 DEF Ping, SyncPeers, PeersCurrent
  <1>6. CASE LinkDown \/ ReconnectFails \/ Reconnected
    BY <1>6 DEF LinkDown, ReconnectFails, Reconnected
  <1>7. ASSUME NEW h \in Hosts, SetupP2P(h) PROVE RoutesLeadSomewhere'
    BY <1>7 DEF SetupP2P
  <1>8. CASE UNCHANGED syncVars
    BY <1>1, <1>8 DEF syncVars
  <1> QED
    BY SMTT(30), <1>2, <1>3, <1>4, <1>5, <1>6, <1>7, <1>8 DEF SyncNext, ClientNext, ClientStep

(* Through every update, release and reconnection the hub has destinations  *)
(* for exactly the routes it knows, but for the own address and those that  *)
(* start like it.                                                           *)
THEOREM RoutesAlwaysLead == SyncSpec => []RoutesLeadSomewhere
  <1>1. SyncInit => RoutesLeadSomewhere
    BY DEF SyncInit, RoutesLeadSomewhere
  <1> QED
    BY <1>1, RoutesStep, PTL DEF SyncSpec

===============================================================================
