--------------------------------- MODULE HubTx ---------------------------------
(***************************************************************************)
(* The transmit side of a client's hub (vnet/client/hub/hub_tx.go): a      *)
(* reader fills pooled events with packets of the device, the hub's loop   *)
(* routes them to destinations, and each destination's loop writes what    *)
(* its queue holds to its transport.  Destinations come up by negotiation, *)
(* may be upgraded to a peer-to-peer transport, fall back, and are closed  *)
(* when their route goes.                                                  *)
(*                                                                         *)
(* A packet is its number in the order of reading.  Events have identities *)
(* because their buffers are reused: what a loop writes is what the buffer *)
(* holds at that moment.                                                   *)
(***************************************************************************)
EXTENDS Integers, FiniteSets, Functions, SeqFolds

CONSTANTS Dests, NoRoute,
          NoTx, Relay, P2P,   \* transports
          BatchSize,          \* packets per event
          MaxTxEventBuf,      \* queue length and packets per write
          PoolSize,           \* events: more than can be in use at once
          MaxPackets,         \* bound on packets read
          MaxTrouble          \* bound on failed writes and upgrades

ASSUME HubAssumption ==
  /\ NoRoute \notin Dests /\ Cardinality({NoTx, Relay, P2P}) = 3
  /\ BatchSize \in Nat \ {0} /\ MaxTxEventBuf \in Nat \ {0}
  /\ PoolSize \in Nat \ {0}

Events == 1..PoolSize
Packets == 1..MaxPackets
NoEvent == 0

VARIABLES
  dstOf,     \* destination address of each packet read so far
  buffer,    \* event -> packets it holds
  pool,      \* free events
  reading,   \* event in the reader's hand
  txChan,    \* Hub.txEventChan
  pushing,   \* what the hub's loop has still to push: <<destination, event>>
  routed,    \* destinations in the router
  tx, fallback, queue, \* per destination
  closed,    \* Destination.sig is closed
  exited,    \* its loop has returned
  collected, \* events its loop is about to write
  stopped,   \* Hub.sig is closed
  hubPanicked,
  trouble,
  writtenTo  \* history: packets written for each destination

hubVars == <<dstOf, buffer, pool, reading, txChan, pushing, routed, tx, fallback,
             queue, closed, exited, collected, stopped, hubPanicked, trouble, writtenTo>>
destVars == <<tx, fallback, queue, closed, exited, collected, writtenTo>>

HubInit ==
  /\ dstOf = <<>> /\ buffer = [e \in Events |-> <<>>] /\ pool = Events
  /\ reading = NoEvent /\ txChan = <<>> /\ pushing = {}
  /\ routed = Dests
  /\ tx = [d \in Dests |-> NoTx] /\ fallback = [d \in Dests |-> NoTx]
  /\ queue = [d \in Dests |-> <<>>] /\ collected = [d \in Dests |-> <<>>]
  /\ closed = {} /\ exited = {}
  /\ stopped = FALSE /\ hubPanicked = FALSE /\ trouble = 0
  /\ writtenTo = [d \in Dests |-> <<>>]

(* The pool hands out any free object; which one does not matter. It would  *)
(* make another when none is left: Events bounds how many there are.        *)
Get == CHOOSE e \in pool : TRUE

(* putTxEvent: an event is emptied and free again. *)
putTxEvents(evs) ==
  /\ pool' = pool \cup evs
  /\ buffer' = [e \in Events |-> IF e \in evs THEN <<>> ELSE buffer[e]]

-------------------------------------------------------------------------------
(* One round of readDeviceLinux (readDevice: a batch of one). *)
Read(targets) ==
  /\ ~stopped /\ reading = NoEvent /\ pool # {}
  /\ Len(dstOf) + Len(targets) <= MaxPackets
  /\ reading' = Get
  /\ pool' = pool \ {Get}
  /\ buffer' = [buffer EXCEPT ![Get] = [i \in DOMAIN targets |-> Len(dstOf) + i]]
  /\ dstOf' = dstOf \o targets
  /\ UNCHANGED <<txChan, pushing, routed, destVars, stopped, hubPanicked, trouble>>

Enqueue ==
  /\ reading # NoEvent /\ Len(txChan) < MaxTxEventBuf
  /\ txChan' = Append(txChan, reading)
  /\ reading' = NoEvent
  /\ UNCHANGED <<dstOf, buffer, pool, pushing, routed, destVars, stopped, hubPanicked, trouble>>

-------------------------------------------------------------------------------
(* RouteBatch: the packets of an event that have a route, *)
ValidRoutes(e) == Among(buffer[e], {p \in Range(buffer[e]) : dstOf[p] \in routed})

SkipsLast(batch) ==
  \A i \in 1..Len(batch) - 1 : dstOf[batch[i]] = dstOf[batch[1]]

(* and whether they share one destination. *)
AllSame(batch) == \A i \in DOMAIN batch : dstOf[batch[i]] = dstOf[batch[1]]

(* The same event goes on, whole, to the only destination; *)
FastPath(e, batch) ==
  /\ pushing' = {<<dstOf[batch[1]], e>>}
  /\ UNCHANGED <<buffer, pool>>

Targets(batch) == {dstOf[batch[i]] : i \in DOMAIN batch}

(* for several, their packets are copied into one new event each and the    *)
(* event read is recycled.                                                  *)
Split(e, batch) ==
  \E fresh \in [Targets(batch) -> pool] :
    /\ IsInjective(fresh)
    /\ pool \ Range(fresh) = {f \in pool : \A g \in Range(fresh) : g < f}
    /\ pushing' = {<<d, fresh[d]>> : d \in Targets(batch)}
    /\ buffer' = [f \in Events |->
         IF \E d \in Targets(batch) : fresh[d] = f
         THEN Among(batch, {p \in Range(batch) : fresh[dstOf[p]] = f})
         ELSE IF f = e THEN <<>> ELSE buffer[f]]
    /\ pool' = (pool \ Range(fresh)) \cup {e}

RouteEvent ==
  /\ ~stopped /\ pushing = {} /\ txChan # <<>>
  /\ LET e == Head(txChan)  valid == ValidRoutes(e) IN
     IF valid # <<>> /\ AllSame(valid) THEN FastPath(e, valid) ELSE Split(e, valid)
  /\ txChan' = Tail(txChan)
  /\ UNCHANGED <<dstOf, reading, routed, destVars, stopped, hubPanicked, trouble>>

(* negotiate, on the first push.  A dial, a transfer or a refusal may fail: *)
(* the event is dropped and the adaptor told.  Quota exceeded leaves no     *)
(* transport behind when tryP2P finds no peer, and reports no error.  (A    *)
(* dropped event is left to the garbage collector and the pool allocates    *)
(* another; here its name becomes free for that other one.)                 *)
CanNegotiate(d, e) == <<d, e>> \in pushing /\ tx[d] = NoTx

Negotiate(d, e) ==
  /\ CanNegotiate(d, e)
  /\ \/ /\ tx' = [tx EXCEPT ![d] = Relay]
        /\ UNCHANGED <<pushing, pool, buffer, queue, trouble>>
     \/ /\ trouble < MaxTrouble /\ trouble' = trouble + 1
        /\ pushing' = pushing \ {<<d, e>>}
        /\ putTxEvents({e})
        /\ UNCHANGED <<tx, queue>>
     \/ /\ trouble < MaxTrouble /\ trouble' = trouble + 1
        /\ Len(queue[d]) < MaxTxEventBuf
        /\ pushing' = pushing \ {<<d, e>>}
        /\ queue' = [queue EXCEPT ![d] = Append(@, e)]
        /\ UNCHANGED <<tx, pool, buffer>>
  /\ UNCHANGED <<dstOf, reading, txChan, routed, fallback, closed, exited, collected,
                 stopped, hubPanicked, writtenTo>>

(* PushTxEvent waits for room in the queue. *)
CanPush(d, e) == <<d, e>> \in pushing /\ tx[d] # NoTx /\ Len(queue[d]) < MaxTxEventBuf

Push(d, e) ==
  /\ CanPush(d, e)
  /\ queue' = [queue EXCEPT ![d] = Append(@, e)]
  /\ pushing' = pushing \ {<<d, e>>}
  /\ UNCHANGED <<dstOf, buffer, pool, reading, txChan, routed, tx, fallback, closed, exited,
                 collected, stopped, hubPanicked, trouble, writtenTo>>

-------------------------------------------------------------------------------
PacketsOf(evs) == Joined([i \in DOMAIN evs |-> buffer[evs[i]]])

(* txLoopN takes events while there are any and the write has room. *)
FillsWrite(d, n) == Len(PacketsOf(SubSeq(queue[d], 1, n))) >= MaxTxEventBuf

Taken(d) ==
  CHOOSE n \in 1..Len(queue[d]) :
    /\ n = Len(queue[d]) \/ FillsWrite(d, n)
    /\ \A m \in 1..n - 1 : ~FillsWrite(d, m)

TakenEarly(d) ==
  /\ collected' = [collected EXCEPT ![d] = SubSeq(queue[d], 1, Taken(d))]
  /\ queue' = [queue EXCEPT ![d] = SubSeq(@, Taken(d) + 1, Len(@))]
  /\ pool' = pool \cup Range(collected'[d])

NewestFirst(d) ==
  /\ collected' = [collected EXCEPT ![d] = [i \in DOMAIN queue[d] |-> queue[d][Len(queue[d]) + 1 - i]]]
  /\ queue' = [queue EXCEPT ![d] = <<>>]
  /\ UNCHANGED pool

TakeEvents(d) ==
  /\ collected' = [collected EXCEPT ![d] = SubSeq(queue[d], 1, Taken(d))]
  /\ queue' = [queue EXCEPT ![d] = SubSeq(@, Taken(d) + 1, Len(@))]
  /\ UNCHANGED pool

CanCollect(d) == d \notin exited /\ collected[d] = <<>> /\ queue[d] # <<>>

Collect(d) ==
  /\ CanCollect(d)
  /\ TakeEvents(d)
  /\ UNCHANGED <<dstOf, buffer, reading, txChan, pushing, routed, tx, fallback, closed, exited,
                 stopped, hubPanicked, trouble, writtenTo>>

(* Packets beyond the room of one write are left out and recycled. *)
OneWrite(batch) ==
  SubSeq(batch, 1, IF Len(batch) < MaxTxEventBuf THEN Len(batch) ELSE MaxTxEventBuf)

Recycle(d) ==
  /\ putTxEvents(Range(collected[d]))
  /\ collected' = [collected EXCEPT ![d] = <<>>]

Written(d) ==
  /\ collected[d] # <<>> /\ tx[d] # NoTx /\ d \notin closed
  /\ writtenTo' = [writtenTo EXCEPT ![d] = @ \o OneWrite(PacketsOf(collected[d]))]
  /\ Recycle(d)
  /\ UNCHANGED <<dstOf, reading, txChan, pushing, routed, tx, fallback, queue, closed,
                 exited, stopped, hubPanicked, trouble>>

(* The next write uses the fallback, if there is one; it is never cleared. *)
fallbackOrReportError(d) ==
  tx' = [tx EXCEPT ![d] = IF fallback[d] # NoTx THEN fallback[d] ELSE tx[d]]

(* A write to a closed or broken transport fails. *)
WriteFails(d) ==
  /\ collected[d] # <<>> /\ tx[d] # NoTx
  /\ IF d \in closed THEN UNCHANGED trouble
     ELSE trouble < MaxTrouble /\ trouble' = trouble + 1
  /\ fallbackOrReportError(d)
  /\ Recycle(d)
  /\ UNCHANGED <<dstOf, reading, txChan, pushing, routed, fallback, queue, closed,
                 exited, stopped, hubPanicked, writtenTo>>

(* Without a transport the write dereferences nil. *)
WriteNil(d) ==
  /\ collected[d] # <<>> /\ tx[d] = NoTx
  /\ hubPanicked' = TRUE
  /\ UNCHANGED <<dstOf, buffer, pool, reading, txChan, pushing, routed, destVars, stopped, trouble>>

AnySignal(d) == closed # {} \/ stopped

(* The select of the loop sees a closed signal, its own or the hub's. *)
Signalled(d) == d \in closed \/ stopped

Exit(d) ==
  /\ d \notin exited /\ collected[d] = <<>>
  /\ Signalled(d)
  /\ exited' = exited \cup {d}
  /\ UNCHANGED <<dstOf, buffer, pool, reading, txChan, pushing, routed, tx, fallback, queue,
                 closed, collected, stopped, hubPanicked, trouble, writtenTo>>

(* An accepted peer-to-peer transport; the old one becomes the fallback. *)
ReplaceTx(d) ==
  /\ fallback[d] = NoTx
  /\ fallback' = [fallback EXCEPT ![d] = tx[d]]
  /\ tx' = [tx EXCEPT ![d] = P2P]

Upgrade(d) ==
  /\ trouble < MaxTrouble /\ trouble' = trouble + 1
  /\ d \notin closed /\ tx[d] # P2P
  /\ ReplaceTx(d)
  /\ UNCHANGED <<dstOf, buffer, pool, reading, txChan, pushing, routed, queue, closed, exited,
                 collected, stopped, hubPanicked, writtenTo>>

(* updateRouter: the route goes, then the destination is closed. *)
Withdraw(d) ==
  /\ d \in routed
  /\ routed' = routed \ {d}
  /\ closed' = closed \cup {d}
  /\ UNCHANGED <<dstOf, buffer, pool, reading, txChan, pushing, tx, fallback, queue, exited,
                 collected, stopped, hubPanicked, trouble, writtenTo>>

(* Hub.Stop, by ReleaseAll or a failed write to the device. *)
Stop ==
  /\ ~stopped /\ stopped' = TRUE
  /\ UNCHANGED <<dstOf, buffer, pool, reading, txChan, pushing, routed, destVars, hubPanicked, trouble>>

HubStep == Enqueue \/ RouteEvent \/ \E d \in Dests, e \in Events : Negotiate(d, e) \/ Push(d, e)

DestStep(d) == Collect(d) \/ Written(d) \/ WriteFails(d) \/ WriteNil(d) \/ Exit(d)

HubNext ==
  /\ ~hubPanicked
  /\ \/ HubStep \/ Stop
     \/ \E n \in 1..BatchSize : \E targets \in [1..n -> Dests \cup {NoRoute}] : Read(targets)
     \/ \E d \in Dests : DestStep(d) \/ Upgrade(d) \/ Withdraw(d)

HubSpec == HubInit /\ [][HubNext]_hubVars

-------------------------------------------------------------------------------
(* Types; no queue outgrows its channel, and what txLoopN collects for one  *)
(* BatchWrite fits the slices it allocated.                                 *)
HubTypeOK ==
  /\ pool \subseteq Events /\ reading \in Events \cup {NoEvent}
  /\ Len(txChan) <= MaxTxEventBuf
  /\ \A d \in Dests : /\ Len(queue[d]) <= MaxTxEventBuf
                      /\ Len(OneWrite(PacketsOf(collected[d]))) <= MaxTxEventBuf
                      /\ tx[d] \in {NoTx, Relay, P2P} /\ fallback[d] \in {NoTx, Relay}

(* An event is in one hand at a time: no loop fills or recycles a buffer    *)
(* that another is still going to write.                                    *)
EventOwnedOnce ==
  LET elsewhere == pool \cup ({reading} \ {NoEvent}) \cup Range(txChan) \cup {p[2] : p \in pushing}
      at(d) == queue[d] \o collected[d] IN
  /\ reading \notin pool /\ IsInjective(txChan)
  /\ Range(txChan) \cap (pool \cup {reading}) = {}
  /\ \A p \in pushing : /\ p[2] \notin pool \cup {reading} \cup Range(txChan)
                        /\ \A q \in pushing : p[2] = q[2] => p = q
  /\ \A d \in Dests : /\ IsInjective(at(d)) /\ Range(at(d)) \cap elsewhere = {}
                      /\ \A c \in Dests \ {d} : Range(at(c)) \cap Range(at(d)) = {}

(* However queues fill, transports change and writes fail, each destination *)
(* gets packets in the order of reading and none of them twice, and they    *)
(* are its own, except one that had no route when the rest of its batch     *)
(* shared a destination.                                                    *)
WrittenInOrder ==
  \A d \in Dests : \A i, j \in DOMAIN writtenTo[d] :
    /\ i < j => writtenTo[d][i] < writtenTo[d][j]
    /\ dstOf[writtenTo[d][i]] = d \/ dstOf[writtenTo[d][i]] \notin routed

(* The hub's loop never waits for ever on a destination that is in use: the *)
(* push can be made, or the loop of the destination can write or collect,   *)
(* which makes room.  Only a closed destination or a stopped hub holds it   *)
(* up.                                                                      *)
HubNeverStuck ==
  ~stopped /\ ~hubPanicked =>
    \A p \in pushing :
      p[1] \notin closed =>
        \/ CanNegotiate(p[1], p[2]) \/ CanPush(p[1], p[2])
        \/ collected[p[1]] # <<>> \/ CanCollect(p[1])

===============================================================================
