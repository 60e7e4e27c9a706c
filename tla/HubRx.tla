--------------------------------- MODULE HubRx ---------------------------------
(***************************************************************************)
(* The receive side of a client's hub (vnet/client/hub/hub_rx.go): one     *)
(* reader per stream (HandleRx) fills pooled events with messages and      *)
(* queues them, one writer hands them to the device.  On Linux the writer  *)
(* that fails hands over to the plain one, which goes on with the queue.   *)
(***************************************************************************)
EXTENDS Integers, Sequences, FiniteSets, Functions

CONSTANTS Streams,
          MaxRxEventBuf,  \* length of the queue
          RxPoolSize,     \* events: more than can be in use at once
          MaxMessages,    \* bound on messages per stream
          MaxRxFaults     \* bound on bad messages, broken streams, failed writes

ASSUME RxAssumption == MaxRxEventBuf \in Nat \ {0} /\ RxPoolSize \in Nat \ {0}

RxEvents == 1..RxPoolSize
RxNoEvent == 0

VARIABLES
  rxBuffer,   \* event -> the message it holds, <<stream, number>>
  rxPool,
  sent,       \* stream -> messages read so far
  holding,    \* stream -> event its reader is about to queue
  ended,      \* streams whose reader has returned and closed them
  rxChan,     \* Hub.rxEventChan
  writer,     \* "batch": writeDeviceLinux, "plain": writeDevice, "ended"
  rxStopped,  \* Hub.sig is closed
  rxFaults,
  delivered,  \* history: messages handed to the device
  lost        \* history: messages of failed writes

rxVars == <<rxBuffer, rxPool, sent, holding, ended, rxChan, writer, rxStopped, rxFaults, delivered, lost>>

RxInit ==
  /\ rxBuffer = [e \in RxEvents |-> <<>>] /\ rxPool = RxEvents
  /\ sent = [s \in Streams |-> 0] /\ holding = [s \in Streams |-> RxNoEvent]
  /\ ended = {} /\ rxChan = <<>> /\ writer \in {"batch", "plain"}
  /\ rxStopped = FALSE /\ rxFaults = 0 /\ delivered = <<>> /\ lost = {}

RxFault == rxFaults < MaxRxFaults /\ rxFaults' = rxFaults + 1

(* ReadMessage and ParseBatch fill a free event. *)
Receive(s) ==
  /\ s \notin ended /\ holding[s] = RxNoEvent /\ sent[s] < MaxMessages
  /\ rxPool # {}
  /\ LET e == CHOOSE free \in rxPool : TRUE IN
     /\ rxPool' = rxPool \ {e}
     /\ rxBuffer' = [rxBuffer EXCEPT ![e] = <<s, sent[s] + 1>>]
     /\ holding' = [holding EXCEPT ![s] = e]
  /\ sent' = [sent EXCEPT ![s] = @ + 1]
  /\ UNCHANGED <<ended, rxChan, writer, rxStopped, rxFaults, delivered, lost>>

(* A message with a wrong magic is skipped and its event recycled; one of   *)
(* unknown type is skipped and its event left to the collector.             *)
SkipMessage(s) ==
  /\ s \notin ended /\ holding[s] = RxNoEvent
  /\ RxFault
  /\ UNCHANGED <<rxBuffer, rxPool, sent, holding, ended, rxChan, writer, rxStopped, delivered, lost>>

(* A broken stream or batch, a cancelled stream, a stopped hub: the reader  *)
(* closes the stream and returns.                                           *)
ReaderEnds(s) ==
  /\ s \notin ended /\ holding[s] = RxNoEvent
  /\ IF rxStopped THEN UNCHANGED rxFaults ELSE RxFault
  /\ ended' = ended \cup {s}
  /\ UNCHANGED <<rxBuffer, rxPool, sent, holding, rxChan, writer, rxStopped, delivered, lost>>

PushOrDrop(s) ==
  IF Len(rxChan) < MaxRxEventBuf
  THEN rxChan' = Append(rxChan, holding[s]) /\ UNCHANGED <<rxPool, rxBuffer>>
  ELSE rxPool' = rxPool \cup {holding[s]} /\ UNCHANGED <<rxChan, rxBuffer>>

(* The reader waits for room. *)
PushEvent(s) ==
  /\ Len(rxChan) < MaxRxEventBuf
  /\ rxChan' = Append(rxChan, holding[s])
  /\ UNCHANGED <<rxPool, rxBuffer>>

QueueEvent(s) ==
  /\ holding[s] # RxNoEvent
  /\ PushEvent(s)
  /\ holding' = [holding EXCEPT ![s] = RxNoEvent]
  /\ UNCHANGED <<sent, ended, writer, rxStopped, rxFaults, delivered, lost>>

writeDevice ==
  /\ writer # "ended" /\ rxChan # <<>>
  /\ delivered' = Append(delivered, rxBuffer[Head(rxChan)])
  /\ rxPool' = rxPool \cup {Head(rxChan)}
  /\ rxBuffer' = [rxBuffer EXCEPT ![Head(rxChan)] = <<>>]
  /\ rxChan' = Tail(rxChan)
  /\ UNCHANGED <<sent, holding, ended, writer, rxStopped, rxFaults, lost>>

(* rxLoop goes on with writeDevice after writeDeviceLinux returned. *)
NextWriter == writer' = IF writer = "batch" THEN "plain" ELSE "ended"

StopHub == rxStopped' = TRUE

(* A failed write stops the hub and loses the event; the collector takes    *)
(* it, and its name is free for the one the pool allocates next.            *)
WriteError ==
  /\ writer # "ended" /\ rxChan # <<>>
  /\ RxFault
  /\ NextWriter
  /\ StopHub
  /\ lost' = lost \cup {rxBuffer[Head(rxChan)]}
  /\ rxChan' = Tail(rxChan)
  /\ rxPool' = rxPool \cup {Head(rxChan)}
  /\ rxBuffer' = [rxBuffer EXCEPT ![Head(rxChan)] = <<>>]
  /\ UNCHANGED <<sent, holding, ended, delivered>>

RxStop ==
  /\ ~rxStopped /\ rxStopped' = TRUE
  /\ UNCHANGED <<rxBuffer, rxPool, sent, holding, ended, rxChan, writer, rxFaults, delivered, lost>>

RxNext ==
  \/ \E s \in Streams : Receive(s) \/ SkipMessage(s) \/ ReaderEnds(s) \/ QueueEvent(s)
  \/ writeDevice \/ WriteError \/ RxStop

RxSpec == RxInit /\ [][RxNext]_rxVars

-------------------------------------------------------------------------------
(* Types and the limit of the queue; the loop that writes to the device     *)
(* ends only with the hub stopped.                                          *)
RxTypeOK ==
  /\ rxPool \subseteq RxEvents /\ Len(rxChan) <= MaxRxEventBuf
  /\ writer \in {"batch", "plain", "ended"}
  /\ writer = "ended" => rxStopped

(* A received event is free, in one reader's hand or in the queue once:     *)
(* nobody refills a buffer that the device is still to be given.            *)
RxEventOwnedOnce ==
  /\ IsInjective(rxChan) /\ Range(rxChan) \cap rxPool = {}
  /\ \A s \in Streams : holding[s] \notin rxPool \cup Range(rxChan)
  /\ \A s, t \in Streams : s # t => holding[s] = RxNoEvent \/ holding[s] # holding[t]

(* The device gets the messages of a stream in order and none twice. *)
RxInOrder ==
  \A i, j \in DOMAIN delivered :
    i < j /\ delivered[i][1] = delivered[j][1] => delivered[i][2] < delivered[j][2]

(* A message once read is on its way to the device or has reached it, also  *)
(* when the queue is full or the hub is stopping; only a failed write to    *)
(* the device loses one.                                                    *)
RxNothingLost ==
  \A s \in Streams : \A i \in 1..sent[s] :
    \/ <<s, i>> \in Range(delivered) \cup lost
    \/ \E e \in Range(rxChan) \cup Range(holding) : e # RxNoEvent /\ rxBuffer[e] = <<s, i>>

===============================================================================
