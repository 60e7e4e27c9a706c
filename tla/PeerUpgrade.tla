------------------------------ MODULE PeerUpgrade ------------------------------
(***************************************************************************)
(* Two clients that reach each other over the server's relay move to a     *)
(* direct libp2p stream (vnet/client/client_p2p.go) by replacing the       *)
(* transport of the Destination each has for the other, and fall back when *)
(* the stream breaks (vnet/client/hub/hub_tx.go).  Either side may dial,   *)
(* both at once too.                                                       *)
(***************************************************************************)
EXTENDS Integers, FiniteSets

CONSTANTS Sides,       \* the two clients
          None, Relayed, \* no transport; the relay through the server
          MaxStreams   \* bound on streams dialled

ASSUME UpgradeAssumption ==
  /\ \E a, b \in Sides : a # b /\ Sides = {a, b}
  /\ MaxStreams \in Nat
  /\ None # Relayed /\ {None, Relayed} \cap (1..MaxStreams) = {} /\ None \notin Sides

StreamIds == 1..MaxStreams
Other(c) == CHOOSE d \in Sides : d # c
Transports == StreamIds \cup {None, Relayed}
IsP2P(t) == t \in StreamIds

VARIABLES
  dialer,     \* stream -> who opened it, None before
  txEval,     \* stream -> where the dialler's evaluation is
  rxEval,     \* stream -> where the acceptor's is
  ack,        \* stream -> the result the dialler sent
  openAt,     \* side -> streams it has not closed
  readBy,     \* side -> streams its hub reads
  upTx, upFallback, \* side -> transports of its Destination
  connections, \* side -> streams kept in Client.p2p.connections
  brokenStreams  \* streams cut by the network

upVars == <<dialer, txEval, rxEval, ack, openAt, readBy, upTx, upFallback, connections, brokenStreams>>

UpInit ==
  /\ dialer = [s \in StreamIds |-> None]
  /\ txEval = [s \in StreamIds |-> "idle"] /\ rxEval = [s \in StreamIds |-> "idle"]
  /\ ack = [s \in StreamIds |-> "none"]
  /\ openAt = [c \in Sides |-> {}] /\ readBy = [c \in Sides |-> {}]
  /\ upTx = [c \in Sides |-> None] /\ upFallback = [c \in Sides |-> None]
  /\ connections = [c \in Sides |-> {}] /\ brokenStreams = {}

(* Both ends open and the network between them whole. *)
Alive(s) == s \notin brokenStreams /\ \A c \in Sides : s \in openAt[c]

-------------------------------------------------------------------------------
(* negotiate: the relay becomes the transport of the first packet. *)
NegotiateRelay(c) ==
  /\ upTx[c] = None
  /\ upTx' = [upTx EXCEPT ![c] = Relayed]
  /\ UNCHANGED <<dialer, txEval, rxEval, ack, openAt, readBy, upFallback, connections, brokenStreams>>

(* tryP2P, from AfterDial, from the background loop or on a quota refusal:  *)
(* the dialler sends its address and waits.                                 *)
tryP2P(c, s) ==
  /\ ~IsP2P(upTx[c])
  /\ dialer[s] = None /\ \A r \in 1..s - 1 : dialer[r] # None
  /\ dialer' = [dialer EXCEPT ![s] = c]
  /\ txEval' = [txEval EXCEPT ![s] = "wait"]
  /\ rxEval' = [rxEval EXCEPT ![s] = "accept"]
  /\ openAt' = [d \in Sides |-> openAt[d] \cup {s}]
  /\ UNCHANGED <<ack, readBy, upTx, upFallback, connections, brokenStreams>>

(* A stream from a peer that the mapping does not hold (yet) is closed. *)
Unknown(s) ==
  /\ rxEval[s] = "accept"
  /\ rxEval' = [rxEval EXCEPT ![s] = "never"]
  /\ openAt' = [openAt EXCEPT ![Other(dialer[s])] = @ \ {s}]
  /\ UNCHANGED <<dialer, txEval, ack, readBy, upTx, upFallback, connections, brokenStreams>>

(* The acceptor reads the address and answers. *)
Pong(s) ==
  /\ rxEval[s] = "accept" /\ Alive(s)
  /\ rxEval' = [rxEval EXCEPT ![s] = "wait"]
  /\ UNCHANGED <<dialer, txEval, ack, openAt, readBy, upTx, upFallback, connections, brokenStreams>>

(* A deadline passes or the stream breaks: the evaluation returns the error *)
(* and leaves its end of the stream open.                                   *)
TxTimeout(s) ==
  /\ txEval[s] = "wait"
  /\ txEval' = [txEval EXCEPT ![s] = "gone"]
  /\ UNCHANGED <<dialer, rxEval, ack, openAt, readBy, upTx, upFallback, connections, brokenStreams>>

RxTimeout(s) ==
  /\ rxEval[s] \in {"accept", "wait"}
  /\ rxEval' = [rxEval EXCEPT ![s] = IF @ = "wait" THEN "gone" ELSE "never"]
  /\ UNCHANGED <<dialer, txEval, ack, openAt, readBy, upTx, upFallback, connections, brokenStreams>>

Ponged(s) == rxEval[s] \in {"wait", "done", "gone"}

(* Too slow: the dialler says so and closes; so does the acceptor. *)
TxFail(s) ==
  /\ txEval[s] = "wait" /\ Ponged(s)
  /\ txEval' = [txEval EXCEPT ![s] = "gone"]
  /\ ack' = [ack EXCEPT ![s] = "fail"]
  /\ openAt' = [openAt EXCEPT ![dialer[s]] = @ \ {s}]
  /\ UNCHANGED <<dialer, rxEval, readBy, upTx, upFallback, connections, brokenStreams>>

RxFail(s) ==
  /\ rxEval[s] = "wait" /\ ack[s] = "fail"
  /\ rxEval' = [rxEval EXCEPT ![s] = "gone"]
  /\ openAt' = [openAt EXCEPT ![Other(dialer[s])] = @ \ {s}]
  /\ UNCHANGED <<dialer, txEval, ack, readBy, upTx, upFallback, connections, brokenStreams>>

ReplaceUnread(c, s) ==
  /\ upTx' = [upTx EXCEPT ![c] = s]
  /\ upFallback' = [upFallback EXCEPT ![c] = upTx[c]]
  /\ UNCHANGED <<openAt, readBy, connections>>

(* replaceP2P: the hub reads the stream; it becomes the transport unless    *)
(* there is a fallback or a direct stream already, in which case it is      *)
(* closed again.                                                            *)
replaceP2P(c, s) ==
  IF upFallback[c] # None \/ IsP2P(upTx[c])
  THEN /\ openAt' = [openAt EXCEPT ![c] = @ \ {s}]
       /\ UNCHANGED <<readBy, upTx, upFallback, connections>>
  ELSE /\ upTx' = [upTx EXCEPT ![c] = s]
       /\ upFallback' = [upFallback EXCEPT ![c] = upTx[c]]
       /\ readBy' = [readBy EXCEPT ![c] = @ \cup {s}]
       /\ connections' = [connections EXCEPT ![c] = @ \cup {s}]
       /\ UNCHANGED openAt

TxPass(s) ==
  /\ txEval[s] = "wait" /\ Ponged(s)
  /\ txEval' = [txEval EXCEPT ![s] = "done"]
  /\ ack' = [ack EXCEPT ![s] = "pass"]
  /\ replaceP2P(dialer[s], s)
  /\ UNCHANGED <<dialer, rxEval, brokenStreams>>

(* The answer is read even when the dialler has closed since. *)
RxPass(s) ==
  /\ rxEval[s] = "wait" /\ ack[s] = "pass"
  /\ rxEval' = [rxEval EXCEPT ![s] = "done"]
  /\ replaceP2P(Other(dialer[s]), s)
  /\ UNCHANGED <<dialer, txEval, ack, brokenStreams>>

-------------------------------------------------------------------------------
(* A reader meets the end of its stream and closes it. *)
ReadEnds(c, s) ==
  /\ s \in readBy[c] /\ ~Alive(s)
  /\ readBy' = [readBy EXCEPT ![c] = @ \ {s}]
  /\ openAt' = [openAt EXCEPT ![c] = @ \ {s}]
  /\ UNCHANGED <<dialer, txEval, rxEval, ack, upTx, upFallback, connections, brokenStreams>>

StayOnStream(c) == UNCHANGED upTx

(* The fallback takes over, if there is one.  OnFallback looks the stream   *)
(* up under the address, connections are kept under the Destination, so it  *)
(* is neither found nor cancelled.                                          *)
FallBack(c) ==
  upTx' = [upTx EXCEPT ![c] = IF upFallback[c] # None THEN upFallback[c] ELSE @]

WriteBreaks(c) ==
  /\ IsP2P(upTx[c]) /\ ~Alive(upTx[c])
  /\ FallBack(c)
  /\ UNCHANGED <<dialer, txEval, rxEval, ack, openAt, readBy, upFallback, connections, brokenStreams>>

NetworkCuts(s) ==
  /\ dialer[s] # None /\ s \notin brokenStreams
  /\ brokenStreams' = brokenStreams \cup {s}
  /\ UNCHANGED <<dialer, txEval, rxEval, ack, openAt, readBy, upTx, upFallback, connections>>

EvalStep(s) ==
  Pong(s) \/ TxPass(s) \/ TxFail(s) \/ RxPass(s) \/ RxFail(s) \/ Unknown(s)
    \/ TxTimeout(s) \/ RxTimeout(s)

UpNext ==
  \/ \E c \in Sides : NegotiateRelay(c) \/ WriteBreaks(c)
  \/ \E s \in StreamIds : EvalStep(s) \/ NetworkCuts(s)
  \/ \E c \in Sides, s \in StreamIds : tryP2P(c, s) \/ ReadEnds(c, s)

(* Deadlines bound an evaluation, readers notice the end, and clients send. *)
UpFairness ==
  /\ \A s \in StreamIds : WF_upVars(EvalStep(s))
  /\ \A c \in Sides : WF_upVars(WriteBreaks(c))
  /\ \A c \in Sides, s \in StreamIds : WF_upVars(ReadEnds(c, s))

UpSpec == UpInit /\ [][UpNext]_upVars /\ UpFairness

-------------------------------------------------------------------------------
(* Types; a stream is read only at an end that is open and kept in the      *)
(* connections, and only a Destination with a transport has a fallback.     *)
UpTypeOK ==
  /\ upTx \in [Sides -> Transports] /\ upFallback \in [Sides -> {None, Relayed}]
  /\ \A c \in Sides : /\ readBy[c] \subseteq openAt[c] /\ readBy[c] \subseteq connections[c]
                      /\ upFallback[c] # None => upTx[c] # None

(* A live stream that one side sends on is read by the other side's hub,    *)
(* once both evaluations have ended with a pass, also when both sides       *)
(* dialled at the same time and refuse each other's stream.                 *)
SentIsRead ==
  \A c \in Sides :
    LET s == upTx[c] IN
    IsP2P(s) /\ Alive(s) /\ rxEval[s] = "done" /\ txEval[s] = "done" => s \in readBy[Other(c)]

(* A Destination that has a relay to fall back to ends up on a transport    *)
(* that works, whatever streams are refused, cut or closed by the other     *)
(* side: the relay, or a live stream that the other side reads, unless its  *)
(* evaluation timed out after the answer and left the stream unread.        *)
EndsUsable ==
  \A c \in Sides :
    <>[](upFallback[c] # None =>
           \/ upTx[c] = Relayed
           \/ Alive(upTx[c]) /\ (upTx[c] \in readBy[Other(c)] \/ rxEval[upTx[c]] = "gone"))

===============================================================================
