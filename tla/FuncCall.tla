------------------------------- MODULE FuncCall --------------------------------
(***************************************************************************)
(* Remote calls on the control connection: Manager.CallFunc and            *)
(* receiveLoop of the client (vnet/client/manager.go), handleFuncCallLoop  *)
(* and HandleFuncCallEvent of the server.  The connection may lose and     *)
(* reorder messages (QUIC datagrams; TCP does neither), and either loop    *)
(* ends for good at its first receive error.                               *)
(***************************************************************************)
EXTENDS Integers, FiniteSets

CONSTANTS Callers,   \* goroutines that call: the sync loop, the p2p setup
          FuncNames,
          MaxCalls,  \* bound on the number of calls
          Nobody

ASSUME CallAssumption == Nobody \notin Callers /\ MaxCalls \in Nat

VARIABLES
  callMu,     \* who holds the mutex
  call,       \* per caller: where it is, its request and its reply
  calls,      \* number of requests made; names a request
  requests,   \* in flight to the server
  replies,    \* in flight to the client
  respChan,   \* funcCallRespChan: request -> what its channel holds
  clientLoop, \* "receive", "blocked" on a full channel, or "ended"
  serverLoop  \* "receive" or "ended"

callVars == <<callMu, call, calls, requests, replies, respChan, clientLoop, serverLoop>>

NoReply == [id |-> 0, name |-> "none", to |-> Nobody]

Resting == [pc |-> "idle", name |-> "none", id |-> 0, reply |-> NoReply]

CallInit ==
  /\ callMu = Nobody
  /\ call = [c \in Callers |-> Resting]
  /\ calls = 0
  /\ requests = {}
  /\ replies = {}
  /\ respChan = [id \in {} |-> NoReply]
  /\ clientLoop = "receive"
  /\ serverLoop = "receive"

CallAt(c, pc) == call[c].pc = pc

-------------------------------------------------------------------------------
CallFunc(c, name) ==
  /\ CallAt(c, "idle")
  /\ calls + Cardinality({d \in Callers : CallAt(d, "lock")}) < MaxCalls
  /\ call' = [call EXCEPT ![c] = [Resting EXCEPT !.pc = "lock", !.name = name]]
  /\ UNCHANGED <<callMu, calls, requests, replies, respChan, clientLoop, serverLoop>>

(* The deadline of three seconds starts with the mutex. *)
Lock(c) ==
  /\ CallAt(c, "lock")
  /\ callMu = Nobody
  /\ callMu' = c
  /\ calls' = calls + 1
  /\ call' = [call EXCEPT ![c].pc = "send", ![c].id = calls + 1]
  /\ UNCHANGED <<requests, replies, respChan, clientLoop, serverLoop>>

(* Both deferred calls: forget the channel, unlock. *)
Return(c, reply) ==
  /\ respChan' = [id \in DOMAIN respChan \ {call[c].id} |-> respChan[id]]
  /\ callMu' = Nobody
  /\ call' = [call EXCEPT ![c].pc = "idle", ![c].reply = reply]

LeaveLocked(c) ==
  /\ call' = [call EXCEPT ![c].pc = "idle", ![c].reply = NoReply]
  /\ UNCHANGED <<respChan, callMu>>

SendFails(c) ==
  /\ CallAt(c, "send")
  /\ Return(c, NoReply)
  /\ UNCHANGED <<calls, requests, replies, clientLoop, serverLoop>>

SendRequest(c) ==
  /\ CallAt(c, "send")
  /\ requests' = requests \cup {[id |-> call[c].id, name |-> call[c].name, to |-> c]}
  /\ call' = [call EXCEPT ![c].pc = "store"]
  /\ UNCHANGED <<callMu, calls, replies, respChan, clientLoop, serverLoop>>

(* The channel is stored after the request went out. *)
StoreChan(c) ==
  /\ CallAt(c, "store")
  /\ respChan' = [id \in DOMAIN respChan \cup {call[c].id} |->
                    IF id = call[c].id THEN NoReply ELSE respChan[id]]
  /\ call' = [call EXCEPT ![c].pc = "wait"]
  /\ UNCHANGED <<callMu, calls, requests, replies, clientLoop, serverLoop>>

TimeoutLocked(c) ==
  /\ CallAt(c, "wait")
  /\ LeaveLocked(c)
  /\ UNCHANGED <<calls, requests, replies, clientLoop, serverLoop>>

Timeout(c) ==
  /\ CallAt(c, "wait")
  /\ Return(c, NoReply)
  /\ UNCHANGED <<calls, requests, replies, clientLoop, serverLoop>>

TakeReply(c) ==
  /\ CallAt(c, "wait")
  /\ respChan[call[c].id] # NoReply
  /\ Return(c, respChan[call[c].id])
  /\ UNCHANGED <<calls, requests, replies, clientLoop, serverLoop>>

-------------------------------------------------------------------------------
OnlyChannel(m) == DOMAIN respChan

(* The channel that waits for a reply, loaded by request id. *)
ChannelOf(m) == {id \in DOMAIN respChan : id = m.id}

(* receiveLoop: a channel holds one reply; without a channel it is dropped. *)
ReceiveReply(m) ==
  /\ clientLoop = "receive"
  /\ replies' = replies \ {m}
  /\ \/ /\ ChannelOf(m) = {}
        /\ UNCHANGED <<respChan, clientLoop>>
     \/ \E id \in ChannelOf(m) :
          IF respChan[id] = NoReply
          THEN respChan' = [respChan EXCEPT ![id] = m] /\ UNCHANGED clientLoop
          ELSE clientLoop' = "blocked" /\ UNCHANGED respChan
  /\ UNCHANGED <<callMu, call, calls, requests, serverLoop>>

ClientLoopEnds ==
  /\ clientLoop = "receive"
  /\ clientLoop' = "ended"
  /\ UNCHANGED <<callMu, call, calls, requests, replies, respChan, serverLoop>>

-------------------------------------------------------------------------------
HandleTwice(r) ==
  /\ serverLoop = "receive"
  /\ replies' = replies \cup {r}
  /\ UNCHANGED <<callMu, call, calls, requests, respChan, clientLoop, serverLoop>>

(* A handler that fails, or an answer that cannot be sent, leaves no reply. *)
HandleFuncCallEvent(r) ==
  /\ serverLoop = "receive"
  /\ requests' = requests \ {r}
  /\ \/ replies' = replies \cup {r}
     \/ UNCHANGED replies
  /\ UNCHANGED <<callMu, call, calls, respChan, clientLoop, serverLoop>>

ServerLoopEnds ==
  /\ serverLoop = "receive"
  /\ serverLoop' = "ended"
  /\ UNCHANGED <<callMu, call, calls, requests, replies, respChan, clientLoop>>

LoseMessage ==
  /\ \/ \E r \in requests : requests' = requests \ {r} /\ UNCHANGED replies
     \/ \E m \in replies : replies' = replies \ {m} /\ UNCHANGED requests
  /\ UNCHANGED <<callMu, call, calls, respChan, clientLoop, serverLoop>>

CallNext ==
  \/ \E c \in Callers :
       \/ \E name \in FuncNames : CallFunc(c, name)
       \/ Lock(c) \/ SendFails(c) \/ SendRequest(c) \/ StoreChan(c)
       \/ Timeout(c) \/ TakeReply(c)
  \/ \E m \in replies : ReceiveReply(m)
  \/ \E r \in requests : HandleFuncCallEvent(r)
  \/ ClientLoopEnds \/ ServerLoopEnds \/ LoseMessage

(* A goroutine that can run does, and the deadline of a waiting call        *)
(* expires.                                                                 *)
CallFairness ==
  \A c \in Callers :
    /\ WF_callVars(Lock(c))
    /\ WF_callVars(SendFails(c) \/ SendRequest(c))
    /\ WF_callVars(StoreChan(c))
    /\ WF_callVars(Timeout(c) \/ TakeReply(c))

CallSpec == CallInit /\ [][CallNext]_callVars /\ CallFairness

-------------------------------------------------------------------------------
(* A call that returns a reply returns the server's answer to that very     *)
(* call, never a late one to an earlier call, although replies arrive late  *)
(* and in any order (replies are matched by request id).                    *)
ReplyIsForThisCall ==
  \A c \in Callers :
    /\ call[c].reply # NoReply =>
         call[c].reply = [id |-> call[c].id, name |-> call[c].name, to |-> c]
    /\ call[c].pc # "idle" => call[c].reply = NoReply

(* receiveLoop never blocks on a channel that is already full, which would  *)
(* stop all later replies and server events.                                *)
LoopNeverBlocks == clientLoop # "blocked"

(* Every call returns, with a reply or an error, even after a loop has      *)
(* ended on either side: a caller that waits for the mutex gets it and one  *)
(* that waits for a reply is released by its deadline.                      *)
EveryCallReturns == \A c \in Callers : call[c].pc = "lock" ~> call[c].pc = "idle"

===============================================================================
