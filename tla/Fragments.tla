------------------------------- MODULE Fragments -------------------------------
(***************************************************************************)
(* Control messages over QUIC datagrams, common/session/session_quic.go.   *)
(* A message longer than one datagram is cut into fragments that carry a   *)
(* message id, an index and a count; the receiver collects the fragments   *)
(* of an id until it has them all.  Datagrams may be lost and reordered.   *)
(* The id counter is one for the whole process and wraps (2^32 = IdSpace), *)
(* and a count has 16 bits (CountSpace).                                   *)
(***************************************************************************)
EXTENDS Integers, FiniteSets

CONSTANTS Lengths,        \* lengths of the messages sent
          MaxPayloadSize, \* MaxDatagramSize - 10
          IdSpace, CountSpace,
          MaxSends        \* bound on the number of messages

ASSUME FragmentAssumption ==
  /\ MaxPayloadSize \in Nat \ {0} /\ IdSpace \in Nat \ {0} /\ CountSpace \in Nat \ {0}
  /\ Lengths \subseteq Nat \ {0} /\ MaxSends \in Nat

VARIABLES
  messageIDCounter, \* on IdSpace
  sends,            \* how many messages were sent: names a message
  flight,           \* datagrams sent and neither received nor lost
  partial,          \* id -> [count, fragments]: what is collected of a message
  joined,           \* what Receive returned: the fragments by index
  seen              \* every datagram received

fragVars == <<messageIDCounter, sends, flight, partial, joined, seen>>

FragInit ==
  /\ messageIDCounter = 0
  /\ sends = 0
  /\ flight = {}
  /\ partial = [id \in {} |-> {}]
  /\ joined = {}
  /\ seen = {}

-------------------------------------------------------------------------------
(* The pieces of a message: data[start:end] of each fragment. *)
FragmentCount(len) == ((len + MaxPayloadSize - 1) \div MaxPayloadSize) % CountSpace

Whole(n, len) == [msg |-> n, len |-> len, plain |-> TRUE, id |-> 0, index |-> 0, count |-> 1]

Fragment(n, len, id, i) ==
  [msg |-> n, len |-> len, plain |-> FALSE, id |-> id, index |-> i,
   count |-> FragmentCount(len)]

NextIdStays(id) == id

nextMessageID(id) == (id + 1) % IdSpace

(* Send fails at any fragment that the connection refuses. *)
Send(len) ==
  /\ sends < MaxSends
  /\ sends' = sends + 1
  /\ IF len <= MaxPayloadSize
     THEN /\ flight' = flight \cup {Whole(sends', len)}
          /\ UNCHANGED messageIDCounter
     ELSE /\ messageIDCounter' = nextMessageID(messageIDCounter)
          /\ \E accepted \in 0..FragmentCount(len) :
               flight' = flight \cup
                 {Fragment(sends', len, messageIDCounter', i) : i \in 0..(accepted - 1)}
  /\ UNCHANGED <<partial, joined, seen>>

Lose(d) ==
  /\ flight' = flight \ {d}
  /\ UNCHANGED <<messageIDCounter, sends, partial, joined, seen>>

Drop(id) == [i \in DOMAIN partial \ {id} |-> partial[i]]

Keep(id, message) ==
  [i \in DOMAIN partial \cup {id} |-> IF i = id THEN message ELSE partial[i]]

(* The message of a fragment's id, new or as collected so far. *)
Collected(d) ==
  IF d.id \in DOMAIN partial THEN partial[d.id] ELSE [count |-> d.count, fragments |-> {}]

InOrderOnly(d) ==
  LET msg == Collected(d)
      fragments == msg.fragments \cup {d} IN
  IF d.count # msg.count \/ d.index # Cardinality(msg.fragments)
  THEN partial' = Drop(d.id) /\ UNCHANGED joined
  ELSE IF Cardinality(fragments) = d.count
  THEN partial' = Drop(d.id) /\ joined' = joined \cup {fragments}
  ELSE partial' = Keep(d.id, [msg EXCEPT !.fragments = fragments]) /\ UNCHANGED joined

(* A count other than the one collected for discards both; a fragment       *)
(* already there is ignored; the last one missing completes the message.    *)
addFragment(d) ==
  LET msg == Collected(d)
      fragments == msg.fragments \cup {d} IN
  IF d.count # msg.count
  THEN partial' = Drop(d.id) /\ UNCHANGED joined
  ELSE IF \E f \in msg.fragments : f.index = d.index
  THEN UNCHANGED <<partial, joined>>
  ELSE IF Cardinality(fragments) = d.count
  THEN partial' = Drop(d.id) /\ joined' = joined \cup {fragments}
  ELSE partial' = Keep(d.id, [msg EXCEPT !.fragments = fragments]) /\ UNCHANGED joined

ReceiveDatagram(d) ==
  /\ flight' = flight \ {d}
  /\ seen' = seen \cup {d}
  /\ IF d.plain
     THEN /\ joined' = joined \cup {{d}}
          /\ UNCHANGED partial
     ELSE addFragment(d)
  /\ UNCHANGED <<messageIDCounter, sends>>

FragNext ==
  \/ \E len \in Lengths : Send(len)
  \/ \E d \in flight : Lose(d) \/ ReceiveDatagram(d)

FragSpec == FragInit /\ [][FragNext]_fragVars

-------------------------------------------------------------------------------
(* Types; a message under way has some of its fragments and never all:      *)
(* addFragment forgets it when the last one comes.                          *)
FragTypeOK ==
  /\ messageIDCounter \in 0..(IdSpace - 1)
  /\ sends \in 0..MaxSends
  /\ DOMAIN partial \subseteq 0..(IdSpace - 1)
  /\ \A id \in DOMAIN partial :
       Cardinality(partial[id].fragments) \in 1..(partial[id].count - 1)

(* The messages one result takes its fragments from. *)
Sources(result) == {f.msg : f \in result}

(* What Receive returns is one sent message: each index once, all fragments *)
(* of one message, unless the id counter has wrapped between two messages   *)
(* that share an id (an incomplete message is kept while the connection     *)
(* lives), and none missing, unless the message needs more fragments than a *)
(* count can say.                                                           *)
DeliveredWhole ==
  \A result \in joined :
    /\ \A f, g \in result : f.index = g.index => f = g
    /\ \A f, g \in result : f.msg # g.msg => f.msg - g.msg >= IdSpace \/ g.msg - f.msg >= IdSpace
    /\ \A f \in result :
         f.len <= MaxPayloadSize * (CountSpace - 1) =>
           Cardinality(result) * MaxPayloadSize >= f.len

(* Whether another fragmented message of the same id has been received. *)
IdShared(d) == \E e \in seen : ~e.plain /\ e.id = d.id /\ e.msg # d.msg

(* A message all of whose fragments arrive is returned, in whatever order   *)
(* they come and whatever arrives in between, as long as its id is its own. *)
ArrivedIsDelivered ==
  \A d \in seen :
    /\ d.plain \/ ~IdShared(d)
    /\ Cardinality({e \in seen : e.msg = d.msg}) = d.count
    => \E result \in joined : Sources(result) = {d.msg}

===============================================================================
