------------------------ MODULE MessageBrokerProofs ------------------------
(***************************************************************************)
(* Where messages can come from and go to in one step of the broker, for   *)
(* any number of ids and workers.                                          *)
(***************************************************************************)
EXTENDS MessageBroker, FiniteSetTheorems, TLAPS

LEMMA NoMessageIsNone ==
    /\ NoMessage \notin Messages
    /\ \A m \in Messages : m.id \in Ids /\ m.id # NoMessage.id
BY NoIdAssumption DEF NoMessage, Messages

(* A publish adds a copy of its message, or the message is on record as    *)
(* dropped.                                                                *)
LEMMA PublishEffect ==
    ASSUME BrokerTypeOK, NEW s \in Publishers, NEW q \in Queues,
           NEW m \in Messages, Publish(s, q, m)
    PROVE  /\ BrokerTypeOK'
           /\ UNCHANGED <<unacked, channelOpen, publisherOpen, requeues>>
           /\ \A n \in Messages : InQueue(n) => InQueue(n)'
           /\ \A n \in Messages : InQueue(n)' => InQueue(n) \/ n = m
           /\ dropped \subseteq dropped'
           /\ InQueue(m)' \/ m.id \in dropped'
<1> USE DEF Publish, BrokerTypeOK
<1>1. CASE queue' = [queue EXCEPT ![q][m] = @ + 1] /\ UNCHANGED dropped
  <2>1. queue' \in [Queues -> [Messages -> Nat]]
      BY <1>1
  <2>2. /\ queue'[q][m] = queue[q][m] + 1
        /\ \A r \in Queues, n \in Messages :
              r # q \/ n # m => queue'[r][n] = queue[r][n]
      BY <1>1
  <2> QED BY <1>1, <2>1, <2>2 DEF InQueue
<1>2. CASE dropped' = dropped \cup {m.id} /\ UNCHANGED queue
    BY <1>2, NoMessageIsNone DEF InQueue
<1> QED BY <1>1, <1>2

(* A dead-lettered message changes queues.                                 *)
LEMMA DeadLetterEffect ==
    ASSUME BrokerTypeOK, NEW q \in Queues, NEW m \in Messages, DeadLetter(q, m)
    PROVE  /\ BrokerTypeOK'
           /\ UNCHANGED <<unacked, channelOpen, publisherOpen, requeues, dropped>>
           /\ \A n \in Messages : InQueue(n)' <=> InQueue(n)
<1> USE DEF DeadLetter, BrokerTypeOK
<1>1. /\ queue' \in [Queues -> [Messages -> Nat]]
      /\ queue'[q][m] = queue[q][m] - 1
      /\ queue'["process"][m] = queue["process"][m] + 1
      /\ \A r \in Queues, n \in Messages :
            n # m => queue'[r][n] = queue[r][n]
    BY DEF Queues
<1>2. \A n \in Messages : n # m => (InQueue(n)' <=> InQueue(n))
    BY <1>1 DEF InQueue
<1>3. queue[q][m] > 0 /\ queue'["process"][m] > 0
    BY <1>1 DEF Queues
<1>4. InQueue(m) /\ InQueue(m)'
    BY <1>3 DEF InQueue, Queues
<1> QED BY <1>1, <1>2, <1>4

(* A delivered message leaves its queue and is its worker's.               *)
LEMMA DeliverEffect ==
    ASSUME BrokerTypeOK, NEW w \in Workers, NEW m \in Messages, Deliver(w, m)
    PROVE  /\ BrokerTypeOK'
           /\ UNCHANGED <<channelOpen, publisherOpen, requeues, dropped>>
           /\ InQueue(m)
           /\ unacked[w] = NoMessage /\ unacked'[w] = m
           /\ \A v \in Workers \ {w} : unacked'[v] = unacked[v]
           /\ \A n \in Messages : InQueue(n)' => InQueue(n)
           /\ \A n \in Messages : InQueue(n) => InQueue(n)' \/ n = m
<1> USE DEF Deliver, BrokerTypeOK
<1>1. /\ queue' \in [Queues -> [Messages -> Nat]]
      /\ queue'["process"][m] = queue["process"][m] - 1
      /\ \A r \in Queues, n \in Messages :
            r # "process" \/ n # m => queue'[r][n] = queue[r][n]
    BY DEF Queues
<1> QED BY <1>1 DEF InQueue, Queues

LEMMA AckEffect ==
    ASSUME BrokerTypeOK, NEW w \in Workers, Ack(w)
    PROVE  /\ unacked' \in [Workers -> Messages \cup {NoMessage}]
           /\ unacked'[w] = NoMessage
           /\ \A v \in Workers \ {w} : unacked'[v] = unacked[v]
BY DEF Ack, BrokerTypeOK

(* Every delivery held by one of W goes back, and nothing else.            *)
LEMMA GiveBackEffect ==
    ASSUME BrokerTypeOK, IsFiniteSet(Workers), NEW W \in SUBSET Workers,
           GiveBack(W)
    PROVE  /\ queue' \in [Queues -> [Messages -> Nat]]
           /\ unacked' \in [Workers -> Messages \cup {NoMessage}]
           /\ requeues' \in [Ids -> Nat]
           /\ dropped' = dropped
           /\ \A w \in W : unacked'[w] = NoMessage
           /\ \A w \in Workers \ W : unacked'[w] = unacked[w]
           /\ \A m \in Messages : InQueue(m) => InQueue(m)'
           /\ \A w \in W, m \in Messages : unacked[w] = m => InQueue(m)'
           /\ \A m \in Messages :
                 InQueue(m)' => InQueue(m) \/ \E w \in W : unacked[w] = m
<1> USE DEF GiveBack, BrokerTypeOK
<1> DEFINE Back(m) == {w \in W : unacked[w] = m}
           BackId(i) == {w \in W : unacked[w].id = i}
<1>1. IsFiniteSet(W)
    BY FS_Subset
<1>2. ASSUME NEW m PROVE /\ Cardinality(Back(m)) \in Nat
                         /\ Cardinality(Back(m)) = 0 <=> Back(m) = {}
  <2>1. IsFiniteSet(Back(m))
      BY <1>1, FS_Subset
  <2> QED BY <2>1, FS_CardinalityType, FS_EmptySet
<1>3. ASSUME NEW i PROVE Cardinality(BackId(i)) \in Nat
  <2>1. IsFiniteSet(BackId(i))
      BY <1>1, FS_Subset
  <2> QED BY <2>1, FS_CardinalityType
<1>4. /\ queue' = [queue EXCEPT !["process"] =
              [m \in Messages |-> queue["process"][m] + Cardinality(Back(m))]]
      /\ requeues' = [i \in Ids |-> requeues[i] + Cardinality(BackId(i))]
    OBVIOUS
<1> HIDE DEF Back, BackId
<1>5. /\ \A m \in Messages :
            queue'["process"][m] = queue["process"][m] + Cardinality(Back(m))
      /\ \A q \in Queues \ {"process"} : queue'[q] = queue[q]
      /\ queue' \in [Queues -> [Messages -> Nat]]
  <2>1. [m \in Messages |-> queue["process"][m] + Cardinality(Back(m))]
            \in [Messages -> Nat]
      BY <1>2 DEF Queues
  <2> QED BY <1>4, <2>1 DEF Queues
<1>6. requeues' \in [Ids -> Nat]
    BY <1>3, <1>4
<1>7. /\ \A w \in W : unacked'[w] = NoMessage
      /\ \A w \in Workers \ W : unacked'[w] = unacked[w]
      /\ unacked' \in [Workers -> Messages \cup {NoMessage}]
    OBVIOUS
<1>8. ASSUME NEW m \in Messages PROVE InQueue(m) => InQueue(m)'
    BY <1>2, <1>5 DEF InQueue, Queues
<1>9. ASSUME NEW w \in W, NEW m \in Messages, unacked[w] = m PROVE InQueue(m)'
  <2>1. Back(m) # {}
      BY <1>9 DEF Back
  <2>2. queue'["process"][m] > 0
      BY <1>2, <1>5, <2>1 DEF Queues
  <2> QED BY <2>2 DEF InQueue, Queues
<1>10. ASSUME NEW m \in Messages, InQueue(m)', ~ InQueue(m)
       PROVE  \E w \in W : unacked[w] = m
  <2>1. Back(m) # {}
      BY <1>2, <1>5, <1>10 DEF InQueue, Queues
  <2> QED BY <2>1 DEF Back
<1> QED BY <1>5, <1>6, <1>7, <1>8, <1>9, <1>10
=============================================================================
