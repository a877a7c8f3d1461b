---------------------------- MODULE MessageBroker ----------------------------
(***************************************************************************)
(* The RabbitMQ topology as its users see it: a wait queue and a retry     *)
(* queue whose messages are dead-lettered into the processing queue once   *)
(* their expiration passes, workers that consume the processing queue with *)
(* manual acknowledgement and a prefetch of one, and one publisher channel *)
(* in the API process and one in the worker process.                       *)
(*                                                                         *)
(* A queue maps each message to the number of copies it holds.  The order  *)
(* inside a queue and the time of an expiry are left open: an expiry may   *)
(* happen at any moment after the publish.                                 *)
(***************************************************************************)
EXTENDS Notification, FaultInjection, FiniteSets

CONSTANT Workers   \* the worker goroutines, each with a channel of its own

VARIABLES
    queue,          \* queue[q][m]: copies of message m in queue q
    unacked,        \* unacked[w]: delivered to w and not yet acknowledged
    channelOpen,    \* channelOpen[w]: w's consuming channel is open
    publisherOpen,  \* publisherOpen[s]: the publisher channel of process s is
    requeues,       \* history: requeues[id], how often a delivery was put back
    dropped         \* history: ids with a message that went unhandled, acked
                    \* by the consumer or lost between publisher and broker

brokerVars == <<queue, unacked, channelOpen, publisherOpen, requeues, dropped>>

Queues == {"wait", "retry", "process"}
Publishers == {"api", "worker"}

BrokerInit ==
    /\ queue = [q \in Queues |-> [m \in Messages |-> 0]]
    /\ unacked = [w \in Workers |-> NoMessage]
    /\ channelOpen = [w \in Workers |-> TRUE]
    /\ publisherOpen = [s \in Publishers |-> TRUE]
    /\ requeues = [id \in Ids |-> 0]
    /\ dropped = {}

-----------------------------------------------------------------------------
(* Publishing: PublishWithContext on an unconfirmed channel.  It returns   *)
(* nil once the frames are written, and an error only when the channel is  *)
(* closed; nothing reopens it while the process lives.                     *)

(* Mutant: an unconfirmed publish is repeated.                             *)
PublishTwice(s, q, m) ==
    /\ publisherOpen[s]
    /\ queue' = [queue EXCEPT ![q][m] = @ + 2]
    /\ UNCHANGED <<dropped, faults, unacked, channelOpen, publisherOpen, requeues>>

Publish(s, q, m) ==
    /\ publisherOpen[s]
    /\ \/ /\ queue' = [queue EXCEPT ![q][m] = @ + 1]
          /\ UNCHANGED <<dropped, faults>>
       \/ /\ Fault("lost")
          /\ dropped' = dropped \cup {m.id}
          /\ UNCHANGED queue
    /\ UNCHANGED <<unacked, channelOpen, publisherOpen, requeues>>

PublisherCloses(s) ==
    /\ publisherOpen[s]
    /\ Fault("publisher")
    /\ publisherOpen' = [publisherOpen EXCEPT ![s] = FALSE]
    /\ UNCHANGED <<queue, unacked, channelOpen, requeues, dropped>>

(* The expiration of m passes: x-dead-letter-exchange hands it over.       *)
DeadLetter(q, m) ==
    /\ q # "process"
    /\ queue[q][m] > 0
    /\ queue' = [queue EXCEPT ![q][m] = @ - 1, !["process"][m] = @ + 1]
    /\ UNCHANGED <<unacked, channelOpen, publisherOpen, requeues, dropped, faults>>

-----------------------------------------------------------------------------
(* Consuming.                                                              *)

(* Mutant: the queue is consumed with autoAck.                             *)
DeliverAutoAck(w, m) ==
    /\ channelOpen[w]
    /\ queue["process"][m] > 0
    /\ queue' = [queue EXCEPT !["process"][m] = @ - 1]
    /\ UNCHANGED <<unacked, channelOpen, publisherOpen, requeues, dropped>>

(* Prefetch one: only a channel with nothing unacknowledged gets more.     *)
Deliver(w, m) ==
    /\ channelOpen[w]
    /\ unacked[w] = NoMessage
    /\ queue["process"][m] > 0
    /\ queue' = [queue EXCEPT !["process"][m] = @ - 1]
    /\ unacked' = [unacked EXCEPT ![w] = m]
    /\ UNCHANGED <<channelOpen, publisherOpen, requeues, dropped>>

(* Errors of Ack and Nack are ignored: on a closed channel both do nothing, *)
(* the broker has taken the delivery back already.                         *)
Ack(w) ==
    /\ unacked' = [unacked EXCEPT ![w] = NoMessage]
    /\ UNCHANGED <<queue, channelOpen, publisherOpen, requeues>>

(* Every delivery that workers W hold goes back to the processing queue.   *)
GiveBack(W) ==
    /\ queue' = [queue EXCEPT !["process"] =
           [m \in Messages |->
               queue["process"][m] + Cardinality({w \in W : unacked[w] = m})]]
    /\ unacked' = [w \in Workers |-> IF w \in W THEN NoMessage ELSE unacked[w]]
    /\ requeues' = [id \in Ids |->
           requeues[id] + Cardinality({w \in W : unacked[w].id = id})]
    /\ UNCHANGED dropped

(* Nack with requeue.                                                      *)
Requeue(w) == GiveBack({w}) /\ UNCHANGED <<channelOpen, publisherOpen>>

(* A channel that closes, from either end, gives back what it had not      *)
(* acknowledged; a process that starts opens its channels anew.            *)
SetChannels(W, open) ==
    /\ channelOpen' = [w \in Workers |-> IF w \in W THEN open ELSE channelOpen[w]]
    /\ GiveBack(W)

-----------------------------------------------------------------------------
(* The broker on its own, nothing going wrong, used by arbitrary publishers *)
(* and workers.                                                            *)
BrokerNext ==
    \/ \E s \in Publishers, q \in {"wait", "retry"}, m \in Messages :
          Publish(s, q, m)
    \/ \E q \in Queues, m \in Messages : DeadLetter(q, m)
    \/ /\ \E w \in Workers :
             \/ \E m \in Messages : Deliver(w, m)
             \/ Ack(w) /\ UNCHANGED dropped
             \/ Requeue(w)
       /\ UNCHANGED faults

BrokerSpec == BrokerInit /\ faults = 0 /\ [][BrokerNext]_<<brokerVars, faults>>

-----------------------------------------------------------------------------
BrokerTypeOK ==
    /\ queue \in [Queues -> [Messages -> Nat]]
    /\ unacked \in [Workers -> Messages \cup {NoMessage}]
    /\ channelOpen \in [Workers -> BOOLEAN]
    /\ publisherOpen \in [Publishers -> BOOLEAN]
    /\ requeues \in [Ids -> Nat]
    /\ dropped \in SUBSET Ids

(* A message of notification id is somewhere in the broker's hands.        *)
InQueue(m) == \E q \in Queues : queue[q][m] > 0
InBroker(id) ==
    \/ \E m \in Messages : m.id = id /\ InQueue(m)
    \/ \E w \in Workers : unacked[w].id = id
=============================================================================
