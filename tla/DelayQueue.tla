------------------------------ MODULE DelayQueue ------------------------------
(***************************************************************************)
(* The delays of storage/rabbitmq/queue.go: a wait queue and a retry queue *)
(* that nobody consumes.  Each message in them has an expiration of its    *)
(* own, the queues are first in first out, and only the head of a queue is *)
(* ever expired and handed over to the processing queue.                   *)
(*                                                                         *)
(* Time is relative: every quantity is a number of ticks still to go, and  *)
(* Tick counts all of them down.  Sub-millisecond times matter, because    *)
(* expirations are whole milliseconds; a millisecond is TicksPerMs ticks.  *)
(*                                                                         *)
(* Publishers and workers are arbitrary here.  That the bag of             *)
(* MessageBroker, which the model of the whole system uses, is a faithful  *)
(* picture of these queues is the refinement at the end.                   *)
(***************************************************************************)
EXTENDS Notification, Integers, Sequences, FiniteSets, SequencesExt, FiniteSetsExt

CONSTANTS
    Workers,       \* the worker goroutines
    Requests,      \* requests of the API that publish, at most one each
    TicksPerMs,    \* ticks in a millisecond
    BaseDelay,     \* the backoff's base (5 s), in milliseconds
    Schedules,     \* ticks from a request to its scheduled_at, or past it
    MaxRequeues    \* bound: requeues of one notification

ASSUME TicksAssumption == TicksPerMs \in Nat \ {0}
ASSUME BaseDelayAssumption == BaseDelay \in Nat
ASSUME SchedulesAssumption == Schedules \subseteq Int
ASSUME MaxRequeuesAssumption == MaxRequeues \in Nat

VARIABLES
    publishing,   \* publishing[r]: what request r is about to write
    delaying,     \* delaying[q]: the wait and the retry queue
    ready,        \* the processing queue
    unacked,      \* unacked[w]: delivered to w and not acknowledged
    retried,      \* workers that have published the retry of unacked[w]
    requeues      \* history: requeues[id]

delayVars == <<publishing, delaying, ready, unacked, retried, requeues>>

DelayQueues == {"wait", "retry"}

(* left: ticks until the message's own expiration passes.                  *)
(* due:  history, ticks until the time its publisher asked for.            *)
(* turn: history, ticks until the expiration of this message and of every  *)
(*       message that was ahead of it when it was published have passed.   *)
Entries == [msg : Messages, left : Nat, due : Nat, turn : Nat]

(* In the processing queue an entry keeps what was then still to go.       *)
Handed == [msg : Messages, due : Nat, turn : Nat]
Drafts == [msg : Messages, left : Nat, due : Nat]
NoDraft == [msg |-> NoMessage, left |-> 0, due |-> 0]

DelayInit ==
    /\ publishing = [r \in Requests |-> NoDraft]
    /\ delaying = [q \in DelayQueues |-> <<>>]
    /\ ready = <<>>
    /\ unacked = [w \in Workers |-> NoMessage]
    /\ retried = {}
    /\ requeues = [id \in Ids |-> 0]

-----------------------------------------------------------------------------
(* Delays.                                                                 *)

(* Duration.Milliseconds drops what is less than a millisecond.            *)
Truncated(ticks) == (ticks \div TicksPerMs) * TicksPerMs
ClampedDelay(ticks) == IF ticks < 0 THEN 0 ELSE ticks

(* calculateExponentialBackoff, in ticks: base * 2^attempts.               *)
Backoff(attempts) == BaseDelay * 2 ^ attempts * TicksPerMs

(* That powers of two are natural numbers and grow: arithmetic that the    *)
(* proofs use and no prover knows.                                         *)
ASSUME BackoffAssumption ==
    \A a \in 1 .. MaxRetries - 1 :
        0 <= Backoff(a) /\ Backoff(a) <= Backoff(MaxRetries - 1)

LongestAhead(q) == Max({e.left : e \in ToSet(delaying[q])} \cup {0})

Expired(q) == delaying[q] # <<>> /\ Head(delaying[q]).left = 0

(* The broker works on a queue in sequence: it gets rid of an expired head *)
(* before it takes in another message.                                     *)
Enqueue(q, m, left, due) ==
    /\ ~ Expired(q)
    /\ delaying' = [delaying EXCEPT ![q] = Append(@,
           [msg |-> m, left |-> left, due |-> due,
            turn |-> Max({left, LongestAhead(q)})])]

-----------------------------------------------------------------------------
(* Publish: the delay is computed first and the frames are written after   *)
(* it, through a channel all requests share.  The queue counts from then.  *)

InUse(id) ==
    \/ \E r \in Requests : publishing[r].msg.id = id
    \/ \E q \in DelayQueues : \E e \in ToSet(delaying[q]) : e.msg.id = id
    \/ \E e \in ToSet(ready) : e.msg.id = id
    \/ \E w \in Workers : unacked[w].id = id

Draft(r, id, left, due) ==
    /\ publishing[r] = NoDraft
    /\ ~ InUse(id)
    /\ publishing' = [publishing EXCEPT ![r] =
           [msg |-> [id |-> id, attempts |-> 0], left |-> left, due |-> due]]
    /\ UNCHANGED <<delaying, ready, unacked, retried, requeues>>

(* Mutants: a time in the past gives a negative expiration, and the        *)
(* expiration is rounded down to a unit of three milliseconds.             *)
ComputeDelayUnclamped(r, id, until) ==
    Draft(r, id, Truncated(until), ClampedDelay(until))
ComputeDelayCoarsely(r, id, until) ==
    LET delay == ClampedDelay(until)
        unit == 3 * TicksPerMs
    IN  Draft(r, id, (delay \div unit) * unit, delay)

ComputeDelay(r, id, until) ==
    LET delay == ClampedDelay(until)
    IN  Draft(r, id, Truncated(delay), delay)

WriteMessage(r) ==
    /\ publishing[r] # NoDraft
    /\ Enqueue("wait", publishing[r].msg, publishing[r].left, publishing[r].due)
    /\ publishing' = [publishing EXCEPT ![r] = NoDraft]
    /\ UNCHANGED <<ready, unacked, retried, requeues>>

-----------------------------------------------------------------------------
(* The broker.                                                             *)

HandOver(e) ==
    ready' = Append(ready, [msg |-> e.msg, due |-> e.due, turn |-> e.turn])

(* Mutants: the retry queue dead-letters into the wait exchange, and the   *)
(* processing queue is declared with room for one message.                 *)
ExpireRetriesIntoWait(q) ==
    /\ Expired(q)
    /\ \/ /\ q = "wait"
          /\ HandOver(Head(delaying[q]))
          /\ delaying' = [delaying EXCEPT ![q] = Tail(@)]
       \/ /\ q = "retry"
          /\ delaying' = [delaying EXCEPT ![q] = Tail(@),
                                !["wait"] = Append(@, Head(delaying[q]))]
          /\ UNCHANGED ready
    /\ UNCHANGED <<publishing, unacked, retried, requeues>>
ExpireHeadIfRoom(q) ==
    /\ Expired(q)
    /\ ready = <<>>
    /\ HandOver(Head(delaying[q]))
    /\ delaying' = [delaying EXCEPT ![q] = Tail(@)]
    /\ UNCHANGED <<publishing, unacked, retried, requeues>>

ExpireHead(q) ==
    /\ Expired(q)
    /\ HandOver(Head(delaying[q]))
    /\ delaying' = [delaying EXCEPT ![q] = Tail(@)]
    /\ UNCHANGED <<publishing, unacked, retried, requeues>>

(* Time passes, but not past an expired head: the broker's timer fires.    *)
Less(n) == IF n = 0 THEN 0 ELSE n - 1
Older(e) == [e EXCEPT !.left = Less(@), !.due = Less(@), !.turn = Less(@)]
Tick ==
    /\ \A q \in DelayQueues : ~ Expired(q)
    /\ delaying' = [q \in DelayQueues |->
           [i \in DOMAIN delaying[q] |-> Older(delaying[q][i])]]
    /\ publishing' = [r \in Requests |->
           [publishing[r] EXCEPT !.due = Less(@)]]
    /\ UNCHANGED <<ready, unacked, retried, requeues>>

-----------------------------------------------------------------------------
(* Workers, as far as the queues can tell.                                 *)

Take(w) ==
    /\ unacked[w] = NoMessage
    /\ ready # <<>>
    /\ unacked' = [unacked EXCEPT ![w] = Head(ready).msg]
    /\ ready' = Tail(ready)
    /\ UNCHANGED <<publishing, delaying, retried, requeues>>

(* PublishRetry, with the attempt count already increased.                 *)
Retry(w, backoff) ==
    /\ unacked[w] # NoMessage
    /\ w \notin retried
    /\ unacked[w].attempts + 1 < MaxRetries
    /\ Enqueue("retry", [unacked[w] EXCEPT !.attempts = @ + 1], backoff, backoff)
    /\ retried' = retried \cup {w}
    /\ UNCHANGED <<publishing, ready, unacked, requeues>>

(* Mutant: the attempts are increased once more for the backoff.           *)
PublishRetryCountedTwice(w) ==
    Retry(w, Backoff(unacked[w].attempts + 2))

PublishRetry(w) == Retry(w, Backoff(unacked[w].attempts + 1))

Settle(w) ==
    /\ unacked[w] # NoMessage
    /\ unacked' = [unacked EXCEPT ![w] = NoMessage]
    /\ retried' = retried \ {w}
    /\ UNCHANGED <<publishing, delaying, ready, requeues>>

(* Nack with requeue: back to the front, where it came from.               *)
GiveUp(w) ==
    /\ unacked[w] # NoMessage
    /\ w \notin retried
    /\ requeues[unacked[w].id] < MaxRequeues
    /\ ready' = <<[msg |-> unacked[w], due |-> 0, turn |-> 0]>> \o ready
    /\ requeues' = [requeues EXCEPT ![unacked[w].id] = @ + 1]
    /\ unacked' = [unacked EXCEPT ![w] = NoMessage]
    /\ UNCHANGED <<publishing, delaying, retried>>

-----------------------------------------------------------------------------
DelayNext ==
    \/ \E r \in Requests, id \in Ids, until \in Schedules :
          ComputeDelay(r, id, until)
    \/ \E r \in Requests : WriteMessage(r)
    \/ \E q \in DelayQueues : ExpireHead(q)
    \/ Tick
    \/ \E w \in Workers : Take(w) \/ PublishRetry(w) \/ Settle(w) \/ GiveUp(w)

DelaySpec == DelayInit /\ [][DelayNext]_delayVars

(* Time goes on whatever is published meanwhile, and the broker hands over *)
(* what has expired.  Nothing is assumed of publishers and workers.        *)
DelayFairSpec ==
    /\ DelaySpec
    /\ SF_delayVars(Tick)
    /\ \A q \in DelayQueues : WF_delayVars(ExpireHead(q))

-----------------------------------------------------------------------------
(* Type correctness; an expiration, in particular, is never negative.  The *)
(* broker has an upper limit too, 2^32 - 1 milliseconds: it is not         *)
(* modelled, and Publish checks a scheduled_at against nothing.            *)
DelayTypeOK ==
    /\ publishing \in [Requests -> Drafts \cup {NoDraft}]
    /\ delaying \in [DelayQueues -> Seq(Entries)]
    /\ ready \in Seq(Handed)
    /\ unacked \in [Workers -> Messages \cup {NoMessage}]
    /\ retried \subseteq {w \in Workers : unacked[w] # NoMessage}
    /\ requeues \in [Ids -> 0 .. MaxRequeues]

(* Nothing is handed to the workers before its time: a notification waits  *)
(* for its scheduled_at and a retry for its backoff, short of the fraction *)
(* of a millisecond that the expiration cannot express.                    *)
NeverEarly == \A e \in ToSet(ready) : e.due < TicksPerMs

(* "PublishRetry schedules a notification for a retry attempt with a       *)
(* specific delay" (notification_repo.go:43): a retry whose delay has      *)
(* passed waits for nothing else.  The retry queue expires only its head,  *)
(* so a short backoff behind a long one waits for the long one.            *)
WaitsItsOwnDelay ==
    \A i \in DOMAIN delaying["retry"] :
        delaying["retry"][i].left = 0
            => \A j \in 1 .. i : delaying["retry"][j].left = 0

(* A retry may wait longer than its own backoff, but never longer than the *)
(* longest backoff there is: retries have a queue of their own, where no   *)
(* scheduled notification is ahead of them.                                *)
RetryIsBounded ==
    \A e \in ToSet(delaying["retry"]) : e.turn <= Backoff(MaxRetries - 1)

(* The queues as MessageBroker sees them: so many copies of each message.  *)
Copies(s, m) == Cardinality({i \in DOMAIN s : s[i].msg = m})
Bag == INSTANCE MessageBroker WITH
    queue <- [wait |-> [m \in Messages |-> Copies(delaying["wait"], m)],
              retry |-> [m \in Messages |-> Copies(delaying["retry"], m)],
              process |-> [m \in Messages |-> Copies(ready, m)]],
    channelOpen <- [w \in Workers |-> TRUE],
    publisherOpen <- [s \in {"api", "worker"} |-> TRUE],
    dropped <- {},
    FaultKinds <- {}, MaxFaults <- 0, faults <- 0

(* The FIFO queues implement the bag: no message is lost, doubled or sent  *)
(* to another queue than the model of the whole system allows.             *)
ImplementsBag == Bag!BrokerSpec

(* They are as fair as the model of the whole system assumes: each message *)
(* is handed over in the end, however many are published ahead of it.      *)
ExpiryIsFair ==
    \A q \in DelayQueues, m \in Messages :
        \/ []<>(Copies(delaying[q], m) = 0)
        \/ []<><<Bag!DeadLetter(q, m)>>_delayVars
=============================================================================
