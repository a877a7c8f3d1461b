--------------------------- MODULE DelayedNotifier ---------------------------
(***************************************************************************)
(* The delayed notifier: API requests and workers over the shared table,   *)
(* cache and broker.  Every step is the step of one of them; the rest of   *)
(* the system stands still.                                                *)
(***************************************************************************)
EXTENDS Consumer, Api

ASSUME ProcsAssumption == Procs = Workers \cup Requests
ASSUME RolesAssumption == Workers \cap Requests = {}

VARIABLE late   \* history: workers that received their message after the
                \* cancellation of its notification had been acknowledged

vars == <<repoVars, brokerVars, consumerVars, apiVars, late, faults>>

Init ==
    /\ RepoInit
    /\ BrokerInit
    /\ ConsumerInit
    /\ ApiInit
    /\ late = {}

-----------------------------------------------------------------------------
WorkerReceives(w, m) ==
    /\ Receive(w, m)
    /\ late' = IF m.id \in cancelAcked THEN late \cup {w} ELSE late
    /\ UNCHANGED apiVars

WorkerStep(w) ==
    /\ HandlerStep(w)
    /\ late' = {v \in late : wpc'[v] # "idle"}
    /\ UNCHANGED apiVars

ApiStep(r) == RequestStep(r) /\ UNCHANGED <<consumerVars, late>>
ApiRequest(r) == NewRequest(r) /\ UNCHANGED <<consumerVars, late>>

StoreStep(p) ==
    RepositoryStep(p) /\ UNCHANGED <<brokerVars, consumerVars, apiVars, late>>
StoreExpiry(id) ==
    CacheExpire(id) /\ UNCHANGED <<brokerVars, consumerVars, apiVars, late>>
Expiry(q, m) ==
    DeadLetter(q, m) /\ UNCHANGED <<repoVars, consumerVars, apiVars, late>>

Faults ==
    \/ /\ ConsumerFaults
       /\ late' = {v \in late : wpc'[v] # "idle"}
       /\ UNCHANGED apiVars
    \/ ApiFaults /\ UNCHANGED <<consumerVars, late>>

Next ==
    \/ \E w \in Workers, m \in Messages : WorkerReceives(w, m)
    \/ \E w \in Workers : WorkerStep(w)
    \/ \E r \in Requests : ApiRequest(r) \/ ApiStep(r)
    \/ \E p \in Procs : StoreStep(p)
    \/ \E id \in Ids : StoreExpiry(id)
    \/ \E q \in Queues, m \in Messages : Expiry(q, m)
    \/ Faults

Spec == Init /\ [][Next]_vars

(* The goroutine of a worker is scheduled, its calls to Redis, PostgreSQL  *)
(* and the notifier return, and expirations pass.  Nothing is assumed of   *)
(* requests and their clients, of faults, of when the start timeout passes *)
(* or of how a Send ends.                                                  *)
WorkerGoes(w) ==
    \/ \E m \in Messages : WorkerReceives(w, m)
    \/ WorkerStep(w)
    \/ StoreStep(w)

Fairness ==
    /\ \A w \in Workers : WF_vars(WorkerGoes(w))
    /\ \A q \in Queues \ {"process"}, m \in Messages : WF_vars(Expiry(q, m))

FairSpec == Spec /\ Fairness

-----------------------------------------------------------------------------
(* Type correctness of the whole state.                                    *)
TypeOK ==
    /\ RepoTypeOK
    /\ BrokerTypeOK
    /\ ConsumerTypeOK
    /\ ApiTypeOK
    /\ late \in SUBSET Workers

(* A row that says "sent", or has sent_at set, was really delivered: some  *)
(* Send for it returned nil, whatever duplicates, retries, cancellations,  *)
(* crashes and lost statements happened on the way.                        *)
SentMeansDelivered ==
    \A id \in Ids :
        db[id].status = "sent" \/ db[id].sentAt => delivered[id] > 0

(* A row says "failed" only after MaxRetries calls of Send returned an     *)
(* error: the attempt count travels in the message body, and no requeue,   *)
(* duplicate or retry ever makes it larger than the failures that          *)
(* happened.                                                               *)
FailedMeansExhausted ==
    \A id \in Ids :
        db[id].status = "failed" => sends[id] >= delivered[id] + MaxRetries

(* A notification whose creation has published it, answered or not, and    *)
(* whose row is still scheduled has a message in the broker: publish-then- *)
(* ack of a retry, ack after the update, and redelivery when a channel     *)
(* closes leave no gap.  The exceptions are counted in dropped: a publish  *)
(* the broker never got, and a message acked because the lookup failed.    *)
NoSilentLoss ==
    \A id \in published :
        db[id].status = "scheduled" /\ id \notin dropped => InBroker(id)

(* Each redelivery can cost one more delivery, and nothing else can.       *)
DuplicateBudget == \A id \in Ids : delivered[id] <= 1 + requeues[id]

(* Each redelivery can cost one more round of MaxRetries calls of Send.    *)
SendBudget == \A id \in Ids : sends[id] <= MaxRetries * (1 + requeues[id])

(* What a worker reported of a notification shows in its row, even after a *)
(* cancellation has overwritten the status: the UPDATE of Delete keeps     *)
(* sent_at and attempts.                                                   *)
Reported(row) == row.sentAt \/ row.attempts = MaxRetries

(* A row that reports an outcome reports what happened: sent_at is set if  *)
(* and only if one Send returned nil, and attempts counts the calls that   *)
(* failed.                                                                 *)
Exact(id, row) ==
    Reported(row) =>
        /\ delivered[id] = (IF row.sentAt THEN 1 ELSE 0)
        /\ sends[id] = row.attempts + delivered[id]

(* Short of a redelivery the table tells exactly what happened, although   *)
(* the row is built from a message body that several publishes, queues and *)
(* workers have carried on.                                                *)
RecordIsExact == \A id \in Ids : requeues[id] = 0 => Exact(id, db[id])

(* Short of a redelivery a reported outcome stands, although UPDATE has no *)
(* guard on the status: no other worker, retry or late round trip writes   *)
(* the row again, and only a cancellation that was under way is still put  *)
(* over it.                                                                *)
OutcomesStand ==
    [][\A id \in Ids :
          requeues[id] = 0 /\ Reported(db[id]) =>
              db'[id] \in {db[id], Cancelled(db[id])}
      ]_vars

(* As long as nothing fails, nobody stops the workers and their start      *)
(* timeout has not passed, no delivery is put back and no message goes     *)
(* unhandled, however requests, workers, cache and expiries interleave and *)
(* wherever clients disconnect: a lookup or an update never misses the     *)
(* row.  Without any of the three conditions it is not so.                 *)
HarmNeedsFault ==
    faults = 0 /\ (\A w \in Workers : ctx[w] = "live") =>
        dropped = {} /\ \A id \in Ids : requeues[id] = 0

(* A message received after its cancellation was answered with 204 is not  *)
(* sent, unless the cache missed an invalidation or a fill straddled a     *)
(* write: the status check reads through the cache.                        *)
CancelHonoured ==
    \A w \in late : wpc[w] = "sending" => excuse[hand[w].id] # {}

(* A creation that was answered with an error leaves at most a row that    *)
(* nobody will act on: it has no message, is never sent, and never changes *)
(* again.  So a client that was answered 500 may try again without being   *)
(* served twice, and the row stays scheduled for ever.  Nothing of the     *)
(* kind holds for a client that got no answer.                             *)
OrphansAreInert ==
    \A id \in rejected :
        /\ ~ InBroker(id)
        /\ sends[id] = 0
        /\ db[id] \in {NoRow, NewRow}

(* The system implements the life of a notification that clients are       *)
(* promised.                                                               *)
Lifecycle == INSTANCE NotificationLifecycle WITH
    status <- [id \in Ids |-> db[id].status],
    accepted <- published,
    announced <- known,
    attempts <- sends,
    deliveries <- delivered

ImplementsLifecycle == Lifecycle!LifecycleSpec

(* Every notification that its creation has published is in the end sent,  *)
(* failed or cancelled, or its message was dropped, or no worker is left   *)
(* to take it, as it is some time after the start timeout.                 *)
EventuallyResolved ==
    \A id \in Ids :
        id \in published ~> \/ Settled(db[id])
                        \/ id \in dropped
                        \/ \A w \in Workers : wpc[w] = "stopped"

-----------------------------------------------------------------------------
(* What the safety properties rest on, as one inductive invariant.         *)

(* A worker's repository call and the delivery it has not acknowledged are *)
(* those of the message in its hand.                                       *)
HandIsConsistent ==
    \A w \in Workers :
        /\ wpc[w] = "checking" =>
              call[w].op = "GetByID" /\ call[w].id = hand[w].id
        /\ wpc[w] = "recording" =>
              call[w].op = "Update" /\ call[w].id = hand[w].id
        /\ unacked[w] # NoMessage =>
              wpc[w] \notin {"idle", "stopped"} /\ unacked[w].id = hand[w].id

(* Clients, messages and calls refer to ids only once they are public.     *)
IdsArePublic ==
    /\ \A id \in published : Public(id)
    /\ known \subseteq published
    /\ \A m \in Messages : InQueue(m) => Public(m.id)
    /\ \A w \in Workers : hand[w] # NoMessage => Public(hand[w].id)
    /\ \A p \in Procs :
          call[p].op \in {"GetByID", "Update", "Delete"} => Public(call[p].id)

(* A request that is about to answer 201 has published its notification    *)
(* and has no repository call any more.                                    *)
AnswersAreReady ==
    \A r \in Requests :
        rpc[r] = "answering" => answer[r] \in published /\ call[r] = NoCall

(* The attempts of a message body are failures that really happened.       *)
Backed(m) == sends[m.id] >= delivered[m.id] + m.attempts
AttemptsAreBacked ==
    /\ \A id \in Ids : sends[id] >= delivered[id]
    /\ \A m \in Messages : InQueue(m) => Backed(m)
    /\ \A w \in Workers : unacked[w] # NoMessage => Backed(unacked[w])
    /\ \A w \in Workers : hand[w] # NoMessage => Backed(hand[w])

(* The outcome a row claims is earned, in the table and on the way there.  *)
Earned(id, row) ==
    /\ row.status = "sent" \/ row.sentAt => delivered[id] > 0
    /\ row.status = "failed" => sends[id] >= delivered[id] + MaxRetries
OutcomesAreEarned ==
    /\ \A id \in Ids : Earned(id, db[id])
    /\ \A p \in Procs :
          call[p].step = "dbUpdate" => Earned(call[p].id, call[p].row)

(* A message somewhere in the broker that is not about to be acknowledged  *)
(* in favour of its retry.                                                 *)
Held(id) ==
    \/ \E m \in Messages : m.id = id /\ InQueue(m)
    \/ \E w \in Workers : unacked[w].id = id /\ wpc[w] # "acking"
ScheduledIsHeld ==
    \A id \in published :
        db[id].status = "scheduled" /\ id \notin dropped => Held(id)

(* Where a worker that got its message after the 204 can stand.            *)
LateIsExcused ==
    /\ \A id \in cancelAcked : Published(id)
    /\ \A w \in late :
          /\ wpc[w] \notin {"idle", "stopped"}
          /\ Published(hand[w].id)
          /\ wpc[w] = "checking" =>
                \/ ReadRow(w) = NoRow \/ Settled(ReadRow(w))
                \/ excuse[hand[w].id] # {}
          /\ wpc[w] = "sending" => excuse[hand[w].id] # {}

SystemInv ==
    /\ RepoInv
    /\ CallerInv
    /\ TypeOK
    /\ HandIsConsistent
    /\ IdsArePublic
    /\ AnswersAreReady
    /\ AttemptsAreBacked
    /\ OutcomesAreEarned
    /\ ScheduledIsHeld
    /\ LateIsExcused

-----------------------------------------------------------------------------
(* What comments and log lines of the program say and the code does not    *)
(* do.  Each is refuted by a run of its own.                               *)

(* consumer.go:21, "maxRetries is the maximum number of send attempts for  *)
(* a notification".  An Update that fails after the last attempt puts the  *)
(* message back with the attempts it was published with.                   *)
SendsWithinLimit == \A id \in Ids : sends[id] <= MaxRetries

(* notification_repo.go:21, "Delete cancels a scheduled notification".     *)
(* The status is checked by the service, in a call of its own, and not by  *)
(* the UPDATE: what the consumer records in between is overwritten.        *)
CancelsOnlyScheduled ==
    [][\A id \in Ids :
          db'[id].status = "cancelled" => db[id].status \in {"scheduled", "cancelled"}
      ]_vars

(* consumer.go:141, "Notification is no longer scheduled, skipping".  A    *)
(* message is skipped, and so acknowledged, when the status is unknown.    *)
SkipsOnlySettled ==
    [][\A w \in Workers :
          wpc[w] = "checking" /\ wpc'[w] = "idle" => Settled(db[hand[w].id])
      ]_vars

(* consumer.go:59, Start "will run until the context is cancelled".  Every *)
(* worker also returns when its AMQP channel closes, and none is replaced. *)
RunsUntilCancelled ==
    (\A w \in Workers : wpc[w] = "stopped") => \E w \in Workers : ctx[w] = "done"
=============================================================================
