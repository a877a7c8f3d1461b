------------------------------ MODULE Consumer ------------------------------
(***************************************************************************)
(* The worker pool: each worker takes one message at a time from the       *)
(* processing queue and runs handleMessage on it.  A step ends wherever    *)
(* the handler talks to someone else: the repository, the notifier, the    *)
(* broker.  Between the two steps of a repository call its round trips     *)
(* interleave with everyone else's (RepositoryStep).                       *)
(***************************************************************************)
EXTENDS CachedRepository, MessageBroker

CONSTANT MaxRequeues   \* bound: deliveries go on while requeues stay within it

ASSUME WorkersAssumption == Workers \subseteq Procs /\ IsFiniteSet(Workers)
ASSUME MaxRequeuesAssumption == MaxRequeues \in Nat

VARIABLES
    wpc,        \* wpc[w]: where worker w stands in its loop
    hand,       \* hand[w]: the notification it decoded, attempts included
    sends,      \* history: sends[id], calls of Send for the notification
    delivered   \* history: delivered[id], those of them that returned nil

consumerVars == <<wpc, hand, sends, delivered>>

WorkerStates == {"idle", "checking", "sending", "recording", "retrying",
                 "acking", "stopped"}

ConsumerInit ==
    /\ wpc = [w \in Workers |-> "idle"]
    /\ hand = [w \in Workers |-> NoMessage]
    /\ sends = [id \in Ids |-> 0]
    /\ delivered = [id \in Ids |-> 0]

Resume(w, state) == wpc' = [wpc EXCEPT ![w] = state]
LetGo(w) == Resume(w, "idle") /\ hand' = [hand EXCEPT ![w] = NoMessage]

(* What a step of the handler leaves alone in the repository.              *)
KeepStore == UNCHANGED <<db, cache, ctx, excuse>>
KeepSends == UNCHANGED <<sends, delivered>>

-----------------------------------------------------------------------------
(* The worker's select may pick a message although its context is done.    *)
Receive(w, m) ==
    /\ wpc[w] = "idle"
    /\ requeues[m.id] <= MaxRequeues
    /\ Deliver(w, m)
    /\ CallGetByID(w, m.id)
    /\ Resume(w, "checking")
    /\ hand' = [hand EXCEPT ![w] = m]
    /\ KeepStore /\ KeepSends /\ UNCHANGED faults

(* "no longer scheduled, skipping": taken for a status other than          *)
(* scheduled and for a failed lookup alike, and the message is acked.      *)
Skip(w) ==
    /\ wpc[w] = "checking"
    /\ Returned(w, "GetByID")
    /\ ~ (Succeeded(w) /\ call[w].row.status = "scheduled")
    /\ Ack(w)
    /\ dropped' = IF Succeeded(w) \/ unacked[w] = NoMessage THEN dropped
                  ELSE dropped \cup {hand[w].id}
    /\ Return(w)
    /\ LetGo(w)
    /\ KeepStore /\ KeepSends /\ UNCHANGED faults

(* Mutant: the status that was looked up is not compared.                  *)
ProceedUnchecked(w) ==
    /\ wpc[w] = "checking"
    /\ Returned(w, "GetByID")
    /\ Succeeded(w)
    /\ Return(w)
    /\ Resume(w, "sending")
    /\ KeepStore /\ KeepSends /\ UNCHANGED <<hand, brokerVars, faults>>

Proceed(w) ==
    /\ wpc[w] = "checking"
    /\ Returned(w, "GetByID")
    /\ Succeeded(w) /\ call[w].row.status = "scheduled"
    /\ Return(w)
    /\ Resume(w, "sending")
    /\ KeepStore /\ KeepSends /\ UNCHANGED <<hand, brokerVars, faults>>

-----------------------------------------------------------------------------
(* notifier.Send: its result is the channel's to decide.  The row written  *)
(* is built from the message body, never from the row just checked.        *)
Sends(w, outcome) ==
    /\ wpc[w] = "sending"
    /\ sends' = [sends EXCEPT ![hand[w].id] = @ + 1]
    /\ delivered' = [delivered EXCEPT ![hand[w].id] = @ + outcome]
    /\ KeepStore /\ UNCHANGED <<brokerVars, faults>>

(* Mutant: the row is written back with its old status.                    *)
SendOkStatusUnset(w) ==
    /\ Sends(w, 1)
    /\ CallUpdate(w, hand[w].id, NewRow)
    /\ Resume(w, "recording")
    /\ UNCHANGED hand

SendOk(w) ==
    /\ Sends(w, 1)
    /\ CallUpdate(w, hand[w].id, SentRow(hand[w].attempts))
    /\ Resume(w, "recording")
    /\ UNCHANGED hand

(* Mutants: an error handler that falls through to the success path, and   *)
(* one that gives up an attempt too early.                                 *)
SendFailsButRecordsSent(w) ==
    /\ Sends(w, 0)
    /\ hand[w].attempts + 1 >= MaxRetries
    /\ CallUpdate(w, hand[w].id, SentRow(hand[w].attempts))
    /\ Resume(w, "recording")
    /\ UNCHANGED hand
SendGivesUpEarly(w) ==
    /\ Sends(w, 0)
    /\ hand[w].attempts + 2 >= MaxRetries
    /\ CallUpdate(w, hand[w].id, FailedRow(hand[w].attempts + 1))
    /\ Resume(w, "recording")
    /\ UNCHANGED hand

SendFailsFinally(w) ==
    /\ Sends(w, 0)
    /\ hand[w].attempts + 1 >= MaxRetries
    /\ CallUpdate(w, hand[w].id, FailedRow(hand[w].attempts + 1))
    /\ Resume(w, "recording")
    /\ UNCHANGED hand

(* Mutants: an attempt too many is allowed, attempts are not counted, and  *)
(* the message is acked before its retry is published.                     *)
SendFailsOnceMore(w) ==
    /\ Sends(w, 0)
    /\ hand[w].attempts + 1 <= MaxRetries
    /\ hand' = [hand EXCEPT ![w].attempts = @ + 1]
    /\ Resume(w, "retrying")
    /\ UNCHANGED call
SendFailsUncounted(w) ==
    /\ Sends(w, 0)
    /\ Resume(w, "retrying")
    /\ UNCHANGED <<call, hand>>
SendFailsAcksFirst(w) ==
    /\ wpc[w] = "sending"
    /\ hand[w].attempts + 1 < MaxRetries
    /\ sends' = [sends EXCEPT ![hand[w].id] = @ + 1]
    /\ hand' = [hand EXCEPT ![w].attempts = @ + 1]
    /\ Ack(w)
    /\ Resume(w, "retrying")
    /\ KeepStore /\ UNCHANGED <<delivered, call, dropped, faults>>

SendFails(w) ==
    /\ Sends(w, 0)
    /\ hand[w].attempts + 1 < MaxRetries
    /\ hand' = [hand EXCEPT ![w].attempts = @ + 1]
    /\ Resume(w, "retrying")
    /\ UNCHANGED call

(* Mutants: the message is acked whatever Update returned, and a failed    *)
(* Update returns without settling the message at all.                     *)
RecordedOrNot(w) ==
    /\ wpc[w] = "recording"
    /\ Returned(w, "Update")
    /\ Ack(w) /\ UNCHANGED dropped
    /\ Return(w)
    /\ LetGo(w)
    /\ KeepStore /\ KeepSends /\ UNCHANGED faults
RecordedNoNack(w) ==
    /\ wpc[w] = "recording"
    /\ Returned(w, "Update")
    /\ \/ Succeeded(w) /\ Ack(w) /\ UNCHANGED dropped
       \/ ~ Succeeded(w) /\ UNCHANGED brokerVars
    /\ Return(w)
    /\ LetGo(w)
    /\ KeepStore /\ KeepSends /\ UNCHANGED faults

(* The outcome is recorded: Ack.  It is not: Nack with requeue, and the    *)
(* message comes back with the attempts it had when it was published.      *)
Recorded(w) ==
    /\ wpc[w] = "recording"
    /\ Returned(w, "Update")
    /\ \/ Succeeded(w) /\ Ack(w) /\ UNCHANGED dropped
       \/ ~ Succeeded(w) /\ Requeue(w)
    /\ Return(w)
    /\ LetGo(w)
    /\ KeepStore /\ KeepSends /\ UNCHANGED faults

PublishRetry(w) ==
    /\ wpc[w] = "retrying"
    /\ Publish("worker", "retry", hand[w])
    /\ Resume(w, "acking")
    /\ KeepStore /\ KeepSends /\ UNCHANGED <<call, hand>>

PublishRetryFails(w) ==
    /\ wpc[w] = "retrying"
    /\ ~ publisherOpen["worker"]
    /\ Requeue(w)
    /\ LetGo(w)
    /\ KeepStore /\ KeepSends /\ UNCHANGED <<call, faults>>

AckRetried(w) ==
    /\ wpc[w] = "acking"
    /\ Ack(w)
    /\ LetGo(w)
    /\ KeepStore /\ KeepSends /\ UNCHANGED <<call, dropped, faults>>

-----------------------------------------------------------------------------
(* The end of a worker: nothing starts it again but a new process.         *)

(* runWorker returns: the context is done, or the deliveries' Go channel   *)
(* was closed.  The deferred ch.Close() closes the AMQP channel.  In a stop *)
(* that has closed the clients the context may be done as well.            *)
StopWorker(w) ==
    /\ wpc[w] = "idle"
    /\ ctx[w] \in {"done", "closed"} \/ ~ channelOpen[w]
    /\ SetChannels({w}, FALSE)
    /\ Resume(w, "stopped")
    /\ KeepStore /\ KeepSends /\ UNCHANGED <<call, hand, publisherOpen, faults>>

(* A worker whose channel is closed in mid-message finishes the message    *)
(* first; its Ack or Nack then reaches nobody.                             *)
ChannelCloses(w) ==
    /\ channelOpen[w]
    /\ Fault("channel")
    /\ SetChannels({w}, FALSE)
    /\ KeepStore /\ UNCHANGED <<call, consumerVars, publisherOpen>>

ConnectionCloses ==
    /\ Fault("connection")
    /\ SetChannels(Workers, FALSE)
    /\ publisherOpen' = [publisherOpen EXCEPT !["worker"] = FALSE]
    /\ KeepStore /\ UNCHANGED <<call, consumerVars>>

(* The start timeout passes, and with it the context that every worker was *)
(* started with is done.  This needs no fault.                             *)
PoolContextDone ==
    /\ "timeout" \in FaultKinds
    /\ ContextsDone(Workers)
    /\ UNCHANGED <<brokerVars, consumerVars, faults>>

(* An orderly stop.  OnStop of the pool waits for no worker and ends no    *)
(* context, so the hooks that follow close Redis and then PostgreSQL under *)
(* workers that go on: their lookups fail, and they acknowledge what they  *)
(* received.  No hook closes the AMQP connection.                          *)
StopHooksRun ==
    /\ CacheCloses(Workers) \/ StoresClose(Workers)
    /\ UNCHANGED <<brokerVars, consumerVars>>

(* The worker process ends, when its stop hooks have run or in a crash,    *)
(* with its workers wherever they are, and a new one starts.               *)
WorkerProcessRestarts ==
    /\ CrashCalls(Workers)
    /\ SetChannels(Workers, TRUE)
    /\ publisherOpen' = [publisherOpen EXCEPT !["worker"] = TRUE]
    /\ wpc' = [w \in Workers |-> "idle"]
    /\ hand' = [w \in Workers |-> NoMessage]
    /\ KeepSends

HandlerStep(w) ==
    \/ Skip(w) \/ Proceed(w)
    \/ SendOk(w) \/ SendFailsFinally(w) \/ SendFails(w)
    \/ Recorded(w)
    \/ PublishRetry(w) \/ PublishRetryFails(w) \/ AckRetried(w)
    \/ StopWorker(w)

ConsumerFaults ==
    \/ \E w \in Workers : ChannelCloses(w)
    \/ ConnectionCloses
    \/ PoolContextDone
    \/ StopHooksRun
    \/ WorkerProcessRestarts
    \/ PublisherCloses("worker") /\ UNCHANGED <<repoVars, consumerVars>>

-----------------------------------------------------------------------------
ConsumerTypeOK ==
    /\ wpc \in [Workers -> WorkerStates]
    /\ hand \in [Workers -> Messages \cup {NoMessage}]
    /\ sends \in [Ids -> Nat]
    /\ delivered \in [Ids -> Nat]
    /\ \A w \in Workers : wpc[w] \notin {"idle", "stopped"} => hand[w] \in Messages
=============================================================================
