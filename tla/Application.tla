----------------------------- MODULE Application -----------------------------
(***************************************************************************)
(* Both programs from their start to their end, and what they do with the  *)
(* recipients of notifications meanwhile.  Requests and workers are        *)
(* coarser here than in DelayedNotifier: a notification has one message,   *)
(* a repository call is one step, and whether a failed Send was the last   *)
(* attempt is left open.  What is exact is which clients are open, which   *)
(* contexts are live, and what the conversions make of a notification.     *)
(***************************************************************************)
EXTENDS Delivery, FxLifecycle

CONSTANTS
    Ids,        \* the notifications created
    Workers,    \* the worker goroutines
    NoId

ASSUME NoIdAssumption == NoId \notin Ids

VARIABLES
    config,     \* the notifiers section of configs/config.yaml
    creating,   \* the create request in progress
    asked,      \* history: asked[id], the request that created id
    row,        \* row[id]: the recipient columns
    status,     \* status[id]: the status column
    body,       \* body[id]: the published message
    place,      \* place[id]: where the message is
    worker,     \* worker[w]: where worker w stands
    hand,       \* hand[w]: the notification it handles
    sentBy,     \* history: sentBy[id], notifiers whose Send returned nil
    refused,    \* history: ids a notifier did not take
    lost        \* history: ids whose message was acked, unsent, on an error

requestVars == <<creating, asked, row, body>>
workerVars == <<worker, hand, sentBy, refused, lost>>
appVars == <<lifecycleVars, config, requestVars, status, place, workerVars>>

NoRequest == [stage |-> "none", id |-> NoId, model |-> NoModel]
NoRow == [channel |-> "none", emailTo |-> Null, telegramChatId |-> Null]
NoAsk == [channel |-> "none", recipient |-> Null, complete |-> FALSE]

AppInit ==
    /\ LifecycleInit
    /\ config \in Configs
    /\ creating = NoRequest
    /\ asked = [id \in Ids |-> NoAsk]
    /\ row = [id \in Ids |-> NoRow]
    /\ status = [id \in Ids |-> "none"]
    /\ body = [id \in Ids |-> NoModel]
    /\ place = [id \in Ids |-> "nowhere"]
    /\ worker = [w \in Workers |-> "off"]
    /\ hand = [w \in Workers |-> NoId]
    /\ sentBy = [id \in Ids |-> {}]
    /\ refused = {}
    /\ lost = {}

-----------------------------------------------------------------------------
(* The API: POST /notifications.                                           *)

ApiStands == UNCHANGED <<lifecycleVars, config, workerVars>>

(* A request that does not bind, or whose recipient is not one of its      *)
(* channel, is answered with an error and changes nothing.                 *)
(* Mutant: the recipient is not parsed.                                    *)
AcceptRequestUnparsed(req, id) ==
    /\ phase["api"] = "running"
    /\ creating = NoRequest
    /\ Binds(req) /\ req.channel \in Channels
    /\ asked[id] = NoAsk
    /\ asked' = [asked EXCEPT ![id] = req]
    /\ creating' = [stage |-> "saving", id |-> id, model |-> NewNotification(req)]
    /\ ApiStands /\ UNCHANGED <<row, body, status, place>>

AcceptRequest(req, id) ==
    /\ phase["api"] = "running"
    /\ creating = NoRequest
    /\ Binds(req) /\ Valid(req)
    /\ asked[id] = NoAsk
    /\ asked' = [asked EXCEPT ![id] = req]
    /\ creating' = [stage |-> "saving", id |-> id, model |-> NewNotification(req)]
    /\ ApiStands /\ UNCHANGED <<row, body, status, place>>

(* Save fails if the mapper or the constraint refuses the notification, if *)
(* the client is closed, or for reasons of the database's own; Publish, if *)
(* its channel is closed.                                                  *)
CreateFails ==
    /\ creating # NoRequest
    /\ creating' = NoRequest
    /\ ApiStands /\ UNCHANGED <<asked, row, body, status, place>>

Save ==
    /\ creating.stage = "saving"
    /\ MapsToRow(creating.model) /\ Storable(ToRow(creating.model))
    /\ Open("api", "postgres")
    /\ row' = [row EXCEPT ![creating.id] = ToRow(creating.model)]
    /\ status' = [status EXCEPT ![creating.id] = "scheduled"]
    /\ creating' = [creating EXCEPT !.stage = "publishing",
                        !.model = ToDomainModel(ToRow(creating.model))]
    /\ ApiStands /\ UNCHANGED <<asked, body, place>>

PublishCreated ==
    /\ creating.stage = "publishing"
    /\ body' = [body EXCEPT ![creating.id] = creating.model]
    /\ place' = [place EXCEPT ![creating.id] = "wait"]
    /\ creating' = NoRequest
    /\ ApiStands /\ UNCHANGED <<asked, row, status>>

-----------------------------------------------------------------------------
(* The workers, between the pool's OnStart and the end of the program.     *)

WorkerStands == UNCHANGED <<lifecycleVars, config, requestVars>>

Expire(id) ==
    /\ place[id] = "wait"
    /\ place' = [place EXCEPT ![id] = "process"]
    /\ WorkerStands /\ UNCHANGED <<status, workerVars>>

(* The context under which a worker makes its calls.                       *)
ContextLive == startCtx["worker"] = "live"
PoolRuns == phase["worker"] \in {"running", "stopping"}

MovesTo(w, next) == worker' = [worker EXCEPT ![w] = next]

(* Channel, Qos and Consume: on an error of any of them runWorker returns. *)
OpenChannel(w) ==
    /\ PoolRuns
    /\ worker[w] = "opening"
    /\ MovesTo(w, "idle") \/ MovesTo(w, "stopped")
    /\ WorkerStands /\ UNCHANGED <<status, place, hand, sentBy, refused, lost>>

StopWorker(w) ==
    /\ PoolRuns
    /\ worker[w] = "idle"
    /\ ~ ContextLive
    /\ MovesTo(w, "stopped")
    /\ WorkerStands /\ UNCHANGED <<status, place, hand, sentBy, refused, lost>>

Receive(w, id) ==
    /\ PoolRuns
    /\ worker[w] = "idle"
    /\ place[id] = "process"
    /\ place' = [place EXCEPT ![id] = "delivered"]
    /\ hand' = [hand EXCEPT ![w] = id]
    /\ MovesTo(w, "checking")
    /\ WorkerStands /\ UNCHANGED <<status, sentBy, refused, lost>>

(* The handler is done with the message, which goes to the given place.    *)
Settles(w, where) ==
    /\ PoolRuns
    /\ place' = [place EXCEPT ![hand[w]] = where]
    /\ hand' = [hand EXCEPT ![w] = NoId]
    /\ MovesTo(w, "idle")
    /\ WorkerStands

(* The lookup fails if there is no row, if the context is done, if both    *)
(* stores are closed, or for reasons of the stores' own.  The message is   *)
(* then acknowledged, unsent.                                              *)
LookUpFails(w) ==
    /\ worker[w] = "checking"
    /\ Settles(w, "nowhere")
    /\ lost' = lost \cup {hand[w]}
    /\ UNCHANGED <<status, sentBy, refused>>

(* That it succeeds takes one of the two stores, and a live context.       *)
CanLookUp ==
    ContextLive /\ (Open("worker", "redis") \/ Open("worker", "postgres"))

Skip(w) ==
    /\ worker[w] = "checking"
    /\ CanLookUp /\ status[hand[w]] \notin {"none", "scheduled"}
    /\ Settles(w, "nowhere")
    /\ UNCHANGED <<status, sentBy, refused, lost>>

Proceed(w) ==
    /\ PoolRuns
    /\ worker[w] = "checking"
    /\ CanLookUp /\ status[hand[w]] = "scheduled"
    /\ MovesTo(w, "sending")
    /\ WorkerStands /\ UNCHANGED <<status, place, hand, sentBy, refused, lost>>

(* Dispatcher.Send; neither notifier looks at the context.                 *)
NotifierOf(id) == NotifierFor(config, body[id].channel)

SendOk(w) ==
    /\ PoolRuns
    /\ worker[w] = "sending"
    /\ Takes(NotifierOf(hand[w]), body[hand[w]])
    /\ sentBy' = [sentBy EXCEPT ![hand[w]] = @ \cup {NotifierOf(hand[w])}]
    /\ MovesTo(w, "recordingSent")
    /\ WorkerStands /\ UNCHANGED <<status, place, hand, refused, lost>>

(* A notifier refuses what is not of its channel, or its server fails; the *)
(* log notifier never does.  Then there is another attempt, or there is not. *)
SendFails(w) ==
    /\ worker[w] = "sending"
    /\ NotifierOf(hand[w]) # "log"
    /\ refused' = IF Takes(NotifierOf(hand[w]), body[hand[w]]) THEN refused
                  ELSE refused \cup {hand[w]}
    /\ \/ Settles(w, "wait")        \* PublishRetry
       \/ Settles(w, "process")     \* it failed
       \/ /\ PoolRuns
          /\ MovesTo(w, "recordingFailed")
          /\ WorkerStands /\ UNCHANGED <<place, hand>>
    /\ UNCHANGED <<status, sentBy, lost>>

CanUpdate == ContextLive /\ Open("worker", "postgres")

RecordOutcome(w) ==
    /\ PoolRuns
    /\ worker[w] \in {"recordingSent", "recordingFailed"}
    /\ CanUpdate
    /\ status' = [status EXCEPT ![hand[w]] =
           IF worker[w] = "recordingSent" THEN "sent" ELSE "failed"]
    /\ MovesTo(w, "acking")
    /\ WorkerStands /\ UNCHANGED <<place, hand, sentBy, refused, lost>>

AckRecorded(w) ==
    /\ worker[w] = "acking"
    /\ Settles(w, "nowhere")
    /\ UNCHANGED <<status, sentBy, refused, lost>>

(* The channel was closed before the Ack, whose error is discarded: the    *)
(* broker has taken the message back, and the worker's loop ends.          *)
AckTooLate(w) ==
    /\ PoolRuns
    /\ worker[w] = "acking"
    /\ place' = [place EXCEPT ![hand[w]] = "process"]
    /\ hand' = [hand EXCEPT ![w] = NoId]
    /\ MovesTo(w, "stopped")
    /\ WorkerStands /\ UNCHANGED <<status, sentBy, refused, lost>>

(* Mutant: the message is acked whatever Update returned.                  *)
RecordFailsAcked(w) ==
    /\ worker[w] \in {"recordingSent", "recordingFailed"}
    /\ Settles(w, "nowhere")
    /\ UNCHANGED <<status, sentBy, refused, lost>>
RecordFails(w) ==
    /\ worker[w] \in {"recordingSent", "recordingFailed"}
    /\ Settles(w, "process")
    /\ UNCHANGED <<status, sentBy, refused, lost>>

-----------------------------------------------------------------------------
(* The programs start and stop.                                            *)

Stands == UNCHANGED <<config, asked, row, body, status, sentBy, refused, lost>>

Starts(p) ==
    /\ Construct(p) \/ PingFails(p) \/ Signal(p)
    /\ Stands /\ UNCHANGED <<creating, place, worker, hand>>

TimesOut(p) ==
    /\ StartTimeout(p)
    /\ Stands /\ UNCHANGED <<creating, place, worker, hand>>

(* consumer.Start(ctx) and ListenAndServe are each called in a goroutine.  *)
RunsStartHook(p) ==
    /\ StartHook(p)
    /\ worker' = IF NextHook(p) = "pool" THEN [w \in Workers |-> "opening"]
                 ELSE worker
    /\ Stands /\ UNCHANGED <<creating, place, hand>>

(* Mutant: OnStop of the server closes it instead of shutting it down.     *)
RunsStopHookAtOnce(p) ==
    /\ \E hook \in {"server", "pool", "redis", "postgres"} : StopHook(p, hook)
    /\ Stands /\ UNCHANGED <<creating, place, worker, hand>>

(* Server.Shutdown waits for the requests; the pool's OnStop waits for     *)
(* nobody.                                                                 *)
RunsStopHook(p) ==
    /\ \/ StopHook(p, "server") /\ creating = NoRequest
       \/ \E hook \in {"pool", "redis", "postgres"} : StopHook(p, hook)
    /\ Stands /\ UNCHANGED <<creating, place, worker, hand>>

(* With the program its requests end, its workers end, and the broker      *)
(* takes back what they had not acknowledged.                              *)
Ends(p) ==
    /\ Exits(p) \/ (p = "api" /\ Panics(p))
    /\ IF p = "api"
       THEN creating' = NoRequest /\ UNCHANGED <<place, worker, hand>>
       ELSE /\ worker' = [w \in Workers |-> "off"]
            /\ hand' = [w \in Workers |-> NoId]
            /\ place' = [id \in Ids |->
                   IF place[id] = "delivered" THEN "process" ELSE place[id]]
            /\ UNCHANGED creating
    /\ Stands

-----------------------------------------------------------------------------
ApiStep ==
    \/ \E req \in CreateRequests, id \in Ids : AcceptRequest(req, id)
    \/ CreateFails \/ Save \/ PublishCreated

WorkerStep(w) ==
    \/ OpenChannel(w) \/ StopWorker(w)
    \/ \E id \in Ids : Receive(w, id)
    \/ LookUpFails(w) \/ Skip(w) \/ Proceed(w)
    \/ SendOk(w) \/ SendFails(w)
    \/ RecordOutcome(w) \/ RecordFails(w)
    \/ AckRecorded(w) \/ AckTooLate(w)

ProgramStep(p) ==
    Starts(p) \/ TimesOut(p) \/ RunsStartHook(p) \/ RunsStopHook(p) \/ Ends(p)

AppNext ==
    \/ ApiStep
    \/ \E id \in Ids : Expire(id)
    \/ \E w \in Workers : WorkerStep(w)
    \/ \E p \in Programs : ProgramStep(p)

AppSpec == AppInit /\ [][AppNext]_appVars

-----------------------------------------------------------------------------
AppTypeOK ==
    /\ LifecycleTypeOK
    /\ config \in Configs
    /\ creating \in [stage : {"none", "saving", "publishing"}, id : Ids \cup {NoId},
                     model : Models \cup {NoModel}]
    /\ asked \in [Ids -> CreateRequests \cup {NoAsk}]
    /\ row \in [Ids -> Rows \cup {NoRow}]
    /\ status \in [Ids -> {"none", "scheduled", "sent", "failed"}]
    /\ body \in [Ids -> Models \cup {NoModel}]
    /\ place \in [Ids -> {"nowhere", "wait", "process", "delivered"}]
    /\ worker \in [Workers -> {"off", "opening", "idle", "checking", "sending",
                               "recordingSent", "recordingFailed", "acking",
                               "stopped"}]
    /\ hand \in [Workers -> Ids \cup {NoId}]
    /\ sentBy \in [Ids -> SUBSET {"email", "telegram", "log"}]
    /\ refused \subseteq Ids /\ lost \subseteq Ids

(* The service's validation, the repository's mapper and the CHECK of the  *)
(* table each say what a recipient of a channel is.  They agree: nothing   *)
(* that the service accepted is refused by the mapper or the constraint.   *)
ConstraintNeverBites ==
    creating.stage = "saving" =>
        MapsToRow(creating.model) /\ Storable(ToRow(creating.model))

(* After all conversions, the notifier that the dispatcher picked takes    *)
(* the notification, and a real one is that of the channel asked for and   *)
(* addresses the recipient asked for.                                      *)
ReachesWhoWasAsked ==
    /\ refused = {}
    /\ \A id \in Ids : \A notifier \in sentBy[id] \ {"log"} :
           /\ notifier = asked[id].channel
           /\ Addressee(notifier, body[id]) = Meant(asked[id])

(* A row says "sent" though only the log notifier ran for it, only where   *)
(* the program is not in production or the channel is not configured.      *)
MockOnlyIfUnconfigured ==
    \A id \in Ids : status[id] = "sent" /\ sentBy[id] \subseteq {"log"} =>
        ~ config.production \/ ~ Configured(config, asked[id].channel)

(* While a request is being served, the API's clients are open: the server *)
(* is shut down, and waits for it, before the clients are closed.          *)
RequestsKeepStores ==
    creating # NoRequest => Open("api", "postgres") /\ Open("api", "redis")

(* A message is gone only if the row has an outcome or a lookup has failed *)
(* for it: whatever is started, times out, stops or ends meanwhile, in     *)
(* whatever order the hooks run under the workers, an update that fails or *)
(* a Send that fails puts the message back, and so does the program's end. *)
GoneIsSettledOrLost ==
    \A id \in Ids :
        body[id] # NoModel /\ place[id] = "nowhere" =>
            status[id] \in {"sent", "failed"} \/ id \in lost
=============================================================================
