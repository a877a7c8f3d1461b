-------------------------- MODULE ApplicationProofs --------------------------
(***************************************************************************)
(* What holds of both programs from their start to their end, for any      *)
(* number of notifications and workers and any recipients: which recipient *)
(* a notification reaches, which clients a request finds open, and when    *)
(* the message of a notification is gone.                                  *)
(***************************************************************************)
EXTENDS Application, TLAPS

(* The hooks run in order: a program runs once all of them are started.    *)
HooksInOrder ==
    \A p \in Programs :
        /\ phase[p] \in {"new", "starting"} => started[p] < 3
        /\ phase[p] = "running" => started[p] = 3

(* The request in progress: what is saved and published for it is what was *)
(* asked for, and the server is not stopped under it.                      *)
Created(id, model) ==
    /\ asked[id] \in CreateRequests /\ Valid(asked[id])
    /\ model = NewNotification(asked[id])
CreationIsExact ==
    /\ creating.stage = "none" => creating = NoRequest
    /\ creating # NoRequest =>
          /\ creating.id \in Ids /\ Created(creating.id, creating.model)
          /\ body[creating.id] = NoModel
          /\ creating.stage = "publishing" => status[creating.id] # "none"
          /\ phase["api"] \in {"running", "stopping"} /\ started["api"] = 3

(* Messages are of saved notifications, wherever they are.                 *)
Busy == {"checking", "sending", "recordingSent", "recordingFailed", "acking"}
Sendable(id) == body[id] # NoModel
MessagesAreExact ==
    /\ \A id \in Ids :
          Sendable(id) => Created(id, body[id]) /\ status[id] # "none"
    /\ \A id \in Ids : place[id] # "nowhere" => Sendable(id)
    /\ \A w \in Workers : worker[w] \in Busy => hand[w] \in Ids /\ Sendable(hand[w])

(* Only the notifier of its channel and configuration ever sends a         *)
(* notification, and it takes it; "sent" is recorded only after it did.    *)
SendersAreExact ==
    /\ refused = {}
    /\ \A id \in Ids :
          /\ sentBy[id] \subseteq {NotifierFor(config, asked[id].channel)}
          /\ sentBy[id] # {} => Sendable(id)
          /\ status[id] = "sent" => sentBy[id] # {}
    /\ \A w \in Workers : worker[w] = "recordingSent" => sentBy[hand[w]] # {}

(* A worker acknowledges what it has recorded only after it has.           *)
Settled(id) == status[id] \in {"sent", "failed"}
AcksFollowOutcomes == \A w \in Workers : worker[w] = "acking" => Settled(hand[w])

AppInv ==
    /\ AppTypeOK
    /\ HooksInOrder
    /\ CreationIsExact
    /\ MessagesAreExact
    /\ SendersAreExact
    /\ AcksFollowOutcomes
    /\ GoneIsSettledOrLost

-----------------------------------------------------------------------------
(* The conversions.                                                        *)

LEMMA ModelFacts ==
    /\ \A req \in CreateRequests : Valid(req) => NewNotification(req) \in Models
    /\ NoModel \notin Models
    /\ NoAsk \notin CreateRequests /\ NoRow \notin Rows
BY RecipientsAssumption
   DEF Valid, NewNotification, Models, NoModel, NoAsk, CreateRequests, Channels,
       NoRow, Rows

(* What validation accepts, the mapper and the constraint accept as well,  *)
(* and the row reads back as the model it was written from.                *)
LEMMA RoundTrip ==
    ASSUME NEW req \in CreateRequests, Valid(req), NEW n, n = NewNotification(req)
    PROVE  /\ MapsToRow(n) /\ Storable(ToRow(n))
           /\ ToRow(n) \in Rows
           /\ ToDomainModel(ToRow(n)) = n
<1> USE RecipientsAssumption DEF NewNotification, MapsToRow, ToRow, Storable,
                                 ToDomainModel, Rows, Channels
<1>1. CASE req.channel = "email" /\ req.recipient \in Addresses
    BY <1>1
<1>2. CASE req.channel = "telegram" /\ req.recipient \in Numerals
    BY <1>2
<1> QED BY <1>1, <1>2 DEF Valid

(* The dispatcher's choice takes the notification and addresses whom the   *)
(* request named.                                                          *)
LEMMA DispatchFacts ==
    ASSUME NEW req \in CreateRequests, Valid(req), NEW n, n = NewNotification(req),
           NEW cfg
    PROVE  /\ n.channel = req.channel
           /\ NotifierFor(cfg, n.channel) \in {req.channel, "log"}
           /\ req.channel \in Channels
           /\ Takes(NotifierFor(cfg, n.channel), n)
           /\ Addressee(req.channel, n) = Meant(req)
<1> USE RecipientsAssumption DEF NewNotification, NotifierFor, Takes, Addressee,
                                 Channels, Meant
<1>1. CASE req.channel = "email" /\ req.recipient \in Addresses
    BY <1>1
<1>2. CASE req.channel = "telegram" /\ req.recipient \in Numerals
    BY <1>2
<1> QED BY <1>1, <1>2 DEF Valid

-----------------------------------------------------------------------------
(* Frames.                                                                 *)

LEMMA ApiFrame ==
    ASSUME ApiStep
    PROVE  ApiStands
BY DEF ApiStep, AcceptRequest, CreateFails, Save, PublishCreated

LEMMA WorkerFrame ==
    ASSUME NEW w \in Workers, WorkerStep(w)
    PROVE  WorkerStands
BY DEF WorkerStep, OpenChannel, StopWorker, Receive, LookUpFails, Skip, Proceed,
       SendOk, SendFails, RecordOutcome, RecordFails, AckRecorded,
       AckTooLate, Settles

LEMMA ProgramFrame ==
    ASSUME NEW p \in Programs, ProgramStep(p)
    PROVE  Stands /\ creating' \in {creating, NoRequest}
BY DEF ProgramStep, Starts, TimesOut, RunsStartHook, RunsStopHook, Ends

-----------------------------------------------------------------------------
(* Types and the order of hooks.                                           *)

LEMMA LifecycleHolds ==
    ASSUME AppInv, [AppNext]_appVars
    PROVE  LifecycleTypeOK' /\ HooksInOrder'
<1>0. LifecycleTypeOK /\ HooksInOrder
    BY DEF AppInv, AppTypeOK
<1>1. CASE UNCHANGED lifecycleVars
    BY <1>0, <1>1 DEF lifecycleVars, LifecycleTypeOK, HooksInOrder
<1>2. ASSUME NEW p \in Programs, ProgramStep(p)
      PROVE  LifecycleTypeOK' /\ HooksInOrder'
  <2> USE <1>0 DEF LifecycleTypeOK, HooksInOrder, Phases, Enters
  <2>1. CASE Construct(p) \/ PingFails(p) \/ Signal(p) \/ StartTimeout(p)
    <3>1. UNCHANGED started
        BY <2>1 DEF Construct, PingFails, Signal, StartTimeout
    <3>2. \/ phase' = [phase EXCEPT ![p] = "stopping"]
          \/ phase' = [phase EXCEPT ![p] = "exited"]
          \/ phase' = phase
          \/ phase[p] = "new" /\ phase' = [phase EXCEPT ![p] = "starting"]
        BY <2>1 DEF Construct, PingFails, Signal, StartTimeout
    <3>3. startCtx' \in [Programs -> {"live", "done"}]
        BY <2>1 DEF Construct, PingFails, Signal, StartTimeout
    <3> QED BY <3>1, <3>2, <3>3
  <2>2. CASE StartHook(p)
    <3>1. Len(Hooks[p]) = 3
        BY DEF Hooks, Programs
    <3>2. started[p] < 3 /\ started' = [started EXCEPT ![p] = @ + 1]
        BY <2>2 DEF StartHook
    <3>3. /\ started[p] + 1 = 3 => phase' = [phase EXCEPT ![p] = "running"]
          /\ started[p] + 1 # 3 => phase' = phase
        BY <2>2, <3>1 DEF StartHook
    <3>4. started' \in [Programs -> 0 .. 3]
        BY <3>2
    <3>5. UNCHANGED startCtx /\ phase[p] = "starting"
        BY <2>2 DEF StartHook
    <3> QED BY <3>2, <3>3, <3>4, <3>5
  <2>3. CASE \E hook \in {"server", "pool", "redis", "postgres"} : StopHook(p, hook)
      BY <2>3 DEF StopHook
  <2>4. CASE Exits(p) \/ Panics(p)
      BY <2>4 DEF Exits, Panics
  <2> QED BY <1>2, <2>1, <2>2, <2>3, <2>4
          DEF ProgramStep, Starts, TimesOut, RunsStartHook, RunsStopHook, Ends
<1>3. ASSUME ApiStep PROVE UNCHANGED lifecycleVars
    BY <1>3, ApiFrame DEF ApiStands
<1>4. ASSUME NEW w \in Workers, WorkerStep(w) PROVE UNCHANGED lifecycleVars
    BY <1>4, WorkerFrame DEF WorkerStands
<1>5. ASSUME NEW id \in Ids, Expire(id) PROVE UNCHANGED lifecycleVars
    BY <1>5 DEF Expire, WorkerStands
<1> QED BY <1>1, <1>2, <1>3, <1>4, <1>5 DEF AppNext, appVars

LEMMA ApiTypesHold ==
    ASSUME AppInv, ApiStep, LifecycleTypeOK'
    PROVE  AppTypeOK'
<1>0. AppTypeOK /\ ApiStands /\ CreationIsExact
    BY ApiFrame DEF AppInv
<1> USE <1>0 DEF AppTypeOK, ApiStands, workerVars
<1>1. ASSUME NEW req \in CreateRequests, NEW id \in Ids, AcceptRequest(req, id)
      PROVE  AppTypeOK'
    BY <1>1, ModelFacts DEF AcceptRequest
<1>2. CASE CreateFails
    BY <1>2 DEF CreateFails, NoRequest
<1>3. CASE Save
  <2>1. /\ creating.id \in Ids
        /\ ToRow(creating.model) \in Rows
        /\ ToDomainModel(ToRow(creating.model)) \in Models
      BY <1>3, RoundTrip, ModelFacts DEF Save, CreationIsExact, Created, NoRequest
  <2> QED BY <1>3, <2>1 DEF Save
<1>4. CASE PublishCreated
  <2>1. creating.id \in Ids /\ creating.model \in Models \cup {NoModel}
      BY <1>4 DEF PublishCreated, CreationIsExact, NoRequest
  <2> QED BY <1>4, <2>1 DEF PublishCreated, NoRequest
<1> QED BY <1>1, <1>2, <1>3, <1>4 DEF ApiStep

LEMMA WorkerTypesHold ==
    ASSUME AppInv, NEW w \in Workers, WorkerStep(w)
    PROVE  AppTypeOK'
<1>0. AppTypeOK /\ WorkerStands /\ MessagesAreExact
    BY WorkerFrame DEF AppInv
<1>1. /\ LifecycleTypeOK' /\ (config \in Configs)'
      /\ UNCHANGED <<creating, asked, row, body>>
    BY <1>0 DEF WorkerStands, AppTypeOK, LifecycleTypeOK, lifecycleVars, requestVars
<1> USE <1>0, <1>1 DEF AppTypeOK, MovesTo
<1>2. CASE OpenChannel(w) \/ StopWorker(w) \/ Proceed(w)
    BY <1>2 DEF OpenChannel, StopWorker, Proceed
<1>3. ASSUME NEW id \in Ids, Receive(w, id) PROVE AppTypeOK'
    BY <1>3 DEF Receive
<1>4. worker[w] \in Busy => hand[w] \in Ids
    BY DEF MessagesAreExact
<1>5. CASE LookUpFails(w) \/ Skip(w)
    BY <1>4, <1>5 DEF LookUpFails, Skip, Settles, Busy
<1>6. CASE SendOk(w)
  <2>1. NotifierOf(hand[w]) \in {"email", "telegram", "log"}
    <3>1. Takes(NotifierOf(hand[w]), body[hand[w]])
        BY <1>6 DEF SendOk
    <3> QED BY <3>1 DEF Takes
  <2> QED BY <1>4, <1>6, <2>1 DEF SendOk, Busy
<1>7. CASE SendFails(w)
    BY <1>4, <1>7 DEF SendFails, Settles, Busy
<1>8. CASE RecordOutcome(w) \/ RecordFails(w) \/ AckRecorded(w)
            \/ AckTooLate(w)
    BY <1>4, <1>8 DEF RecordOutcome, RecordFails, AckRecorded, AckTooLate, Settles,
                      Busy
<1> QED BY <1>2, <1>3, <1>5, <1>6, <1>7, <1>8 DEF WorkerStep

LEMMA ProgramTypesHold ==
    ASSUME AppInv, NEW p \in Programs, ProgramStep(p), LifecycleTypeOK'
    PROVE  AppTypeOK'
<1>0. AppTypeOK /\ Stands /\ creating' \in {creating, NoRequest}
    BY ProgramFrame DEF AppInv
<1>1. UNCHANGED <<config, asked, row, body, status, sentBy, refused, lost>>
    BY <1>0 DEF Stands
<1>2. CASE Starts(p) \/ TimesOut(p) \/ RunsStopHook(p)
    BY <1>0, <1>1, <1>2 DEF Starts, TimesOut, RunsStopHook, AppTypeOK
<1>3. CASE RunsStartHook(p)
    BY <1>0, <1>1, <1>3 DEF RunsStartHook, AppTypeOK
<1>4. CASE Ends(p)
    BY <1>0, <1>1, <1>4 DEF Ends, AppTypeOK, NoRequest
<1> QED BY <1>2, <1>3, <1>4 DEF ProgramStep

LEMMA AppTypesHold ==
    ASSUME AppInv, [AppNext]_appVars
    PROVE  AppTypeOK'
<1>0. AppTypeOK /\ LifecycleTypeOK'
    BY LifecycleHolds DEF AppInv
<1>1. ASSUME NEW id \in Ids, Expire(id) PROVE AppTypeOK'
    BY <1>0, <1>1 DEF Expire, WorkerStands, workerVars, requestVars, AppTypeOK
<1>2. CASE UNCHANGED appVars
    BY <1>0, <1>2 DEF appVars, workerVars, requestVars, AppTypeOK
<1> QED BY <1>0, <1>1, <1>2, ApiTypesHold, WorkerTypesHold, ProgramTypesHold DEF AppNext

-----------------------------------------------------------------------------
(* The request in progress.                                                *)

LEMMA StatusStays ==
    ASSUME AppInv, [AppNext]_appVars, NEW id \in Ids, status[id] # "none"
    PROVE  status'[id] # "none"
<1>0. AppTypeOK
    BY DEF AppInv
<1>1. CASE ApiStep
    BY <1>0, <1>1 DEF ApiStep, AcceptRequest, CreateFails, Save, PublishCreated, AppTypeOK
<1>2. ASSUME NEW w \in Workers, WorkerStep(w) PROVE status'[id] # "none"
    BY <1>0, <1>2 DEF WorkerStep, OpenChannel, StopWorker, Receive, LookUpFails, Skip,
                      Proceed, SendOk, SendFails, RecordOutcome, RecordFails,
                      AckRecorded, AckTooLate, AppTypeOK
<1>3. ASSUME NEW p \in Programs, ProgramStep(p) PROVE status'[id] # "none"
    BY <1>3, ProgramFrame DEF Stands
<1>4. ASSUME NEW i \in Ids, Expire(i) PROVE status'[id] # "none"
    BY <1>4 DEF Expire
<1>5. CASE UNCHANGED appVars
    BY <1>5 DEF appVars
<1> QED BY <1>1, <1>2, <1>3, <1>4, <1>5 DEF AppNext

LEMMA ApiCreationHolds ==
    ASSUME AppInv, ApiStep
    PROVE  CreationIsExact'
<1>0. /\ AppTypeOK /\ CreationIsExact /\ HooksInOrder
      /\ UNCHANGED <<phase, started>>
    BY ApiFrame DEF AppInv, ApiStands, lifecycleVars
<1>1. ASSUME NEW req \in CreateRequests, NEW id \in Ids, AcceptRequest(req, id)
      PROVE  CreationIsExact'
  <2>1. /\ asked'[id] = req /\ Valid(req) /\ phase["api"] = "running"
        /\ creating'.stage = "saving" /\ creating'.id = id
        /\ creating'.model = NewNotification(req) /\ UNCHANGED body
      BY <1>0, <1>1 DEF AcceptRequest, AppTypeOK
  <2>3. body[id] = NoModel
      BY <1>0, <1>1, ModelFacts DEF AcceptRequest, AppInv, MessagesAreExact, Created,
                                    Sendable
  <2>2. started["api"] = 3
      BY <1>0, <2>1 DEF HooksInOrder, Programs
  <2> QED BY <1>0, <2>1, <2>2, <2>3 DEF CreationIsExact, Created
<1>2. CASE CreateFails \/ PublishCreated
    BY <1>2 DEF CreateFails, PublishCreated, CreationIsExact
<1>3. CASE Save
  <2>1. PICK req, id, n : /\ req = asked[creating.id] /\ id = creating.id
                         /\ n = creating.model
      OBVIOUS
  <2>2. /\ creating # NoRequest /\ id \in Ids /\ req \in CreateRequests
        /\ Valid(req) /\ n = NewNotification(req) /\ body[id] = NoModel
        /\ phase["api"] \in {"running", "stopping"} /\ started["api"] = 3
      BY <1>0, <1>3, <2>1 DEF Save, CreationIsExact, Created, NoRequest
  <2>3. ToDomainModel(ToRow(n)) = n
      BY <2>2, RoundTrip
  <2>4. /\ creating'.stage = "publishing" /\ creating'.id = id
        /\ creating'.model = n /\ UNCHANGED <<asked, body>>
        /\ status'[id] = "scheduled"
      BY <1>0, <1>3, <2>1, <2>2, <2>3 DEF Save, AppTypeOK
  <2> QED BY <1>0, <2>1, <2>2, <2>4 DEF CreationIsExact, Created
<1> QED BY <1>1, <1>2, <1>3 DEF ApiStep

(* The server's hook was the last to be started, so it is the first to be  *)
(* stopped, and it waits.                                                  *)
LEMMA ProgramCreationHolds ==
    ASSUME AppInv, NEW p \in Programs, ProgramStep(p)
    PROVE  CreationIsExact'
<1>0. /\ AppTypeOK /\ LifecycleTypeOK /\ CreationIsExact
      /\ UNCHANGED <<asked, status, body>> /\ creating' \in {creating, NoRequest}
    BY ProgramFrame DEF AppInv, AppTypeOK, Stands
<1>1. SUFFICES ASSUME creating' = creating, creating # NoRequest
               PROVE  phase'["api"] \in {"running", "stopping"} /\ started'["api"] = 3
    BY <1>0, <1>1 DEF CreationIsExact, Created
<1>2. phase["api"] \in {"running", "stopping"} /\ started["api"] = 3
    BY <1>0, <1>1 DEF CreationIsExact
<1> USE <1>0, <1>2 DEF LifecycleTypeOK, Programs, Enters
<1>3. CASE p = "worker"
    BY <1>3 DEF ProgramStep, Starts, TimesOut, RunsStartHook, RunsStopHook, Ends,
                Construct, PingFails, Signal, StartTimeout, StartHook, StopHook,
                Exits, Panics
<1>4. CASE p = "api"
  <2>1. CASE Starts(p) \/ TimesOut(p) \/ RunsStartHook(p)
      BY <1>4, <2>1 DEF Starts, TimesOut, RunsStartHook, Construct, PingFails,
                        Signal, StartTimeout, StartHook
  <2>2. ~ RunsStopHook(p)
    <3>1. LastHook("api") = "server"
        BY DEF LastHook, Hooks
    <3> QED BY <1>1, <1>4, <3>1 DEF RunsStopHook, StopHook
  <2>3. ~ Ends(p)
      BY <1>1, <1>4 DEF Ends
  <2> QED BY <2>1, <2>2, <2>3 DEF ProgramStep
<1> QED BY <1>3, <1>4

LEMMA CreationHolds ==
    ASSUME AppInv, [AppNext]_appVars
    PROVE  CreationIsExact'
<1>0. CreationIsExact /\ \A id \in Ids : status[id] # "none" => status'[id] # "none"
    BY StatusStays DEF AppInv
<1>1. ASSUME UNCHANGED <<lifecycleVars, creating, asked, body>> PROVE CreationIsExact'
    BY <1>0, <1>1 DEF CreationIsExact, Created, lifecycleVars
<1>2. ASSUME NEW w \in Workers, WorkerStep(w) PROVE CreationIsExact'
    BY <1>1, <1>2, WorkerFrame DEF WorkerStands, requestVars
<1>3. ASSUME NEW id \in Ids, Expire(id) PROVE CreationIsExact'
    BY <1>1, <1>3 DEF Expire, WorkerStands, requestVars
<1>4. CASE UNCHANGED appVars
    BY <1>1, <1>4 DEF appVars, requestVars
<1> QED BY <1>2, <1>3, <1>4, ApiCreationHolds, ProgramCreationHolds DEF AppNext

-----------------------------------------------------------------------------
(* Messages.                                                               *)

LEMMA ApiMessagesHold ==
    ASSUME AppInv, ApiStep
    PROVE  MessagesAreExact'
<1>0. /\ AppTypeOK /\ MessagesAreExact /\ CreationIsExact
      /\ UNCHANGED <<worker, hand>>
      /\ \A id \in Ids : status[id] # "none" => status'[id] # "none"
    BY ApiFrame, StatusStays DEF AppInv, ApiStands, workerVars, AppNext
<1>1. ASSUME NEW req \in CreateRequests, NEW id \in Ids, AcceptRequest(req, id)
      PROVE  MessagesAreExact'
  <2>1. ~ Sendable(id)
      BY <1>0, <1>1, ModelFacts DEF AcceptRequest, MessagesAreExact, Created
  <2>2. \A i \in Ids \ {id} : asked'[i] = asked[i]
      BY <1>0, <1>1 DEF AcceptRequest, AppTypeOK
  <2>3. UNCHANGED <<body, place, status>>
      BY <1>1 DEF AcceptRequest
  <2> QED BY <1>0, <2>1, <2>2, <2>3 DEF MessagesAreExact, Created, Sendable
<1>2. CASE CreateFails \/ Save
  <2>1. UNCHANGED <<asked, body, place>>
      BY <1>2 DEF CreateFails, Save
  <2> QED BY <1>0, <2>1 DEF MessagesAreExact, Created, Sendable
<1>3. CASE PublishCreated
  <2>1. PICK id, n : id = creating.id /\ n = creating.model
      OBVIOUS
  <2>2. id \in Ids /\ Created(id, n) /\ status[id] # "none"
      BY <1>0, <1>3, <2>1 DEF PublishCreated, CreationIsExact, NoRequest
  <2>3. /\ body'[id] = n /\ place'[id] = "wait" /\ UNCHANGED <<asked, status>>
        /\ \A i \in Ids \ {id} : body'[i] = body[i] /\ place'[i] = place[i]
      BY <1>0, <1>3, <2>1, <2>2 DEF PublishCreated, AppTypeOK
  <2>4. n # NoModel
      BY <2>2, ModelFacts DEF Created
  <2> QED BY <1>0, <2>2, <2>3, <2>4 DEF MessagesAreExact, Created, Sendable
<1> QED BY <1>1, <1>2, <1>3 DEF ApiStep

LEMMA WorkerMessagesHold ==
    ASSUME AppInv, NEW w \in Workers, WorkerStep(w)
    PROVE  MessagesAreExact'
<1>0. /\ AppTypeOK /\ MessagesAreExact /\ UNCHANGED <<asked, body>>
      /\ \A id \in Ids : status[id] # "none" => status'[id] # "none"
    BY WorkerFrame, StatusStays DEF AppInv, WorkerStands, requestVars, AppNext
<1>1. SUFFICES /\ \A id \in Ids : place'[id] # "nowhere" => Sendable(id)
               /\ \A v \in Workers :
                     worker'[v] \in Busy => hand'[v] \in Ids /\ Sendable(hand'[v])
    BY <1>0, <1>1 DEF MessagesAreExact, Created, Sendable
<1>2. /\ \A id \in Ids : place[id] # "nowhere" => Sendable(id)
      /\ \A v \in Workers :
            worker[v] \in Busy => hand[v] \in Ids /\ Sendable(hand[v])
    BY <1>0 DEF MessagesAreExact
<1> USE <1>0, <1>2 DEF AppTypeOK, MovesTo, Busy
<1>3. CASE OpenChannel(w) \/ StopWorker(w)
    BY <1>3 DEF OpenChannel, StopWorker
<1>4. ASSUME NEW id \in Ids, Receive(w, id)
      PROVE  /\ \A i \in Ids : place'[i] # "nowhere" => Sendable(i)
             /\ \A v \in Workers :
                   worker'[v] \in Busy => hand'[v] \in Ids /\ Sendable(hand'[v])
    BY <1>4 DEF Receive
<1>5. CASE Proceed(w) \/ SendOk(w) \/ RecordOutcome(w)
    BY <1>5 DEF Proceed, SendOk, RecordOutcome
<1>6. ASSUME NEW where, Settles(w, where), worker[w] \in Busy
      PROVE  /\ \A i \in Ids : place'[i] # "nowhere" => Sendable(i)
             /\ \A v \in Workers :
                   worker'[v] \in Busy => hand'[v] \in Ids /\ Sendable(hand'[v])
    BY <1>6 DEF Settles
<1>7. CASE LookUpFails(w) \/ Skip(w) \/ RecordFails(w) \/ AckRecorded(w)
    BY <1>6, <1>7 DEF LookUpFails, Skip, RecordFails, AckRecorded
<1>8. CASE AckTooLate(w)
    BY <1>8 DEF AckTooLate
<1>9. CASE SendFails(w)
  <2>1. CASE MovesTo(w, "recordingFailed") /\ UNCHANGED <<place, hand>>
      BY <1>9, <2>1 DEF SendFails
  <2> QED BY <1>6, <1>9, <2>1 DEF SendFails
<1> QED BY <1>3, <1>4, <1>5, <1>7, <1>8, <1>9 DEF WorkerStep

LEMMA MessagesHold ==
    ASSUME AppInv, [AppNext]_appVars
    PROVE  MessagesAreExact'
<1>0. AppTypeOK /\ MessagesAreExact
    BY DEF AppInv
<1>1. ASSUME NEW p \in Programs, ProgramStep(p) PROVE MessagesAreExact'
  <2>1. UNCHANGED <<asked, body, status>>
      BY <1>1, ProgramFrame DEF Stands
  <2>2. \A id \in Ids : place'[id] # "nowhere" => place[id] # "nowhere"
      BY <1>0, <1>1 DEF ProgramStep, Starts, TimesOut, RunsStartHook, RunsStopHook,
                        Ends, AppTypeOK
  <2>3. \A w \in Workers : worker'[w] \in Busy =>
                             worker'[w] = worker[w] /\ hand'[w] = hand[w]
      BY <1>0, <1>1 DEF ProgramStep, Starts, TimesOut, RunsStartHook, RunsStopHook,
                        Ends, AppTypeOK, Busy
  <2> QED BY <1>0, <2>1, <2>2, <2>3 DEF MessagesAreExact, Created, Sendable
<1>2. ASSUME NEW i \in Ids, Expire(i) PROVE MessagesAreExact'
  <2>1. UNCHANGED <<asked, body, status, worker, hand>>
      BY <1>2 DEF Expire, WorkerStands, requestVars, workerVars
  <2>2. \A id \in Ids : place'[id] # "nowhere" => place[id] # "nowhere"
      BY <1>0, <1>2 DEF Expire, AppTypeOK
  <2> QED BY <1>0, <2>1, <2>2 DEF MessagesAreExact, Created, Sendable
<1>3. CASE UNCHANGED appVars
    BY <1>0, <1>3 DEF appVars, requestVars, workerVars, MessagesAreExact, Created,
                      Sendable
<1> QED BY <1>1, <1>2, <1>3, ApiMessagesHold, WorkerMessagesHold DEF AppNext

-----------------------------------------------------------------------------
(* Senders.                                                                *)

LEMMA WorkerSendersHold ==
    ASSUME AppInv, NEW w \in Workers, WorkerStep(w)
    PROVE  SendersAreExact'
<1>0. /\ AppTypeOK /\ MessagesAreExact /\ SendersAreExact
      /\ UNCHANGED <<config, asked, body>>
    BY WorkerFrame DEF AppInv, WorkerStands, requestVars
<1>1. ASSUME worker[w] = "sending"
      PROVE  /\ hand[w] \in Ids /\ Sendable(hand[w])
             /\ NotifierOf(hand[w]) = NotifierFor(config, asked[hand[w]].channel)
             /\ Takes(NotifierOf(hand[w]), body[hand[w]])
  <2>1. hand[w] \in Ids /\ Sendable(hand[w]) /\ Created(hand[w], body[hand[w]])
      BY <1>0, <1>1 DEF MessagesAreExact, Busy
  <2>2. PICK req, n : req = asked[hand[w]] /\ n = body[hand[w]]
      OBVIOUS
  <2>3. req \in CreateRequests /\ Valid(req) /\ n = NewNotification(req)
      BY <2>1, <2>2 DEF Created
  <2>4. n.channel = req.channel /\ Takes(NotifierFor(config, n.channel), n)
      BY <2>3, DispatchFacts
  <2> QED BY <2>1, <2>2, <2>4 DEF NotifierOf
<1> USE DEF SendersAreExact, Sendable
<1>2. CASE SendOk(w)
  <2>1. PICK id \in Ids : id = hand[w]
      BY <1>1, <1>2 DEF SendOk
  <2>2. /\ sentBy' = [sentBy EXCEPT ![id] =
                @ \cup {NotifierFor(config, asked[id].channel)}]
        /\ Sendable(id) /\ UNCHANGED <<refused, status, hand>>
        /\ worker' = [worker EXCEPT ![w] = "recordingSent"]
      BY <1>1, <1>2, <2>1 DEF SendOk, MovesTo
  <2>3. /\ sentBy'[id] = sentBy[id] \cup {NotifierFor(config, asked[id].channel)}
        /\ \A i \in Ids \ {id} : sentBy'[i] = sentBy[i]
      BY <1>0, <2>2 DEF AppTypeOK
  <2>4. /\ worker'[w] = "recordingSent"
        /\ \A v \in Workers \ {w} : worker'[v] = worker[v]
      BY <1>0, <2>2 DEF AppTypeOK
  <2>5. \A v \in Workers : worker[v] = "recordingSent" => hand[v] \in Ids
      BY <1>0 DEF MessagesAreExact, Busy
  <2> QED BY <1>0, <2>1, <2>2, <2>3, <2>4, <2>5
<1>3. ASSUME UNCHANGED <<sentBy, status, refused>>,
             \A v \in Workers : worker'[v] = "recordingSent" =>
                                worker[v] = "recordingSent" /\ hand'[v] = hand[v]
      PROVE  SendersAreExact'
    BY <1>0, <1>3
<1>4. CASE SendFails(w)
  <2>1. refused' = refused
      BY <1>1, <1>4 DEF SendFails
  <2>2. UNCHANGED <<sentBy, status>>
      BY <1>4 DEF SendFails
  <2>3. \A v \in Workers : worker'[v] = "recordingSent" =>
                           worker[v] = "recordingSent" /\ hand'[v] = hand[v]
      BY <1>0, <1>4 DEF SendFails, Settles, MovesTo, AppTypeOK
  <2> QED BY <1>3, <2>1, <2>2, <2>3
<1>5. CASE \/ OpenChannel(w) \/ StopWorker(w) \/ LookUpFails(w) \/ Skip(w)
           \/ Proceed(w) \/ RecordFails(w) \/ AckRecorded(w)
           \/ AckTooLate(w) \/ \E id \in Ids : Receive(w, id)
  <2>1. UNCHANGED <<sentBy, status, refused>>
      BY <1>5 DEF OpenChannel, StopWorker, LookUpFails, Skip, Proceed, RecordFails,
                  AckRecorded, AckTooLate, Receive
  <2>2. \A v \in Workers : worker'[v] = "recordingSent" =>
                           worker[v] = "recordingSent" /\ hand'[v] = hand[v]
      BY <1>0, <1>5 DEF OpenChannel, StopWorker, LookUpFails, Skip, Proceed,
                        RecordFails, AckRecorded, AckTooLate, Receive, Settles,
                        MovesTo, AppTypeOK
  <2> QED BY <1>3, <2>1, <2>2
<1>6. CASE RecordOutcome(w)
  <2>1. UNCHANGED <<sentBy, refused>>
      BY <1>6 DEF RecordOutcome
  <2>2. \A v \in Workers : worker'[v] = "recordingSent" =>
                           worker[v] = "recordingSent" /\ hand'[v] = hand[v]
      BY <1>0, <1>6 DEF RecordOutcome, MovesTo, AppTypeOK
  <2>3. \A id \in Ids : status'[id] = "sent" => sentBy[id] # {}
    <3>1. PICK i \in Ids : i = hand[w]
        BY <1>0, <1>6 DEF RecordOutcome, MessagesAreExact, Busy
    <3>2. /\ status'[i] = "sent" => worker[w] = "recordingSent"
          /\ \A id \in Ids \ {i} : status'[id] = status[id]
        BY <1>0, <1>6, <3>1 DEF RecordOutcome, AppTypeOK
    <3> QED BY <1>0, <3>1, <3>2
  <2> QED BY <1>0, <2>1, <2>2, <2>3
<1> QED BY <1>2, <1>4, <1>5, <1>6 DEF WorkerStep

LEMMA SendersHold ==
    ASSUME AppInv, [AppNext]_appVars
    PROVE  SendersAreExact'
<1>0. AppTypeOK /\ SendersAreExact /\ MessagesAreExact
    BY DEF AppInv
<1> USE DEF SendersAreExact, Sendable
<1>1. CASE ApiStep
  <2>0. UNCHANGED <<config, worker, hand, sentBy, refused>>
      BY <1>1, ApiFrame DEF ApiStands, workerVars
  <2>1. ASSUME NEW req \in CreateRequests, NEW id \in Ids, AcceptRequest(req, id)
        PROVE  SendersAreExact'
    <3>1. ~ Sendable(id)
        BY <1>0, <2>1, ModelFacts DEF AcceptRequest, MessagesAreExact, Created
    <3>2. sentBy[id] = {}
        BY <1>0, <3>1
    <3>3. \A i \in Ids \ {id} : asked'[i] = asked[i]
        BY <1>0, <2>1 DEF AcceptRequest, AppTypeOK
    <3>4. UNCHANGED <<body, status>>
        BY <2>1 DEF AcceptRequest
    <3> QED BY <1>0, <2>0, <3>2, <3>3, <3>4
  <2>2. CASE CreateFails \/ Save
    <3>1. UNCHANGED <<asked, body>>
        BY <2>2 DEF CreateFails, Save
    <3>2. \A id \in Ids : status'[id] = "sent" => status[id] = "sent"
        BY <1>0, <2>2 DEF CreateFails, Save, AppTypeOK
    <3> QED BY <1>0, <2>0, <3>1, <3>2
  <2>3. CASE PublishCreated
    <3>1. UNCHANGED <<asked, status>>
        BY <2>3 DEF PublishCreated
    <3>2. \A id \in Ids : Sendable(id) => Sendable(id)'
      <4>1. PICK i, n : i = creating.id /\ n = creating.model
          OBVIOUS
      <4>2. i \in Ids /\ Created(i, n)
          BY <2>3, <4>1 DEF PublishCreated, AppInv, CreationIsExact, NoRequest
      <4>3. n # NoModel
          BY <4>2, ModelFacts DEF Created
      <4> QED BY <1>0, <2>3, <4>1, <4>2, <4>3 DEF PublishCreated, AppTypeOK
    <3> QED BY <1>0, <2>0, <3>1, <3>2
  <2> QED BY <1>1, <2>1, <2>2, <2>3 DEF ApiStep
<1>2. ASSUME NEW p \in Programs, ProgramStep(p) PROVE SendersAreExact'
  <2>1. UNCHANGED <<config, asked, body, status, sentBy, refused>>
      BY <1>2, ProgramFrame DEF Stands
  <2>2. \A w \in Workers : worker'[w] = "recordingSent" =>
                           worker[w] = "recordingSent" /\ hand'[w] = hand[w]
      BY <1>0, <1>2 DEF ProgramStep, Starts, TimesOut, RunsStartHook, RunsStopHook,
                        Ends, AppTypeOK
  <2> QED BY <1>0, <2>1, <2>2
<1>3. ASSUME NEW id \in Ids, Expire(id) PROVE SendersAreExact'
    BY <1>0, <1>3 DEF Expire, WorkerStands, requestVars, workerVars
<1>4. CASE UNCHANGED appVars
    BY <1>0, <1>4 DEF appVars, requestVars, workerVars
<1> QED BY <1>1, <1>2, <1>3, <1>4, WorkerSendersHold DEF AppNext

-----------------------------------------------------------------------------
(* Recorded outcomes and their acknowledgements.                           *)

(* A settled notification stays settled: only Save writes "scheduled", and *)
(* it writes before the message is published that workers handle.          *)
LEMMA SettledStays ==
    ASSUME AppInv, [AppNext]_appVars, NEW id \in Ids, Settled(id), Sendable(id)
    PROVE  Settled(id)'
<1>0. AppTypeOK /\ CreationIsExact /\ MessagesAreExact
    BY DEF AppInv
<1> USE DEF Settled
<1>1. ASSUME UNCHANGED status PROVE Settled(id)'
    BY <1>1
<1>2. CASE ApiStep
  <2>1. CASE Save
    <3>1. creating.id # id
        BY <1>0, <2>1 DEF Save, CreationIsExact, NoRequest, Sendable
    <3> QED BY <1>0, <2>1, <3>1 DEF Save, AppTypeOK
  <2> QED BY <1>1, <1>2, <2>1 DEF ApiStep, AcceptRequest, CreateFails, PublishCreated
<1>3. ASSUME NEW w \in Workers, WorkerStep(w) PROVE Settled(id)'
  <2>1. CASE RecordOutcome(w)
      BY <1>0, <2>1 DEF RecordOutcome, AppTypeOK
  <2> QED BY <1>1, <1>3, <2>1
          DEF WorkerStep, OpenChannel, StopWorker, Receive, LookUpFails, Skip,
              Proceed, SendOk, SendFails, RecordFails, AckRecorded, AckTooLate
<1>4. ASSUME NEW p \in Programs, ProgramStep(p) PROVE Settled(id)'
    BY <1>1, <1>4, ProgramFrame DEF Stands
<1>5. ASSUME NEW i \in Ids, Expire(i) PROVE Settled(id)'
    BY <1>1, <1>5 DEF Expire
<1>6. CASE UNCHANGED appVars
    BY <1>1, <1>6 DEF appVars
<1> QED BY <1>2, <1>3, <1>4, <1>5, <1>6 DEF AppNext

LEMMA AcksHold ==
    ASSUME AppInv, [AppNext]_appVars
    PROVE  AcksFollowOutcomes'
<1>0. /\ AppTypeOK /\ MessagesAreExact /\ AcksFollowOutcomes
      /\ \A id \in Ids : Settled(id) /\ Sendable(id) => Settled(id)'
    BY SettledStays DEF AppInv
<1>1. ASSUME NEW w \in Workers, worker[w] = "acking", hand'[w] = hand[w]
      PROVE  Settled(hand[w])'
  <2>1. hand[w] \in Ids /\ Sendable(hand[w]) /\ Settled(hand[w])
      BY <1>0, <1>1 DEF AcksFollowOutcomes, MessagesAreExact, Busy
  <2> QED BY <1>0, <1>1, <2>1 DEF Settled
<1>2. ASSUME \A w \in Workers : worker'[w] = "acking" =>
                                worker[w] = "acking" /\ hand'[w] = hand[w]
      PROVE  AcksFollowOutcomes'
    BY <1>1, <1>2 DEF AcksFollowOutcomes, Settled
<1>3. ASSUME NEW w \in Workers, WorkerStep(w) PROVE AcksFollowOutcomes'
  <2>1. CASE RecordOutcome(w)
    <3>1. hand' = hand /\ \A v \in Workers \ {w} : worker'[v] = worker[v]
        BY <1>0, <2>1 DEF RecordOutcome, MovesTo, AppTypeOK
    <3>2. status'[hand[w]] \in {"sent", "failed"}
        BY <1>0, <2>1 DEF RecordOutcome, MessagesAreExact, Busy, AppTypeOK
    <3> QED BY <1>1, <3>1, <3>2 DEF AcksFollowOutcomes, Settled
  <2> QED BY <1>0, <1>2, <1>3, <2>1
          DEF WorkerStep, OpenChannel, StopWorker, Receive, LookUpFails, Skip,
              Proceed, SendOk, SendFails, RecordFails, AckRecorded, AckTooLate,
              Settles, MovesTo, AppTypeOK
<1>4. ASSUME NEW p \in Programs, ProgramStep(p) PROVE AcksFollowOutcomes'
    BY <1>0, <1>2, <1>4 DEF ProgramStep, Starts, TimesOut, RunsStartHook,
                            RunsStopHook, Ends, AppTypeOK
<1>5. CASE ApiStep
    BY <1>2, <1>5, ApiFrame DEF ApiStands, workerVars
<1>6. ASSUME NEW i \in Ids, Expire(i) PROVE AcksFollowOutcomes'
    BY <1>2, <1>6 DEF Expire, workerVars
<1>7. CASE UNCHANGED appVars
    BY <1>2, <1>7 DEF appVars, workerVars
<1> QED BY <1>3, <1>4, <1>5, <1>6, <1>7 DEF AppNext

-----------------------------------------------------------------------------
(* Messages that are gone.                                                 *)

(* What must hold of a notification for its message to be gone.            *)
Accounted(id) == Settled(id) \/ id \in lost
Gone(id) == body[id] # NoModel /\ place[id] = "nowhere"

(* A worker takes a message away only when a lookup has failed, has found  *)
(* an outcome, or an outcome has been recorded.                            *)
LEMMA WorkerGoneHolds ==
    ASSUME AppInv, NEW w \in Workers, WorkerStep(w)
    PROVE  GoneIsSettledOrLost'
<1>0. /\ AppTypeOK /\ MessagesAreExact /\ AcksFollowOutcomes /\ UNCHANGED body
      /\ \A id \in Ids : Gone(id) => Accounted(id)
    BY WorkerFrame
    DEF AppInv, WorkerStands, requestVars, GoneIsSettledOrLost, Gone, Accounted, Settled
<1>1. SUFFICES \A id \in Ids : Gone(id)' => Accounted(id)'
    BY <1>1 DEF GoneIsSettledOrLost, Gone, Accounted, Settled
<1>2. worker[w] \in Busy => hand[w] \in Ids
    BY <1>0 DEF MessagesAreExact
<1> USE <1>0 DEF AppTypeOK
<1>3. ASSUME UNCHANGED <<place, status, lost>>
      PROVE  \A id \in Ids : Gone(id)' => Accounted(id)'
    BY <1>3 DEF Gone, Accounted, Settled
<1>4. ASSUME NEW id \in Ids, Receive(w, id)
      PROVE  \A i \in Ids : Gone(i)' => Accounted(i)'
    BY <1>4 DEF Receive, Gone, Accounted, Settled
<1>5. CASE LookUpFails(w)
    BY <1>2, <1>5 DEF LookUpFails, Settles, Gone, Accounted, Settled, Busy
<1>6. CASE Skip(w)
  <2>1. status[hand[w]] \in {"sent", "failed"}
      BY <1>2, <1>6 DEF Skip, Busy
  <2> QED BY <1>2, <1>6, <2>1 DEF Skip, Settles, Gone, Accounted, Settled, Busy
<1>7. CASE SendFails(w)
    BY <1>2, <1>7 DEF SendFails, Settles, Gone, Accounted, Settled, Busy
<1>8. CASE RecordOutcome(w)
    BY <1>2, <1>8 DEF RecordOutcome, Gone, Accounted, Settled, Busy
<1>9. CASE RecordFails(w)
    BY <1>2, <1>9 DEF RecordFails, Settles, Gone, Accounted, Settled, Busy
<1>10. CASE AckRecorded(w)
    BY <1>2, <1>10 DEF AckRecorded, AcksFollowOutcomes, Settles, Gone, Accounted,
                       Settled, Busy
<1>11. CASE AckTooLate(w)
    BY <1>2, <1>11 DEF AckTooLate, Gone, Accounted, Settled, Busy
<1>12. CASE OpenChannel(w) \/ StopWorker(w) \/ Proceed(w) \/ SendOk(w)
    BY <1>3, <1>12 DEF OpenChannel, StopWorker, Proceed, SendOk
<1> QED BY <1>4, <1>5, <1>6, <1>7, <1>8, <1>9, <1>10, <1>11, <1>12
    DEF WorkerStep

(* A row is saved before its message is published, so saving it takes no   *)
(* outcome from a message that is gone.                                    *)
LEMMA ApiGoneHolds ==
    ASSUME AppInv, ApiStep
    PROVE  GoneIsSettledOrLost'
<1>0. /\ AppTypeOK /\ CreationIsExact /\ UNCHANGED lost
      /\ \A id \in Ids : Gone(id) => Accounted(id)
    BY ApiFrame DEF AppInv, ApiStands, workerVars, GoneIsSettledOrLost, Gone, Accounted, Settled
<1>1. SUFFICES \A id \in Ids : Gone(id)' => Accounted(id)'
    BY <1>1 DEF GoneIsSettledOrLost, Gone, Accounted, Settled
<1> USE <1>0 DEF AppTypeOK
<1>2. ASSUME UNCHANGED <<body, place, status>>
      PROVE  \A id \in Ids : Gone(id)' => Accounted(id)'
    BY <1>2 DEF Gone, Accounted, Settled
<1>3. CASE Save
  <2>1. body[creating.id] = NoModel
      BY <1>3 DEF Save, CreationIsExact, NoRequest
  <2> QED BY <1>3, <2>1 DEF Save, Gone, Accounted, Settled
<1>4. CASE PublishCreated
    BY <1>4 DEF PublishCreated, Gone, Accounted, Settled
<1> QED BY <1>2, <1>3, <1>4 DEF ApiStep, AcceptRequest, CreateFails

LEMMA GoneHolds ==
    ASSUME AppInv, [AppNext]_appVars
    PROVE  GoneIsSettledOrLost'
<1>0. AppTypeOK /\ GoneIsSettledOrLost
    BY DEF AppInv
<1>1. ASSUME NEW p \in Programs, ProgramStep(p) PROVE GoneIsSettledOrLost'
  <2>1. UNCHANGED <<body, status, lost>>
      BY <1>1, ProgramFrame DEF Stands
  <2>2. \A id \in Ids : place'[id] = "nowhere" => place[id] = "nowhere"
      BY <1>0, <1>1 DEF ProgramStep, Starts, TimesOut, RunsStartHook, RunsStopHook,
                        Ends, AppTypeOK
  <2> QED BY <1>0, <2>1, <2>2 DEF GoneIsSettledOrLost
<1>2. ASSUME NEW i \in Ids, Expire(i) PROVE GoneIsSettledOrLost'
  <2>1. UNCHANGED <<body, status, lost>>
      BY <1>2 DEF Expire, WorkerStands, requestVars, workerVars
  <2>2. \A id \in Ids : place'[id] = "nowhere" => place[id] = "nowhere"
      BY <1>0, <1>2 DEF Expire, AppTypeOK
  <2> QED BY <1>0, <2>1, <2>2 DEF GoneIsSettledOrLost
<1>3. CASE UNCHANGED appVars
    BY <1>0, <1>3 DEF appVars, requestVars, workerVars, GoneIsSettledOrLost
<1> QED BY <1>1, <1>2, <1>3, ApiGoneHolds, WorkerGoneHolds DEF AppNext

-----------------------------------------------------------------------------
(* The invariant, and what follows from it.                                *)

LEMMA AppInvInit == AppInit => AppInv
<1> SUFFICES ASSUME AppInit PROVE AppInv
    OBVIOUS
<1> USE DEF AppInit, LifecycleInit
<1>1. AppTypeOK
    BY DEF AppTypeOK, LifecycleTypeOK, Phases, NoRequest
<1>2. HooksInOrder
    BY DEF HooksInOrder
<1>3. CreationIsExact
    BY DEF CreationIsExact
<1>4. MessagesAreExact
    BY DEF MessagesAreExact, Sendable, Busy
<1>5. SendersAreExact
    BY DEF SendersAreExact
<1>6. AcksFollowOutcomes
    BY DEF AcksFollowOutcomes
<1>7. GoneIsSettledOrLost
    BY DEF GoneIsSettledOrLost
<1> QED BY <1>1, <1>2, <1>3, <1>4, <1>5, <1>6, <1>7 DEF AppInv

THEOREM ApplicationInvariant == AppSpec => []AppInv
<1>1. AppInv /\ [AppNext]_appVars => AppInv'
    BY LifecycleHolds, AppTypesHold, CreationHolds, MessagesHold, SendersHold,
       AcksHold, GoneHolds DEF AppInv
<1> QED BY <1>1, AppInvInit, PTL DEF AppSpec

(* Both programs keep to their types through start, work, stop and crash.  *)
THEOREM ApplicationTypeCorrect == AppSpec => []AppTypeOK
<1>1. AppInv => AppTypeOK
    BY DEF AppInv
<1> QED BY <1>1, ApplicationInvariant, PTL

(* Whatever the recipients are: what the service accepts, the mapper and   *)
(* the CHECK of the table accept.                                          *)
THEOREM AcceptedMeansStorable == AppSpec => []ConstraintNeverBites
<1>1. AppInv => ConstraintNeverBites
  <2> SUFFICES ASSUME AppInv, creating.stage = "saving"
               PROVE  MapsToRow(creating.model) /\ Storable(ToRow(creating.model))
      BY DEF ConstraintNeverBites
  <2>1. Created(creating.id, creating.model)
      BY DEF AppInv, CreationIsExact, NoRequest
  <2> QED BY <2>1, RoundTrip DEF Created
<1> QED BY <1>1, ApplicationInvariant, PTL

(* No conversion between the request and the notifier's server mixes up    *)
(* channels or recipients, in any configuration.                           *)
THEOREM RecipientsAreReached == AppSpec => []ReachesWhoWasAsked
<1>1. AppInv => ReachesWhoWasAsked
  <2> SUFFICES ASSUME AppInv, NEW id \in Ids, NEW notifier \in sentBy[id] \ {"log"}
               PROVE  /\ notifier = asked[id].channel
                      /\ Addressee(notifier, body[id]) = Meant(asked[id])
      BY DEF ReachesWhoWasAsked, AppInv, SendersAreExact
  <2>1. Created(id, body[id]) /\ notifier = NotifierFor(config, asked[id].channel)
      BY DEF AppInv, SendersAreExact, MessagesAreExact
  <2>2. PICK req, n : req = asked[id] /\ n = body[id]
      OBVIOUS
  <2>3. req \in CreateRequests /\ Valid(req) /\ n = NewNotification(req)
      BY <2>1, <2>2 DEF Created
  <2>4. /\ notifier \in {req.channel, "log"}
        /\ Addressee(req.channel, n) = Meant(req)
      BY <2>1, <2>2, <2>3, DispatchFacts
  <2> QED BY <2>2, <2>4
<1> QED BY <1>1, ApplicationInvariant, PTL

(* The log notifier stands in for a channel only where that channel is not *)
(* configured, whatever the settings of the other one are.                 *)
THEOREM LogNotifierOnlyStandsIn == AppSpec => []MockOnlyIfUnconfigured
<1>1. AppInv => MockOnlyIfUnconfigured
  <2> SUFFICES ASSUME AppInv, NEW id \in Ids, status[id] = "sent",
                      sentBy[id] \subseteq {"log"}
               PROVE  ~ config.production \/ ~ Configured(config, asked[id].channel)
      BY DEF MockOnlyIfUnconfigured
  <2>1. /\ NotifierFor(config, asked[id].channel) = "log"
        /\ Created(id, body[id])
      BY DEF AppInv, SendersAreExact, MessagesAreExact
  <2>2. asked[id].channel # "log"
      BY <2>1 DEF Created, CreateRequests, Channels
  <2> QED BY <2>1, <2>2 DEF NotifierFor
<1> QED BY <1>1, ApplicationInvariant, PTL

(* In no order of signals, timeouts and hooks does a request find its      *)
(* database or its cache closed.                                           *)
THEOREM StoresOutliveRequests == AppSpec => []RequestsKeepStores
<1>1. AppInv => RequestsKeepStores
  <2> SUFFICES ASSUME AppInv, creating # NoRequest
               PROVE  Open("api", "postgres") /\ Open("api", "redis")
      BY DEF RequestsKeepStores
  <2>1. started["api"] = 3
      BY DEF AppInv, CreationIsExact
  <2>2. Hooks["api"][1] = "postgres" /\ Hooks["api"][2] = "redis"
      BY DEF Hooks
  <2> QED BY <2>1, <2>2 DEF Open
<1> QED BY <1>1, ApplicationInvariant, PTL

(* In no order of lookups, sends, updates, signals, timeouts, hooks and    *)
(* crashes does a message disappear but for a recorded outcome or a failed *)
(* lookup, which acknowledges it.                                          *)
THEOREM OnlyLookupsLose == AppSpec => []GoneIsSettledOrLost
<1>1. AppInv => GoneIsSettledOrLost
    BY DEF AppInv
<1> QED BY <1>1, ApplicationInvariant, PTL
=============================================================================
