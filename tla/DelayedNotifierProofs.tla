----------------------- MODULE DelayedNotifierProofs -----------------------
(***************************************************************************)
(* What holds of the whole system for any number of notifications,         *)
(* workers, requests, retries and faults.  SystemInv is inductive.  Its    *)
(* first half speaks of the store: the system uses the cached repository   *)
(* as RepoSpec allows, so what is proved there carries over.  Its second   *)
(* half speaks of messages and hands, and is taken one conjunct at a time. *)
(***************************************************************************)
EXTENDS DelayedNotifier, RepositoryCallerProofs, MessageBrokerProofs

LEMMA Participants ==
    /\ IsFiniteSet(Workers)
    /\ Workers \in SUBSET Procs
    /\ Requests \in SUBSET Procs
    /\ \A w \in Workers : w \in Procs /\ w \notin Requests
    /\ \A r \in Requests : r \in Procs /\ r \notin Workers
BY WorkersAssumption, RequestsAssumption, RolesAssumption

LEMMA ConsumerRowsFacts ==
    /\ \A a \in 0 .. MaxRetries - 1 : SentRow(a) \in ConsumerRows
    /\ \A a \in 0 .. MaxRetries - 1 :
          a + 1 >= MaxRetries => FailedRow(a + 1) \in ConsumerRows
BY MaxRetriesAssumption DEF ConsumerRows

-----------------------------------------------------------------------------
(* The system uses the repository as its specification allows.             *)

(* A call on a public id is one that RepoSpec's clients may make.          *)
LEMMA PublicCall ==
    ASSUME NEW p \in Procs, NEW id \in Ids, Public(id),
           \/ CallGetByID(p, id) \/ CallDelete(p, id)
           \/ \E row \in ConsumerRows : CallUpdate(p, id, row),
           UNCHANGED <<db, cache, ctx, excuse, faults>>
    PROVE  RepoNext
BY DEF Public, ClientCalls, RepoNext

LEMMA CallReturns ==
    ASSUME NEW p \in Procs, call[p].step \in {"idle", "done"}, Return(p), Elsewhere,
           ctx' \in {ctx, [ctx EXCEPT ![p] = "live"]},
           UNCHANGED <<db, cache, excuse>>
    PROVE  RepoNext
BY DEF ClientReturns, RepoNext

LEMMA PublishElsewhere ==
    ASSUME NEW s, NEW q, NEW m, Publish(s, q, m)
    PROVE  Elsewhere
BY DEF Publish, Elsewhere, Fault

LEMMA FaultElsewhere ==
    ASSUME NEW kind \in {"lost", "publisher", "channel", "connection", "client"}, Fault(kind)
    PROVE  Elsewhere
BY DEF Fault, Elsewhere

LEMMA WorkerUsesRepository ==
    ASSUME TypeOK, IdsArePublic, NEW w \in Workers,
           HandlerStep(w) \/ \E m \in Messages : Receive(w, m)
    PROVE  RepoNext \/ UNCHANGED <<repoVars, faults>>
<1> USE Participants DEF KeepStore, KeepSends, repoVars
<1>1. ASSUME NEW m \in Messages, Receive(w, m) PROVE RepoNext
  <2>1. InQueue(m) /\ m.id \in Ids
      BY <1>1, DeliverEffect, NoMessageIsNone DEF Receive, TypeOK
  <2> QED BY <1>1, <2>1, PublicCall DEF Receive, IdsArePublic
<1>2. CASE Skip(w) \/ Proceed(w) \/ Recorded(w)
  <2>1. call[w].step = "done" /\ Return(w) /\ UNCHANGED faults
      BY <1>2 DEF Skip, Proceed, Recorded, Returned
  <2>2. UNCHANGED <<db, cache, ctx, excuse>>
      BY <1>2 DEF Skip, Proceed, Recorded
  <2> QED BY <2>1, <2>2, CallReturns DEF Elsewhere
<1>3. ASSUME wpc[w] = "sending"
      PROVE  hand[w] \in Messages /\ hand[w].id \in Ids /\ Public(hand[w].id)
             /\ hand[w].attempts \in 0 .. MaxRetries - 1
  <2>1. hand[w] \in Messages
      BY <1>3 DEF TypeOK, ConsumerTypeOK
  <2> QED BY <2>1, NoMessageIsNone DEF IdsArePublic, Messages
<1>4. CASE SendOk(w)
  <2>1. CallUpdate(w, hand[w].id, SentRow(hand[w].attempts))
        /\ UNCHANGED <<db, cache, ctx, excuse, faults>> /\ wpc[w] = "sending"
      BY <1>4 DEF SendOk, Sends
  <2> QED BY <1>3, <2>1, PublicCall, ConsumerRowsFacts
<1>5. CASE SendFailsFinally(w)
  <2>1. CallUpdate(w, hand[w].id, FailedRow(hand[w].attempts + 1))
        /\ UNCHANGED <<db, cache, ctx, excuse, faults>> /\ wpc[w] = "sending"
        /\ hand[w].attempts + 1 >= MaxRetries
      BY <1>5 DEF SendFailsFinally, Sends
  <2> QED BY <1>3, <2>1, PublicCall, ConsumerRowsFacts
<1>6. CASE SendFails(w) \/ PublishRetryFails(w) \/ AckRetried(w) \/ StopWorker(w)
    BY <1>6 DEF SendFails, Sends, PublishRetryFails, AckRetried, StopWorker
<1>7. CASE PublishRetry(w)
  <2>1. Elsewhere /\ UNCHANGED repoVars
      BY <1>7, PublishElsewhere DEF PublishRetry
  <2> QED BY <2>1 DEF RepoNext
<1> QED BY <1>1, <1>2, <1>4, <1>5, <1>6, <1>7 DEF HandlerStep

LEMMA RequestUsesRepository ==
    ASSUME TypeOK, RepoInv, IdsArePublic, AnswersAreReady, NEW r \in Requests,
           RequestStep(r) \/ NewRequest(r)
    PROVE  RepoNext
<1> USE Participants
<1>1. ASSUME NEW id \in Ids, BeginCreate(r, id) PROVE RepoNext
    BY <1>1 DEF BeginCreate, AsksStore, ClientCalls, RepoNext
<1>2. ASSUME NEW id \in known, BeginGet(r, id) \/ BeginCancel(r, id) PROVE RepoNext
    BY <1>2, PublicCall DEF BeginGet, BeginCancel, AsksStore, IdsArePublic,
                            TypeOK, ApiTypeOK
<1>3. CASE CancelProceeds(r)
  <2>1. call[r].id \in Ids /\ Public(call[r].id)
      BY <1>3 DEF CancelProceeds, Returned, IdsArePublic, RepoInv, RepoTypeOK
  <2> QED BY <1>3, <2>1, PublicCall DEF CancelProceeds, AsksStore
<1>4. CASE CreateFails(r) \/ PublishCreatedFails(r) \/ CreateEnds(r)
           \/ EndGet(r) \/ CancelRefused(r) \/ CancelEnds(r)
  <2>1. call[r].step \in {"idle", "done"} /\ Respond(r) /\ UNCHANGED faults
      BY <1>4 DEF CreateFails, PublishCreatedFails, Rejects, CreateEnds, EndGet,
                  CancelRefused, CancelEnds, Returned, AnswersAreReady, NoCall
  <2> QED BY <2>1, CallReturns DEF Respond, Elsewhere
<1>5. CASE PublishCreated(r)
  <2>1. /\ call[r].step = "done" /\ Return(r)
        /\ UNCHANGED <<db, cache, ctx, excuse>>
      BY <1>5 DEF PublishCreated, Returned
  <2>2. Elsewhere
      BY <1>5, PublishElsewhere DEF PublishCreated, PublishesNew
  <2> QED BY <2>1, <2>2, CallReturns
<1> QED BY <1>1, <1>2, <1>3, <1>4, <1>5 DEF RequestStep, NewRequest

LEMMA FaultsSpareRepository == Faults => RepoNext
<1> SUFFICES ASSUME Faults PROVE RepoNext
    OBVIOUS
<1> USE Participants
<1>1. CASE \E P \in SUBSET Procs :
              \/ ContextsDone(P) /\ Elsewhere
              \/ CacheCloses(P) \/ StoresClose(P) \/ CrashCalls(P)
    BY <1>1 DEF RepoNext
<1>2. CASE PoolContextDone \/ StopHooksRun \/ WorkerProcessRestarts
    BY <1>1, <1>2 DEF PoolContextDone, StopHooksRun, WorkerProcessRestarts, Elsewhere
<1>3. ASSUME NEW r \in Requests, ClientDisconnects(r) PROVE RepoNext
  <2>1. {r} \in SUBSET Procs
      OBVIOUS
  <2>2. ContextsDone({r}) /\ Elsewhere
      BY <1>3, FaultElsewhere DEF ClientDisconnects
  <2> QED BY <1>1, <2>1, <2>2
<1>4. CASE ApiProcessRestarts
    BY <1>1, <1>4 DEF ApiProcessRestarts
<1>5. CASE Elsewhere /\ UNCHANGED repoVars
    BY <1>5 DEF RepoNext
<1>6. ASSUME NEW w \in Workers, ChannelCloses(w) PROVE RepoNext
    BY <1>5, <1>6, FaultElsewhere DEF ChannelCloses, KeepStore, repoVars
<1>7. CASE ConnectionCloses
    BY <1>5, <1>7, FaultElsewhere DEF ConnectionCloses, KeepStore, repoVars
<1>8. ASSUME NEW s, PublisherCloses(s), UNCHANGED repoVars PROVE RepoNext
    BY <1>5, <1>8, FaultElsewhere DEF PublisherCloses
<1> QED BY <1>2, <1>3, <1>4, <1>6, <1>7, <1>8 DEF Faults, ConsumerFaults, ApiFaults

LEMMA SystemUsesRepository ==
    ASSUME TypeOK, RepoInv, IdsArePublic, AnswersAreReady, [Next]_vars
    PROVE  [RepoNext]_<<repoVars, faults>>
<1>1. ASSUME NEW w \in Workers, NEW m \in Messages, WorkerReceives(w, m)
      PROVE  RepoNext \/ UNCHANGED <<repoVars, faults>>
    BY <1>1, WorkerUsesRepository DEF WorkerReceives
<1>2. ASSUME NEW w \in Workers, WorkerStep(w)
      PROVE  RepoNext \/ UNCHANGED <<repoVars, faults>>
    BY <1>2, WorkerUsesRepository DEF WorkerStep
<1>3. ASSUME NEW r \in Requests, ApiRequest(r) \/ ApiStep(r) PROVE RepoNext
    BY <1>3, RequestUsesRepository DEF ApiRequest, ApiStep
<1>4. ASSUME NEW p \in Procs, StoreStep(p) PROVE RepoNext
    BY <1>4 DEF StoreStep, RepoNext
<1>5. ASSUME NEW id \in Ids, StoreExpiry(id) PROVE RepoNext
    BY <1>5 DEF StoreExpiry, RepoNext
<1>6. ASSUME NEW q \in Queues, NEW m \in Messages, Expiry(q, m)
      PROVE  UNCHANGED <<repoVars, faults>>
    BY <1>6 DEF Expiry, DeadLetter
<1>7. CASE UNCHANGED vars
    BY <1>7 DEF vars
<1> QED BY <1>1, <1>2, <1>3, <1>4, <1>5, <1>6, <1>7, FaultsSpareRepository DEF Next

LEMMA StoreHolds ==
    ASSUME SystemInv, [Next]_vars
    PROVE  RepoInv' /\ CallerInv' /\ \A i \in Ids : Stable(i)
<1>1. [RepoNext]_<<repoVars, faults>>
    BY SystemUsesRepository DEF SystemInv
<1> QED BY <1>1, NextInv, CallerInvNext, IdsAreStable DEF SystemInv

-----------------------------------------------------------------------------
(* Type correctness.                                                       *)

(* What SetChannels does, with the types of everything it touches.         *)
LEMMA SetChannelsEffect ==
    ASSUME BrokerTypeOK, NEW W \in SUBSET Workers, NEW open \in BOOLEAN,
           SetChannels(W, open)
    PROVE  /\ queue' \in [Queues -> [Messages -> Nat]]
           /\ unacked' \in [Workers -> Messages \cup {NoMessage}]
           /\ channelOpen' \in [Workers -> BOOLEAN]
           /\ requeues' \in [Ids -> Nat]
           /\ dropped' \in SUBSET Ids
BY Participants, GiveBackEffect DEF SetChannels, BrokerTypeOK

LEMMA HandlerTypes ==
    ASSUME TypeOK, NEW w \in Workers,
           HandlerStep(w) \/ \E m \in Messages : Receive(w, m)
    PROVE  BrokerTypeOK' /\ ConsumerTypeOK'
<1> USE Participants DEF KeepStore, KeepSends, TypeOK, ConsumerTypeOK, Resume,
                         LetGo, WorkerStates
<1>1. ASSUME NEW m \in Messages, Receive(w, m)
      PROVE  BrokerTypeOK' /\ ConsumerTypeOK'
    BY <1>1, DeliverEffect DEF Receive
<1>2. CASE Skip(w)
  <2>1. BrokerTypeOK'
      BY <1>2, AckEffect, NoMessageIsNone DEF Skip, Ack, BrokerTypeOK
  <2> QED BY <1>2, <2>1 DEF Skip
<1>3. CASE Proceed(w)
  <2>1. BrokerTypeOK'
      BY <1>3 DEF Proceed, brokerVars, BrokerTypeOK
  <2> QED BY <1>3, <2>1 DEF Proceed
<1>4. CASE SendOk(w) \/ SendFailsFinally(w) \/ SendFails(w)
  <2>1. wpc[w] = "sending" /\ UNCHANGED brokerVars /\ hand[w] \in Messages
      BY <1>4 DEF SendOk, SendFailsFinally, SendFails, Sends
  <2>2. BrokerTypeOK'
      BY <2>1 DEF brokerVars, BrokerTypeOK
  <2>3. sends' \in [Ids -> Nat] /\ delivered' \in [Ids -> Nat]
    <3>1. PICK outcome \in {0, 1} : Sends(w, outcome)
        BY <1>4 DEF SendOk, SendFailsFinally, SendFails
    <3> QED BY <2>1, <3>1, NoMessageIsNone DEF Sends
  <2>4. CASE SendOk(w) \/ SendFailsFinally(w)
      BY <2>1, <2>2, <2>3, <2>4 DEF SendOk, SendFailsFinally
  <2>5. CASE SendFails(w)
    <3>1. [hand[w] EXCEPT !.attempts = @ + 1] \in Messages
        BY <2>1, <2>5, MaxRetriesAssumption DEF SendFails, Messages
    <3>2. hand' = [hand EXCEPT ![w] = [hand[w] EXCEPT !.attempts = @ + 1]]
        BY <2>5 DEF SendFails
    <3> QED BY <2>2, <2>3, <2>5, <3>1, <3>2 DEF SendFails
  <2> QED BY <1>4, <2>4, <2>5
<1>5. CASE Recorded(w)
  <2>1. BrokerTypeOK'
    <3>1. CASE Ack(w) /\ UNCHANGED dropped
        BY <3>1, AckEffect DEF Ack, BrokerTypeOK
    <3>2. CASE Requeue(w)
        BY <3>2, GiveBackEffect DEF Requeue, BrokerTypeOK
    <3> QED BY <1>5, <3>1, <3>2 DEF Recorded
  <2> QED BY <1>5, <2>1 DEF Recorded
<1>6. CASE PublishRetry(w)
  <2>1. BrokerTypeOK'
      BY <1>6, PublishEffect DEF PublishRetry, Publishers, Queues
  <2> QED BY <1>6, <2>1 DEF PublishRetry
<1>7. CASE PublishRetryFails(w)
  <2>1. BrokerTypeOK'
      BY <1>7, GiveBackEffect DEF PublishRetryFails, Requeue, BrokerTypeOK
  <2> QED BY <1>7, <2>1 DEF PublishRetryFails
<1>8. CASE AckRetried(w)
  <2>1. BrokerTypeOK'
      BY <1>8, AckEffect DEF AckRetried, Ack, BrokerTypeOK
  <2> QED BY <1>8, <2>1 DEF AckRetried
<1>9. CASE StopWorker(w)
  <2>1. BrokerTypeOK'
      BY <1>9, SetChannelsEffect DEF StopWorker, BrokerTypeOK
  <2> QED BY <1>9, <2>1 DEF StopWorker
<1> QED BY <1>1, <1>2, <1>3, <1>4, <1>5, <1>6, <1>7, <1>8, <1>9 DEF HandlerStep

LEMMA FaultTypes ==
    ASSUME TypeOK, ConsumerFaults
    PROVE  BrokerTypeOK' /\ ConsumerTypeOK'
<1> USE Participants DEF TypeOK, ConsumerTypeOK
<1>1. ASSUME NEW w \in Workers, ChannelCloses(w)
      PROVE  BrokerTypeOK' /\ ConsumerTypeOK'
  <2>1. BrokerTypeOK'
      BY <1>1, SetChannelsEffect DEF ChannelCloses, BrokerTypeOK
  <2> QED BY <1>1, <2>1 DEF ChannelCloses, consumerVars
<1>2. CASE ConnectionCloses
  <2>1. BrokerTypeOK'
      BY <1>2, SetChannelsEffect DEF ConnectionCloses, BrokerTypeOK, Publishers
  <2> QED BY <1>2, <2>1 DEF ConnectionCloses, consumerVars
<1>3. CASE PoolContextDone \/ StopHooksRun
    BY <1>3 DEF PoolContextDone, StopHooksRun, brokerVars, consumerVars, BrokerTypeOK
<1>4. CASE WorkerProcessRestarts
  <2>1. BrokerTypeOK'
      BY <1>4, SetChannelsEffect DEF WorkerProcessRestarts, BrokerTypeOK, Publishers
  <2> QED BY <1>4, <2>1 DEF WorkerProcessRestarts, KeepSends, WorkerStates
<1>5. CASE PublisherCloses("worker") /\ UNCHANGED <<repoVars, consumerVars>>
    BY <1>5 DEF PublisherCloses, consumerVars, BrokerTypeOK, Publishers
<1> QED BY <1>1, <1>2, <1>3, <1>4, <1>5 DEF ConsumerFaults

LEMMA ApiTypes ==
    ASSUME TypeOK, RepoInv, IdsArePublic, AnswersAreReady,
           \/ \E r \in Requests : RequestStep(r) \/ NewRequest(r)
           \/ ApiFaults
    PROVE  BrokerTypeOK' /\ ApiTypeOK'
<1> USE Participants DEF TypeOK, ApiTypeOK
<1>0. \A r \in Requests : rpc[r] = "answering" => answer[r] \in Ids
    BY DEF AnswersAreReady
<1>1. ASSUME NEW r \in Requests, NEW from \in RequestStates,
             NEW to \in RequestStates, AsksStore(r, from, to)
      PROVE  BrokerTypeOK' /\ ApiTypeOK'
    BY <1>1 DEF AsksStore, Continue, histories, brokerVars, BrokerTypeOK
<1>2. ASSUME NEW r \in Requests, NewRequest(r) \/ CancelProceeds(r)
      PROVE  BrokerTypeOK' /\ ApiTypeOK'
    BY <1>1, <1>2 DEF NewRequest, BeginCreate, BeginGet, BeginCancel,
                      CancelProceeds, RequestStates
<1>3. ASSUME NEW r \in Requests, Respond(r) PROVE rpc' \in [Requests -> RequestStates]
    BY <1>3 DEF Respond, Continue, RequestStates
<1>4. ASSUME NEW r \in Requests, EndGet(r) \/ CancelRefused(r)
      PROVE  BrokerTypeOK' /\ ApiTypeOK'
    BY <1>3, <1>4 DEF EndGet, CancelRefused, brokerVars, histories, BrokerTypeOK
<1>5. ASSUME NEW r \in Requests, call[r].step = "done" PROVE call[r].id \in Ids
    BY <1>5 DEF RepoInv, RepoTypeOK
<1>6. ASSUME NEW r \in Requests,
             \/ CreateFails(r) \/ PublishCreatedFails(r) \/ CreateEnds(r)
             \/ CancelEnds(r)
      PROVE  BrokerTypeOK' /\ ApiTypeOK'
  <2>1. BrokerTypeOK'
      BY <1>6 DEF CreateFails, PublishCreatedFails, Rejects, CreateEnds, CancelEnds,
                  brokerVars, BrokerTypeOK
  <2>2. CASE CreateFails(r) \/ PublishCreatedFails(r) \/ CancelEnds(r)
      BY <1>3, <1>5, <2>1, <2>2 DEF CreateFails, PublishCreatedFails, Rejects,
                                    CancelEnds, Returned
  <2>3. CASE CreateEnds(r)
    <3>1. answer[r] \in Ids
        BY <2>3, <1>0 DEF CreateEnds
    <3> QED BY <1>3, <2>1, <2>3, <3>1 DEF CreateEnds
  <2> QED BY <1>6, <2>2, <2>3
<1>7. ASSUME NEW r \in Requests, PublishCreated(r) PROVE BrokerTypeOK' /\ ApiTypeOK'
  <2>1. [id |-> call[r].id, attempts |-> 0] \in Messages /\ call[r].id \in Ids
      BY <1>5, <1>7, MaxRetriesAssumption DEF PublishCreated, Returned, Messages
  <2>2. BrokerTypeOK'
      BY <1>7, <2>1, PublishEffect DEF PublishCreated, PublishesNew, Publishers, Queues
  <2> QED BY <1>7, <2>1, <2>2 DEF PublishCreated, PublishesNew, Continue, RequestStates
<1>8. CASE ApiFaults
  <2>1. ASSUME NEW r \in Requests, ClientDisconnects(r)
        PROVE  BrokerTypeOK' /\ ApiTypeOK'
      BY <2>1 DEF ClientDisconnects, brokerVars, apiVars, histories, BrokerTypeOK
  <2>2. CASE ApiProcessRestarts
      BY <2>2 DEF ApiProcessRestarts, histories, BrokerTypeOK, Publishers, RequestStates
  <2>3. CASE PublisherCloses("api") /\ UNCHANGED <<repoVars, apiVars>>
      BY <2>3 DEF PublisherCloses, apiVars, histories, BrokerTypeOK, Publishers
  <2> QED BY <1>8, <2>1, <2>2, <2>3 DEF ApiFaults
<1> QED BY <1>2, <1>4, <1>6, <1>7, <1>8 DEF RequestStep

LEMMA TypesHold ==
    ASSUME SystemInv, [Next]_vars
    PROVE  TypeOK'
<1> USE DEF TypeOK
<1>1. RepoTypeOK'
    BY StoreHolds DEF RepoInv
<1>2. TypeOK /\ RepoInv /\ IdsArePublic /\ AnswersAreReady
    BY DEF SystemInv
<1>3. ASSUME NEW w \in Workers, NEW m \in Messages, WorkerReceives(w, m)
      PROVE  TypeOK'
    BY <1>1, <1>2, <1>3, HandlerTypes DEF WorkerReceives, apiVars, histories, ApiTypeOK
<1>4. ASSUME NEW w \in Workers, WorkerStep(w) PROVE TypeOK'
    BY <1>1, <1>2, <1>4, HandlerTypes DEF WorkerStep, apiVars, histories, ApiTypeOK
<1>5. ASSUME NEW r \in Requests, ApiRequest(r) \/ ApiStep(r) PROVE TypeOK'
    BY <1>1, <1>2, <1>5, ApiTypes DEF ApiRequest, ApiStep, consumerVars, ConsumerTypeOK
<1>6. ASSUME NEW p \in Procs, StoreStep(p) PROVE TypeOK'
    BY <1>1, <1>2, <1>6 DEF StoreStep, brokerVars, consumerVars, apiVars, histories,
                            BrokerTypeOK, ConsumerTypeOK, ApiTypeOK
<1>7. ASSUME NEW id \in Ids, StoreExpiry(id) PROVE TypeOK'
    BY <1>1, <1>2, <1>7 DEF StoreExpiry, brokerVars, consumerVars, apiVars, histories,
                            BrokerTypeOK, ConsumerTypeOK, ApiTypeOK
<1>8. ASSUME NEW q \in Queues, NEW m \in Messages, Expiry(q, m) PROVE TypeOK'
    BY <1>1, <1>2, <1>8, DeadLetterEffect
    DEF Expiry, consumerVars, apiVars, histories, ConsumerTypeOK, ApiTypeOK
<1>9. CASE Faults
  <2>1. CASE ConsumerFaults /\ late' = {v \in late : wpc'[v] # "idle"} /\ UNCHANGED apiVars
      BY <1>1, <1>2, <2>1, FaultTypes DEF apiVars, histories, ApiTypeOK
  <2>2. CASE ApiFaults /\ UNCHANGED <<consumerVars, late>>
      BY <1>1, <1>2, <2>2, ApiTypes DEF consumerVars, ConsumerTypeOK
  <2> QED BY <1>9, <2>1, <2>2 DEF Faults
<1>10. CASE UNCHANGED vars
    BY <1>1, <1>2, <1>10 DEF vars, brokerVars, consumerVars, apiVars, histories,
                             BrokerTypeOK, ConsumerTypeOK, ApiTypeOK
<1> QED BY <1>3, <1>4, <1>5, <1>6, <1>7, <1>8, <1>9, <1>10 DEF Next

-----------------------------------------------------------------------------
(* Frames: what the steps of one participant leave alone of the others.    *)

StandsStill(v) ==
    /\ wpc'[v] = wpc[v] /\ hand'[v] = hand[v]
    /\ unacked'[v] = unacked[v] /\ call'[v] = call[v]

LEMMA OtherWorkers ==
    ASSUME TypeOK, NEW w \in Workers, NEW v \in Workers \ {w},
           HandlerStep(w) \/ \E m \in Messages : Receive(w, m)
    PROVE  StandsStill(v)
<1> USE Participants DEF StandsStill, TypeOK, RepoTypeOK, ConsumerTypeOK, Resume,
                         LetGo, Return
<1>1. ASSUME NEW m \in Messages, Receive(w, m) PROVE StandsStill(v)
    BY <1>1, DeliverEffect DEF Receive, CallGetByID, Begin
<1>2. CASE Skip(w) \/ AckRetried(w) \/ (Recorded(w) /\ Ack(w))
    BY <1>2, AckEffect DEF Skip, AckRetried, Recorded
<1>3. CASE PublishRetryFails(w) \/ (Recorded(w) /\ Requeue(w))
    BY <1>3, GiveBackEffect DEF PublishRetryFails, Recorded, Requeue
<1>4. CASE Proceed(w)
    BY <1>4 DEF Proceed, brokerVars
<1>5. CASE SendOk(w) \/ SendFailsFinally(w) \/ SendFails(w)
    BY <1>5 DEF SendOk, SendFailsFinally, SendFails, Sends, brokerVars,
                CallUpdate, Begin
<1>6. CASE PublishRetry(w)
    BY <1>6 DEF PublishRetry, Publish
<1>7. CASE StopWorker(w)
    BY <1>7, GiveBackEffect DEF StopWorker, SetChannels
<1> QED BY <1>1, <1>2, <1>3, <1>4, <1>5, <1>6, <1>7 DEF HandlerStep, Recorded

LEMMA ApiSparesWorkers ==
    ASSUME TypeOK, NEW v \in Workers, UNCHANGED consumerVars,
           \/ \E r \in Requests : RequestStep(r) \/ NewRequest(r)
           \/ ApiFaults
    PROVE  StandsStill(v)
<1> USE Participants DEF StandsStill, TypeOK, RepoTypeOK, consumerVars
<1>1. ASSUME NEW r \in Requests, RequestStep(r) \/ NewRequest(r) PROVE call'[v] = call[v]
    BY <1>1 DEF NewRequest, BeginCreate, BeginGet, BeginCancel, RequestStep,
                CreateFails, PublishCreated, PublishCreatedFails, Rejects,
                CreateEnds, EndGet, CancelRefused, CancelProceeds, CancelEnds,
                Respond, Return, CallSave, CallGetByID, CallDelete, Begin
<1>2. CASE \E r \in Requests : RequestStep(r) \/ NewRequest(r)
  <2>1. UNCHANGED unacked
      BY <1>2 DEF NewRequest, BeginCreate, BeginGet, BeginCancel, AsksStore,
                  RequestStep, CreateFails, PublishCreated, PublishesNew,
                  PublishCreatedFails, Rejects, CreateEnds, EndGet, CancelRefused,
                  CancelProceeds, CancelEnds, Publish, brokerVars
  <2> QED BY <1>1, <1>2, <2>1
<1>3. CASE ApiFaults
    BY <1>3 DEF ApiFaults, ClientDisconnects, ContextsDone, SetContexts,
                ApiProcessRestarts, CrashCalls, PublisherCloses, repoVars, brokerVars
<1> QED BY <1>2, <1>3

(* What the faults of the worker process do to a worker: a restart sends   *)
(* it back to its loop, the others at most take its delivery away.         *)
LEMMA WorkerFaultEffect ==
    ASSUME TypeOK, ConsumerFaults
    PROVE  /\ dropped' = dropped
           /\ UNCHANGED <<sends, delivered>>
           /\ \A m \in Messages : InQueue(m) => InQueue(m)'
           /\ \A m \in Messages :
                 InQueue(m)' => InQueue(m) \/ \E w \in Workers : unacked[w] = m
           /\ \A w \in Workers :
                 \/ unacked'[w] = unacked[w]
                 \/ /\ unacked'[w] = NoMessage
                    /\ \A m \in Messages : unacked[w] = m => InQueue(m)'
           /\ \/ /\ UNCHANGED <<wpc, hand, call>>
              \/ /\ wpc' = [w \in Workers |-> "idle"]
                 /\ hand' = [w \in Workers |-> NoMessage]
                 /\ unacked' = [w \in Workers |-> NoMessage]
<1> USE Participants DEF TypeOK
<1>1. ASSUME NEW W \in SUBSET Workers, NEW open \in BOOLEAN, SetChannels(W, open)
      PROVE  /\ dropped' = dropped
             /\ \A m \in Messages : InQueue(m) => InQueue(m)'
             /\ \A m \in Messages :
                   InQueue(m)' => InQueue(m) \/ \E w \in Workers : unacked[w] = m
             /\ \A w \in Workers :
                   \/ unacked'[w] = unacked[w]
                   \/ /\ unacked'[w] = NoMessage
                      /\ \A m \in Messages : unacked[w] = m => InQueue(m)'
             /\ \A w \in W : unacked'[w] = NoMessage
             /\ unacked' \in [Workers -> Messages \cup {NoMessage}]
    BY <1>1, GiveBackEffect DEF SetChannels
<1>2. ASSUME NEW w \in Workers, ChannelCloses(w)
      PROVE  /\ SetChannels({w}, FALSE) /\ {w} \in SUBSET Workers
             /\ UNCHANGED <<wpc, hand, call, sends, delivered>>
    BY <1>2 DEF ChannelCloses, consumerVars
<1>3. CASE ConnectionCloses
  <2>1. SetChannels(Workers, FALSE) /\ UNCHANGED <<wpc, hand, call, sends, delivered>>
      BY <1>3 DEF ConnectionCloses, consumerVars
  <2> QED BY <1>1, <2>1
<1>4. CASE WorkerProcessRestarts
  <2>1. /\ SetChannels(Workers, TRUE) /\ UNCHANGED <<sends, delivered>>
        /\ wpc' = [w \in Workers |-> "idle"]
        /\ hand' = [w \in Workers |-> NoMessage]
      BY <1>4 DEF WorkerProcessRestarts, KeepSends
  <2>2. unacked' = [w \in Workers |-> NoMessage]
      BY <1>1, <2>1
  <2> QED BY <1>1, <2>1, <2>2
<1>5. CASE \/ PoolContextDone \/ StopHooksRun
           \/ PublisherCloses("worker") /\ UNCHANGED <<repoVars, consumerVars>>
    BY <1>5 DEF PoolContextDone, StopHooksRun, ContextsDone, CacheCloses, StoresClose,
                SetContexts, PublisherCloses, repoVars, brokerVars, consumerVars, InQueue
<1> QED BY <1>1, <1>2, <1>3, <1>4, <1>5 DEF ConsumerFaults

-----------------------------------------------------------------------------
(* HandIsConsistent.                                                       *)

InHand(w) ==
    /\ wpc[w] = "checking" => call[w].op = "GetByID" /\ call[w].id = hand[w].id
    /\ wpc[w] = "recording" => call[w].op = "Update" /\ call[w].id = hand[w].id
    /\ unacked[w] # NoMessage =>
          wpc[w] \notin {"idle", "stopped"} /\ unacked[w].id = hand[w].id

LEMMA HandOfActor ==
    ASSUME SystemInv, NEW w \in Workers, InHand(w),
           HandlerStep(w) \/ \E m \in Messages : Receive(w, m)
    PROVE  InHand(w)'
<1> USE Participants DEF InHand, TypeOK, RepoTypeOK, ConsumerTypeOK, Resume, LetGo, Return
<1>0. TypeOK
    BY DEF SystemInv
<1>1. ASSUME NEW m \in Messages, Receive(w, m) PROVE InHand(w)'
    BY <1>0, <1>1, DeliverEffect DEF Receive, CallGetByID, Begin
<1>2. CASE Skip(w) \/ AckRetried(w) \/ (Recorded(w) /\ Ack(w))
    BY <1>0, <1>2, AckEffect DEF Skip, AckRetried, Recorded
<1>3. CASE PublishRetryFails(w) \/ (Recorded(w) /\ Requeue(w))
    BY <1>0, <1>3, GiveBackEffect DEF PublishRetryFails, Recorded, Requeue
<1>4. CASE Proceed(w)
    BY <1>0, <1>4 DEF Proceed, brokerVars
<1>5. CASE SendOk(w) \/ SendFailsFinally(w)
    BY <1>0, <1>5 DEF SendOk, SendFailsFinally, Sends, brokerVars, CallUpdate, Begin
<1>6. CASE SendFails(w)
  <2>1. hand'[w].id = hand[w].id /\ wpc[w] = "sending"
      BY <1>0, <1>6 DEF SendFails, Sends, Messages
  <2> QED BY <1>0, <1>6, <2>1 DEF SendFails, Sends, brokerVars
<1>7. CASE PublishRetry(w)
    BY <1>0, <1>7 DEF PublishRetry, Publish
<1>8. CASE StopWorker(w)
    BY <1>0, <1>8, GiveBackEffect DEF StopWorker, SetChannels
<1> QED BY <1>1, <1>2, <1>3, <1>4, <1>5, <1>6, <1>7, <1>8 DEF HandlerStep, Recorded

LEMMA HandHolds ==
    ASSUME SystemInv, [Next]_vars
    PROVE  HandIsConsistent'
<1>0. TypeOK /\ RepoInv /\ \A w \in Workers : InHand(w)
    BY DEF SystemInv, HandIsConsistent, InHand
<1> SUFFICES ASSUME NEW v \in Workers PROVE InHand(v)'
    BY DEF HandIsConsistent, InHand
<1>1. StandsStill(v) => InHand(v)'
    BY <1>0 DEF StandsStill, InHand
<1>2. ASSUME NEW w \in Workers, HandlerStep(w) \/ \E m \in Messages : Receive(w, m)
      PROVE  InHand(v)'
    BY <1>0, <1>1, <1>2, HandOfActor, OtherWorkers
<1>3. ASSUME NEW p \in Procs, StoreStep(p) PROVE InHand(v)'
  <2>1. call'[v].op = call[v].op /\ call'[v].id = call[v].id
      BY <1>0, <1>3, StepEffect, Participants DEF StoreStep
  <2> QED BY <1>0, <1>3, <2>1 DEF StoreStep, consumerVars, brokerVars, InHand
<1>4. CASE \/ \E r \in Requests : ApiRequest(r) \/ ApiStep(r)
           \/ ApiFaults /\ UNCHANGED <<consumerVars, late>>
    BY <1>0, <1>1, <1>4, ApiSparesWorkers DEF ApiRequest, ApiStep
<1>5. CASE ConsumerFaults
    BY <1>0, <1>5, WorkerFaultEffect DEF InHand
<1>6. CASE \/ \E id \in Ids : StoreExpiry(id)
           \/ \E q \in Queues, m \in Messages : Expiry(q, m)
           \/ UNCHANGED vars
    BY <1>1, <1>6 DEF StoreExpiry, CacheExpire, Expiry, DeadLetter, vars, repoVars,
                      brokerVars, consumerVars, StandsStill
<1> QED BY <1>2, <1>3, <1>4, <1>5, <1>6
        DEF Next, WorkerReceives, WorkerStep, Faults

-----------------------------------------------------------------------------
(* IdsArePublic and AttemptsAreBacked: where messages come from.           *)

MessageFlow ==
    /\ \A m \in Messages :
          InQueue(m)' => \/ InQueue(m)
                         \/ \E w \in Workers : unacked[w] = m \/ hand[w] = m
    /\ \A w \in Workers :
          \/ unacked'[w] \in {unacked[w], NoMessage}
          \/ \E m \in Messages : InQueue(m) /\ unacked'[w] = m
    /\ \A w \in Workers :
          \/ hand'[w] \in {hand[w], NoMessage}
          \/ \E m \in Messages : InQueue(m) /\ hand'[w] = m

LEMMA HandlerFlow ==
    ASSUME TypeOK, NEW w \in Workers, ~ SendFails(w),
           HandlerStep(w) \/ \E m \in Messages : Receive(w, m)
    PROVE  MessageFlow
<1> USE Participants DEF TypeOK, ConsumerTypeOK, LetGo
<1>0. \A v \in Workers \ {w} : StandsStill(v)
    BY OtherWorkers
<1> SUFFICES
        /\ \A m \in Messages :
              InQueue(m)' => InQueue(m) \/ unacked[w] = m \/ hand[w] = m
        /\ \/ unacked'[w] \in {unacked[w], NoMessage}
           \/ \E m \in Messages : InQueue(m) /\ unacked'[w] = m
        /\ \/ hand'[w] \in {hand[w], NoMessage}
           \/ \E m \in Messages : InQueue(m) /\ hand'[w] = m
    BY <1>0 DEF MessageFlow, StandsStill
<1>1. ASSUME NEW m \in Messages, Receive(w, m)
      PROVE  /\ \A n \in Messages : InQueue(n)' => InQueue(n)
             /\ InQueue(m) /\ unacked'[w] = m /\ hand'[w] = m
    BY <1>1, DeliverEffect DEF Receive
<1>2. CASE Skip(w) \/ AckRetried(w) \/ (Recorded(w) /\ Ack(w))
    BY <1>2, AckEffect DEF Skip, AckRetried, Recorded, Ack, InQueue
<1>3. CASE PublishRetryFails(w) \/ (Recorded(w) /\ Requeue(w))
  <2>1. GiveBack({w}) /\ hand'[w] = NoMessage
      BY <1>3 DEF PublishRetryFails, Recorded, Requeue
  <2> QED BY <2>1, GiveBackEffect
<1>4. CASE Proceed(w) \/ SendOk(w) \/ SendFailsFinally(w)
    BY <1>4 DEF Proceed, SendOk, SendFailsFinally, Sends, brokerVars, InQueue
<1>5. CASE PublishRetry(w)
  <2>1. hand[w] \in Messages /\ Publish("worker", "retry", hand[w]) /\ UNCHANGED hand
      BY <1>5 DEF PublishRetry
  <2>2. /\ \A n \in Messages : InQueue(n)' => InQueue(n) \/ n = hand[w]
        /\ UNCHANGED unacked
      BY <2>1, PublishEffect DEF Publishers, Queues
  <2> QED BY <2>1, <2>2
<1>6. CASE StopWorker(w)
  <2>1. GiveBack({w}) /\ UNCHANGED hand
      BY <1>6 DEF StopWorker, SetChannels
  <2> QED BY <2>1, GiveBackEffect
<1> QED BY <1>1, <1>2, <1>3, <1>4, <1>5, <1>6 DEF HandlerStep, Recorded

LEMMA ApiSparesBroker ==
    ASSUME \/ \E r \in Requests : NewRequest(r)
           \/ \E r \in Requests : RequestStep(r) /\ ~ PublishCreated(r)
           \/ ApiFaults
    PROVE  UNCHANGED <<queue, unacked, dropped, published>>
<1>1. ASSUME NEW r \in Requests, NewRequest(r) \/ CancelProceeds(r)
      PROVE  UNCHANGED <<queue, unacked, dropped, published>>
    BY <1>1 DEF NewRequest, BeginCreate, BeginGet, BeginCancel, CancelProceeds,
                AsksStore, brokerVars, histories
<1>2. ASSUME NEW r \in Requests,
             \/ CreateFails(r) \/ PublishCreatedFails(r) \/ CreateEnds(r)
             \/ EndGet(r) \/ CancelRefused(r) \/ CancelEnds(r)
      PROVE  UNCHANGED <<queue, unacked, dropped, published>>
    BY <1>2 DEF CreateFails, PublishCreatedFails, Rejects, CreateEnds, EndGet,
                CancelRefused, CancelEnds, brokerVars, histories
<1>3. CASE ApiFaults
    BY <1>3 DEF ApiFaults, ClientDisconnects, ApiProcessRestarts, PublisherCloses,
                brokerVars, apiVars, histories
<1> QED BY <1>1, <1>2, <1>3 DEF RequestStep

(* A new notification's message is published once its row exists.          *)
LEMMA CreatedEffect ==
    ASSUME SystemInv, NEW r \in Requests, PublishCreated(r),
           NEW id, id = call[r].id
    PROVE  /\ id \in Ids /\ db[id] # NoRow
           /\ \A p \in Procs : call'[p].op = "Save" => call'[p].id # id
           /\ published' = published \cup {id}
           /\ call'[r] = NoCall
           /\ UNCHANGED <<unacked, cancelAcked>>
           /\ \A m \in Messages : InQueue(m) => InQueue(m)'
           /\ \A m \in Messages :
                 InQueue(m)' => InQueue(m) \/ (m.id = id /\ m.attempts = 0)
           /\ dropped \subseteq dropped'
           /\ \/ id \in dropped'
              \/ \E m \in Messages : m.id = id /\ InQueue(m)'
<1> DEFINE m == [id |-> id, attempts |-> 0]
<1>1. /\ r \in Procs /\ id \in Ids /\ m \in Messages
      /\ call[r].op = "Save" /\ call[r].step = "done" /\ call[r].res = "ok"
    BY Participants, MaxRetriesAssumption
    DEF PublishCreated, Returned, Succeeded, Messages, SystemInv, RepoInv, RepoTypeOK
<1>2. db[id] # NoRow
  <2>1. ReadRow(r) \in Rows
      BY <1>1 DEF SystemInv, CallerInv, ResultsHold, ReadRow, Succeeded
  <2> QED BY <1>1, <2>1, RowFacts DEF SystemInv, RepoInv, CacheNeverAhead
<1>3. /\ call'[r] = NoCall
      /\ \A p \in Procs \ {r} : call'[p] = call[p]
    BY <1>1 DEF PublishCreated, Return, SystemInv, RepoInv, RepoTypeOK
<1>4. \A p \in Procs : call'[p].op = "Save" => call'[p].id # id
    BY <1>1, <1>3 DEF SystemInv, CallerInv, SaveIsAlone, NoCall
<1>5. Publish("api", "wait", m) /\ BrokerTypeOK /\ "api" \in Publishers /\ "wait" \in Queues
    BY DEF PublishCreated, PublishesNew, SystemInv, TypeOK, Publishers, Queues
<1>6. /\ UNCHANGED unacked
      /\ \A n \in Messages : InQueue(n) => InQueue(n)'
      /\ \A n \in Messages : InQueue(n)' => InQueue(n) \/ n = m
      /\ dropped \subseteq dropped'
      /\ InQueue(m)' \/ m.id \in dropped'
  <2> HIDE DEF m
  <2>1. PICK n \in Messages : n = m
      BY <1>1
  <2>2. Publish("api", "wait", n)
      BY <1>5, <2>1
  <2>3. /\ UNCHANGED unacked
        /\ \A l \in Messages : InQueue(l) => InQueue(l)'
        /\ \A l \in Messages : InQueue(l)' => InQueue(l) \/ l = n
        /\ dropped \subseteq dropped'
        /\ InQueue(n)' \/ n.id \in dropped'
      BY <1>5, <2>2, PublishEffect
  <2> QED BY <2>1, <2>3
<1> QED BY <1>1, <1>2, <1>3, <1>4, <1>6 DEF PublishCreated, PublishesNew

LEMMA SystemFlow ==
    ASSUME TypeOK, [Next]_vars,
           ~ \E w \in Workers : SendFails(w),
           ~ \E r \in Requests : PublishCreated(r) /\ UNCHANGED consumerVars
    PROVE  MessageFlow
<1>1. CASE \E w \in Workers : HandlerStep(w) \/ \E m \in Messages : Receive(w, m)
    BY <1>1, HandlerFlow
<1>2. CASE UNCHANGED <<queue, unacked, hand>>
    BY <1>2 DEF MessageFlow, InQueue
<1>3. CASE \/ \E r \in Requests : ApiRequest(r) \/ ApiStep(r)
           \/ ApiFaults /\ UNCHANGED <<consumerVars, late>>
    BY <1>2, <1>3, ApiSparesBroker DEF ApiRequest, ApiStep, consumerVars
<1>4. CASE ConsumerFaults
    BY <1>4, WorkerFaultEffect DEF MessageFlow
<1>5. CASE \/ \E p \in Procs : StoreStep(p)
           \/ \E id \in Ids : StoreExpiry(id)
           \/ UNCHANGED vars
    BY <1>2, <1>5 DEF StoreStep, StoreExpiry, vars, brokerVars, consumerVars
<1>6. ASSUME NEW q \in Queues, NEW m \in Messages, Expiry(q, m) PROVE MessageFlow
    BY <1>6, DeadLetterEffect DEF Expiry, TypeOK, consumerVars, MessageFlow
<1> QED BY <1>1, <1>3, <1>4, <1>5, <1>6
        DEF Next, WorkerReceives, WorkerStep, Faults

(* A call other than a Save is on a public id.                             *)
LEMMA CallsArePublic ==
    ASSUME SystemInv, [Next]_vars, NEW p \in Procs,
           call'[p].op \in {"GetByID", "Update", "Delete"}
    PROVE  Public(call[p].id)'
<1> USE Participants
<1>0. /\ TypeOK /\ RepoInv /\ RepoTypeOK /\ RepoTypeOK' /\ IdsArePublic
      /\ SaveIsAlone /\ \A i \in Ids : Stable(i)
    BY StoreHolds DEF SystemInv, RepoInv, CallerInv
<1>1. SUFFICES \/ call'[p].op = call[p].op /\ call'[p].id = call[p].id
               \/ \E i \in Ids : Public(i) /\ call'[p].id = i
  <2>1. ASSUME NEW i \in Ids, Public(i), call'[p].id = i
        PROVE  Public(call[p].id)'
    <3>1. Public(i)'
        BY <1>0, <2>1 DEF Stable
    <3> QED BY <2>1, <3>1 DEF Public
  <2>2. ASSUME call'[p].op = call[p].op, call'[p].id = call[p].id
        PROVE  call[p].id \in Ids /\ Public(call[p].id)
    <3>1. Public(call[p].id)
        BY <1>0, <2>2 DEF IdsArePublic
    <3>2. call[p].id \in Ids
        BY <1>0, <2>2 DEF SaveIsAlone, RepoTypeOK
    <3> QED BY <3>1, <3>2
  <2> QED BY <2>1, <2>2
<1>2. ASSUME NEW q \in Procs, Return(q)
      PROVE  call'[p] = call[p]
    BY <1>0, <1>2 DEF Return, RepoTypeOK, NoCall
<1>3. ASSUME NEW q \in Procs, NEW i \in Ids, Public(i), NEW row,
             CallGetByID(q, i) \/ CallUpdate(q, i, row) \/ CallDelete(q, i)
      PROVE  call'[p] = call[p] \/ (Public(i) /\ call'[p].id = i)
    BY <1>0, <1>3 DEF CallGetByID, CallUpdate, CallDelete, Begin, RepoTypeOK
<1>4. ASSUME NEW w \in Workers, wpc[w] = "sending"
      PROVE  hand[w].id \in Ids /\ Public(hand[w].id)
    BY <1>0, <1>4, NoMessageIsNone DEF TypeOK, ConsumerTypeOK, IdsArePublic
<1>5. ASSUME NEW w \in Workers, NEW m \in Messages, Receive(w, m)
      PROVE  m.id \in Ids /\ Public(m.id)
    BY <1>0, <1>5, DeliverEffect, NoMessageIsNone DEF Receive, TypeOK, IdsArePublic
<1>6. CASE \E w \in Workers : HandlerStep(w) \/ \E m \in Messages : Receive(w, m)
  <2>1. ASSUME NEW w \in Workers, NEW m \in Messages, Receive(w, m)
        PROVE  call'[p] = call[p] \/ \E i \in Ids : Public(i) /\ call'[p].id = i
      BY <1>3, <1>5, <2>1 DEF Receive
  <2>2. ASSUME NEW w \in Workers, Skip(w) \/ Proceed(w) \/ Recorded(w)
        PROVE  call'[p] = call[p]
      BY <1>2, <2>2 DEF Skip, Proceed, Recorded
  <2>3. ASSUME NEW w \in Workers, SendOk(w) \/ SendFailsFinally(w)
        PROVE  call'[p] = call[p] \/ \E i \in Ids : Public(i) /\ call'[p].id = i
      BY <1>3, <1>4, <2>3 DEF SendOk, SendFailsFinally, Sends
  <2>4. ASSUME NEW w \in Workers,
               \/ SendFails(w) \/ PublishRetry(w) \/ PublishRetryFails(w)
               \/ AckRetried(w) \/ StopWorker(w)
        PROVE  call'[p] = call[p]
      BY <2>4 DEF SendFails, PublishRetry, PublishRetryFails, AckRetried, StopWorker
  <2> QED BY <1>6, <2>1, <2>2, <2>3, <2>4 DEF HandlerStep
<1>7. CASE \E r \in Requests : RequestStep(r) \/ NewRequest(r)
  <2>1. ASSUME NEW r \in Requests, NEW id \in Ids, BeginCreate(r, id)
        PROVE  call'[p] = call[p]
      BY <1>0, <2>1 DEF BeginCreate, CallSave, Begin, RepoTypeOK
  <2>2. ASSUME NEW r \in Requests, NEW id \in known, BeginGet(r, id) \/ BeginCancel(r, id)
        PROVE  call'[p] = call[p] \/ \E i \in Ids : Public(i) /\ call'[p].id = i
    <3>1. id \in Ids /\ Public(id)
        BY <1>0 DEF IdsArePublic, TypeOK, ApiTypeOK
    <3> QED BY <1>3, <2>2, <3>1 DEF BeginGet, BeginCancel
  <2>3. ASSUME NEW r \in Requests, CancelProceeds(r)
        PROVE  call'[p] = call[p] \/ \E i \in Ids : Public(i) /\ call'[p].id = i
    <3>1. call[r].id \in Ids /\ Public(call[r].id)
        BY <1>0, <2>3 DEF CancelProceeds, Returned, IdsArePublic, RepoTypeOK
    <3> QED BY <1>3, <2>3, <3>1 DEF CancelProceeds
  <2>4. ASSUME NEW r \in Requests,
               \/ CreateFails(r) \/ PublishCreated(r) \/ PublishCreatedFails(r)
               \/ CreateEnds(r) \/ EndGet(r) \/ CancelRefused(r) \/ CancelEnds(r)
        PROVE  call'[p] = call[p]
      BY <1>2, <2>4 DEF CreateFails, PublishCreated, PublishCreatedFails, Rejects,
                        CreateEnds, EndGet, CancelRefused, CancelEnds, Respond
  <2> QED BY <1>7, <2>1, <2>2, <2>3, <2>4 DEF RequestStep, NewRequest
<1>8. ASSUME NEW q \in Procs, StoreStep(q)
      PROVE  call'[p].op = call[p].op /\ call'[p].id = call[p].id
    BY <1>0, <1>8, StepEffect DEF StoreStep
<1>9. ASSUME NEW P \in SUBSET Procs, CrashCalls(P) PROVE call'[p] = call[p]
    BY <1>9 DEF CrashCalls, NoCall
<1>10. CASE Faults
    BY <1>9, <1>10
    DEF Faults, ConsumerFaults, ApiFaults, ChannelCloses, ConnectionCloses,
        PoolContextDone, StopHooksRun, WorkerProcessRestarts, PublisherCloses,
        ClientDisconnects, ApiProcessRestarts, ContextsDone, CacheCloses,
        StoresClose, SetContexts, repoVars
<1>11. CASE \/ \E id \in Ids : StoreExpiry(id)
            \/ \E q \in Queues, m \in Messages : Expiry(q, m)
            \/ UNCHANGED vars
    BY <1>11 DEF StoreExpiry, CacheExpire, Expiry, vars, repoVars
<1> QED BY <1>6, <1>7, <1>8, <1>10, <1>11
        DEF Next, WorkerReceives, WorkerStep, ApiStep, ApiRequest

LEMMA PublishedEffect ==
    ASSUME [Next]_vars,
           ~ \E r \in Requests : PublishCreated(r) /\ UNCHANGED consumerVars
    PROVE  published' = published
<1>1. CASE \/ \E r \in Requests : ApiRequest(r) \/ ApiStep(r)
           \/ ApiFaults
    BY <1>1, ApiSparesBroker DEF ApiRequest, ApiStep
<1>2. CASE UNCHANGED apiVars
    BY <1>2 DEF apiVars, histories
<1>3. CASE UNCHANGED vars
    BY <1>2, <1>3 DEF vars
<1> QED BY <1>1, <1>2, <1>3
        DEF Next, WorkerReceives, WorkerStep, StoreStep, StoreExpiry, Expiry, Faults

(* A client learns an id only from the answer that is due to it, and what  *)
(* makes an answer due is the publish.                                     *)
LEMMA AnswerEffect ==
    ASSUME TypeOK, [Next]_vars
    PROVE  /\ \/ known' = known
              \/ \E r \in Requests :
                    rpc[r] = "answering" /\ known' = known \cup {answer[r]}
           /\ \A r \in Requests :
                 rpc'[r] = "answering" =>
                    \/ rpc[r] = "answering" /\ answer'[r] = answer[r]
                    \/ /\ PublishCreated(r) /\ UNCHANGED consumerVars
                       /\ answer'[r] = call[r].id
<1> USE DEF TypeOK, ApiTypeOK
<1>1. ASSUME NEW q \in Requests,
             \/ \E from, to : AsksStore(q, from, to) /\ to # "answering"
             \/ CreateFails(q) \/ PublishCreatedFails(q) \/ CreateEnds(q)
             \/ EndGet(q) \/ CancelRefused(q) \/ CancelEnds(q)
      PROVE  /\ known' = known
                \/ (rpc[q] = "answering" /\ known' = known \cup {answer[q]})
             /\ \A r \in Requests : rpc'[r] = "answering" =>
                   rpc[r] = "answering" /\ answer'[r] = answer[r]
    BY <1>1 DEF AsksStore, CreateFails, PublishCreatedFails, Rejects, CreateEnds, EndGet,
                CancelRefused, CancelEnds, Respond, Continue, histories
<1>2. ASSUME NEW q \in Requests, NewRequest(q) \/ CancelProceeds(q)
      PROVE  \E from, to : AsksStore(q, from, to) /\ to # "answering"
    BY <1>2 DEF NewRequest, BeginCreate, BeginGet, BeginCancel, CancelProceeds
<1>3. ASSUME NEW q \in Requests, PublishCreated(q)
      PROVE  /\ known' = known
             /\ \A r \in Requests : rpc'[r] = "answering" =>
                   \/ rpc[r] = "answering" /\ answer'[r] = answer[r]
                   \/ r = q /\ answer'[r] = call[r].id
    BY <1>3 DEF PublishCreated, Continue
<1>4. ASSUME NEW q \in Requests, ApiRequest(q) \/ ApiStep(q)
      PROVE  /\ \/ known' = known
                \/ (rpc[q] = "answering" /\ known' = known \cup {answer[q]})
             /\ \A r \in Requests :
                   rpc'[r] = "answering" =>
                      \/ rpc[r] = "answering" /\ answer'[r] = answer[r]
                      \/ /\ PublishCreated(r) /\ UNCHANGED consumerVars
                         /\ answer'[r] = call[r].id
    BY <1>1, <1>2, <1>3, <1>4 DEF ApiRequest, ApiStep, RequestStep
<1>5. CASE ApiFaults
    BY <1>5 DEF ApiFaults, ClientDisconnects, ApiProcessRestarts, apiVars, histories
<1>6. CASE UNCHANGED apiVars
    BY <1>6 DEF apiVars, histories
<1> QED BY <1>4, <1>5, <1>6
        DEF Next, WorkerReceives, WorkerStep, StoreStep, StoreExpiry, Expiry, Faults, vars

(* SendFails: the message in hand is the one there was, one attempt later. *)
LEMMA SendFailsEffect ==
    ASSUME TypeOK, NEW w \in Workers, SendFails(w), NEW m, m = hand[w]
    PROVE  /\ m \in Messages
           /\ hand'[w] = [id |-> m.id, attempts |-> m.attempts + 1]
           /\ hand'[w] \in Messages
           /\ \A v \in Workers \ {w} : hand'[v] = hand[v]
           /\ sends'[m.id] = sends[m.id] + 1
           /\ UNCHANGED <<brokerVars, call, db, cache, excuse, delivered>>
<1> USE DEF SendFails, Sends, KeepStore, TypeOK, ConsumerTypeOK
<1>1. m \in Messages
    OBVIOUS
<1>2. hand'[w] = [m EXCEPT !.attempts = @ + 1]
    OBVIOUS
<1>3. hand'[w] = [id |-> m.id, attempts |-> m.attempts + 1]
    BY <1>1, <1>2 DEF Messages
<1>4. hand'[w] \in Messages
    BY <1>1, <1>3, MaxRetriesAssumption DEF Messages
<1>5. delivered' = delivered
    BY <1>1, NoMessageIsNone
<1> QED BY <1>1, <1>3, <1>4, <1>5, NoMessageIsNone

LEMMA SendFailsAlone ==
    ASSUME SystemInv, NEW w \in Workers, SendFails(w),
           NEW r \in Requests, PublishCreated(r)
    PROVE  FALSE
<1>1. call'[r] = NoCall /\ call[r].step = "done"
    BY Participants DEF PublishCreated, Return, Returned, SystemInv,
                        RepoInv, RepoTypeOK
<1>2. UNCHANGED call
    BY DEF SendFails
<1> QED BY <1>1, <1>2 DEF NoCall

LEMMA PublishedGrow ==
    ASSUME SystemInv, [Next]_vars
    PROVE  published \subseteq published'
<1>1. ASSUME NEW r \in Requests, PublishCreated(r) PROVE published \subseteq published'
    BY <1>1 DEF PublishCreated, PublishesNew
<1> QED BY <1>1, PublishedEffect

LEMMA PublicHolds ==
    ASSUME SystemInv, [Next]_vars
    PROVE  IdsArePublic'
<1>0. /\ TypeOK /\ IdsArePublic /\ TypeOK'
      /\ \A i \in Ids : Public(i) => Public(i)'
    BY StoreHolds, TypesHold DEF SystemInv, Stable
<1>1. /\ \A id \in published : id \in Ids /\ Public(id)'
      /\ \A m \in Messages : InQueue(m) => Public(m.id)'
      /\ \A w \in Workers : hand[w] \in Messages => Public(hand[w].id) /\ hand[w].id \in Ids
      /\ \A m \in Messages, w \in Workers : hand[w] = m => Public(m.id)'
      /\ \A m \in Messages, w \in Workers : unacked[w] = m => Public(m.id)'
  <2>1. \A m \in Messages, w \in Workers : hand[w] = m => Public(m.id)
      BY <1>0, NoMessageIsNone DEF IdsArePublic
  <2>2. \A m \in Messages, w \in Workers : unacked[w] = m => Public(m.id)
    <3>1. ASSUME NEW m \in Messages, NEW w \in Workers, unacked[w] = m
          PROVE  hand[w] \in Messages /\ hand[w].id = m.id
        BY <1>0, <3>1, NoMessageIsNone
        DEF SystemInv, HandIsConsistent, TypeOK, ConsumerTypeOK
    <3> QED BY <2>1, <3>1
  <2> QED BY <1>0, <2>1, <2>2, NoMessageIsNone DEF IdsArePublic, TypeOK, ApiTypeOK
<1>2. /\ \A id \in published' : Public(id)'
      /\ \A m \in Messages : InQueue(m)' => Public(m.id)'
      /\ \A w \in Workers, m \in Messages : hand'[w] = m => Public(m.id)'
  <2>1. ASSUME NEW w \in Workers, SendFails(w)
        PROVE  /\ \A m \in Messages : InQueue(m)' => InQueue(m)
               /\ \A v \in Workers, m \in Messages : hand'[v] = m => Public(m.id)'
    <3>1. PICK n \in Messages : n = hand[w]
        BY <1>0, <2>1, SendFailsEffect
    <3>2. /\ hand'[w] = [id |-> n.id, attempts |-> n.attempts + 1]
          /\ \A v \in Workers \ {w} : hand'[v] = hand[v]
          /\ UNCHANGED brokerVars
        BY <1>0, <2>1, <3>1, SendFailsEffect
    <3>3. hand'[w].id = n.id /\ UNCHANGED queue
        BY <3>2 DEF brokerVars
    <3> QED BY <1>1, <3>1, <3>2, <3>3 DEF InQueue
  <2>2. ASSUME NEW r \in Requests, PublishCreated(r), UNCHANGED consumerVars
        PROVE  /\ \A id \in published' : Public(id)'
               /\ \A m \in Messages : InQueue(m)' => Public(m.id)'
               /\ UNCHANGED hand
    <3>1. PICK id \in Ids : id = call[r].id
        BY <2>2, CreatedEffect
    <3>2. /\ db[id] # NoRow
          /\ \A p \in Procs : call'[p].op = "Save" => call'[p].id # id
          /\ published' = published \cup {id}
          /\ \A m \in Messages : InQueue(m)' => InQueue(m) \/ m.id = id
        BY <2>2, <3>1, CreatedEffect
    <3>3. UNCHANGED db
        BY <2>2 DEF PublishCreated
    <3>4. Public(id)'
        BY <3>2, <3>3 DEF Public
    <3> QED BY <1>1, <2>2, <3>2, <3>4 DEF consumerVars
  <2>3. CASE /\ ~ \E w \in Workers : SendFails(w)
             /\ ~ \E r \in Requests : PublishCreated(r) /\ UNCHANGED consumerVars
      BY <1>0, <1>1, <2>3, SystemFlow, PublishedEffect, NoMessageIsNone DEF MessageFlow
  <2>4. ASSUME NEW w \in Workers, SendFails(w)
        PROVE  published' = published
      BY <2>4, SendFailsAlone, PublishedEffect
  <2> QED BY <1>1, <2>1, <2>2, <2>3, <2>4
<1>3. known' \subseteq published'
  <2>1. \/ known' = known
        \/ \E r \in Requests : rpc[r] = "answering" /\ known' = known \cup {answer[r]}
      BY <1>0, AnswerEffect
  <2>2. known' \subseteq published
      BY <1>0, <2>1 DEF IdsArePublic, SystemInv, AnswersAreReady
  <2> QED BY <2>2, PublishedGrow
<1> QED BY <1>0, <1>2, <1>3, CallsArePublic DEF IdsArePublic, TypeOK, ConsumerTypeOK

LEMMA AnsweringCallsNobody ==
    ASSUME TypeOK, RepoInv, [Next]_vars, NEW r \in Requests,
           rpc[r] = "answering", rpc'[r] = "answering", call[r] = NoCall
    PROVE  call'[r] = NoCall
<1> USE Participants DEF TypeOK, RepoTypeOK, ApiTypeOK
<1>1. ASSUME NEW w \in Workers, HandlerStep(w) \/ \E m \in Messages : Receive(w, m)
      PROVE  call'[r] = NoCall
    BY <1>1 DEF HandlerStep, Receive, Skip, Proceed, SendOk, SendFailsFinally,
                SendFails, Recorded, PublishRetry, PublishRetryFails, AckRetried,
                StopWorker, CallGetByID, CallUpdate, Begin, Return
<1>2. ASSUME NEW q \in Requests, NewRequest(q) \/ RequestStep(q)
      PROVE  call'[r] = NoCall
  <2>1. CASE q = r
      BY <1>2, <2>1 DEF NewRequest, BeginCreate, BeginGet, BeginCancel, AsksStore,
            RequestStep, CreateFails, PublishCreated, PublishCreatedFails,
            CreateEnds, EndGet, CancelRefused, CancelProceeds, CancelEnds,
            Respond, Continue
  <2>2. CASE q # r
      BY <1>2, <2>2 DEF NewRequest, BeginCreate, BeginGet, BeginCancel, RequestStep,
            CreateFails, PublishCreated, PublishCreatedFails, Rejects, CreateEnds,
            EndGet, CancelRefused, CancelProceeds, CancelEnds, Respond, Return,
            CallSave, CallGetByID, CallDelete, Begin
  <2> QED BY <2>1, <2>2
<1>3. ASSUME NEW p \in Procs, StoreStep(p) PROVE call'[r] = NoCall
  <2>1. p # r
      BY <1>3, StepEffect DEF StoreStep, NoCall
  <2> QED BY <1>3, <2>1, StepEffect DEF StoreStep
<1>4. ASSUME NEW P, CrashCalls(P) PROVE call'[r] = NoCall
    BY <1>4 DEF CrashCalls
<1>5. CASE UNCHANGED call
    BY <1>5
<1>6. CASE Faults
    BY <1>4, <1>5, <1>6
    DEF Faults, ConsumerFaults, ApiFaults, ChannelCloses, ConnectionCloses,
        PoolContextDone, StopHooksRun, WorkerProcessRestarts, PublisherCloses,
        ClientDisconnects, ApiProcessRestarts, ContextsDone, CacheCloses,
        StoresClose, SetContexts, repoVars
<1>7. CASE \/ \E id \in Ids : StoreExpiry(id)
           \/ \E q \in Queues, m \in Messages : Expiry(q, m)
           \/ UNCHANGED vars
    BY <1>5, <1>7 DEF StoreExpiry, CacheExpire, Expiry, vars, repoVars
<1> QED BY <1>1, <1>2, <1>3, <1>6, <1>7
        DEF Next, WorkerReceives, WorkerStep, ApiStep, ApiRequest

LEMMA AnswersHold ==
    ASSUME SystemInv, [Next]_vars
    PROVE  AnswersAreReady'
<1>0. TypeOK /\ RepoInv /\ AnswersAreReady
    BY DEF SystemInv
<1> SUFFICES ASSUME NEW r \in Requests, rpc'[r] = "answering"
             PROVE  answer'[r] \in published' /\ call'[r] = NoCall
    BY DEF AnswersAreReady
<1>1. CASE PublishCreated(r) /\ answer'[r] = call[r].id
  <2>1. PICK id : id = call[r].id
      OBVIOUS
  <2> QED BY <1>1, <2>1, CreatedEffect
<1>2. CASE rpc[r] = "answering" /\ answer'[r] = answer[r]
    BY <1>0, <1>2, AnsweringCallsNobody, PublishedGrow DEF AnswersAreReady
<1> QED BY <1>0, <1>1, <1>2, AnswerEffect

(* Failures are never forgotten, nor are deliveries.                       *)
FailuresOf(i, n) == sends[i] >= delivered[i] + n
LEMMA SendsEffect ==
    ASSUME SystemInv, [Next]_vars, NEW i \in Ids
    PROVE  /\ \A n \in Nat : FailuresOf(i, n) => FailuresOf(i, n)'
           /\ delivered'[i] >= delivered[i]
<1>0. TypeOK
    BY DEF SystemInv
<1> USE DEF FailuresOf
<1>1. ASSUME NEW w \in Workers, NEW outcome \in {0, 1}, Sends(w, outcome)
      PROVE  /\ \A n \in Nat : FailuresOf(i, n) => FailuresOf(i, n)'
             /\ delivered'[i] >= delivered[i]
    BY <1>0, <1>1 DEF Sends, TypeOK, ConsumerTypeOK
<1>2. CASE UNCHANGED <<sends, delivered>>
    BY <1>0, <1>2 DEF TypeOK, ConsumerTypeOK
<1>3. ASSUME NEW w \in Workers, HandlerStep(w) \/ \E m \in Messages : Receive(w, m)
      PROVE  \/ UNCHANGED <<sends, delivered>>
             \/ \E outcome \in {0, 1} : Sends(w, outcome)
    BY <1>3 DEF HandlerStep, Receive, Skip, Proceed, SendOk, SendFailsFinally,
                SendFails, Recorded, PublishRetry, PublishRetryFails,
                AckRetried, StopWorker, KeepSends
<1>4. ConsumerFaults => UNCHANGED <<sends, delivered>>
    BY <1>0, WorkerFaultEffect
<1> QED BY <1>1, <1>2, <1>3, <1>4
        DEF Next, WorkerReceives, WorkerStep, ApiStep, ApiRequest, StoreStep,
            StoreExpiry, Expiry, Faults, vars, consumerVars

LEMMA BackedHolds ==
    ASSUME SystemInv, [Next]_vars
    PROVE  AttemptsAreBacked'
<1>0. TypeOK /\ TypeOK' /\ AttemptsAreBacked
    BY TypesHold DEF SystemInv
<1>1. ASSUME NEW m \in Messages, Backed(m) PROVE Backed(m)'
    BY <1>1, SendsEffect DEF Backed, FailuresOf, Messages
<1>2. \A m \in Messages :
        \/ InQueue(m) \/ \E w \in Workers : unacked[w] = m \/ hand[w] = m
        => Backed(m)'
    BY <1>0, <1>1, NoMessageIsNone DEF AttemptsAreBacked
<1>3. SUFFICES \A m \in Messages :
        \/ InQueue(m)' \/ \E w \in Workers : unacked'[w] = m \/ hand'[w] = m
        => Backed(m)'
  <2>1. /\ \A w \in Workers : unacked'[w] # NoMessage => unacked'[w] \in Messages
        /\ \A w \in Workers : hand'[w] # NoMessage => hand'[w] \in Messages
      BY <1>0 DEF TypeOK, BrokerTypeOK, ConsumerTypeOK
  <2>2. \A i \in Ids : sends'[i] >= delivered'[i]
    <3>1. ASSUME NEW i \in Ids PROVE sends'[i] >= delivered'[i]
      <4>1. FailuresOf(i, 0) => FailuresOf(i, 0)'
          BY SendsEffect
      <4> QED BY <1>0, <4>1 DEF FailuresOf, AttemptsAreBacked, TypeOK, ConsumerTypeOK
    <3> QED BY <3>1
  <2> QED BY <1>3, <2>1, <2>2 DEF AttemptsAreBacked, Backed
<1>4. ASSUME NEW w \in Workers, SendFails(w)
      PROVE  \A m \in Messages :
                \/ InQueue(m)' \/ \E v \in Workers : unacked'[v] = m \/ hand'[v] = m
                => Backed(m)'
  <2>1. PICK n \in Messages : n = hand[w]
      BY <1>0, <1>4, SendFailsEffect
  <2>2. /\ hand'[w] = [id |-> n.id, attempts |-> n.attempts + 1]
        /\ \A v \in Workers \ {w} : hand'[v] = hand[v]
        /\ sends'[n.id] = sends[n.id] + 1
        /\ UNCHANGED <<brokerVars, delivered>>
      BY <1>0, <1>4, <2>1, SendFailsEffect
  <2>3. Backed(n)
      BY <1>0, <2>1, NoMessageIsNone DEF AttemptsAreBacked
  <2>4. ASSUME NEW m \in Messages, hand'[w] = m PROVE Backed(m)'
    <3>1. m.id = n.id /\ m.attempts = n.attempts + 1 /\ n.attempts \in Nat
        BY <2>2, <2>4 DEF Messages
    <3> QED BY <1>0, <2>2, <2>3, <3>1, NoMessageIsNone
            DEF Backed, TypeOK, ConsumerTypeOK
  <2> QED BY <1>2, <2>2, <2>4 DEF brokerVars, InQueue
<1>5. ASSUME NEW r \in Requests, PublishCreated(r), UNCHANGED consumerVars
      PROVE  \A m \in Messages :
                \/ InQueue(m)' \/ \E v \in Workers : unacked'[v] = m \/ hand'[v] = m
                => Backed(m)'
  <2>1. PICK id \in Ids : id = call[r].id
      BY <1>5, CreatedEffect
  <2>2. /\ \A m \in Messages : InQueue(m)' => InQueue(m) \/ (m.id = id /\ m.attempts = 0)
        /\ UNCHANGED unacked
      BY <1>5, <2>1, CreatedEffect
  <2>3. ASSUME NEW m \in Messages, m.attempts = 0 PROVE Backed(m)'
    <3>1. sends[m.id] >= delivered[m.id]
        BY <1>0, NoMessageIsNone DEF AttemptsAreBacked
    <3>2. Backed(m)
        BY <1>0, <2>3, <3>1, NoMessageIsNone DEF Backed, TypeOK, ConsumerTypeOK
    <3> QED BY <1>1, <3>2
  <2> QED BY <1>2, <1>5, <2>2, <2>3 DEF consumerVars
<1>6. CASE /\ ~ \E w \in Workers : SendFails(w)
           /\ ~ \E r \in Requests : PublishCreated(r) /\ UNCHANGED consumerVars
    BY <1>0, <1>2, <1>6, SystemFlow, NoMessageIsNone DEF MessageFlow
<1> QED BY <1>4, <1>5, <1>6

-----------------------------------------------------------------------------
(* OutcomesAreEarned.                                                      *)

(* Only a worker that has called Send begins an Update.                    *)
LEMMA UpdatesBegin ==
    ASSUME SystemInv, [Next]_vars, NEW p \in Procs,
           call'[p].step = "dbUpdate", call'[p] # call[p]
    PROVE  \E w \in Workers : SendOk(w) \/ SendFailsFinally(w)
<1> SUFFICES ASSUME ~ \E w \in Workers : SendOk(w) \/ SendFailsFinally(w)
             PROVE  FALSE
    OBVIOUS
<1>0. RepoInv /\ RepoTypeOK /\ TypeOK
    BY DEF SystemInv, RepoInv
<1>1. ASSUME NEW q \in Procs, Return(q) PROVE FALSE
    BY <1>0, <1>1 DEF Return, RepoTypeOK, NoCall
<1>2. ASSUME NEW q \in Procs, NEW i,
             CallGetByID(q, i) \/ CallDelete(q, i) \/ CallSave(q, i)
      PROVE  FALSE
    BY <1>0, <1>2 DEF CallGetByID, CallDelete, CallSave, Begin, RepoTypeOK
<1>3. ASSUME NEW w \in Workers, HandlerStep(w) \/ \E m \in Messages : Receive(w, m)
      PROVE  FALSE
    BY <1>1, <1>2, <1>3, Participants
    DEF HandlerStep, Receive, Skip, Proceed, SendFails, Recorded, PublishRetry,
        PublishRetryFails, AckRetried, StopWorker
<1>4. ASSUME NEW r \in Requests, NewRequest(r) \/ RequestStep(r) PROVE FALSE
    BY <1>1, <1>2, <1>4, Participants
    DEF NewRequest, BeginCreate, BeginGet, BeginCancel, RequestStep, CreateFails,
        PublishCreated, PublishCreatedFails, Rejects, CreateEnds, EndGet,
        CancelRefused, CancelProceeds, CancelEnds, Respond
<1>5. ASSUME NEW q \in Procs, StoreStep(q) PROVE FALSE
    BY <1>0, <1>5, StepEffect DEF StoreStep
<1>6. ASSUME NEW P, CrashCalls(P) PROVE FALSE
    BY <1>6 DEF CrashCalls, NoCall
<1>7. CASE UNCHANGED call
    BY <1>7
<1>8. CASE Faults
    BY <1>6, <1>7, <1>8
    DEF Faults, ConsumerFaults, ApiFaults, ChannelCloses, ConnectionCloses,
        PoolContextDone, StopHooksRun, WorkerProcessRestarts, PublisherCloses,
        ClientDisconnects, ApiProcessRestarts, ContextsDone, CacheCloses,
        StoresClose, SetContexts, repoVars
<1>9. CASE \/ \E id \in Ids : StoreExpiry(id)
           \/ \E q \in Queues, m \in Messages : Expiry(q, m)
           \/ UNCHANGED vars
    BY <1>7, <1>9 DEF StoreExpiry, CacheExpire, Expiry, vars, repoVars
<1> QED BY <1>3, <1>4, <1>5, <1>8, <1>9
        DEF Next, WorkerReceives, WorkerStep, ApiStep, ApiRequest

(* What Send's result justifies.                                           *)
LEMMA SendEarns ==
    ASSUME SystemInv, NEW w \in Workers, SendOk(w) \/ SendFailsFinally(w)
    PROVE  /\ call'[w].id \in Ids /\ Earned(call[w].id, call[w].row)'
           /\ \A p \in Procs \ {w} : call'[p] = call[p]
           /\ UNCHANGED db
<1> USE Participants
<1>0. TypeOK /\ RepoTypeOK /\ AttemptsAreBacked
    BY DEF SystemInv, RepoInv
<1>1. PICK m \in Messages : m = hand[w]
    BY <1>0 DEF SendOk, SendFailsFinally, Sends, TypeOK, ConsumerTypeOK
<1>2. m.id \in Ids /\ m.attempts \in Nat /\ Backed(m)
    BY <1>0, <1>1, NoMessageIsNone DEF AttemptsAreBacked, Messages
<1>3. CASE SendOk(w)
  <2>1. delivered'[m.id] = delivered[m.id] + 1
      BY <1>0, <1>1, <1>2, <1>3 DEF SendOk, Sends, TypeOK, ConsumerTypeOK
  <2>2. /\ call'[w].id = m.id /\ call'[w].row = SentRow(m.attempts)
        /\ \A p \in Procs \ {w} : call'[p] = call[p]
      BY <1>0, <1>1, <1>3 DEF SendOk, CallUpdate, Begin, RepoTypeOK
  <2>3. UNCHANGED db
      BY <1>3 DEF SendOk, Sends, KeepStore
  <2> QED BY <1>0, <1>2, <2>1, <2>2, <2>3
          DEF Earned, SentRow, TypeOK, ConsumerTypeOK
<1>4. CASE SendFailsFinally(w)
  <2>1. /\ sends'[m.id] = sends[m.id] + 1 /\ delivered'[m.id] = delivered[m.id]
        /\ m.attempts + 1 >= MaxRetries
      BY <1>0, <1>1, <1>2, <1>4 DEF SendFailsFinally, Sends, TypeOK, ConsumerTypeOK
  <2>2. /\ call'[w].id = m.id /\ call'[w].row = FailedRow(m.attempts + 1)
        /\ \A p \in Procs \ {w} : call'[p] = call[p]
      BY <1>0, <1>1, <1>4 DEF SendFailsFinally, CallUpdate, Begin, RepoTypeOK
  <2>3. UNCHANGED db
      BY <1>4 DEF SendFailsFinally, Sends, KeepStore
  <2>4. sends'[m.id] >= delivered'[m.id] + MaxRetries
      BY <1>0, <1>2, <2>1, MaxRetriesAssumption DEF Backed, TypeOK, ConsumerTypeOK
  <2> QED BY <1>2, <2>2, <2>3, <2>4 DEF Earned, FailedRow
<1> QED BY <1>3, <1>4

LEMMA EarnedHolds ==
    ASSUME SystemInv, [Next]_vars
    PROVE  OutcomesAreEarned'
<1>0. /\ RepoInv /\ RepoTypeOK /\ TypeOK /\ OutcomesAreEarned
      /\ RepoTypeOK' /\ TypeOK'
    BY StoreHolds, TypesHold DEF SystemInv, RepoInv
<1>1. ASSUME NEW i \in Ids, NEW row, Earned(i, row)
      PROVE  /\ row.status = "sent" \/ row.sentAt => delivered'[i] > 0
             /\ row.status = "failed" => sends'[i] >= delivered'[i] + MaxRetries
  <2>1. delivered'[i] >= delivered[i] /\ delivered[i] \in Nat /\ delivered'[i] \in Nat
      BY <1>0, SendsEffect DEF TypeOK, ConsumerTypeOK
  <2>2. FailuresOf(i, MaxRetries) => FailuresOf(i, MaxRetries)'
      BY SendsEffect, MaxRetriesAssumption
  <2> QED BY <1>1, <2>1, <2>2 DEF Earned, FailuresOf
<1>2. ASSUME NEW p \in Procs, call'[p].step = "dbUpdate", call'[p] = call[p]
      PROVE  Earned(call[p].id, call[p].row)'
  <2>1. call[p].id \in Ids /\ Earned(call[p].id, call[p].row)
      BY <1>0, <1>2 DEF OutcomesAreEarned, RepoTypeOK
  <2> QED BY <1>1, <1>2, <2>1 DEF Earned
<1>3. ASSUME NEW i \in Ids, db'[i] = db[i] PROVE Earned(i, db[i])'
    BY <1>0, <1>1, <1>3 DEF OutcomesAreEarned, Earned
<1>4. ASSUME NEW w \in Workers, SendOk(w) \/ SendFailsFinally(w)
      PROVE  OutcomesAreEarned'
    BY <1>2, <1>3, <1>4, SendEarns, Participants DEF OutcomesAreEarned
<1>5. CASE ~ \E w \in Workers : SendOk(w) \/ SendFailsFinally(w)
  <2>1. \A p \in Procs :
            call'[p].step = "dbUpdate" => Earned(call[p].id, call[p].row)'
      BY <1>2, <1>5, UpdatesBegin
  <2>2. CASE UNCHANGED db
      BY <1>3, <2>1, <2>2 DEF OutcomesAreEarned
  <2>3. ASSUME NEW p \in Procs, RepositoryStep(p) PROVE OutcomesAreEarned'
    <3>1. PICK id \in Ids : id = call[p].id
        BY <1>0, <2>3, StepEffect
    <3>2. \A i \in Ids \ {id} : db'[i] = db[i]
        BY <1>0, <2>3, <3>1, StepEffect
    <3>3. \/ db'[id] = db[id]
          \/ db'[id] = NewRow
          \/ call[p].step = "dbUpdate" /\ db'[id] = call[p].row
          \/ db[id] # NoRow /\ db'[id] = Cancelled(db[id])
        BY <1>0, <2>3, <3>1, StepEffect
    <3>4. Earned(id, db[id])'
      <4>1. CASE db'[id] = db[id]
          BY <1>3, <4>1
      <4>2. CASE db'[id] = NewRow
          BY <4>2 DEF Earned, NewRow
      <4>3. CASE call[p].step = "dbUpdate" /\ db'[id] = call[p].row
        <5>1. Earned(id, call[p].row)
            BY <1>0, <3>1, <4>3 DEF OutcomesAreEarned
        <5> QED BY <1>1, <4>3, <5>1 DEF Earned
      <4>4. CASE db[id] # NoRow /\ db'[id] = Cancelled(db[id])
        <5>1. db[id] \in Rows /\ Earned(id, db[id])
            BY <1>0, <4>4 DEF RepoTypeOK, OutcomesAreEarned
        <5>2. db'[id].sentAt = db[id].sentAt /\ db'[id].status = "cancelled"
            BY <4>4, <5>1 DEF Cancelled, Rows
        <5> QED BY <1>1, <5>1, <5>2 DEF Earned
      <4> QED BY <3>3, <4>1, <4>2, <4>3, <4>4
    <3> QED BY <1>3, <2>1, <3>2, <3>4 DEF OutcomesAreEarned
  <2>4. CASE Quiet
      BY <2>2, <2>4 DEF Quiet
  <2>5. [RepoNext]_<<repoVars, faults>>
      BY SystemUsesRepository DEF SystemInv
  <2> QED BY <1>0, <2>2, <2>3, <2>4, <2>5, OtherEffect DEF CacheExpire
<1> QED BY <1>4, <1>5

-----------------------------------------------------------------------------
(* ScheduledIsHeld.                                                        *)

(* What becomes of a notification whose message the broker holds.          *)
Kept(id) == Held(id)' \/ id \in dropped' \/ Settled(db[id])

(* A successful lookup that shows an outcome, or a successful Update, says *)
(* that the table has one.                                                 *)
LEMMA SettledBefore ==
    ASSUME SystemInv, NEW w \in Workers, NEW id \in Ids, id = call[w].id,
           Succeeded(w),
           \/ Returned(w, "GetByID") /\ call[w].row.status # "scheduled"
           \/ Returned(w, "Update")
    PROVE  Settled(db[id])
<1> USE Participants DEF Returned
<1>0. ResultsHold /\ CacheNeverAhead
    BY DEF SystemInv, CallerInv, RepoInv
<1>1. CASE Returned(w, "GetByID") /\ call[w].row.status # "scheduled"
  <2>1. call[w].row \in Rows /\ ReadRow(w) = call[w].row
      BY <1>0, <1>1 DEF ResultsHold, ReadRow
  <2>2. Settled(ReadRow(w)) /\ ReadRow(w) # NoRow
      BY <1>1, <2>1, RowFacts DEF Rows, Statuses, Settled
  <2> QED BY <1>0, <2>2 DEF CacheNeverAhead
<1>2. CASE Returned(w, "Update")
    BY <1>0, <1>2 DEF ResultsHold
<1> QED BY <1>1, <1>2

(* The message in a worker's hand, as it leaves it.                        *)
LEMMA HandIsKept ==
    ASSUME SystemInv, NEW w \in Workers, NEW m \in Messages, unacked[w] = m,
           NEW id \in Ids, m.id = id, wpc[w] # "acking",
           HandlerStep(w) \/ \E n \in Messages : Receive(w, n)
    PROVE  Kept(id)
<1> USE Participants DEF Kept
<1>0. TypeOK /\ HandIsConsistent
    BY DEF SystemInv
<1>1. /\ hand[w].id = id /\ wpc[w] \notin {"idle", "stopped"}
      /\ hand[w] \in Messages
    BY <1>0, NoMessageIsNone DEF HandIsConsistent, TypeOK, ConsumerTypeOK
<1>2. ASSUME GiveBack({w}) PROVE Held(id)'
  <2>1. InQueue(m)'
      BY <1>0, <1>2, GiveBackEffect DEF TypeOK
  <2> QED BY <2>1 DEF Held
<1>3. CASE Skip(w)
  <2>1. id = call[w].id
      BY <1>0, <1>1, <1>3 DEF Skip, HandIsConsistent
  <2>2. CASE Succeeded(w)
      BY <1>3, <2>1, <2>2, SettledBefore DEF Skip
  <2>3. CASE ~ Succeeded(w)
      BY <1>1, <1>3, <2>3, NoMessageIsNone DEF Skip
  <2> QED BY <2>2, <2>3
<1>4. CASE Proceed(w) \/ SendOk(w) \/ SendFailsFinally(w) \/ SendFails(w)
  <2>1. UNCHANGED unacked /\ wpc'[w] # "acking"
      BY <1>0, <1>4 DEF Proceed, SendOk, SendFailsFinally, SendFails, Sends,
                        Resume, brokerVars, TypeOK, ConsumerTypeOK
  <2> QED BY <2>1 DEF Held
<1>5. CASE Recorded(w)
  <2>1. id = call[w].id
      BY <1>0, <1>1, <1>5 DEF Recorded, HandIsConsistent
  <2>2. CASE Succeeded(w)
      BY <1>5, <2>1, <2>2, SettledBefore DEF Recorded
  <2>3. CASE ~ Succeeded(w)
      BY <1>2, <1>5, <2>3 DEF Recorded, Requeue
  <2> QED BY <2>2, <2>3
<1>6. CASE PublishRetry(w)
  <2>1. PICK n \in Messages : n = hand[w]
      BY <1>1
  <2>2. Publish("worker", "retry", n) /\ n.id = id
      BY <1>1, <1>6, <2>1 DEF PublishRetry
  <2>3. InQueue(n)' \/ n.id \in dropped'
      BY <1>0, <2>2, PublishEffect DEF TypeOK, Publishers, Queues
  <2> QED BY <2>2, <2>3 DEF Held
<1>7. CASE PublishRetryFails(w)
    BY <1>2, <1>7 DEF PublishRetryFails, Requeue
<1>8. CASE AckRetried(w) \/ StopWorker(w) \/ \E n \in Messages : Receive(w, n)
    BY <1>1, <1>8 DEF AckRetried, StopWorker, Receive
<1> QED BY <1>3, <1>4, <1>5, <1>6, <1>7, <1>8 DEF HandlerStep

(* A worker's step leaves the queued messages queued, but for the one it   *)
(* receives, and forgets no id that was dropped.                           *)
LEMMA QueueIsKept ==
    ASSUME TypeOK, NEW w \in Workers,
           HandlerStep(w) \/ \E n \in Messages : Receive(w, n)
    PROVE  /\ dropped \subseteq dropped'
           /\ \A m \in Messages :
                 InQueue(m) => \/ InQueue(m)'
                               \/ unacked'[w] = m /\ wpc'[w] = "checking"
<1> USE Participants DEF TypeOK
<1>1. ASSUME NEW n \in Messages, Receive(w, n)
      PROVE  /\ dropped \subseteq dropped'
             /\ \A m \in Messages :
                   InQueue(m) => \/ InQueue(m)'
                                 \/ unacked'[w] = m /\ wpc'[w] = "checking"
    BY <1>1, DeliverEffect DEF Receive, Resume, ConsumerTypeOK
<1>2. CASE Skip(w) \/ AckRetried(w) \/ (Recorded(w) /\ Ack(w) /\ UNCHANGED dropped)
    BY <1>2 DEF Skip, AckRetried, Ack, InQueue
<1>3. CASE GiveBack({w})
    BY <1>3, GiveBackEffect
<1>4. CASE Proceed(w) \/ SendOk(w) \/ SendFailsFinally(w) \/ SendFails(w)
    BY <1>4 DEF Proceed, SendOk, SendFailsFinally, SendFails, Sends, brokerVars, InQueue
<1>5. CASE PublishRetry(w)
  <2>1. hand[w] \in Messages /\ Publish("worker", "retry", hand[w])
      BY <1>5 DEF PublishRetry, ConsumerTypeOK
  <2> QED BY <2>1, PublishEffect DEF Publishers, Queues
<1> QED BY <1>1, <1>2, <1>3, <1>4, <1>5
        DEF HandlerStep, Recorded, Requeue, PublishRetryFails, StopWorker, SetChannels

LEMMA WorkerKeeps ==
    ASSUME SystemInv, NEW w \in Workers, NEW id \in Ids, Held(id),
           HandlerStep(w) \/ \E n \in Messages : Receive(w, n)
    PROVE  Kept(id)
<1>0. TypeOK
    BY DEF SystemInv
<1>1. ASSUME NEW m \in Messages, m.id = id, InQueue(m) PROVE Kept(id)
  <2>1. InQueue(m)' \/ (unacked'[w] = m /\ wpc'[w] = "checking")
      BY <1>0, <1>1, QueueIsKept
  <2> QED BY <1>1, <2>1 DEF Kept, Held
<1>2. ASSUME NEW v \in Workers, unacked[v].id = id, wpc[v] # "acking" PROVE Kept(id)
  <2>1. unacked[v] \in Messages
      BY <1>0, <1>2, NoIdAssumption DEF TypeOK, BrokerTypeOK, NoMessage
  <2>2. CASE v = w
      BY <1>2, <2>1, <2>2, HandIsKept
  <2>3. CASE v # w
    <3>1. StandsStill(v)
        BY <1>0, <2>3, OtherWorkers
    <3> QED BY <1>2, <3>1 DEF StandsStill, Kept, Held
  <2> QED BY <2>2, <2>3
<1> QED BY <1>1, <1>2 DEF Held

LEMMA HeldHolds ==
    ASSUME SystemInv, [Next]_vars
    PROVE  ScheduledIsHeld'
<1>0. TypeOK /\ RepoTypeOK' /\ \A i \in Ids : Stable(i)
    BY StoreHolds DEF SystemInv, RepoInv
<1>1. ASSUME NEW id \in published
      PROVE  /\ id \in Ids /\ db[id] \in Rows
             /\ Settled(db[id]) => db'[id].status # "scheduled"
             /\ id \in dropped \/ Held(id) \/ Settled(db[id])
  <2>1. id \in Ids /\ db[id] \in Rows
      BY <1>0 DEF SystemInv, IdsArePublic, Public, TypeOK, RepoTypeOK, ApiTypeOK
  <2>2. Settled(db[id]) => db'[id].status # "scheduled"
      BY <1>0, <2>1 DEF Stable, Settled, Outcomes
  <2>3. Settled(db[id]) \/ db[id].status = "scheduled"
      BY <2>1 DEF Rows, Statuses, Settled
  <2> QED BY <2>1, <2>2, <2>3 DEF SystemInv, ScheduledIsHeld
<1>2. ASSUME dropped \subseteq dropped', \A id \in Ids : Held(id) => Kept(id)
      PROVE  \A id \in published :
                db'[id].status = "scheduled" /\ id \notin dropped' => Held(id)'
    BY <1>1, <1>2 DEF Kept
<1>3. ASSUME NEW w \in Workers, HandlerStep(w) \/ \E m \in Messages : Receive(w, m)
      PROVE  dropped \subseteq dropped' /\ \A id \in Ids : Held(id) => Kept(id)
    BY <1>0, <1>3, WorkerKeeps, QueueIsKept
<1>4. ASSUME ConsumerFaults
      PROVE  dropped \subseteq dropped' /\ \A id \in Ids : Held(id) => Kept(id)
  <2>1. ASSUME NEW id \in Ids, NEW v \in Workers, unacked[v].id = id, wpc[v] # "acking"
        PROVE  Held(id)'
    <3>1. PICK m \in Messages : unacked[v] = m /\ m.id = id
        BY <1>0, <2>1, NoIdAssumption DEF TypeOK, BrokerTypeOK, NoMessage
    <3>2. \/ InQueue(m)'
          \/ unacked'[v] = m /\ wpc'[v] # "acking"
        BY <1>0, <1>4, <2>1, <3>1, WorkerFaultEffect, NoMessageIsNone
    <3> QED BY <3>1, <3>2 DEF Held
  <2>2. ASSUME NEW m \in Messages, InQueue(m) PROVE InQueue(m)'
      BY <1>0, <1>4, <2>2, WorkerFaultEffect
  <2>3. dropped' = dropped
      BY <1>0, <1>4, WorkerFaultEffect
  <2> QED BY <2>1, <2>2, <2>3 DEF Held, Kept
<1>5. ASSUME UNCHANGED <<queue, unacked, dropped, wpc>>
      PROVE  dropped \subseteq dropped' /\ \A id \in Ids : Held(id) => Kept(id)
    BY <1>5 DEF Held, Kept, InQueue
<1>6. ASSUME NEW q \in Queues, NEW m \in Messages, Expiry(q, m)
      PROVE  dropped \subseteq dropped' /\ \A id \in Ids : Held(id) => Kept(id)
    BY <1>0, <1>6, DeadLetterEffect DEF Expiry, TypeOK, consumerVars, Held, Kept
<1>7. ASSUME NEW r \in Requests, PublishCreated(r), UNCHANGED consumerVars
      PROVE  ScheduledIsHeld'
  <2>1. PICK id \in Ids : id = call[r].id
      BY <1>7, CreatedEffect
  <2>2. /\ published' = published \cup {id} /\ dropped \subseteq dropped'
        /\ UNCHANGED unacked
        /\ \A m \in Messages : InQueue(m) => InQueue(m)'
        /\ id \in dropped' \/ \E m \in Messages : m.id = id /\ InQueue(m)'
      BY <1>7, <2>1, CreatedEffect
  <2>3. \A i \in Ids : Held(i) => Kept(i)
      BY <1>7, <2>2 DEF consumerVars, Held, Kept
  <2>4. id \in dropped' \/ Held(id)'
      BY <2>2 DEF Held
  <2> QED BY <1>2, <2>2, <2>3, <2>4 DEF ScheduledIsHeld
<1>8. CASE ~ \E r \in Requests : PublishCreated(r) /\ UNCHANGED consumerVars
  <2>1. published' = published
      BY <1>8, PublishedEffect
  <2>2. CASE \/ \E r \in Requests : ApiRequest(r) \/ ApiStep(r)
             \/ ApiFaults /\ UNCHANGED <<consumerVars, late>>
    <3>1. UNCHANGED <<queue, unacked, dropped, wpc>>
        BY <1>8, <2>2, ApiSparesBroker DEF ApiRequest, ApiStep, consumerVars
    <3> QED BY <1>2, <1>5, <2>1, <3>1 DEF ScheduledIsHeld
  <2>3. CASE \/ \E p \in Procs : StoreStep(p)
             \/ \E id \in Ids : StoreExpiry(id)
             \/ UNCHANGED vars
    <3>1. UNCHANGED <<queue, unacked, dropped, wpc>>
        BY <2>3 DEF StoreStep, StoreExpiry, vars, brokerVars, consumerVars
    <3> QED BY <1>2, <1>5, <2>1, <3>1 DEF ScheduledIsHeld
  <2>4. CASE \/ \E w \in Workers : HandlerStep(w) \/ \E m \in Messages : Receive(w, m)
             \/ ConsumerFaults
             \/ \E q \in Queues, m \in Messages : Expiry(q, m)
      BY <1>2, <1>3, <1>4, <1>6, <2>1, <2>4 DEF ScheduledIsHeld
  <2> QED BY <2>2, <2>3, <2>4 DEF Next, WorkerReceives, WorkerStep, Faults
<1> QED BY <1>7, <1>8

-----------------------------------------------------------------------------
(* LateIsExcused.                                                          *)

LateOk(w) ==
    /\ wpc[w] \notin {"idle", "stopped"}
    /\ Published(hand[w].id)
    /\ wpc[w] = "checking" => \/ ReadRow(w) = NoRow \/ Settled(ReadRow(w))
                              \/ excuse[hand[w].id] # {}
    /\ wpc[w] = "sending" => excuse[hand[w].id] # {}

(* A cancellation is answered with 204 after Delete has returned nil.      *)
LEMMA AckedEffect ==
    ASSUME SystemInv, [Next]_vars, NEW id \in cancelAcked'
    PROVE  Published(id)'
<1> USE Participants
<1>1. ASSUME id \in cancelAcked PROVE Published(id)'
    BY <1>1, StoreHolds DEF Stable, SystemInv, LateIsExcused, TypeOK, ApiTypeOK
<1>2. ASSUME NEW r \in Requests, CancelEnds(r), id \notin cancelAcked
      PROVE  Published(id)'
  <2>1. id = call[r].id /\ Returned(r, "Delete") /\ Succeeded(r)
      BY <1>2 DEF CancelEnds
  <2>2. Published(id)
      BY <2>1 DEF Returned, SystemInv, CallerInv, DeleteIsPublished
  <2>3. UNCHANGED <<db, cache, excuse>>
      BY <1>2 DEF CancelEnds, Respond
  <2> QED BY <2>2, <2>3 DEF Published
<1>3. CASE \E r \in Requests : ApiRequest(r) \/ ApiStep(r)
    BY <1>1, <1>2, <1>3
    DEF ApiRequest, ApiStep, NewRequest, BeginCreate, BeginGet, BeginCancel,
        RequestStep, CreateFails, PublishCreated, PublishCreatedFails, Rejects,
        CreateEnds, EndGet, CancelRefused, CancelProceeds, AsksStore, histories
<1>4. CASE UNCHANGED cancelAcked
    BY <1>1, <1>4
<1>5. CASE Faults
    BY <1>4, <1>5 DEF Faults, ApiFaults, ClientDisconnects, ApiProcessRestarts,
                      apiVars, histories
<1> QED BY <1>3, <1>4, <1>5
        DEF Next, WorkerReceives, WorkerStep, StoreStep, StoreExpiry, Expiry,
            apiVars, histories, vars

(* The status check of a late worker finds the outcome or is excused.      *)
LEMMA LateWorkerSteps ==
    ASSUME SystemInv, NEW w \in Workers, LateOk(w), HandlerStep(w),
           \A i \in Ids : Stable(i)
    PROVE  wpc'[w] = "idle" \/ LateOk(w)'
<1> USE Participants DEF Resume, LetGo, TypeOK, ConsumerTypeOK
<1>0. TypeOK
    BY DEF SystemInv
<1>1. PICK id \in Ids : id = hand[w].id /\ hand[w] \in Messages
    BY <1>0, NoMessageIsNone DEF LateOk
<1>2. Published(id)' /\ (excuse[id] # {} => excuse'[id] # {})
    BY <1>1 DEF LateOk, Stable
<1>3. CASE Skip(w) \/ Recorded(w) \/ PublishRetryFails(w) \/ AckRetried(w)
    BY <1>0, <1>3 DEF Skip, Recorded, PublishRetryFails, AckRetried
<1>4. CASE Proceed(w)
  <2>1. ReadRow(w) = call[w].row /\ call[w].row.status = "scheduled"
      BY <1>4 DEF Proceed, Returned, ReadRow
  <2>2. ReadRow(w) # NoRow /\ ~ Settled(ReadRow(w))
      BY <2>1 DEF NoRow, Settled, Outcomes
  <2>3. excuse[id] # {}
      BY <1>1, <1>4, <2>2 DEF LateOk, Proceed
  <2>4. wpc'[w] = "sending" /\ hand'[w].id = id
      BY <1>0, <1>1, <1>4 DEF Proceed
  <2> QED BY <1>2, <2>3, <2>4 DEF LateOk
<1>5. CASE SendOk(w) \/ SendFailsFinally(w) \/ PublishRetry(w)
  <2>1. wpc'[w] \in {"recording", "acking"} /\ hand'[w].id = id
      BY <1>0, <1>1, <1>5 DEF SendOk, SendFailsFinally, PublishRetry
  <2> QED BY <1>2, <2>1 DEF LateOk
<1>6. CASE SendFails(w)
  <2>1. PICK m \in Messages : m = hand[w]
      BY <1>1
  <2>2. hand'[w] = [id |-> m.id, attempts |-> m.attempts + 1]
      BY <1>0, <1>6, <2>1, SendFailsEffect
  <2>3. wpc'[w] = "retrying" /\ hand'[w].id = id
      BY <1>0, <1>1, <1>6, <2>1, <2>2 DEF SendFails
  <2> QED BY <1>2, <2>3 DEF LateOk
<1>7. CASE StopWorker(w)
    BY <1>7 DEF StopWorker, LateOk
<1> QED BY <1>3, <1>4, <1>5, <1>6, <1>7 DEF HandlerStep

LEMMA LateHolds ==
    ASSUME SystemInv, [Next]_vars
    PROVE  LateIsExcused'
<1> USE Participants
<1>0. /\ TypeOK /\ TypeOK' /\ RepoInv /\ HandIsConsistent
      /\ \A i \in Ids : Stable(i)
      /\ \A w \in late : w \in Workers /\ LateOk(w)
    BY StoreHolds, TypesHold DEF SystemInv, LateIsExcused, LateOk, TypeOK
<1>1. SUFFICES ASSUME NEW v \in late' PROVE LateOk(v)'
    BY AckedEffect DEF LateIsExcused, LateOk
<1>2. v \in Workers
    BY <1>0 DEF TypeOK
<1>3. ASSUME v \in late
      PROVE  \E i \in Ids : /\ hand[v].id = i /\ Published(i) /\ Published(i)'
                            /\ excuse[i] # {} => excuse'[i] # {}
  <2>1. hand[v] \in Messages /\ Published(hand[v].id)
      BY <1>0, <1>2, <1>3 DEF LateOk, TypeOK, ConsumerTypeOK
  <2> QED BY <1>0, <2>1, NoMessageIsNone DEF Stable
<1>4. ASSUME v \in late, wpc'[v] = wpc[v], hand'[v] = hand[v], call'[v] = call[v]
      PROVE  LateOk(v)'
  <2>1. PICK i \in Ids : /\ hand[v].id = i /\ Published(i)'
                         /\ excuse[i] # {} => excuse'[i] # {}
      BY <1>3, <1>4
  <2>2. ReadRow(v)' = ReadRow(v)
      BY <1>4 DEF ReadRow
  <2> QED BY <1>0, <1>4, <2>1, <2>2 DEF LateOk
<1>5. ASSUME NEW w \in Workers, NEW m \in Messages, WorkerReceives(w, m)
      PROVE  LateOk(v)'
  <2>1. CASE v = w
    <3>1. v \notin late
        BY <1>0, <1>5, <2>1 DEF WorkerReceives, Receive, LateOk
    <3>2. m.id \in cancelAcked /\ UNCHANGED cancelAcked
        BY <1>5, <2>1, <3>1 DEF WorkerReceives, apiVars, histories
    <3>3. wpc'[v] = "checking" /\ hand'[v] = m /\ call'[v].step = "cacheGet"
        BY <1>0, <1>2, <1>5, <2>1
        DEF WorkerReceives, Receive, Resume, CallGetByID, Begin, TypeOK,
            ConsumerTypeOK, RepoTypeOK
    <3>4. PICK i \in Ids : i = m.id
        BY NoMessageIsNone
    <3>5. Published(i)'
        BY <3>2, <3>4, AckedEffect
    <3>6. ReadRow(v)' = NoRow
        BY <3>3 DEF ReadRow
    <3> QED BY <3>3, <3>4, <3>5, <3>6 DEF LateOk
  <2>2. CASE v # w
      BY <1>0, <1>2, <1>4, <1>5, <2>2, OtherWorkers DEF WorkerReceives, StandsStill
  <2> QED BY <2>1, <2>2
<1>6. ASSUME NEW w \in Workers, WorkerStep(w) PROVE LateOk(v)'
  <2>1. v \in late /\ wpc'[v] # "idle"
      BY <1>6 DEF WorkerStep
  <2>2. CASE v = w
      BY <1>0, <1>2, <1>6, <2>1, <2>2, LateWorkerSteps DEF WorkerStep
  <2>3. CASE v # w
      BY <1>0, <1>2, <1>4, <1>6, <2>1, <2>3, OtherWorkers DEF WorkerStep, StandsStill
  <2> QED BY <2>2, <2>3
<1>7. ASSUME NEW p \in Procs, StoreStep(p) PROVE LateOk(v)'
  <2>1. v \in late /\ wpc'[v] = wpc[v] /\ hand'[v] = hand[v]
      BY <1>7 DEF StoreStep, consumerVars
  <2>2. CASE p # v
      BY <1>0, <1>2, <1>4, <1>7, <2>1, <2>2, StepEffect DEF StoreStep
  <2>3. CASE p = v
    <3>1. PICK i \in Ids : /\ hand[v].id = i /\ Published(i) /\ Published(i)'
                           /\ excuse[i] # {} => excuse'[i] # {}
        BY <1>3, <2>1
    <3>2. wpc[v] = "checking" =>
             ReadRow(v)' \in {NoRow, cache[i], db[i], ReadRow(v)}
        BY <1>0, <1>2, <1>7, <2>3, <3>1, StepEffect DEF StoreStep, HandIsConsistent
    <3> QED BY <1>0, <2>1, <3>1, <3>2 DEF LateOk, Published
  <2> QED BY <2>2, <2>3
<1>8. CASE \/ \E r \in Requests : ApiRequest(r) \/ ApiStep(r)
           \/ ApiFaults /\ UNCHANGED <<consumerVars, late>>
    BY <1>0, <1>2, <1>4, <1>8, ApiSparesWorkers DEF ApiRequest, ApiStep, StandsStill
<1>9. CASE ConsumerFaults /\ late' = {u \in late : wpc'[u] # "idle"}
    BY <1>0, <1>2, <1>4, <1>9, WorkerFaultEffect
<1>10. CASE \/ \E id \in Ids : StoreExpiry(id)
            \/ \E q \in Queues, m \in Messages : Expiry(q, m)
            \/ UNCHANGED vars
    BY <1>4, <1>10 DEF StoreExpiry, CacheExpire, Expiry, vars, repoVars, consumerVars
<1> QED BY <1>5, <1>6, <1>7, <1>8, <1>9, <1>10 DEF Next, Faults

-----------------------------------------------------------------------------
(* SystemInv is inductive, and what follows from it.                       *)

LEMMA SystemInvInit == Init => SystemInv
<1> SUFFICES ASSUME Init PROVE SystemInv
    OBVIOUS
<1> USE DEF Init
<1>1. RepoInv /\ CallerInv
    BY InitInv, CallerInvInit
<1>2. TypeOK
    BY <1>1 DEF TypeOK, RepoInv, BrokerInit, BrokerTypeOK, ConsumerInit,
                ConsumerTypeOK, WorkerStates, ApiInit, ApiTypeOK, RequestStates
<1>3. HandIsConsistent
    BY DEF HandIsConsistent, BrokerInit, ConsumerInit
<1>4. \A m \in Messages : ~ InQueue(m)
    BY DEF InQueue, BrokerInit
<1>5. \A p \in Procs : call[p].op = "none" /\ call[p].step = "idle"
    BY DEF RepoInit, NoCall
<1>6. IdsArePublic /\ AnswersAreReady
    BY <1>4, <1>5 DEF IdsArePublic, AnswersAreReady, ConsumerInit, ApiInit
<1>7. AttemptsAreBacked
    BY <1>4 DEF AttemptsAreBacked, BrokerInit, ConsumerInit
<1>8. OutcomesAreEarned
    BY <1>5 DEF OutcomesAreEarned, Earned, RepoInit, NoRow
<1>9. ScheduledIsHeld /\ LateIsExcused
    BY DEF ScheduledIsHeld, LateIsExcused, ApiInit
<1> QED BY <1>1, <1>2, <1>3, <1>6, <1>7, <1>8, <1>9 DEF SystemInv

(* The invariant of the composed system: whatever the API's requests, the  *)
(* workers of consumer.go and the faults do, in any order and any number.  *)
THEOREM SystemInvariant == Spec => []SystemInv
<1>1. SystemInv /\ [Next]_vars => SystemInv'
    BY StoreHolds, TypesHold, HandHolds, PublicHolds, AnswersHold, BackedHolds, EarnedHolds,
       HeldHolds, LateHolds DEF SystemInv
<1> QED BY <1>1, SystemInvInit, PTL DEF Spec

(* The handlers and the workers use CachedNotificationRepository the way   *)
(* RepoSpec's arbitrary clients do: a step of the system is one of a       *)
(* client, one round trip of a repository call, or nothing to the store.   *)
THEOREM SystemImplementsRepository == Spec => RepoSpec
<1>1. SystemInv /\ [Next]_vars => [RepoNext]_<<repoVars, faults>>
    BY SystemUsesRepository DEF SystemInv
<1>2. Init => RepoInit
    BY DEF Init
<1> QED BY <1>1, <1>2, SystemInvariant, PTL DEF Spec, RepoSpec

(* The state has its types: a worker past the receive has a message, and a *)
(* message in flight never carries MaxRetries attempts or more, since      *)
(* handleMessage gives up before it would publish one.                     *)
THEOREM SystemTypeCorrect == Spec => []TypeOK
<1>1. SystemInv => TypeOK
    BY DEF SystemInv
<1> QED BY <1>1, SystemInvariant, PTL

(* A row says "sent", or has sent_at set, only if some Send for it has     *)
(* returned nil, with any number of workers recording duplicates, Updates  *)
(* that failed and were requeued, and cancellations in between.            *)
THEOREM SentRowsWereDelivered == Spec => []SentMeansDelivered
<1>1. SystemInv => SentMeansDelivered
    BY DEF SystemInv, OutcomesAreEarned, Earned, SentMeansDelivered
<1> QED BY <1>1, SystemInvariant, PTL

(* A row says "failed" only after MaxRetries calls of Send have failed:    *)
(* the attempts in a message body are failures that happened, whichever    *)
(* copies of it were redelivered or published again.                       *)
THEOREM FailedRowsWereExhausted == Spec => []FailedMeansExhausted
<1>1. SystemInv => FailedMeansExhausted
    BY DEF SystemInv, OutcomesAreEarned, Earned, FailedMeansExhausted
<1> QED BY <1>1, SystemInvariant, PTL

(* A notification that Publish took and whose row is still scheduled has a *)
(* message in a queue or unacknowledged at a worker, unless the loss is    *)
(* one of the two on record: handleMessage publishes the retry before it   *)
(* acks, acks an outcome after the Update, and nacks otherwise.            *)
THEOREM NothingIsLostSilently == Spec => []NoSilentLoss
<1>1. SystemInv => NoSilentLoss
    BY DEF SystemInv, ScheduledIsHeld, Held, NoSilentLoss, InBroker
<1> QED BY <1>1, SystemInvariant, PTL

(* A message received after the 204 of its cancellation is sent only if a  *)
(* cache fill straddled a write or an invalidation was lost: otherwise the *)
(* worker's status check, through the cache, sees the outcome.             *)
THEOREM CancellationIsHonoured == Spec => []CancelHonoured
<1>1. SystemInv => CancelHonoured
    BY DEF SystemInv, LateIsExcused, CancelHonoured
<1> QED BY <1>1, SystemInvariant, PTL
=============================================================================
