-------------------------- MODULE LifecycleProofs --------------------------
(***************************************************************************)
(* The delayed notifier implements the life of a notification, for any     *)
(* number of notifications, workers, requests, retries and faults.  What   *)
(* SystemInv lacks for that is whom a notification has to do with: before  *)
(* the publish of its creation nobody but the creation, before the 201 no  *)
(* client, and after an error answer nobody any more.                      *)
(***************************************************************************)
EXTENDS DelayedNotifierProofs

(* Messages, hands and calls other than a Save are of published ids, and   *)
(* the other ids have at most the row that Save inserted.                  *)
Accepted(id) == id \in published
MessagesAreAccepted == \A m \in Messages : InQueue(m) => Accepted(m.id)
HandsAreAccepted == \A w \in Workers : hand[w] # NoMessage => Accepted(hand[w].id)
CallsAreAccepted ==
    \A p \in Procs :
        call[p].op \in {"GetByID", "Update", "Delete"} => Accepted(call[p].id)
Untouched(id) == sends[id] = 0 /\ delivered[id] = 0 /\ db[id] \in {NoRow, NewRow}
OthersAreUntouched == \A id \in Ids \ published : Untouched(id)

(* Requests ask for ids that a client was told, and only they cancel.      *)
ClientsAskForKnown ==
    \A p \in Procs :
        \/ call[p].step = "dbCancel"
        \/ p \in Requests /\ call[p].op = "GetByID"
        => call[p].id \in known

(* An id whose creation was answered with an error is saved no more, and   *)
(* was not published.                                                      *)
Apart(id) == id \notin published /\ \A p \in Procs : call[p].op = "Save" => call[p].id # id
RejectedAreApart == \A id \in rejected : Apart(id)

OnlyAccepted ==
    /\ MessagesAreAccepted
    /\ HandsAreAccepted
    /\ CallsAreAccepted
    /\ OthersAreUntouched
    /\ ClientsAskForKnown
    /\ RejectedAreApart

-----------------------------------------------------------------------------
(* OnlyAccepted is inductive, one conjunct at a time.                      *)

LEMMA KnownGrows ==
    ASSUME TypeOK, [Next]_vars
    PROVE  known \subseteq known'
BY AnswerEffect

(* What the next call of a process can be.                                 *)
Repeats(p) ==
    /\ call'[p].op = call[p].op /\ call'[p].id = call[p].id
    /\ call'[p].step = "dbCancel" => call[p].step = "dbCancel"
Saves(p) ==
    /\ call'[p].op = "Save" /\ call'[p].step # "dbCancel"
    /\ call'[p].id \notin rejected
Asks(p) ==
    p \in Requests /\ call'[p].op \in {"GetByID", "Delete"} /\ call'[p].id \in known
Works(p) ==
    /\ p \in Workers /\ call'[p].op \in {"GetByID", "Update"}
    /\ call'[p].step # "dbCancel" /\ call'[p].id \in published
CallStep(p) == Repeats(p) \/ call'[p] = NoCall \/ Saves(p) \/ Asks(p) \/ Works(p)

LEMMA WorkerCalls ==
    ASSUME SystemInv, OnlyAccepted, NEW w \in Workers,
           HandlerStep(w) \/ \E m \in Messages : Receive(w, m),
           NEW p \in Procs
    PROVE  CallStep(p)
<1> USE Participants DEF CallStep, Repeats, Works
<1>0. TypeOK /\ RepoTypeOK /\ HandsAreAccepted /\ MessagesAreAccepted
    BY DEF SystemInv, RepoInv, OnlyAccepted
<1>1. ASSUME NEW m \in Messages, Receive(w, m) PROVE CallStep(p)
  <2>1. m.id \in published
      BY <1>0, <1>1, DeliverEffect DEF Receive, TypeOK, MessagesAreAccepted, Accepted
  <2> QED BY <1>0, <1>1, <2>1 DEF Receive, CallGetByID, Begin, RepoTypeOK
<1>2. CASE Skip(w) \/ Proceed(w) \/ Recorded(w)
    BY <1>0, <1>2 DEF Skip, Proceed, Recorded, Return, RepoTypeOK
<1>3. CASE SendOk(w) \/ SendFailsFinally(w)
  <2>1. hand[w].id \in published
      BY <1>0, <1>3, NoMessageIsNone
      DEF SendOk, SendFailsFinally, Sends, TypeOK, ConsumerTypeOK,
          HandsAreAccepted, Accepted
  <2> QED BY <1>0, <1>3, <2>1
          DEF SendOk, SendFailsFinally, CallUpdate, Begin, RepoTypeOK
<1>4. CASE \/ SendFails(w) \/ PublishRetry(w) \/ PublishRetryFails(w)
           \/ AckRetried(w) \/ StopWorker(w)
    BY <1>4 DEF SendFails, PublishRetry, PublishRetryFails, AckRetried, StopWorker
<1> QED BY <1>1, <1>2, <1>3, <1>4 DEF HandlerStep

LEMMA RequestCalls ==
    ASSUME SystemInv, OnlyAccepted, NEW r \in Requests,
           RequestStep(r) \/ NewRequest(r), NEW p \in Procs
    PROVE  CallStep(p)
<1> USE Participants DEF CallStep, Repeats
<1>0. RepoTypeOK /\ ClientsAskForKnown
    BY DEF SystemInv, RepoInv, OnlyAccepted
<1>1. ASSUME NEW id \in Ids, BeginCreate(r, id) PROVE CallStep(p)
    BY <1>0, <1>1 DEF BeginCreate, CallSave, Begin, RepoTypeOK, Saves
<1>2. ASSUME NEW id \in known, BeginGet(r, id) \/ BeginCancel(r, id) PROVE CallStep(p)
    BY <1>0, <1>2 DEF BeginGet, BeginCancel, CallGetByID, Begin, RepoTypeOK, Asks
<1>3. CASE CancelProceeds(r)
  <2>1. call[r].id \in known
      BY <1>0, <1>3 DEF CancelProceeds, Returned, ClientsAskForKnown
  <2> QED BY <1>0, <1>3, <2>1 DEF CancelProceeds, CallDelete, Begin, RepoTypeOK, Asks
<1>4. CASE \/ CreateFails(r) \/ PublishCreated(r) \/ PublishCreatedFails(r)
           \/ CreateEnds(r) \/ EndGet(r) \/ CancelRefused(r) \/ CancelEnds(r)
    BY <1>0, <1>4 DEF CreateFails, PublishCreated, PublishCreatedFails, Rejects,
                      CreateEnds, EndGet, CancelRefused, CancelEnds, Respond,
                      Return, RepoTypeOK
<1> QED BY <1>1, <1>2, <1>3, <1>4 DEF RequestStep, NewRequest

LEMMA CallSteps ==
    ASSUME SystemInv, OnlyAccepted, [Next]_vars, NEW p \in Procs
    PROVE  CallStep(p)
<1>1. CASE \E w \in Workers : HandlerStep(w) \/ \E m \in Messages : Receive(w, m)
    BY <1>1, WorkerCalls
<1>2. CASE \E r \in Requests : RequestStep(r) \/ NewRequest(r)
    BY <1>2, RequestCalls
<1>3. ASSUME NEW q \in Procs, StoreStep(q) PROVE Repeats(p)
    BY <1>3, StepEffect DEF StoreStep, SystemInv, RepoInv, RepoTypeOK, Repeats
<1>4. ASSUME NEW P \in SUBSET Procs, CrashCalls(P) PROVE Repeats(p) \/ call'[p] = NoCall
    BY <1>4 DEF CrashCalls, Repeats
<1>5. CASE Faults
    BY <1>4, <1>5, Participants
    DEF Faults, ConsumerFaults, ApiFaults, ChannelCloses, ConnectionCloses,
        PoolContextDone, StopHooksRun, WorkerProcessRestarts, PublisherCloses,
        ClientDisconnects, ApiProcessRestarts, ContextsDone, CacheCloses,
        StoresClose, SetContexts, KeepStore, repoVars, Repeats, CallStep
<1>6. CASE \/ \E id \in Ids : StoreExpiry(id)
           \/ \E q \in Queues, m \in Messages : Expiry(q, m)
           \/ UNCHANGED vars
    BY <1>6 DEF StoreExpiry, CacheExpire, Expiry, vars, repoVars, Repeats, CallStep
<1> QED BY <1>1, <1>2, <1>3, <1>5, <1>6
        DEF Next, WorkerReceives, WorkerStep, ApiStep, ApiRequest, CallStep

LEMMA CallsStayAccepted ==
    ASSUME SystemInv, OnlyAccepted, [Next]_vars
    PROVE  CallsAreAccepted' /\ ClientsAskForKnown'
<1>1. /\ CallsAreAccepted /\ ClientsAskForKnown
      /\ known \subseteq known' /\ known \subseteq published
      /\ published \subseteq published'
    BY KnownGrows, PublishedGrow DEF SystemInv, IdsArePublic, OnlyAccepted
<1>2. ASSUME NEW p \in Procs
      PROVE  /\ call'[p].op \in {"GetByID", "Update", "Delete"} => call'[p].id \in published'
             /\ \/ call'[p].step = "dbCancel"
                \/ p \in Requests /\ call'[p].op = "GetByID"
                => call'[p].id \in known'
  <2>1. CallStep(p)
      BY CallSteps
  <2> QED BY <1>1, <2>1, Participants
          DEF CallStep, Repeats, Saves, Asks, Works, NoCall, CallsAreAccepted,
              ClientsAskForKnown, Accepted
<1> QED BY <1>2 DEF CallsAreAccepted, ClientsAskForKnown, Accepted

(* A creation is answered with an error when its Save has returned, and    *)
(* its id is then nobody's.                                                *)
LEMMA RejectEffect ==
    ASSUME SystemInv, [Next]_vars
    PROVE  \/ UNCHANGED rejected
           \/ \E id \in Ids :
                 /\ rejected' = rejected \cup {id}
                 /\ UNCHANGED published
                 /\ id \notin published
                 /\ \A p \in Procs : call'[p].op = "Save" => call'[p].id # id
<1> USE Participants
<1>1. ASSUME NEW r \in Requests, CreateFails(r) \/ PublishCreatedFails(r)
      PROVE  \E id \in Ids :
                 /\ rejected' = rejected \cup {id}
                 /\ UNCHANGED published
                 /\ id \notin published
                 /\ \A p \in Procs : call'[p].op = "Save" => call'[p].id # id
  <2>1. /\ Returned(r, "Save") /\ Return(r) /\ UNCHANGED published
        /\ rejected' = rejected \cup {call[r].id}
      BY <1>1 DEF CreateFails, PublishCreatedFails, Rejects, Respond
  <2>2. call[r].id \in Ids /\ call[r].id \notin published
      BY <2>1 DEF Returned, SystemInv, RepoInv, RepoTypeOK, IdsArePublic, Public
  <2>3. \A p \in Procs : call'[p].op = "Save" => call'[p].id # call[r].id
      BY <2>1 DEF Returned, Return, NoCall, SystemInv, RepoInv, RepoTypeOK,
                  CallerInv, SaveIsAlone
  <2> QED BY <2>1, <2>2, <2>3
<1>2. ASSUME NEW r \in Requests,
             NewRequest(r) \/ (RequestStep(r) /\ ~ CreateFails(r) /\ ~ PublishCreatedFails(r))
      PROVE  UNCHANGED rejected
    BY <1>2 DEF NewRequest, BeginCreate, BeginGet, BeginCancel, AsksStore, RequestStep,
                PublishCreated, CreateEnds, EndGet, CancelRefused, CancelProceeds,
                CancelEnds, histories
<1>3. CASE ApiFaults \/ UNCHANGED apiVars
    BY <1>3 DEF ApiFaults, ClientDisconnects, ApiProcessRestarts, apiVars, histories
<1> QED BY <1>1, <1>2, <1>3
        DEF Next, WorkerReceives, WorkerStep, ApiStep, ApiRequest, StoreStep,
            StoreExpiry, Expiry, Faults, vars

LEMMA RejectedStayApart ==
    ASSUME SystemInv, OnlyAccepted, [Next]_vars
    PROVE  RejectedAreApart'
<1>1. ASSUME NEW id \in rejected PROVE Apart(id)'
  <2>1. Apart(id)
      BY <1>1 DEF OnlyAccepted, RejectedAreApart
  <2>2. ASSUME NEW p \in Procs, call'[p].op = "Save" PROVE call'[p].id # id
    <3>1. CallStep(p)
        BY CallSteps
    <3> QED BY <1>1, <2>1, <2>2, <3>1
            DEF CallStep, Repeats, Saves, Asks, Works, NoCall, Apart
  <2>3. id \notin published'
    <3>1. ASSUME NEW r \in Requests, PublishCreated(r) PROVE id \notin published'
        BY <2>1, <3>1, Participants
        DEF PublishCreated, PublishesNew, Returned, Apart
    <3> QED BY <2>1, <3>1, PublishedEffect DEF Apart
  <2> QED BY <2>2, <2>3 DEF Apart
<1> QED BY <1>1, RejectEffect DEF RejectedAreApart, Apart

LEMMA MessagesStayAccepted ==
    ASSUME SystemInv, OnlyAccepted, [Next]_vars
    PROVE  MessagesAreAccepted' /\ HandsAreAccepted'
<1>0. /\ TypeOK /\ TypeOK' /\ published \subseteq published'
      /\ MessagesAreAccepted /\ HandsAreAccepted
    BY TypesHold, PublishedGrow DEF SystemInv, OnlyAccepted
<1>1. /\ \A m \in Messages : InQueue(m) => m.id \in published
      /\ \A m \in Messages, w \in Workers : hand[w] = m => m.id \in published
      /\ \A m \in Messages, w \in Workers : unacked[w] = m => m.id \in published
  <2>1. \A m \in Messages, w \in Workers : hand[w] = m => m.id \in published
      BY <1>0, NoMessageIsNone DEF HandsAreAccepted, Accepted
  <2>2. ASSUME NEW m \in Messages, NEW w \in Workers, unacked[w] = m
        PROVE  hand[w] \in Messages /\ hand[w].id = m.id
      BY <1>0, <2>2, NoMessageIsNone
      DEF SystemInv, HandIsConsistent, TypeOK, ConsumerTypeOK
  <2> QED BY <1>0, <2>1, <2>2 DEF MessagesAreAccepted, Accepted
<1>2. SUFFICES /\ \A m \in Messages : InQueue(m)' => m.id \in published'
               /\ \A w \in Workers, m \in Messages : hand'[w] = m => m.id \in published'
    BY <1>0, <1>2 DEF MessagesAreAccepted, HandsAreAccepted, Accepted, TypeOK,
                      ConsumerTypeOK
<1>3. ASSUME NEW w \in Workers, SendFails(w)
      PROVE  /\ \A m \in Messages : InQueue(m)' => m.id \in published'
             /\ \A v \in Workers, m \in Messages : hand'[v] = m => m.id \in published'
  <2>1. PICK n \in Messages : n = hand[w]
      BY <1>0, <1>3, SendFailsEffect
  <2>2. /\ hand'[w] = [id |-> n.id, attempts |-> n.attempts + 1]
        /\ \A v \in Workers \ {w} : hand'[v] = hand[v]
        /\ UNCHANGED brokerVars
      BY <1>0, <1>3, <2>1, SendFailsEffect
  <2>3. hand'[w].id = n.id /\ UNCHANGED queue
      BY <2>2 DEF brokerVars
  <2> QED BY <1>0, <1>1, <2>1, <2>2, <2>3 DEF InQueue
<1>4. ASSUME NEW r \in Requests, PublishCreated(r), UNCHANGED consumerVars
      PROVE  /\ \A m \in Messages : InQueue(m)' => m.id \in published'
             /\ \A v \in Workers, m \in Messages : hand'[v] = m => m.id \in published'
  <2>1. PICK id \in Ids : id = call[r].id
      BY <1>4, CreatedEffect
  <2>2. /\ published' = published \cup {id}
        /\ \A m \in Messages : InQueue(m)' => InQueue(m) \/ m.id = id
      BY <1>4, <2>1, CreatedEffect
  <2> QED BY <1>1, <1>4, <2>2 DEF consumerVars
<1>5. CASE /\ ~ \E w \in Workers : SendFails(w)
           /\ ~ \E r \in Requests : PublishCreated(r) /\ UNCHANGED consumerVars
    BY <1>0, <1>1, <1>5, SystemFlow, NoMessageIsNone DEF MessageFlow
<1> QED BY <1>3, <1>4, <1>5

(* One step of the system, as the table and the counters of Send see it.   *)
SendStep ==
    /\ UNCHANGED <<db, published, known>>
    /\ \E id \in published, outcome \in {0, 1} :
          /\ sends' = [sends EXCEPT ![id] = @ + 1]
          /\ delivered' = [delivered EXCEPT ![id] = @ + outcome]
AcceptStep ==
    /\ UNCHANGED <<db, known, sends, delivered>>
    /\ \E id \in Ids : db[id] # NoRow /\ published' = published \cup {id}
AnnounceStep ==
    /\ UNCHANGED <<db, published, sends, delivered>>
    /\ \E id \in published : known' = known \cup {id}
InsertStep ==
    /\ UNCHANGED <<published, known, sends, delivered>>
    /\ \E id \in Ids :
          /\ db[id] = NoRow /\ db'[id] = NewRow
          /\ \A i \in Ids \ {id} : db'[i] = db[i]
OutcomeStep ==
    /\ UNCHANGED <<published, known, sends, delivered>>
    /\ \E id \in published, row \in Rows :
          /\ db[id] # NoRow /\ db'[id] = row
          /\ \/ row.status = "cancelled" /\ id \in known
             \/ row.status \in {"sent", "failed"} /\ Earned(id, row)
          /\ \A i \in Ids \ {id} : db'[i] = db[i]
NoStep ==
    UNCHANGED <<published, known, sends, delivered>> /\ \A i \in Ids : db'[i] = db[i]

LEMMA RowSteps ==
    ASSUME SystemInv, OnlyAccepted, NEW p \in Procs, StoreStep(p)
    PROVE  InsertStep \/ OutcomeStep \/ NoStep
<1>0. /\ RepoInv /\ RepoTypeOK /\ ResultsHold /\ OutcomesAreEarned
      /\ CallsAreAccepted /\ ClientsAskForKnown /\ RepositoryStep(p)
    BY DEF SystemInv, RepoInv, CallerInv, OnlyAccepted, StoreStep
<1>1. UNCHANGED <<published, known, sends, delivered>>
    BY DEF StoreStep, apiVars, histories, consumerVars
<1>2. PICK id \in Ids : id = call[p].id
    BY <1>0, StepEffect
<1>3. /\ \A i \in Ids \ {id} : db'[i] = db[i]
      /\ \/ db'[id] = db[id]
         \/ db[id] = NoRow /\ db'[id] = NewRow
         \/ /\ call[p].step = "dbUpdate"
            /\ db[id] # NoRow /\ db'[id] = call[p].row
         \/ /\ call[p].step = "dbCancel"
            /\ db[id] # NoRow /\ db'[id] = Cancelled(db[id])
    BY <1>0, <1>2, StepEffect
<1>4. call[p].step \in {"dbUpdate", "dbCancel"} => id \in published
    BY <1>0, <1>2 DEF ResultsHold, CallsAreAccepted, Accepted
<1>5. CASE call[p].step = "dbUpdate" /\ db[id] # NoRow /\ db'[id] = call[p].row
  <2>1. call[p].row \in Rows /\ call[p].row.status \in {"sent", "failed"}
      BY <1>0, <1>5, RowFacts DEF RepoTypeOK, ConsumerRows, SentRow, FailedRow
  <2>2. Earned(id, call[p].row)
      BY <1>0, <1>2, <1>5 DEF OutcomesAreEarned
  <2> QED BY <1>1, <1>3, <1>4, <1>5, <2>1, <2>2 DEF OutcomeStep
<1>6. CASE call[p].step = "dbCancel" /\ db[id] # NoRow /\ db'[id] = Cancelled(db[id])
  <2>1. db[id] \in Rows
      BY <1>0, <1>6 DEF RepoTypeOK
  <2>2. Cancelled(db[id]) \in Rows /\ Cancelled(db[id]).status = "cancelled"
      BY <2>1, RowFacts DEF Cancelled, Rows
  <2>3. id \in known
      BY <1>0, <1>2, <1>6 DEF ClientsAskForKnown
  <2> QED BY <1>1, <1>3, <1>4, <1>6, <2>2, <2>3 DEF OutcomeStep
<1> QED BY <1>1, <1>3, <1>5, <1>6 DEF InsertStep, NoStep

LEMMA StepsSeen ==
    ASSUME SystemInv, OnlyAccepted, [Next]_vars
    PROVE  SendStep \/ AcceptStep \/ AnnounceStep \/ InsertStep \/ OutcomeStep \/ NoStep
<1>0. TypeOK /\ RepoInv /\ HandsAreAccepted /\ AnswersAreReady
    BY DEF SystemInv, OnlyAccepted
<1>1. ASSUME NEW p \in Procs, StoreStep(p)
      PROVE  InsertStep \/ OutcomeStep \/ NoStep
    BY <1>1, RowSteps
<1>2. ASSUME NEW r \in Requests, PublishCreated(r), UNCHANGED consumerVars
      PROVE  AcceptStep
  <2>1. PICK id \in Ids : id = call[r].id
      BY <1>2, CreatedEffect
  <2>2. db[id] # NoRow /\ published' = published \cup {id}
      BY <1>2, <2>1, CreatedEffect
  <2> QED BY <1>2, <2>2 DEF AcceptStep, PublishCreated, consumerVars
<1>3. ASSUME NEW w \in Workers, NEW outcome \in {0, 1}, Sends(w, outcome),
             UNCHANGED <<published, known>>
      PROVE  SendStep
  <2>1. hand[w].id \in published
      BY <1>0, <1>3, NoMessageIsNone
      DEF Sends, TypeOK, ConsumerTypeOK, HandsAreAccepted, Accepted
  <2> QED BY <1>3, <2>1 DEF Sends, KeepStore, SendStep
<1>4. ASSUME NEW w \in Workers, HandlerStep(w) \/ \E m \in Messages : Receive(w, m)
      PROVE  \/ UNCHANGED <<db, sends, delivered>>
             \/ \E outcome \in {0, 1} : Sends(w, outcome)
    BY <1>4 DEF HandlerStep, Receive, Skip, Proceed, SendOk, SendFailsFinally,
                SendFails, Recorded, PublishRetry, PublishRetryFails,
                AckRetried, StopWorker, KeepSends, KeepStore
<1>5. CASE \E w \in Workers :
              /\ HandlerStep(w) \/ \E m \in Messages : Receive(w, m)
              /\ UNCHANGED apiVars
    BY <1>3, <1>4, <1>5 DEF NoStep, apiVars, histories
<1>6. ASSUME ~ (\E r \in Requests : PublishCreated(r) /\ UNCHANGED consumerVars),
             UNCHANGED <<db, sends, delivered>>
      PROVE  AnnounceStep \/ NoStep
  <2>1. published' = published
      BY <1>6, PublishedEffect
  <2>2. known' = known \/ \E id \in published : known' = known \cup {id}
      BY <1>0, AnswerEffect DEF AnswersAreReady
  <2> QED BY <1>6, <2>1, <2>2 DEF AnnounceStep, NoStep
<1>7. CASE \/ \E r \in Requests : ApiRequest(r) \/ ApiStep(r)
           \/ ApiFaults /\ UNCHANGED <<consumerVars, late>>
  <2>1. UNCHANGED <<db, sends, delivered>>
      BY <1>7 DEF ApiRequest, ApiStep, NewRequest, BeginCreate, BeginGet,
                  BeginCancel, AsksStore, RequestStep, CreateFails,
                  PublishCreated, PublishCreatedFails, Rejects, CreateEnds,
                  EndGet, CancelRefused, CancelProceeds, CancelEnds, Respond,
                  ApiFaults, ClientDisconnects, ApiProcessRestarts,
                  PublisherCloses, ContextsDone, SetContexts, CrashCalls,
                  consumerVars, repoVars
  <2> QED BY <1>2, <1>6, <2>1
<1>8. CASE ConsumerFaults
  <2>1. UNCHANGED <<sends, delivered>>
      BY <1>0, <1>8, WorkerFaultEffect
  <2>2. UNCHANGED db
      BY <1>8 DEF ConsumerFaults, ChannelCloses, ConnectionCloses, KeepStore,
                  PoolContextDone, ContextsDone, StopHooksRun, CacheCloses,
                  StoresClose, SetContexts, WorkerProcessRestarts, CrashCalls,
                  repoVars
  <2> QED BY <1>2, <1>6, <2>1, <2>2
<1>9. CASE \/ \E id \in Ids : StoreExpiry(id)
           \/ \E q \in Queues, m \in Messages : Expiry(q, m)
           \/ UNCHANGED vars
  <2>1. UNCHANGED <<db, sends, delivered>>
      BY <1>9 DEF StoreExpiry, CacheExpire, Expiry, vars, repoVars, consumerVars
  <2> QED BY <1>2, <1>6, <2>1
<1> QED BY <1>1, <1>5, <1>7, <1>8, <1>9
        DEF Next, WorkerReceives, WorkerStep, Faults

LEMMA OthersStayUntouched ==
    ASSUME SystemInv, OnlyAccepted, [Next]_vars
    PROVE  OthersAreUntouched'
<1>1. SUFFICES ASSUME NEW id \in Ids, id \notin published'
               PROVE  sends'[id] = 0 /\ delivered'[id] = 0 /\ db'[id] \in {NoRow, NewRow}
    BY <1>1 DEF OthersAreUntouched, Untouched
<1>2. id \notin published
    BY <1>1, PublishedGrow
<1>3. /\ sends[id] = 0 /\ delivered[id] = 0 /\ db[id] \in {NoRow, NewRow}
      /\ sends \in [Ids -> Nat] /\ delivered \in [Ids -> Nat]
    BY <1>2 DEF OnlyAccepted, OthersAreUntouched, Untouched, SystemInv, TypeOK,
                ConsumerTypeOK
<1>4. CASE SendStep
    BY <1>2, <1>3, <1>4 DEF SendStep
<1>5. CASE AcceptStep \/ AnnounceStep \/ InsertStep \/ OutcomeStep \/ NoStep
    BY <1>2, <1>3, <1>5 DEF AcceptStep, AnnounceStep, InsertStep, OutcomeStep, NoStep
<1> QED BY <1>4, <1>5, StepsSeen

LEMMA OnlyAcceptedInit == Init => OnlyAccepted
<1> SUFFICES ASSUME Init PROVE OnlyAccepted
    OBVIOUS
<1>1. \A m \in Messages : ~ InQueue(m)
    BY DEF Init, InQueue, BrokerInit
<1>2. \A p \in Procs : call[p].op = "none" /\ call[p].step = "idle"
    BY DEF Init, RepoInit, NoCall
<1>3. \A id \in Ids : Untouched(id)
    BY DEF Init, Untouched, ConsumerInit, RepoInit
<1> QED BY <1>1, <1>2, <1>3
        DEF OnlyAccepted, MessagesAreAccepted, HandsAreAccepted, CallsAreAccepted,
            OthersAreUntouched, ClientsAskForKnown, RejectedAreApart, Init,
            ConsumerInit, ApiInit

LEMMA OnlyAcceptedAlways == Spec => []OnlyAccepted
<1>1. SystemInv /\ OnlyAccepted /\ [Next]_vars => OnlyAccepted'
    BY CallsStayAccepted, MessagesStayAccepted, OthersStayUntouched, RejectedStayApart
    DEF OnlyAccepted
<1> QED BY <1>1, OnlyAcceptedInit, SystemInvariant, PTL DEF Spec

-----------------------------------------------------------------------------
(* What follows.                                                           *)

(* A creation that was answered with an error, because Save or Publish     *)
(* returned one, leaves at most the row of its INSERT, for ever: no        *)
(* message, no call of Send and no other write concerns it, before the     *)
(* answer or after it.  A creation that got no answer is not covered: its  *)
(* message may be on its way.                                              *)
THEOREM OrphansStayInert == Spec => []OrphansAreInert
<1>1. SystemInv /\ OnlyAccepted => OrphansAreInert
  <2> SUFFICES ASSUME SystemInv, OnlyAccepted, NEW id \in rejected
               PROVE  ~ InBroker(id) /\ Untouched(id)
      BY DEF OrphansAreInert, Untouched
  <2>0. id \in Ids \ published
      BY DEF OnlyAccepted, RejectedAreApart, Apart, SystemInv, TypeOK, ApiTypeOK
  <2>1. ASSUME NEW m \in Messages, InQueue(m) PROVE m.id # id
      BY <2>0, <2>1 DEF OnlyAccepted, MessagesAreAccepted, Accepted
  <2>2. ASSUME NEW w \in Workers, unacked[w].id = id PROVE FALSE
    <3>1. unacked[w] # NoMessage
        BY <2>0, <2>2, NoIdAssumption DEF NoMessage
    <3>2. hand[w] \in Messages /\ hand[w].id = id
        BY <2>2, <3>1 DEF SystemInv, HandIsConsistent, TypeOK, ConsumerTypeOK
    <3> QED BY <2>0, <3>2, NoMessageIsNone DEF OnlyAccepted, HandsAreAccepted, Accepted
  <2> QED BY <2>0, <2>1, <2>2 DEF InBroker, OnlyAccepted, OthersAreUntouched
<1> QED BY <1>1, SystemInvariant, OnlyAcceptedAlways, PTL

LEMMA StepIsOfALife ==
    ASSUME SystemInv, OnlyAccepted, [Next]_vars
    PROVE  [Lifecycle!LifecycleNext]_(Lifecycle!lifecycleVars)
<1> DEFINE status == [id \in Ids |-> db[id].status]
           later == [id \in Ids |-> db'[id].status]
<1>0. /\ db \in [Ids -> Rows \cup {NoRow}] /\ published \subseteq Ids
      /\ sends \in [Ids -> Nat] /\ delivered \in [Ids -> Nat]
    BY DEF SystemInv, TypeOK, RepoTypeOK, ConsumerTypeOK, ApiTypeOK
<1>1. \A id \in Ids : status[id] = "absent" <=> db[id] = NoRow
    BY <1>0 DEF Rows, Statuses, Outcomes, NoRow
<1>2. CASE SendStep
  <2>1. PICK id \in published, outcome \in {0, 1} :
          /\ sends' = [sends EXCEPT ![id] = @ + 1]
          /\ delivered' = [delivered EXCEPT ![id] = @ + outcome]
      BY <1>2 DEF SendStep
  <2>2. delivered' \in {delivered, [delivered EXCEPT ![id] = @ + 1]}
    <3>1. CASE outcome = 0
      <4>1. [delivered EXCEPT ![id] = @ + 0] = delivered
          BY <1>0
      <4> QED BY <2>1, <3>1, <4>1
    <3>2. CASE outcome = 1
        BY <2>1, <3>2
    <3> QED BY <3>1, <3>2
  <2>3. later = status /\ UNCHANGED <<published, known>>
      BY <1>2 DEF SendStep
  <2>4. Lifecycle!Attempt(id)
      BY <2>1, <2>2, <2>3 DEF Lifecycle!Attempt
  <2> QED BY <1>0, <2>4 DEF Lifecycle!LifecycleNext
<1>3. CASE AcceptStep
  <2>1. PICK id \in Ids : db[id] # NoRow /\ published' = published \cup {id}
      BY <1>3 DEF AcceptStep
  <2>2. later = status /\ UNCHANGED <<known, sends, delivered>>
      BY <1>3 DEF AcceptStep
  <2>3. Lifecycle!Accept(id)
      BY <1>1, <2>1, <2>2 DEF Lifecycle!Accept
  <2> QED BY <2>3 DEF Lifecycle!LifecycleNext
<1>7. CASE AnnounceStep
  <2>1. PICK id \in published : known' = known \cup {id}
      BY <1>7 DEF AnnounceStep
  <2>2. later = status /\ UNCHANGED <<published, sends, delivered>>
      BY <1>7 DEF AnnounceStep
  <2>3. Lifecycle!Announce(id)
      BY <2>1, <2>2 DEF Lifecycle!Announce
  <2> QED BY <1>0, <2>3 DEF Lifecycle!LifecycleNext
<1>4. CASE InsertStep
  <2>1. PICK id \in Ids :
          /\ db[id] = NoRow /\ db'[id] = NewRow
          /\ \A i \in Ids \ {id} : db'[i] = db[i]
      BY <1>4 DEF InsertStep
  <2>2. later = [status EXCEPT ![id] = "scheduled"]
    <3>1. db'[id].status = "scheduled"
        BY <2>1 DEF NewRow
    <3>2. \A i \in Ids \ {id} : db'[i].status = db[i].status
        BY <2>1
    <3> QED BY <3>1, <3>2
  <2>3. Lifecycle!Record(id)
      BY <1>1, <1>4, <2>1, <2>2 DEF Lifecycle!Record, InsertStep
  <2> QED BY <2>3 DEF Lifecycle!LifecycleNext
<1>5. CASE OutcomeStep
  <2>1. PICK id \in published, row \in Rows :
          /\ db[id] # NoRow /\ db'[id] = row
          /\ \/ row.status = "cancelled" /\ id \in known
             \/ row.status \in {"sent", "failed"} /\ Earned(id, row)
          /\ \A i \in Ids \ {id} : db'[i] = db[i]
      BY <1>5 DEF OutcomeStep
  <2>2. later = [status EXCEPT ![id] = row.status]
      BY <1>0, <2>1
  <2>3. /\ row.status \in {"sent", "failed", "cancelled"}
        /\ Lifecycle!Justified(id, row.status)
      BY <2>1 DEF Earned, Lifecycle!Justified
  <2>4. Lifecycle!SettleAs(id, row.status)
      BY <1>0, <1>1, <1>5, <2>1, <2>2, <2>3 DEF Lifecycle!SettleAs, OutcomeStep
  <2> QED BY <1>0, <2>3, <2>4 DEF Lifecycle!LifecycleNext
<1>6. CASE NoStep
  <2>1. later = status /\ UNCHANGED <<published, known, sends, delivered>>
      BY <1>6 DEF NoStep
  <2> QED BY <2>1 DEF Lifecycle!lifecycleVars
<1> QED BY <1>2, <1>3, <1>4, <1>5, <1>6, <1>7, StepsSeen

(* Workers, requests, cache, queues, redeliveries and faults together do   *)
(* nothing to a notification that its life, as clients are promised it,    *)
(* does not allow: every write of the status column and every call of Send *)
(* is a step of NotificationLifecycle.                                     *)
THEOREM SystemImplementsLifecycle == Spec => ImplementsLifecycle
<1>1. Init => Lifecycle!LifecycleInit
    BY DEF Init, RepoInit, ConsumerInit, ApiInit, NoRow, Lifecycle!LifecycleInit
<1>2. SystemInv /\ OnlyAccepted /\ [Next]_vars
        => [Lifecycle!LifecycleNext]_(Lifecycle!lifecycleVars)
    BY StepIsOfALife
<1> QED BY <1>1, <1>2, SystemInvariant, OnlyAcceptedAlways, PTL
        DEF Spec, ImplementsLifecycle, Lifecycle!LifecycleSpec
=============================================================================
