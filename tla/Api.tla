--------------------------------- MODULE Api ---------------------------------
(***************************************************************************)
(* The HTTP API: the three handlers together with the service methods they *)
(* call.  A request runs in a goroutine of its own, under a context that   *)
(* is done when its client disconnects.  As in Consumer, a step ends where *)
(* the handler talks to the repository or to the broker.                   *)
(***************************************************************************)
EXTENDS CachedRepository, MessageBroker

CONSTANT Requests   \* bound: requests that can be in flight at once

ASSUME RequestsAssumption == Requests \subseteq Procs

VARIABLES
    rpc,          \* rpc[r]: the handler request r is in, and where
    answer,       \* answer[r]: the id that r is about to answer with
    published,    \* history: ids whose Publish returned nil to a creation
    rejected,     \* history: ids whose creation was answered with an error
    known,        \* history: ids a client was given in a 201 response
    cancelAcked   \* history: ids whose cancellation was answered with 204

histories == <<published, rejected, known, cancelAcked>>
apiVars == <<rpc, answer, histories>>

RequestStates ==
    {"idle", "creating", "answering", "getting", "checking", "cancelling"}

ApiInit ==
    /\ rpc = [r \in Requests |-> "idle"]
    /\ answer = [r \in Requests |-> NoId]
    /\ published = {}
    /\ rejected = {}
    /\ known = {}
    /\ cancelAcked = {}

Continue(r, state) == rpc' = [rpc EXCEPT ![r] = state]

(* A request calls the repository, and goes on in the given state.         *)
AsksStore(r, from, to) ==
    /\ rpc[r] = from
    /\ Continue(r, to)
    /\ UNCHANGED <<db, cache, ctx, excuse, brokerVars, answer, histories, faults>>

(* The response is written; the next request has a context of its own.     *)
Respond(r) ==
    /\ Return(r)
    /\ ctx' = [ctx EXCEPT ![r] = "live"]
    /\ Continue(r, "idle")
    /\ UNCHANGED <<db, cache, excuse>>

-----------------------------------------------------------------------------
(* POST /notifications, once its body has passed validation.  An id that   *)
(* gen_random_uuid() made for a failed creation is not made again.         *)
BeginCreate(r, id) ==
    /\ id \notin rejected
    /\ AsksStore(r, "idle", "creating")
    /\ CallSave(r, id)

(* 500: the row, if there is one, stays behind, and nobody learns its id.  *)
Rejects(r) ==
    /\ rejected' = rejected \cup {call[r].id}
    /\ Respond(r)
    /\ UNCHANGED <<brokerVars, answer, published, known, cancelAcked, faults>>

CreateFails(r) ==
    /\ rpc[r] = "creating"
    /\ Returned(r, "Save") /\ ~ Succeeded(r)
    /\ Rejects(r)

(* From here on the message has a life of its own: it may be handled, and  *)
(* the process may stop, before the client is answered.                    *)
PublishesNew(r) ==
    /\ Publish("api", "wait", [id |-> call[r].id, attempts |-> 0])
    /\ published' = published \cup {call[r].id}

(* Mutant: the error of Save is looked at after the publish.               *)
PublishUnsaved(r) ==
    /\ rpc[r] = "creating"
    /\ Returned(r, "Save")
    /\ PublishesNew(r)
    /\ Return(r)
    /\ IF Succeeded(r)
       THEN /\ answer' = [answer EXCEPT ![r] = call[r].id]
            /\ Continue(r, "answering") /\ UNCHANGED rejected
       ELSE /\ rejected' = rejected \cup {call[r].id}
            /\ Continue(r, "idle") /\ UNCHANGED answer
    /\ UNCHANGED <<db, cache, ctx, excuse, known, cancelAcked>>

PublishCreated(r) ==
    /\ rpc[r] = "creating"
    /\ Returned(r, "Save") /\ Succeeded(r)
    /\ PublishesNew(r)
    /\ Return(r)
    /\ answer' = [answer EXCEPT ![r] = call[r].id]
    /\ Continue(r, "answering")
    /\ UNCHANGED <<db, cache, ctx, excuse, rejected, known, cancelAcked>>

(* 500, although the row is there.                                         *)
PublishCreatedFails(r) ==
    /\ rpc[r] = "creating"
    /\ Returned(r, "Save") /\ Succeeded(r)
    /\ ~ publisherOpen["api"]
    /\ Rejects(r)

(* 201, whatever has become of the message meanwhile.                      *)
CreateEnds(r) ==
    /\ rpc[r] = "answering"
    /\ known' = known \cup {answer[r]}
    /\ answer' = [answer EXCEPT ![r] = NoId]
    /\ Respond(r)
    /\ UNCHANGED <<brokerVars, published, rejected, cancelAcked, faults>>

-----------------------------------------------------------------------------
(* GET /notifications/:id.                                                 *)
BeginGet(r, id) == AsksStore(r, "idle", "getting") /\ CallGetByID(r, id)

EndGet(r) ==
    /\ rpc[r] = "getting"
    /\ Returned(r, "GetByID")
    /\ Respond(r)
    /\ UNCHANGED <<brokerVars, answer, histories, faults>>

-----------------------------------------------------------------------------
(* DELETE /notifications/:id: a check through the cache, then the write.   *)
BeginCancel(r, id) == AsksStore(r, "idle", "checking") /\ CallGetByID(r, id)

Cancellable(r) == Succeeded(r) /\ call[r].row.status = "scheduled"

CancelRefused(r) ==
    /\ rpc[r] = "checking"
    /\ Returned(r, "GetByID") /\ ~ Cancellable(r)
    /\ Respond(r)
    /\ UNCHANGED <<brokerVars, answer, histories, faults>>

CancelProceeds(r) ==
    /\ Returned(r, "GetByID") /\ Cancellable(r)
    /\ AsksStore(r, "checking", "cancelling")
    /\ CallDelete(r, call[r].id)

CancelEnds(r) ==
    /\ rpc[r] = "cancelling"
    /\ Returned(r, "Delete")
    /\ cancelAcked' = IF Succeeded(r) THEN cancelAcked \cup {call[r].id}
                      ELSE cancelAcked
    /\ Respond(r)
    /\ UNCHANGED <<brokerVars, answer, published, rejected, known, faults>>

-----------------------------------------------------------------------------
(* Clients use the ids they were given.                                    *)
NewRequest(r) ==
    \/ \E id \in Ids : BeginCreate(r, id)
    \/ \E id \in known : BeginGet(r, id) \/ BeginCancel(r, id)

RequestStep(r) ==
    \/ CreateFails(r) \/ PublishCreated(r) \/ PublishCreatedFails(r)
    \/ CreateEnds(r)
    \/ EndGet(r)
    \/ CancelRefused(r) \/ CancelProceeds(r) \/ CancelEnds(r)

ClientDisconnects(r) ==
    /\ rpc[r] # "idle"
    /\ ContextsDone({r})
    /\ Fault("client")
    /\ UNCHANGED <<brokerVars, apiVars>>

(* The API process ends and a new one starts.  An orderly stop is the case *)
(* without a request: Shutdown waits for them before a client is closed.   *)
ApiProcessRestarts ==
    /\ CrashCalls(Requests)
    /\ rpc' = [r \in Requests |-> "idle"]
    /\ answer' = [r \in Requests |-> NoId]
    /\ publisherOpen' = [publisherOpen EXCEPT !["api"] = TRUE]
    /\ UNCHANGED <<queue, unacked, channelOpen, requeues, dropped, histories>>

ApiFaults ==
    \/ \E r \in Requests : ClientDisconnects(r)
    \/ ApiProcessRestarts
    \/ PublisherCloses("api") /\ UNCHANGED <<repoVars, apiVars>>

-----------------------------------------------------------------------------
ApiTypeOK ==
    /\ rpc \in [Requests -> RequestStates]
    /\ answer \in [Requests -> Ids \cup {NoId}]
    /\ published \in SUBSET Ids
    /\ rejected \in SUBSET Ids
    /\ known \in SUBSET Ids
    /\ cancelAcked \in SUBSET Ids
=============================================================================
