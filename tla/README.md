# A TLA+ verification of the delayed notifier

The delayed notifier accepts notifications over HTTP, keeps them in PostgreSQL
behind a Redis cache, and delivers each of them at its time through a pool of
workers that consume a RabbitMQ queue. This directory holds a specification of
that system, translated from the Go sources, what TLC checks of it on small
instances, and what TLAPS proves of it for all sizes.

Line references are to the sources at the commit this was written against.

## 1. The system

### 1.1 Components, their state and their operations

| Component | State | Operations | What must be right |
|---|---|---|---|
| HTTP handlers and service, `delivery/http`, `service` | none of their own; one goroutine and one context per request | create (Save, then Publish), get, cancel (GetByID, then Delete), update (for the consumer) | a notification is handled once it is published, answered or not; one that was answered with an error is not; a 204 of DELETE means it will not be sent |
| Cached repository, `storage/redis/repository.go` | the Redis entries, TTL 24 h | Save and GetByID fill the cache, Update and Delete invalidate it | a reader is never told of an outcome that did not happen; an entry may be stale only for a known reason |
| PostgreSQL repository, `storage/postgres` | the `notifications` rows | INSERT, SELECT, UPDATE by id, UPDATE status | status, attempts and sent_at agree with what was sent |
| Publisher and topology, `storage/rabbitmq/queue.go` | wait, retry and processing queues; one publisher channel per process | Publish, PublishRetry; dead-lettering when an expiration passes | no message disappears unseen |
| Consumer, `consumer` | five workers with a channel, a prefetch of one and a message in hand | receive, check, send, record, retry, Ack/Nack | every message is settled, attempts are bounded, the row follows the last Send |
| Notifiers, `notifiers` | which notifier serves which channel | Send by channel: email, telegram or log | the recipient a client asked for is the one addressed; the log notifier stands in only where it should |
| Wiring, `app/fx.go` | two fx applications: hooks started so far, the start context | start and stop hooks, signals, the start timeout | a request finds its clients open until it is answered; whatever starts, times out or stops, a message is gone only when it was settled or a lookup failed for it |
| Clients of Redis, PostgreSQL, RabbitMQ | open or closed | construct, ping, close | closed after those who use them |
| Domain model and its conversions, `domain/model`, the mappers of `storage/postgres`, the CHECK of the migration | the recipient in six shapes | validation, mapping to and from rows and JSON | they agree on what a recipient of a channel is |
| Configuration, logging, key builder, generated query interface | set up once | - | - |

### 1.2 Interactions

    client --HTTP--> API ---Save/GetByID/Delete---> cache + table <--GetByID/Update--- workers
                      |                                                                  ^  |
                      +--Publish--> wait --expires--> process --Deliver------------------+  |
                                                        ^                                   |
                                                        +--expires-- retry <--PublishRetry--+

The API and the worker process share nothing but the table, the cache and the
broker. A notification is in two places at once: its row says what became of
it, and its message (the JSON of the notification as it was published) says
what is still to be done and how many attempts were made. Nothing makes the two
change together; what can go wrong lives in the gaps between them.

### 1.3 What is hard here

* **Interleaving.** A repository call is two round trips (table and cache) and
  everyone's round trips interleave; cancel is a check and a write; the
  consumer's status check and its Send are far apart; between Publish and the
  201 a worker can have sent the notification, or the API can die.
* **Duplicates.** Send comes before the row is updated, the retry is published
  before the original is acknowledged, and a failed update puts the message
  back with the attempt count it was published with.
* **Partial failures.** Any round trip can fail, and a failed statement may
  have been applied. Cache failures are logged and ignored.
* **Channels.** The broker takes back the unacknowledged message of a closed
  channel while the worker that holds it goes on. Workers whose channel closed
  return for good. Publisher channels are unconfirmed and never reopened.
* **Restarts and shutdowns.** A process may stop at any step. In an orderly
  shutdown fx runs the OnStop hooks in reverse order: the server waits for its
  requests, the pool's hook waits for no worker, and then the clients are
  closed under workers in mid-message, which acknowledge what they cannot look
  up.
* **The start timeout.** The context the workers run under is the one fx gives to
  OnStart, which ends with the start timeout (15 s). This is no fault but the
  normal course of every worker process that lives longer: from then on lookups
  fail and messages are acknowledged unsent, until each worker has noticed.
* **Time.** Delays are per-message expirations in FIFO queues, in whole
  milliseconds, computed before the message is written: a short delay waits for
  the long one ahead of it, and none may end early.
* **Agreement.** What a recipient of a channel is is said by the service's
  validation, by the mapper and by a constraint of the table; the recipient is
  converted six times, with a case per channel each time.

`PROJECT.json` lists these hazards one by one, each at the line where it bites,
with the properties that are about it.

## 2. The modules

| Module | Models | Extends |
|---|---|---|
| `Notification` | rows, statuses, message bodies (`domain/model`) | |
| `FaultInjection` | the faults and their budget, and which of them a model contains | |
| `CachedRepository` | `storage/redis/repository.go` over `cache.go` and the four statements of `storage/postgres`; also a specification of its own, `RepoSpec`, with arbitrary clients | Notification, FaultInjection |
| `MessageBroker` | `storage/rabbitmq/queue.go` and the broker behind it | Notification, FaultInjection |
| `Consumer` | `consumer/consumer.go`, the service calls it makes, `Send` | CachedRepository, MessageBroker |
| `Api` | `delivery/http/handlers.go`, `service/notification_service.go` | CachedRepository, MessageBroker |
| `DelayedNotifier` | the whole system: requests and workers of both processes over table, cache and broker; the system's properties | Consumer, Api |
| `NotificationLifecycle` | abstract: the life of one notification as clients are promised it; `DelayedNotifier` implements it | |
| `DelayQueue` | the wait and retry queues of `queue.go` as FIFO queues with expirations and passing time, and the backoff of `consumer.go`; implements the bag of `MessageBroker` | Notification |
| `Delivery` | the recipient from the request to the notifier: `dto.go`, the validation in `CreateNotification`, `NewEmailNotification`/`NewTelegramNotification`, the mappers, the CHECK, the dispatcher, the notifiers' checks | |
| `FxLifecycle` | hooks, contexts and clients of both programs: `app/fx.go`, the client constructors, `server.go` | |
| `Application` | both programs from start to exit, with what they do with recipients meanwhile | Delivery, FxLifecycle |
| `CachedRepositoryProofs` | theorems about `RepoSpec` | CachedRepository, TLAPS |
| `RepositoryCallerProofs` | what callers of the repository may rely on | CachedRepositoryProofs |
| `MessageBrokerProofs` | what each broker operation does to the messages held | MessageBroker, TLAPS |
| `DelayedNotifierProofs` | theorems about the whole system | DelayedNotifier and the two above |
| `LifecycleProofs` | the system implements `NotificationLifecycle` | DelayedNotifierProofs |
| `BudgetProofs` | what a redelivery can cost, what the table tells without one, and what it takes to cause a redelivery or a drop | LifecycleProofs |
| `DelayQueueProofs` | what the delays promise; the FIFO queues implement the bag | DelayQueue, TLAPS |
| `ApplicationProofs` | recipients, stores and messages that are gone, from start to exit | Application, TLAPS |
| `MC...` | symmetry sets and constant values for TLC | |

### 2.1 How state and steps correspond to the code

*A step is one interaction.* Code between two calls to Redis, PostgreSQL, the
broker or the notifier touches only local variables, so it belongs to the step
of the interaction before or after it. Nothing larger is atomic.

*`db`, `cache`, `call`, `ctx`* (CachedRepository). `db[id]` is the row's
`status`, `attempts` and whether `sent_at` is set; `cache[id]` the same of the
cached JSON. The other columns never change after the INSERT. `call[p]` is the
repository call goroutine `p` is in; `step` names its next round trip, one
action each: `CacheHit`/`CacheMiss` (redis GET), `DbGet`, `CacheSet`,
`DbInsert`, `DbUpdate`, `DbCancel`, `CacheDel`. Every round trip can fail, with
a fault of the environment or because it is not `Reachable`, and a failed write
may or may not have been applied. `ctx[p]` says under what `p` makes its round
trips: `live`, `done` (cancelled or timed out), `cacheClosed` (an orderly stop
has closed the Redis client: the table still answers) or `closed` (PostgreSQL's
as well). `CacheExpire` is the TTL or an eviction.

*`queue`, `unacked`, `channelOpen`, `publisherOpen`* (MessageBroker). A queue is
a bag: `queue[q][m]` copies of `m`. `Publish` returns nil and delivers, or
returns nil and the message is lost (there are no publisher confirms), or
errs because the channel is closed. It does not look at its context, as the
client library's `PublishWithContext` does not. `DeadLetter` is the expiry of a
message. `Deliver` respects the prefetch of one; a channel that closes gives its
unacknowledged message back (`SetChannels`).

*`wpc`, `hand`* (Consumer). `wpc[w]` is where worker `w` is in `handleMessage`:
`idle` at the select, `checking` in GetNotificationByID, `sending` before Send,
`recording` in UpdateNotification, `retrying` before PublishRetry, `acking`
before the last Ack, `stopped`. `hand[w]` is the decoded notification. An Ack or
Nack on a channel that closed does nothing, as its ignored error suggests. What
happens to the whole pool: `PoolContextDone` is the end of the start context,
which takes no fault and no budget; `StopHooksRun` closes Redis and then
PostgreSQL under workers that go on, in an orderly stop, whose last step, or a
crash, is `WorkerProcessRestarts`. `ConnectionCloses` is the loss of the AMQP
connection, `ChannelCloses` of one channel.

*`rpc`, `answer`* (Api): where a request is in its handler, and the id it is about
to answer with. The id of a new row comes from the INSERT (`gen_random_uuid()`),
so no one knows it before `Save` returns. A creation has three steps after its
Save: `CreateFails` or `PublishCreatedFails` answer 500, `PublishCreated`
publishes, and `CreateEnds` answers 201; workers, faults and the end of the
process come in between.

*History variables* record what properties speak of and decide nothing:
`sends` and `delivered` count calls of Send, `published` holds the ids whose
Publish returned nil to a creation, `known` those answered with 201, `rejected`
those answered with an error, `cancelAcked` those answered with 204,
`requeues` how often the broker took a delivery back, `dropped` the messages
that were lost or acknowledged unhandled, `excuse` why a cache entry may be
stale, `late` the workers whose message arrived after the cancellation was
answered. (`requeues` also carries the bound
`MaxRequeues`, see section 3.)

*`left`, `due`, `turn`* (DelayQueue). Time is relative: an entry of a delaying
queue holds the ticks until its expiration passes (`left`), and as history the
ticks until the time its publisher asked for (`due`) and until all that is
ahead of it will have gone (`turn`). `Tick` counts them all down; it waits for
the broker to hand over an expired head, whose timer fires at once. A tick is a
fraction of a millisecond, because `Milliseconds()` truncates. `ComputeDelay`
and `WriteMessage` are two steps: requests share a channel and the clock goes on
between them. Workers and publishers are arbitrary. `Bag` is the refinement
mapping to `MessageBroker`: so many copies of each message in each queue.

*`phase`, `started`, `startCtx`* (FxLifecycle). Where a program is between
`fx.New` and its exit, how many OnStart hooks have run (hooks are stopped from
the last of these backwards), and whether the context passed to OnStart is
live. `Open(p, client)` says whether a client can be used.

*`creating`, `row`, `body`, `place`, `worker`, `sentBy`* (Application) follow the
recipient of a notification and its one message. Repository calls are one step
here, and whether a failed Send was the last attempt is left open: what these
abstract is exact in `DelayedNotifier`. `AcceptRequest` is the binding and the
validation, `Save` the mapper, the INSERT and the mapper back. A lookup, a Save
and an update can fail at any time, for reasons of the stores' own
(`LookUpFails`, `CreateFails`, `RecordFails`); with a done context or closed
clients they can do nothing else. An update and the acknowledgement after it are
two steps, with the end of the program or the close of the channel between them
(`RecordOutcome`, then `AckRecorded` or `AckTooLate`): then the message comes
back, and the worker that receives it skips it (`Skip`). `ParseInt` takes
numerals to chats, and not one to one: "7" and "+7" are one chat. The JSON of a
message has no operator of its own: every field of `model.Notification` is
exported and untagged, so what is decoded is what was encoded.

Operators commented "Mutant" are single plausible mistakes in one action. No
specification uses them; they are there to see that the properties notice.

### 2.2 Assumptions and abstractions

* The API and the worker run as one process each (`fx.go`). As committed, the
  dependency graph of `fx.go` is incomplete (nothing provides the notifier, for
  example); the models are of the wiring it intends, with the order of the hooks
  that its constructors' dependencies give.
* fx is modelled from how `fx.go` uses it: `Run` starts the hooks under a context
  with the default start timeout of 15 s, which is not ended before that, stops
  them in reverse order, and the stop timeout may cut that short.
* `delivered` counts calls of Send that returned nil. An email that was
  delivered although Send returned an error is left out.
* The system's own publishers always publish bodies that unmarshal, with status
  scheduled; the reject of other bodies (`consumer.go:127-131`) is left out.
* Clients use ids they got in a 201. An unknown id is exercised by `RepoSpec`,
  whose clients call with any id.
* An orderly stop of the API is a restart without a request in progress:
  Shutdown waits for them before a client is closed (`RequestsKeepStores` of
  `Application`). An orderly stop of the worker is `StopHooksRun` and then
  `WorkerProcessRestarts`; a hook that the stop timeout skips is a crash in
  between.
* A failed SET or UPDATE takes effect, if it does, no later than its error.
* A publish that returns an error has not reached the broker: the client library
  refuses a closed channel before it writes anything.
* RabbitMQ's upper limit on expirations, 2^32 - 1 ms or about 49.7 days, is not
  modelled. `Publish` checks `scheduled_at` against nothing, so a later one closes
  the publisher channel; the model has that as a lost publish and a closed
  publisher channel, which any schedule can meet, and `DelayQueue` speaks of
  expirations within the limit.
* A worker that cannot open its channel at start (`consumer.go:81-105`) is
  `OpenChannel` of `Application`; in `DelayedNotifier` it is a worker whose
  channel closes.
* Of the broker's faults `Application` has the one it needs for a message of a
  settled notification, a channel closed before the acknowledgement. One
  notification is enough for it (section 3).
* Status codes, response shapes, logging, and the SMTP and Telegram protocols
  are left out: no state depends on them.

## 3. What TLC checks

Bounds common to the system's runs: one notification (`Ids = {n1}`), because no
step touches two of them and workers compete for messages of one notification
as hard as they can; `MaxRetries = 2` for the code's 5, the least with a first
attempt, a retry and a final failure; one request in flight, who creates, gets
and cancels in turn, and two workers, so that three goroutines race on the row;
`MaxRequeues`: a delivery is received while its notification was put back at most
so many times, 1 in `system_safety`, 2 elsewhere and 3 for liveness. The bound
only bites where a requeue costs no fault (a worker whose publisher channel or
context is gone: Nack, deliver, send, Nack ...), and is above what the run of
liveness can reach. `MaxFaults` counts faults of all kinds together; the start
timeout (`"timeout"`) is not counted, and passes or does not in every run that
has it. Symmetry is used for safety only.

`delay_queue` has two notifications and two requests, so that a long and a short
delay meet in one queue; three attempts, so that two backoffs of different
length do; two ticks per millisecond, the least in which truncation loses
something; a base delay of 1 ms for 5 s; and a `scheduled_at` in the past, half a
millisecond away and further away than a backoff. At most one request per id is
in use and a notification is requeued once: entries come and go without end, and
with them the counters stay finite because time is relative.

`application` has one notification, since notifications share nothing there but
the open clients, the configuration and the workers, of which there are two; one
recipient of each kind and one that is neither; every combination of mode and
notifier settings; and no bound on steps: a program lives once.

Passing runs:

| Run | Instance | Shows |
|---|---|---|
| `repo_coherence` | 2 arbitrary clients, two faults of storage, crash, stop, lost; contexts end at any time | `CacheNeverAhead`, `StaleHasCause`, `CallerInv` |
| `system_safety` | 2 workers, 1 request, one fault of any kind but a single channel's, the start timeout at any time | all safety properties, and the refinement of `NotificationLifecycle` |
| `system_two_faults` | the same without the timeout, two faults of storage and channels | the accounting when two things go wrong, for example a failed update and the redelivery of the same message; that the table is exact where nothing was redelivered |
| `system_liveness` | 1 worker, 1 request, one fault of storage, lost, channel, crash, stop, and the start timeout | `EventuallyResolved`; that the system uses the repository as `RepoSpec` allows (`RepoSpec` as a property: refinement, with the variables of the same name) |
| `delay_queue` | 2 ids, 2 requests, 2 workers, 3 attempts | nothing is early, no retry waits longer than the longest backoff; the FIFO queues implement the bag, with the fairness assumed of it |
| `application` | 1 id, 2 workers, every configuration, both programs from start to exit | recipients, shutdown and start timeout, and when a message is gone |

Properties:

* `CacheNeverAhead`: what is cached, or was read, is never further than the
  table. Otherwise a client is told "sent" of something still to be sent, and a
  worker acknowledges a message whose notification is not settled.
* `StaleHasCause`: an entry other than the table's is about to be deleted, or
  some fill straddled a write, or an invalidation was never made. The excuse is
  recorded at the moment of that event, so the property says that there is no
  third way.
* `CallerInv`: what a caller relies on when a repository call returns: a lookup
  that succeeds returned a real row, and after a write that succeeds the row has
  an outcome that readers find, unless the entry is stale for a recorded cause.
* `SentMeansDelivered`, `FailedMeansExhausted`: the row's outcome was earned
  through all duplicates, retries, cancellations and lost statements. The second
  rests on the attempts in a message body being backed by failures that
  happened.
* `NoSilentLoss`: a published notification whose row is scheduled has a message
  in the broker, except for the two recorded ways to drop it: a publish that the
  broker never got, and a lookup that failed. Those two are not repaired by the
  code, and no property says they are.
* `DuplicateBudget`, `SendBudget`: how much a redelivery can cost. Exactly one
  delivery, and MaxRetries calls of Send, for each.
* `RecordIsExact`: of a notification none of whose deliveries was put back, an
  outcome in the table is exact: `sent_at` is set if and only if one Send
  returned nil, `attempts` is the number of calls that failed, and nothing else
  was attempted. The worker writes the row from a message body that several
  publishes and workers have carried on, not from the row.
* `OutcomesStand`: without a redelivery what a worker reported is not written
  again by another, although the UPDATE has no guard on the status; only a
  cancellation that was under way is still put over the status.
* `HarmNeedsFault`: as long as nothing has failed, nobody has stopped the workers
  and their start timeout has not passed, no interleaving puts a delivery back or
  drops a message; the budgets are then one delivery and MaxRetries calls of
  Send. It is a statement about the first 15 seconds of a worker process, and
  `skip_scheduled` shows what comes after them.
* `CancelHonoured`: a message received after the 204 is not sent unless the
  cache was stale for a cause on record.
* `OrphansAreInert`: a creation that was answered with an error leaves at most its
  row: no message, no Send, no later write. So a client that got a 500 may try
  again. Of a client that got no answer nothing of the kind holds: its
  notification may be published, and handled.
* `ImplementsLifecycle`: refinement. Every change of the status column, and every
  call of Send, is a step of `NotificationLifecycle`: recorded once, attempted
  only when accepted (which is published, not answered), settled only with an
  outcome that was earned, cancelled only by who was told of it, and never
  scheduled again, although outcomes may replace each other.
* `SystemInv`: the inductive invariant all of the above rest on (section 4),
  checked as an invariant before it was proved.
* `EventuallyResolved`: a published notification is in the end sent, failed or
  cancelled, unless its message was dropped or no worker is left. It is checked
  with one worker: that a second one takes over when the first has stopped is
  not covered, and after the start timeout none does.

Of the queues (`delay_queue`):

* `NeverEarly`: nothing is with the workers before its time, short of the
  fraction of a millisecond that an expiration cannot express, however long a
  request took between computing the delay and writing the message.
* `RetryIsBounded`: no retry waits longer than the longest backoff, since no
  scheduled notification shares its queue.
* `ImplementsBag`, `ExpiryIsFair`: what the models of the whole system assume of
  the broker. The first is a refinement of `BrokerSpec`, with the copies of each
  message counted; the second says that each message is handed over in the end,
  however many are published.

Of both programs (`application`):

* `ConstraintNeverBites`: validation, mapper and CHECK agree; no accepted request
  fails for its recipient.
* `ReachesWhoWasAsked`: after all conversions the notifier takes the notification,
  and a real one is of the channel and addresses the recipient asked for.
* `MockOnlyIfUnconfigured`: a row says "sent" of what was only logged only outside
  production or where the channel has no settings.
* `RequestsKeepStores`: a request in progress finds both clients open, through a
  shutdown as well.
* `GoneIsSettledOrLost`: a published message is gone only if its row has an
  outcome or a lookup failed for it, in every order of starts, timeouts, signals,
  stop hooks and crashes: an update or a Send that fails puts it back, and so
  does the end of the program. That a lookup may fail, and lose the message of a
  scheduled notification, is the finding of `skip_scheduled`.

Runs that find a violation, each of a sentence the sources say of themselves
(see "findings" in `PROJECT.json` for the quotes):

| Run | Refutes | How |
|---|---|---|
| `repo_race` | the cache-aside logic is transparent | GET misses and reads the row; Cancel writes and invalidates; GET fills: the old row is cached for 24 h. No fault |
| `send_attempts` | maxRetries bounds the send attempts | the update after the last Send fails, or PublishRetry does, and the message is requeued with its old count |
| `cancel_after_send` | Delete cancels a scheduled notification | sent between the service's check and its UPDATE. No fault |
| `skip_scheduled` | a skipped message is no longer scheduled | the start timeout passes, the lookup fails, the only message is acknowledged. No fault |
| `pool_stops` | Start blocks until its context is cancelled | the connection is lost, every worker returns |
| `head_of_line` | PublishRetry schedules with a specific delay | a retry whose delay has passed stands behind one with a longer backoff. No fault |

Deadlock is not checked in the system's runs: with the ids used up and
everything settled, or with every worker stopped, the bounded system may stop.
Nor is it in `application`, where both programs exit. The runs of the repository
and of the queues check it.

### 3.1 Fairness

`FairSpec` assumes weak fairness of each worker (`WorkerGoes`: Go schedules a
runnable goroutine, its repository call makes its round trips, which return,
possibly with an error, and Send returns), and of each message's expiry
(RabbitMQ expires messages of a queue with consumers or without). That Send
returns is an assumption on the peer: both notifiers ignore their context and set
no timeout of their own, so a mail or Telegram server that answers never and
keeps the connection alive holds its worker for good. It assumes nothing of
requests and their clients, of faults, of when the start timeout passes, or of how
a Send ends. In `Expiry` fairness is per message, so the bag stands for a queue
whose head always moves on eventually. `ExpiryIsFair` shows that the FIFO
queues are that fair, from `DelayFairSpec`: strong fairness of `Tick` (time goes
on although a tick is disabled again and again while an expired head is handed
over) and weak fairness of `ExpireHead`.

## 4. What is proved

Everything below holds for every set of ids, of workers (finite) and of
requests, every retry limit and every fault budget, from the assumptions named
in the modules that declare the constants and nothing else. tlapm checks every
leaf.

### 4.1 The cached repository under arbitrary clients

* `RepositoryInvariant`: `RepoSpec => []RepoInv`
* `RepositoryTypeCorrect`: `RepoSpec => []RepoTypeOK`
* `CacheIsNeverAhead`: `RepoSpec => []CacheNeverAhead`
* `StalenessHasCause`: `RepoSpec => []StaleHasCause`

`CacheNeverAhead` and `StaleHasCause` are not inductive: a fill puts the row a
call carries into the cache, and nothing in them speaks of that row's age; an
INSERT overwrites a row, and nothing in them says there was none. `RepoInv` adds
the two facts. `FillIsCurrent`: a row on its way into the cache is the table's,
or some write it straddled is on record. `InsertIsFresh`: an INSERT under way is
the only one for its id, which has no row yet. With them each action preserves
the conjunction: there is one lemma per action, one step per conjunct the action
can disturb, and `AdvanceType` collects what `Advance` does to `call`, on which
all of them rest. Why `CacheNeverAhead` survives an arbitrary old fill: a settled
row never becomes scheduled again (the statements write only outcomes), so an
old row can be behind but not ahead.

`CallersAreServed` (`RepoSpec => []CallerInv`, in `RepositoryCallerProofs`) rests
on two lemmas about one step: `StepEffect` says what a round trip does to the
one call and the one id it is about, and `OtherEffect` that every other step
begins calls, ends calls and leaves rows and entries alone. `IdsAreStable` draws
the consequence that the rest uses: no step makes a public id unknown, a settled
row unsettled, or an outcome that readers find unfindable without recording why.

### 4.2 The whole system

`DelayedNotifierProofs` proves `SystemInvariant`: `Spec => []SystemInv`, and from
it

* `SystemImplementsRepository`: `Spec => RepoSpec`
* `SystemTypeCorrect`: `Spec => []TypeOK`
* `SentRowsWereDelivered`: `Spec => []SentMeansDelivered`
* `FailedRowsWereExhausted`: `Spec => []FailedMeansExhausted`
* `NothingIsLostSilently`: `Spec => []NoSilentLoss`
* `CancellationIsHonoured`: `Spec => []CancelHonoured`

None of these properties is inductive. `SystemInv` is, and has two halves.

*The store.* `SystemUsesRepository`: under `SystemInv` a step of the system is a
step of `RepoSpec` or changes nothing of the store. The one hard part is that
the clients of `RepoSpec` must not name an id that is still being saved, which
is why `IdsArePublic` says that the ids in clients', messages' and workers'
hands, and in the calls they make, have a row and no pending Save. With it
`RepoInv`, `CallerInv` and the stability of ids come for the system from 4.1.

*The messages.* One conjunct for each property, and those that all of them need:

* `AnswersAreReady`: a request that is about to answer 201 has published, and has
  no repository call under way, so what it tells its client is public.
* `HandIsConsistent`: a worker's repository call and its unacknowledged delivery
  are those of the notification in its hand, even after the delivery was taken
  back and the worker goes on.
* `AttemptsAreBacked`: the attempts in each body, queued, delivered or in hand,
  are failures that happened. Copies share them, and counters only grow
  (`SendsEffect`), so no duplicate can invent one.
* `OutcomesAreEarned` carries `SentMeansDelivered` and `FailedMeansExhausted`
  from the Send that earns an outcome (`SendEarns`) through the pending Update
  to the row. A cancellation keeps `sent_at`, and keeps it earned.
* `ScheduledIsHeld` strengthens `NoSilentLoss`: a delivery at a worker that has
  published its retry and is about to acknowledge does not count. Then each Ack
  must be justified: by the outcome in the table (`SettledBefore`, from
  `CallerInv` and `CacheNeverAhead`), by the retry in a queue, or by an entry in
  `dropped`.
* `LateIsExcused` follows a worker that received its message after the 204 from
  the receive to the Send: the cancellation was findable when it was answered
  (`DeleteIsPublished`) and stays so (`IdsAreStable`), so a status check that
  still reads "scheduled" has an excuse on record.

The proof has, after the frame lemmas (`OtherWorkers`, `ApiSparesWorkers`,
`ApiSparesBroker`, `WorkerFaultEffect`), one lemma per conjunct. Messages move
in three ways only (`MessageFlow`); the two actions that make new bodies,
`SendFails` and `PublishCreated`, are treated by themselves.

### 4.3 The life of a notification

`LifecycleProofs` proves

* `OrphansStayInert`: `Spec => []OrphansAreInert`
* `SystemImplementsLifecycle`: `Spec => ImplementsLifecycle`

`SystemInv` says that ids in use have a row; it does not say that they were
published. `OnlyAccepted` does: messages, hands and the calls of workers are of
published ids, requests look up and cancel ids that a client was told
(`ClientsAskForKnown`), and whatever was never published has no Send and at most
the row of its INSERT. Nothing in this relies on the 201: a message may have been
handled before it, and after the end of the process that owed it. Rejection is
the other side: `RejectedAreApart` says that a rejected id is not published and
no Save is under way for it, and `RejectEffect` that a request which rejects an
id is the one that saved it, so nobody can still publish it. Both are inductive
relative to `SystemInv`. `CallSteps` lists what a step can do to the call of a
process; `StepsSeen` looks at one step of the system through the five variables
of the abstract specification: it is a Send, a publish, an answer, an INSERT, an
outcome that is cancelled or `Earned`, or nothing at all, and `StepIsOfALife`
maps each of the six to its action.

### 4.4 The budgets

`BudgetProofs` proves

* `RedeliveriesBoundDuplicates`: `Spec => []DuplicateBudget`
* `RedeliveriesBoundSends`: `Spec => []SendBudget`

The budgets compare what was spent with what was put back, and say nothing of
the copies that are still around and may yet spend. `WithinBudget`, relative to
`SystemInv`, does: a copy of a message that is queued, or with a worker that has
not called Send for it, has so many shares left, one for deliveries and
`MaxRetries - attempts` for calls of Send; and what was spent, the shares in the
queues and the shares in hands never exceed one allowance and another for every
requeue. Each step then balances: an expiry and a delivery move shares, a Send
spends one and a retry carries the rest on with one attempt more, a requeue puts
a whole message back and is paid for by the allowance it adds. Sums over all
copies are cardinalities of sets of shares (a copy is a triple of queue, message
and number), so that the theorems about finite sets apply: `OneCopyMore`,
`OneCopyLess`, `ManyCopiesMore` for the deliveries a closed connection gives
back at once, `HandSplit` to set one worker apart from the others.

*What the table tells.* With no requeue there is one allowance, and a worker that
is about to call Send holds all that is left of it. `HandWithinBudget` draws
from this what the proofs need: nothing of the notification was delivered, the
calls of Send so far are the attempts in the body, and (`NothingReported`) no row
and no pending Update reports an outcome yet. So the Send that earns an outcome
counts exactly what happened (`SendsExactly`), a round trip carries the count to
the row (`RoundTripExact`), and nobody who could replace it is left.
`ReportsAreExact` is the inductive form, relative to `SystemInv` and `WithinBudget`. It gives

* `RecordsAreExact`: `Spec => []RecordIsExact`
* `OutcomesAreFinal`: `Spec => OutcomesStand`

*What harm takes.* A delivery is put back by a failed Update or publish or by a
closed channel, and a message is dropped by a failed lookup or a lost publish.
That a lookup or an Update succeeds as long as nothing fails is not obvious: both
fail if the row is not there. `CallsMadeSucceed` has it from `IdsArePublic`, that
the ids workers call with have a row. `Fresh` is the hypothesis of
`HarmNeedsFault`, no fault yet and live contexts, and `Healthy` what holds under
it: no call of a worker has failed, channels and publishers are open, nothing was
put back or dropped. Their implication is not inductive alone: that a state is
fresh does not say that the one before it was, for a context that is done could
be live again. It could only be so in a new process, which takes a fault or a
stop: `NotStopped`, that without a fault the workers' contexts are live or done,
and `ContextSteps`, that then a done one stays done, give `Calm`, which is
inductive, and with it

* `OnlyFaultsHarm`: `Spec => []HarmNeedsFault`

for any number of requests, workers and notifications.

### 4.5 The delays

`DelayQueueProofs` proves, of `DelaySpec` and so of `DelayFairSpec`,

* `DelaysAreTyped`: `DelaySpec => []DelayTypeOK`
* `NothingIsEarly`: `DelaySpec => []NeverEarly`
* `RetriesAreBounded`: `DelaySpec => []RetryIsBounded`
* `QueuesImplementBag`: `DelaySpec => ImplementsBag`

for every set of schedules and every base delay, resolution of the clock and
length of the queues. `DelayTypeOK` says among other things that no expiration is
negative; that none exceeds the broker's maximum is neither modelled nor true for
every schedule. `NeverEarly` speaks of messages that have arrived; its
inductive form, in `DelayInv`, is that the time a draft or a queued message is
due is less than a millisecond after its own expiration (`Covered`), which
truncation starts (`TruncationIsShort`) and every tick keeps. `TurnsSettled`
gives `turn` as a bound that one of the messages at or ahead reaches, which has
two uses: removing an expired head leaves it true (`TailKeeps`), and the last
message of a queue names the longest expiration in it, so that the maximum that
`Enqueue` takes exists without an induction over the queue (`LongestIsThere`).
For the refinement `Counts` is the bag that the queues amount to; appending,
taking the head off and putting one back in front are a copy more or less
(`CopiesAppend`, `CopiesTail`, `CopiesOfFront`), and each step of the queues is
then a step of the broker or none.

One fact of arithmetic is assumed, since no prover at hand knows powers:
`BackoffAssumption`, that the backoffs of attempts 1 to MaxRetries - 1 are not
negative and the last is the longest. TLC evaluates it for the instance.

### 4.6 Both programs

`ApplicationProofs` proves `ApplicationInvariant`: `AppSpec => []AppInv`, and
from it

* `ApplicationTypeCorrect`: `AppSpec => []AppTypeOK`
* `AcceptedMeansStorable`: `AppSpec => []ConstraintNeverBites`
* `RecipientsAreReached`: `AppSpec => []ReachesWhoWasAsked`
* `LogNotifierOnlyStandsIn`: `AppSpec => []MockOnlyIfUnconfigured`
* `StoresOutliveRequests`: `AppSpec => []RequestsKeepStores`
* `OnlyLookupsLose`: `AppSpec => []GoneIsSettledOrLost`

`RequestsKeepStores` needs to know where in its hooks a program is:
`HooksInOrder`, and in `CreationIsExact` that a request runs only in a program
whose three hooks are started, so that the server is stopped before a client is
closed. The properties about recipients need what a message carries in between:
`MessagesAreExact` (a message is of a saved notification and says what was asked
for) and `SendersAreExact` (only the notifier that the configuration gives its
channel has sent it, and "sent" is recorded only afterwards). `GoneIsSettledOrLost`
is inductive with these and `AcksFollowOutcomes` (a worker that has recorded an
outcome and not yet acknowledged it holds a settled notification, which stays
settled, `SettledStays`): a worker takes away the message of the notification in
its hand (`WorkerGoneHolds`), and a Save cannot take the outcome from a message
that is gone, because no message is published before its row is saved
(`ApiGoneHolds`, from `CreationIsExact`).

### 4.7 Left to TLC

Liveness and ENABLED, which the prover does not handle (`EventuallyResolved`,
`ExpiryIsFair`). Every safety property and every refinement
of a passing run is proved.

## 5. What is not modelled

The last column of "components" in `PROJECT.json` says for each part what is
left out and why. In short:

* *Key builder* (`pkg/keybuilder`): an injective map from ids to Redis keys; the
  cache is indexed by ids.
* *Generated query interface* (`db.go`, `querier.go`): forwards to the connection.
* *Logging*, gin's set-up, the health check, response shapes and status codes:
  no state, and no property is about them.
* *Migration*: its CHECK and the default of `id` are modelled. Indexes, the
  trigger of `updated_at` and the partitions are PostgreSQL's own semantics (it
  partitions the table by a column outside its primary key and creates one
  month's partition only, which no model of the Go code can show).
* *SMTP and Telegram*: what happens between a notifier and its server. A Send
  that fails after the delivery is a delivery that `delivered` does not count.
* *Bodies that do not unmarshal*: nothing in the system publishes one.
* *RabbitMQ's limit on expirations* (section 2.2), and what it does to requests
  with a `scheduled_at` beyond it.
* *Two workers under fairness*: liveness is checked with one.

## 6. Plan

In this order; what is done is marked.

1. Rows, faults, cached repository, its runs and its proofs. *Done.*
2. Broker, consumer, API, the whole system with its safety, liveness and
   refinement runs. *Done.*
3. `DelayedNotifierProofs`: the system implements `RepoSpec`, type correctness
   and the safety properties but for the budgets, for every size. *Done.*
4. `DelayQueue`: order, expirations and time, and its refinement of the bag.
   *Done.*
5. `NotificationLifecycle` and the system as an implementation of it, checked
   and proved. *Done.*
6. `Delivery`, `FxLifecycle`, `Application`: recipients, and both programs from
   start to exit. *Done.*
7. `BudgetProofs`, `DelayQueueProofs`, `ApplicationProofs`: the remaining safety
   properties and refinements, for every size. *Done.*
8. What the table tells short of a redelivery, and what harm takes
   (`RecordIsExact`, `OutcomesStand`, `HarmNeedsFault`), checked and proved.
   *Done.*
9. Publish and its answer as two steps, orderly stops that close the clients
   under the workers, the start timeout as the normal course. *Done.*
10. A model of the publisher channel shared by the requests that has the
    broker's limit on expirations. *Open.*
