# Verification of minishop

TLA+ models, TLC runs and TLAPS proofs for the event-sourced shop minishop: how a
buyer's cart becomes a buy intent, how the intent is classified, published, decided,
written to the event store and projected, how the checkout is completed, and how the
load harnesses judge the whole. Paths below are relative to the repository.

## 1. The system

| Part | Code | State it keeps | Operations |
|---|---|---|---|
| Buyer's shop | `buyer-web/src/main.tsx` | cart in `localStorage`, a copy in every tab, the steps of a checkout | edit the cart, storage events, load the catalog, buy, poll, reload, move to another page |
| Ingress | `services/go-backend/main.go`, `src/application/checkout/accept-buy-intent-command.ts` | answers that wait | accept a buy intent, read a command's status |
| Classification | `src/infrastructure/checkout-command/routing-buy-intent-command-bus.ts`, `readSeckillConfig` and `updateSeckillConfig` in go-backend | row of `sku`, TTL cache per process | classify a cart, read through, invalidate, change the row |
| Publishing | `src/infrastructure/seckill/seckill-publish-batcher.ts`, `kafka-seckill-producer.ts`, `nats-buy-intent-command-bus.ts` | pending batch, timer, flush under way, shared connections | enqueue, flush, send, send again after a disconnect, publish to NATS |
| Seckill worker | `workers/kafka-seckill/.../Main.kt` | per task: inventory store (bucket to cell), dedupe store (key to decision) | process a request: duplicate, reserve, probe the next bucket, reject |
| Seckill result sink | `services/go-seckill-result-sink/main.go`, `src/infrastructure/seckill/postgres-seckill-result-sink.ts` | consumer offsets; `event_store`, `command_status`, `seckill_command_result` | persist an outcome in one transaction, commit its offset |
| Buy intent pipeline | `workers/node/ingest-buy-intent-command-bus.ts`, `postgres-buy-intent-command-gateway.ts`, `process-staged-buy-intent-command-batch.ts` | NATS stream, `staged_buy_intent_command`, `command_status` | ingest, stage, claim, merge into the event store, mark |
| Checkout completion | `complete-demo-checkout.ts`, `completeDemoCheckout` in go-backend, `sku-inventory-aggregate.ts` | events only | reserve per SKU, release, request payment, confirm order |
| Projections | `postgres-projection-repository.ts`, `postgres-projection-writer.ts`, `processProjectionBatch` in go-backend | read models, a checkpoint per projection name | process the next batch of events |
| Load harnesses | `scripts/benchmark-buy-intent-temporal.ts`, `scripts/benchmark-checkout-postgres.ts` | keys issued, outcomes seen, artifact, exit code | send, collect outcomes, wait, project, judge, clean up |
| Catalog, status and admin reads, telemetry, seeds, deployment | `src/infrastructure/catalog`, `admin`, `observability/` | none that the flow depends on | |

How they interact. The shop posts the cart to the ingress. A cart of one enabled
seckill SKU goes to the Kafka request topic, is decided by the worker, and its
outcome is written to PostgreSQL by the result sink. Every other cart goes through
NATS into a staging table, and a batch processor appends `CheckoutIntentCreated`.
Both answer 202 first; the client then polls `command_status`. The shop asks for the
completion of the checkout, which appends the remaining events, and for projections,
which scan the event store by its global id and maintain the read models the shop
polls. The worker bootstraps a bucket from one of them
(`sku_inventory_projection.available`), which closes the loop.

## 2. What is hard, and what makes each part correct

| Part | Hard behaviour | What must hold |
|---|---|---|
| Buyer's shop | tabs write the whole cart from their own copies; the catalog comes late; a checkout is a chain of requests that goes on while the buyer does something else | tabs show the stored cart; entries vanish only for a reason; a finished checkout is final; every checkout ends |
| Classification | queries overtake each other, entries expire during a query, an invalidation meets a query under way | a configuration that has stood long enough decides; an invalidation is heeded |
| Publishing | a flush races a timer and other calls; a promise that was rejected is kept and shared by all; the retry after a disconnect | nobody is left waiting; one answer per call; success only after the command is stored; two sends at most, and none after the answer; an error rejects the calls that met it, but for the promises that are kept |
| Seckill worker | requests go round the buckets and overtake each other; stores belong to partitions, not buckets; limits change while buckets are bootstrapped one by one | no oversell; a bucket is kept by one task; one decision per key; rejected only when no bucket fits; every acknowledged request is answered |
| Result sink | goroutines commit offsets in any order; a crash or a rebalance between transaction and commit; the first join of the group; repeated outcomes | an outcome is passed over only where a later offset was committed before it; one intent per key; a status never changes once shown; `created` names an event that exists |
| Buy intent pipeline | at-least-once delivery; statuses read before they are marked; several processors hold rows of one command; crash between any two statements | one event per command; no row set aside unanswered; the status only advances; every command is answered |
| Checkout completion | no transaction around a call; calls race on SKU versions, stop half way and are repeated; idempotent replays | no oversell; confirmed means reserved; rejected means nothing held; answers agree |
| Projections | contending batches, rollback, ids that become visible out of order | every event applied once; outcomes stay shown; CHECK constraints never stop it; it catches up |
| Load harnesses | workers share a counter of keys, answers come after the deadline, the collector misses outcomes, a step fails with clients open | no key is used twice; a verdict of pass is earned; every run ends |

`PROJECT.json` lists the hazards with their lines and the properties about them.

## 3. The modules

**Abstract specifications.** `SeckillSale`: each key gets one answer and the
reserved units fit the stock. `CommandLifecycle`: what a polling client may see
of a command; both write paths implement it (`ImplementsLifecycle`).

**`SeckillWorker`** (one hot SKU). `AcceptBuyIntent`, `BrokerAcks`,
`AckLostOnDisconnect` and `DeliveryFails` are the producers of go-backend and of
the TypeScript ingress. `Process(p)` is `SeckillDecisionProcessor.process` for the
next record of partition `p`: `ForwardDuplicate`, `Reserve`, `ScheduleRetry`,
`Reject`, or `Skip` when the exception handler continues after an error.
`UpdateSeckillConfig` and `AvailableChanges` change the row the worker bootstraps
from. The worker runs with `exactly_once_v2`, so that a record, its stores and its
output commit together: one record is one step. Which partition a bucket travels
on is a parameter, because the two producers differ (`PublishPartition`,
`RetryPartition`).

**`SeckillRouting`** is `classifyBuyIntentItemsForSeckill`, cut at its await:
`Classify` decides when the cache answers and sends the query when not, `ReadRows` is
the database, `Resume` or `QueryFails` the code going on. `UpdateSeckillConfig`
changes the table, `InvalidateSeckillSkuConfigCache` drops entries, `Tick` moves the clock.
`floor` is a history variable: the version of a row an invalidation has
made the oldest to serve.

**`CommandPublishing`** follows a classified command to its answer: the batcher
(`pendingBatch`, `flushTimer`, `activeFlush`), the producer's `ensureTopics`,
connection, send and reset, the connection, manager and stream of the default bus. Every
await is a step, `MaxFailures` of them fail. Three promises are kept also when they were
rejected: `topicsEnsured`, `natsConnection` and `natsManager`. `sends` counts how often a
request is given to `sendBatch`. That is what the producer decides; how many copies of
the record the topic then has is up to the Kafka client, which is built without
`enable.idempotence` (`kafka-seckill-producer.ts:92-95`) and may store a record again when it retries
inside one send. `requestTopic` is therefore the set of the commands with one or more copies.

**`ResultSink`** has one action per step of a goroutine: `Fetch`, `HandleMessage`
(the transaction with its three upserts), `HandleMessageFails`, `CommitOffset`,
and `Crash`; `Rejoin` is a rebalance of the group, which starts the reader over while the
goroutines keep what they hold. A partition without a committed offset is read from its end
(`AtEnd`), and `startedAt` remembers what the reader left behind there. The worker side (`Decide`, `Repeat`, `CommitTransaction`,
`AbortTransaction`) writes one decision per key and repeats it, which is what
`SeckillWorker` gives under the conditions of run `seckill_steady`.

**`StagedCommands`** has the publication, the ingest worker (`Fetch`, `StageBatch`,
`StageBatchFails`, `AckBatch`) and one action per statement of
`processStagedBuyIntentCommandBatch`, from `ClaimPendingBatch` to
`MarkFailedBatch`, for several processors.

**`DemoCheckout`** has one action per read and per append of
`completeDemoCheckout`. The constant `Backend` chooses between the Next.js
implementation, which goes on with the stored event when its append was a replay,
and go-backend, which goes on with the event it meant to append and appends
`InventoryReservationRequested` first. `VersionConflict` is the unique version.

**`Projections`** splits an append into `DrawId` and `Commit` or `Rollback`, since
a `bigserial` is drawn before the transaction commits, and a batch into
`BeginBatch` and `CommitBatch`, `BatchFails` or `Crash`. A batch under way holds
the advisory lock, so nobody else writes the read models and the statements of
the transaction can be one step. `late` is a history variable: the events that
became visible when the batch that moved the checkpoint past them had already been
read. What the checkouts append are histories that `DemoCheckout` produces, and
`Enabled` keeps them within the stock.

**`Storefront`** has the cart (stored, and the copy of each tab with a mark when a
storage event is on its way), the catalog of each tab, and per checkout the chain of
`main.tsx`: post, poll the command, complete, project, look up, poll the status, with
every time limit a bounded number of polls. An error answer to the poll of the status is
polled again, an error anywhere else ends the chain. The backend is what the shop sees of it:
a command is decided, a checkout becomes final, the read model follows by batches the shop
asks for (`ProcessProjections`) or that the loops of other processes apply (`OthersProject`). Of a
cart of several items each reservation sets the status to `reserving` and then to `reserved`, so
the read model also goes back (`StatusAfterBatch`).

**`Benchmark`** has both harnesses from `Setup` to the artifact and the exit code,
for every ingress and style. The system under test takes a request or not, answers
or not, and decides a command sooner, later or never. The only mode is `bypass`, in which the
stock does not limit the number of requests (`benchmark-buy-intent-temporal.ts:296-297`); it
matters to the assertion on the outcomes, which only a scenario named after seckill that
enables it is held to (`asserted`, `:789-811`).

**Proof modules.** `SeckillWorkerProofs`, `SeckillRoutingProofs`,
`CommandPublishingProofs`, `ResultSinkProofs` and `StagedCommandsProofs` extend the
module they are about. `ShopProofs` extends `Storefront` and `Projections`,
`CheckoutProofs` extends `DemoCheckout` and `Benchmark`: the two in one module share
no state, and those names of `Projections` and `Benchmark` that every specification has
carry the name of the component (`ProjectionSpec`, `BenchmarkTypeOK`). `SumLemmas` holds
what is proved about sums and about sets of numbers. Modules whose name begins with `MC`
give the instances of section 4.

The composition of the modules is by what passes between them. `SeckillRouting`
decides the limit a request carries: `SeckillWorker` takes any limit that was ever
configured (`servedLimits`), which is more than the cache can serve. The second send of
`CommandPublishing` is `AckLostOnDisconnect` of `SeckillWorker`, which puts a second copy of the request behind
whatever came in between; a copy the client itself adds is one more record of the same
request, of which the worker has two in any order already. The outcomes of
`SeckillWorker` are what the `ResultSink` reads; `ResultSink` and `StagedCommands`
create the checkout intents `DemoCheckout` completes; `Projections` reads the events
of all of them, and `AvailableChanges` of `SeckillWorker` is what it does to
`sku_inventory_projection.available`. `Storefront` and `Benchmark` see commands
through `command_status` and the read models, as `CommandLifecycle` allows.

Operators whose comment begins with `Mutation:` are not the code: each is a
plausible bug, and putting it in place of the definition it resembles must make a
property fail (`mutants` in `PROJECT.json`).

## 4. The runs

| Run | Instance | Shows |
|---|---|---|
| `seckill_steady` | 3 commands (one a client's retry), 2 buckets, 2 partitions, quantities 2 and 1, stock 3, a batch may be sent twice; 59,022 states | `SeckillSale` is implemented; one task per bucket; no rejection while a bucket fits; every acknowledged command is answered |
| `seckill_config` | the same carts, limits 1, 2, 3 or none, stock given back by others, bootstraps that fail; 85,336 states | no oversell with respect to stock and the largest limit, cells within their shares, one decision per task |
| `seckill_oversell` | fixed limit, partitions as go-backend and the worker really choose them | oversell (section 6) |
| `routing` | 3 carts (two of one SKU, one of two), 2 SKUs, lifetime 1, query time 1, clock to 3, one change, one invalidation; 3,092,011 states | a settled configuration decides; invalidations are heeded |
| `publishing` | 5 calls (3 seckill, 2 default), batches of 2, 2 failures; 450,348 states | nobody stranded, one answer per call, success only when stored, two sends at most, an error outlives its calls only in the three promises that are kept, every call answered |
| `sink_order` | 4 records of 3 commands, 2 goroutines, a group that joins for the first time, 1 crash, 1 rebalance; 1,081,319 states | `CommandLifecycle` is implemented in any order of persisting; an outcome is passed over only when a later offset was committed before it |
| `sink_crash` | a command and its retry, 1 goroutine, 2 partitions, an aborted transaction, a crash, a rebalance; 125,360 states | every committed outcome is persisted |
| `staged_order` | 2 processors, a command and its retry, a fault and a crash; 63,026 states | `CommandLifecycle` is implemented; one event per command; every command answered unless a processor ends within a batch |
| `demo_order` | 3 carts over 2 SKUs in opposite order, one unit each, both backends, 4 calls; 207,128 states | all properties of checkout completion |
| `projections` | 9 events of 2 checkouts, 2 appends overlapping, 2 processors, batches of 2, one failure; 261,553 states | all properties of the projection |
| `storefront` | 2 tabs, 2 products with 2 units and 1, one checkout, 2 edits, one unit sold elsewhere, other projection loops; 620,744 states | all properties of the shop |
| `benchmark` | 8 ways through the harnesses, 3 requests, 2 workers, batches of 2, 2 or 3 units in stock, outcomes asserted or not, projection batches of 2, 0 or 1 unused event ids; 1,260,155 states | keys are fresh, a pass is earned, every run ends |

Why the bounds are enough. Two buckets and two partitions are the least in which a
request can be probed to another task and come back; three commands give a key, its
retry and a competitor, and quantities of 2 and 1 against shares of 2 and 1 make
the first bucket too small for one of them. Two goroutines, processors, tabs and
overlapping appends give every order of two steps, and a third actor would repeat a
pair. One crash or fault is enough where a second one starts from a state the first
one leaves reachable; `publishing` has two, since the retry after a disconnect may fail
as well, and the sink has a crash and a rebalance, because a goroutine goes on with what it holds
after a rebalance and not after a crash. In `routing` a lifetime of 1 and a clock to 3 let an entry be written, expire,
and be written again after the change, and the two carts of one SKU overtake each other while the third
reads the entry they write; symmetry is taken over these two, which the properties do
not tell apart and which no liveness property is about. In `publishing` three seckill calls
against batches of 2 fill one batch and leave one for the timer. Carts in opposite order over single units are the
least in which two checkouts take from each other, and a third one brings the case
of a first item that is sold out while the second is not. In `benchmark` three
requests over two workers make a worker come back for a key, and `MaxKeys` leaves the
window one key more than the burst. Two units are fewer than a burst asks for and as
many as a window may have accepted, three are enough for all. Each bound is a CONSTANT with a comment that calls it one; the
counters behind them appear in no property other than as a proviso (`crashes > 0` in
`PublishedIsAnswered`).

`CHECK_DEADLOCK FALSE` everywhere: nobody has to buy, every model has finitely many
commands, and a state where all of them are answered is a proper end. What must
happen is stated as liveness.

**Fairness.** `SeckillWorker`: `WF` on `Process(p)`, a stream thread polls every
task it owns. Nothing is assumed of buyers, administrators or the broker. `ResultSink`: `WF`
on the next step of a goroutine that holds a message, and `SF` on fetching from a
partition, because the reader serves the blocked senders of all partitions in
turn. `StagedCommands`: `WF` on the ingest loop and on every processor's loop.
`Projections`: `WF` on the loop, which a restart policy starts again.
`CommandPublishing`: `WF` on the timer, on the code that resumes, and on the answers of
Kafka and of NATS to each call, whose clients have time limits: an answer may be a failure.
`Storefront`: `WF` on the next step of each checkout, whose every wait has a time
limit; nothing is assumed of the buyer or of the backend. `Benchmark`: `WF` on the harness's own
steps and time limits; nothing is assumed of the system under test. Crashes and failed
statements are bounded and never fair.

## 5. The proofs

TLC checks one instance; the theorems hold for every value of the constants under
the named assumptions of the modules, which TLC evaluates in every run. Each proof
has the same shape: type correctness, then an inductive invariant whose conjuncts are
named, one lemma or step per action, and a last step that puts them together.

**`SeckillWorkerProofs`**, for every number of buckets, partitions, probes and commands,
every routing, limit and stock, with repeated sends and failed bootstraps:

* `TypeCorrect`. The part with content is that no request is probed more often than
  `MaxProbe` allows and that a probe names an existing bucket (`NextProbeType`); the
  counters of a cell stay natural numbers through the normalisation and the clamp at
  zero (`RemainingType`, `CellForType`).
* `SharesKept`: a cell stays within the limit it accepted under and within its
  bucket's share of the stock on hand. It rests on `ShareMonotone` (a smaller stock
  gives no bucket a larger share), proved from division with remainder.
* `DecidedOnce`: one decision per key in a task. The property alone is not inductive:
  a duplicate is forwarded from the store, so `DecisionInv` adds
  `StoredDecisionForwarded`, that what a store holds was forwarded fresh by its own task.
* `OneTask`: no two tasks keep a bucket, if the two producers agree on partitions
  (`PublishPartition = RetryPartition`). `RoutingInv` adds `RecordsInPlace`: every
  unread record is on the partition of its bucket.
* `NeverOversold`: under the same condition, the units promised never exceed the stock
  on hand nor the largest limit that was ever configured. `StockInv` says that a cell counts
  at least what its task has reserved (`ReserveKeepsStock`), `LimitInv` that requests
  and cells carry only limits that were served. With `SharesKept` and `OneTask` every bucket is within
  its share of the smaller of the two (`BucketWithinShare`), and the shares add up to
  the total whether or not the number of buckets divides it (`SharesAddUp`). Run
  `seckill_oversell` shows that the condition is needed.
* `WorkerImplementsSale` and `TurnedAwayRightly` (`RejectedOnlyWhenNoBucketFits`), for a
  steady sale (`Steady`): the limit is not changed, nothing gives stock back behind the
  worker, the producers agree on partitions, and a client that retries asks for the same
  quantity. Bootstraps may still fail and batches may be sent again; `seckill_steady` is
  an instance. The invariant (`ProbeInv`, `FreshInv`) follows a key around its buckets: a request that is
  probing has been turned away by every bucket before the one it is on its way to, for the
  quantity of its key, and cells only fill up, so what turned it away would do so again.
  Hence two copies of a key take the same way, meet at the same bucket and are given one answer,
  although the tasks that hold the buckets share nothing. With a limit that is raised
  meanwhile this fails (*Dedupe per task*, section 6).

**`SumLemmas`**. The sum of `NoOversell` is a fold of the community modules, a recursive
function over subsets. Instead of induction the lemmas count: give every element as many
tokens as its weight, and the number of tokens satisfies the recursion (`CountSums`); a
smallest set on which the fold differs cannot exist (`SumsCount`), since the natural
numbers are well-founded. What is true of sums then follows from what the library proves of cardinalities
(`CountAdd`, `CountMonotone`, `CountByGroups`, `CountGroupwise`, `CountBijection`).
`LeastElement`, `GreatestElement` and `UpToEvery` (all numbers of an interval have a property
if each brings the next) stand in for induction elsewhere.

**`SeckillRoutingProofs`**, for any carts, SKUs, lifetimes, changes and invalidations:
`SettledDecides` and `InvalidationIsHeeded`. The invariant dates what is in flight: `ClockInv` and
`QueryInv` bound how long a query is under way, `ReadInv` and `EntryInv` say of rows
read and of entries cached which change they may have missed, `MixedInv` follows the rows of a
cart of several lines, `FloorInv` relates them to invalidations.

**`CommandPublishingProofs`**, for any number of calls and failures: `NoneStranded`,
`AcceptedMeansPublished`, `TwoSendsAtMost`, `OneAnswer`, `NoErrorOutlivesItsCalls`.
`BatchInv` says who waits in which batch, `SendsInv` counts the sends by the step
and the attempt of the flush, `ErrorsInv` says that a flush that has failed met an error together with
all its requests, `DefaultCallsInv` and `TopicsInv` tie the steps of a call to the
promises it has waited for.

**`ResultSinkProofs`**: `FewOutcomesPassedOver`, for any number of goroutines, a group that
joins for the first time or not, crashes and rebalances: what lies between the start of the reader
and its position is in hand, was persisted, or was passed over before, and a step that stops a goroutine
passes over only what a later committed offset covered: fewer outcomes than there are goroutines. With no aborted worker transaction,
`CreatedHasEventWithoutAborts` and `OneIntentPerKeyWithoutAborts`, and
that every step is one of `CommandLifecycle` or a stutter, for any number of
goroutines, partitions and crashes.

**`StagedCommandsProofs`**: `OneEventPerCommand`, if every command has an idempotency
key; `SettledRowIsAnswered` and the refinement of `CommandLifecycle` without that
condition. The invariant has the parts `TypeOK`, `EventInv`, `StatusInv` and
`BatchInv`: what a processor holds in its variables after an await is still true of
the tables, which is what interleaved statements could break.

**`CheckoutProofs`, calls** (`DemoCheckout`), for any carts, stock, checkouts and calls of both backends, if
go-backend is asked at most once for a checkout (`SingleGoCalls`): `NeverOversold`,
`ConfirmedStayReserved`, `RejectedHoldNothing`, `AnswersNeverDiffer` and `TypeCorrect`. All
follow from one invariant, in which no part is inductive without the others:

* `StreamInv`: keys are unique, and the versions of a stream are 1 to its length. So a
  version that is not taken follows the last one (`NextVersion`), and the call that
  appends it has read the stream as it is, or is the first to append since. A gap would
  break this, and the second call of go-backend leaves one (section 6).
* `EventsInv`: what an event says is determined by its key. A release exists only for a
  checkout with a rejected outcome, an order only if every item has a reserved one.
* `CallsInv`: what a call has in hand is stored under the keys of its items (`CallOK`);
  if nobody has appended since, what it read is what there is (`SeenOK`); the only call of
  go-backend for a checkout finds no event for what it has not done yet (`FreshOK`). The
  last is where the assumption is used: the Next.js backend goes on with the event it
  finds, go-backend with the one it meant.
* `TypeOK` needs `NoOversell`, because what a read returns is a natural number only
  then, and `NoOversell` needs the others.

That a confirmed checkout holds exactly what its cart wants compares two sums, over events
and over lines: keys make the events correspond to the lines one to one (`CountBijection`).

**`CheckoutProofs`, harnesses** (`Benchmark`), for any configurations, numbers of
requests and workers, and sizes of batches: `KeysStayFresh` and `PassesAreEarned`. `WindowInv`
says which keys the shared counter has handed out; `AnswerInv` that a request is
answered or a worker waits for it, and that the collector has seen only decisions;
`PendingInv` that whatever was accepted is decided or still waited for. `VerdictInv` needs
the three of them for a pass, and `IdsInv` for the last passes of the projection, each of which
finds an event up to which it applies (`BatchHasLast`). A checkpoint that has reached the number
of events leaves no more of them behind it than ids were skipped (`FewUnapplied`).

**`ShopProofs`, browser** (`Storefront`), for any tabs, products, stock and checkouts:
`TabsShowStoredCart`, `FinishedCheckoutIsFinal` and `CartKeepsItsEntries`. `FlowInv` says for
every step of the chain of requests what its last answers have shown (`HasSeen`): of the event
store what stays true, of the read model only that it knows the checkout, since its status may
go back.

**`ShopProofs`, projections** (`Projections`), for any histories of checkouts, sizes of
batches, processors, failures and crashes:

* `ProjectionTypeCorrect`, where the part with content is that the counters keep the CHECK
  constraints of their table, and `AvailableFollowsReplay`. `StoreInv` says what ids say of
  the order of appends; `BatchInv` that a batch under way holds the first events after the
  checkpoint of a store that has only grown since (`FirstOf`); `RowsInv` that every counter is the sum
  over the projected events (`Account`). The read models add event by event what the replay
  sums at once, and the two agree by what is proved of sums.
* `OutcomesStayShown`, if the outcome of a checkout ends its history (`OutcomeIsLast`).
  `HistoryInv` says that no event that is still to become visible precedes a visible
  one of its checkout or its stream (`LastInv`), and that a checkout under completion is shown
  (`StartedInv`).
* `OnlyLateEventsStop`, if a checkout gives back and sells only what was reserved
  for it before (`ReservedBeforeReturned`): unless an event was late, what a batch has read is a
  set in which every event finds the reservations it needs (`Legal`).

  The two conditions are what `DemoCheckout` leaves: `CheckoutProofs` proves of its calls
  `OutcomeEndsHistory` (nothing is paid or ordered after a rejection, and neither a payment nor a
  rejection follows the order) and `NothingReturnedUnreserved` (at any time a checkout has
  given back or sold at most what was reserved for it), under `SingleGoCalls` as above.
  They rest on `PaidInv`, that the payment is requested before the order is confirmed, and on `BackedInv`,
  that every release gives back the units of one reservation; a release is keyed by
  its reservation, so the releases correspond one to one to some of the reservations. The instance of
  `projections` satisfies both (`SaleIsOrderly`).

Only model-checked is liveness, which needs `ENABLED` and is out of the prover's reach:
`EveryAckedCommandIsAnswered`, `EveryOutcomePersisted`, `PublishedIsAnswered`, `CatchesUp`,
`EveryCallAnswered`, `CheckoutEnds` and `RunEnds`. Every other property of the passing runs is
stated by a theorem.

## 6. Where the code and its documentation disagree

A run ends in a counterexample; `PROJECT.json` quotes the line it contradicts:

* **Partitions** (`seckill_oversell`). go-backend publishes on the partition
  numbered like the bucket, the worker's retries go by the hash of the key. Two
  tasks bootstrap the same bucket and hand out its share twice.

Found with the same modules under other constants. The checked runs stay on the side of
each condition where the property holds, and these values show the other side:

* **Dedupe per task.** A key that was decided after a probe is unknown to the task of
  its primary bucket, and is reserved again when the limit was raised meanwhile
  (`Main.kt:260`; `openspec/specs/event-sourced-buy-flow/spec.md:25-26`).
  `SeckillWorker` with `RetriedKeys`, a small `InitialLimit` and a larger one in
  `LimitValues` does not implement `SeckillSale`.
* **Offsets in any order.** With more than one goroutine the later offset may be
  committed first, and a crash or a rebalance then loses an outcome (sink `main.go:228`;
  `docs/blog-series/minishop-architecture/03-queue-first-checkout.md:30`). The default is six goroutines
  (`main.go:177`). `sink_order` has these states: `OnlyOvertakenPassedOver` says that this is the only way, and
  with `Members = {1, 2}` over one partition `EveryOutcomePersisted` fails (`sink_crash` has one goroutine). A group that joins
  for the first time starts at the end of the topic, and what lies there is never read (`startedAt`).
* **Commands without a key.** A row staged twice becomes two intents when its
  processors overlap (`process-staged-buy-intent-command-batch.ts:91`;
  `openspec/specs/checkout-command-ingestion/spec.md:35`). `StagedCommands` with `KeyOf[c2] = Null`,
  a redelivery and two processors violates `OneEventPerCommand`.
* **Ignored replay.** go-backend does not look at the event its append returned
  (`main.go:2995`; `event-sourced-buy-flow/spec.md:1786`). `DemoCheckout` with
  `Backend` all `"go"` and a checkout called twice violates `ConfirmedIsReserved`.
* **A gap in a SKU stream.** A call of go-backend that stops between its two appends for an
  item and is repeated replays the first one and appends the second one two versions
  up (`main.go:2984-3000`). Another checkout that read the stream before it finds its own version free:
  both reserve the last unit. `DemoCheckout` with two checkouts of `"go"` that want
  one unit of the same SKU, `OnHand` 1 and one of them called twice violates `NoOversell`
  (`openspec/specs/event-sourced-buy-flow/spec.md:2621`). After the gap every further
  append to the SKU at the version counted is a conflict.

Noticed while modelling and left out of the checked properties, each by a constant or a
proviso that is named:

* An outcome of a worker transaction that aborts is read by the sink, which sets no
  isolation level, and its checkout intent id may end in `command_status` without an
  event (`MaxAborts = 0` where `CreatedHasEvent` is checked).
* A repeated outcome without an idempotency key violates the unique `event_id` and
  stops the sink at that record (all keys given in `sink_crash`).
* The rows of a processor that ends within its batch stay `claimed` (the proviso of
  `PublishedIsAnswered`).
* An event that becomes visible behind the checkpoint is never projected; if it was
  a reservation, its release stops the projection at a CHECK constraint (`late`).
* A projection of another name than `main` applies every event to the same read
  models again.
* For a cart of several items go-backend shows `reserved` and then `reserving`
  again, and the Next.js backend goes from `queued` to `reserved`;
  `openspec/specs/event-sourced-buy-flow/spec.md:1272` allows neither.
* A query under way when the cache is invalidated puts the old row back for one lifetime
  (the exception in `InvalidationHeeded`); an entry a cart of several lines reads may
  be old by a lifetime and the time of a query.
* Every attempt of the shop to buy draws a new idempotency key and no button is disabled:
  a second click is a second purchase (`main.tsx:2046`). The end of a checkout clears the cart with
  whatever was added meanwhile (`main.tsx:682`, a reason in `NothingVanishes`). The page of a
  completed checkout may still show a reservation or a pending payment, or fall back to
  reserving, since it is reached as soon as the read model shows more than waiting, and a
  further `InventoryReservationRequested` sets `reserved` back (`main.go:2820-2824`). `FinishedIsFinal`
  is about the event store.
* A promise of `ensureTopics`, of the connection to NATS or of its manager that was rejected is
  kept, so that one failure rejects every later call that needs it until the process is
  started again (`kafka-seckill-producer.ts:173`, `nats-buy-intent-command-topology.ts:35-45`; the exceptions
  in `RejectedForAReason`).
* Event ids have gaps, and the checkout harness compares the last id applied with
  `count(*)` (`benchmark-checkout-postgres.ts:625-657`): a run may pass with as many events
  unapplied as ids were skipped, and `PassIsEarned` says no more. The buy-intent harness waits 5.5 s for a cache whose entries live for 60 s
  (`benchmark-buy-intent-temporal.ts:282-285`), counts commands that failed into its created throughput
  (`:2152`), judges a go-http result that is shorter than the number of requests by what it contains, and exits with 0
  when its verdict is no pass, unlike the checkout harness. A failure while it
  starts leaves what it has opened (`:269`).

## 7. Not modelled

* In the worker: the branch for a request without the candidate mark, which the ingress
  never omits for a seckill, one key used with two SKUs or quantities, and tasks that
  move to another instance.
* In the sinks: the consumer loop of the TypeScript sink, which reads committed records one at
  a time and whose transaction is the one modelled.
* In the pipeline: messages the codec refuses (they go to the dead letter subject),
  `markPublishFailed`, the state `retry` and the single-row variants, which nothing
  calls, and the branch for a missing status row, which the statement before has inserted.
* At the ingress: the deployed one is go-backend. The TypeScript buses and their cache are
  modelled from `accept-buy-intent-command.ts` on; no HTTP route in TypeScript calls it any more, and nothing
  calls `invalidateSeckillSkuConfigCache` outside tests.
* In the projections: `PaymentSucceeded`, `PaymentFailed` and `OrderCancelled`, which
  nothing appends.
* `checkout-reservation-saga.ts` and `payment-compensation.ts`: pure functions without
  callers.
* In `main.tsx`: the page of the administrator, whose single `savingSkuId` serves all rows, so that the first
  answer enables the button of a row whose own update is under way; menus and texts.
* The benchmark viewer, seeds, the migration of artifacts and the end-to-end script: they
  render or run once, in sequence, by hand. Figures of the harnesses (latencies and rates) are data no
  property is about.
* Catalog, admin and status reads, telemetry and deployment: they change nothing the
  flow depends on.

## 8. What is left

1. A composition of `SeckillWorker` and `ResultSink` over one result topic, checked
   against `CommandLifecycle`, in place of the sink's own abstraction of the worker.
