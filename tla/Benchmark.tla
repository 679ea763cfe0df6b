------------------------------ MODULE Benchmark ------------------------------
(***************************************************************************)
(* The two load harnesses.  "buy_intent" sends buy intents, over HTTP or   *)
(* straight into the request topic of the seckill worker, and waits for    *)
(* the outcome of every accepted command.  "checkout" creates checkout     *)
(* intents in the event store and processes the projections until they     *)
(* have caught up.  Both write an artifact with a verdict.                 *)
(*                                                                         *)
(* The system under test is only what the harnesses can see of it: it      *)
(* takes a request or not, answers or not, and decides a command sooner,   *)
(* later or never.                                                         *)
(*                                                                         *)
(* The names a specification usually has carry the component's name here,  *)
(* as module CheckoutProofs reads this module together with DemoCheckout.  *)
(***************************************************************************)
EXTENDS Integers, FiniteSets, FiniteSetsExt

CONSTANTS
    Configs,            \* configurations the harness is started with
    Requests,           \* BENCHMARK_REQUESTS
    Concurrency,        \* BENCHMARK_HTTP_CONCURRENCY
    BatchSize,          \* BENCHMARK_DIRECT_KAFKA_BATCH_SIZE
    ProjectionBatch,    \* events a projection pass applies
    UsedIds,            \* how many ids earlier runs have left unused
    MaxKeys             \* bound: requests of a run that ends by a deadline

Configuration ==
    [program : {"buy_intent", "checkout"},
     asserted : BOOLEAN,    \* a scenario named after seckill that enables it for the SKU
     stock : Nat,           \* units of the SKU that are available when the run starts
     style : {"burst", "steady_state"},
     ingress : {"node-fetch", "go-http", "direct_kafka", "franz_go"},
     createdSource : {"kafka_seckill_result", "postgres"}]

ASSUME BenchmarkAssumption ==
    /\ Configs \subseteq Configuration
    /\ \A c \in Configs :
          /\ c.program = "checkout" => c.style = "burst" /\ c.ingress = "node-fetch"
          /\ c.style = "steady_state" => c.createdSource = "kafka_seckill_result" /\ c.ingress # "go-http"
    /\ {Requests, Concurrency, BatchSize, ProjectionBatch} \subseteq Nat \ {0}
    /\ UsedIds \subseteq Nat
    /\ MaxKeys \in Nat /\ MaxKeys >= Requests

VARIABLES
    config,
    phase,
    pool,           \* the workers that send
    request,        \* index -> what became of the request with that idempotency key
    collector,      \* the consumer of the result topic, and the commands it has seen
    publisher,      \* the producer of the harness itself is connected
    pending,        \* accepted commands without an outcome so far
    report,         \* the artifact, and whether the process ends with exit code 1
    store           \* checkout: ids in the event store, next id, projection checkpoint

benchmarkVars == <<config, phase, pool, request, collector, publisher, pending, report, store>>

RequestKeys == 0 .. MaxKeys - 1

Phases == {"off", "setup", "accepting", "replaying", "waiting", "projecting", "batch",
           "measuring", "reporting", "failing", "stopping", "ended"}

BenchmarkTypeOK ==
    /\ config \in Configs
    /\ phase \in Phases
    /\ pool \in [warmup : BOOLEAN, base : Nat, next : Nat, closed : BOOLEAN, inFlight : SUBSET RequestKeys]
    /\ request \in [RequestKeys -> [sent : Nat, measured : BOOLEAN,
                             answer : {"none", "accepted", "refused"},
                             outcome : {"none", "created", "failed"}]]
    /\ collector \in [state : {"off", "joining", "running"}, seen : SUBSET RequestKeys]
    /\ publisher \in BOOLEAN
    /\ pending \in SUBSET RequestKeys
    /\ report \in [artifact : {"none", "pass", "fail"}, complete : BOOLEAN, failed : BOOLEAN]
    /\ store \in [ids : SUBSET Nat, nextId : Nat, checkpoint : Nat]

BuyIntent == config.program = "buy_intent"

BenchmarkInit ==
    /\ config \in Configs
    /\ phase = "off"
    /\ pool = [warmup |-> config.style = "steady_state", base |-> 0, next |-> 0,
               closed |-> FALSE, inFlight |-> {}]
    /\ request = [i \in RequestKeys |-> [sent |-> 0, measured |-> FALSE, answer |-> "none", outcome |-> "none"]]
    /\ collector = [state |-> "off", seen |-> {}]
    /\ publisher = FALSE
    /\ pending = {}
    /\ report = [artifact |-> "none", complete |-> FALSE, failed |-> FALSE]
    /\ store \in {[ids |-> {}, nextId |-> used + 1, checkpoint |-> 0] :
                     used \in IF BuyIntent THEN {0} ELSE UsedIds}

Measured == {i \in RequestKeys : request[i].measured}

Accepted == {i \in Measured : request[i].answer = "accepted"}

Throw(next) == phase' = next /\ report' = [report EXCEPT !.failed = TRUE]

------------------------------------------------------------------------------
(* Before the load *)

NeedsCollector == BuyIntent /\ config.createdSource = "kafka_seckill_result"

\* The request topic is written without the backend: by the harness itself, or by a
\* program it starts for a whole burst or a whole window.
Direct == config.ingress \in {"direct_kafka", "franz_go"}

\* The topics are made; only the harness's own producer stays connected.
StartPublisher == publisher' = (config.ingress = "direct_kafka")

\* The collector and the publisher are started, topics and offsets read.
Start ==
    /\ phase = "off"
    /\ phase' = "setup"
    /\ collector' = [collector EXCEPT !.state = IF NeedsCollector THEN "joining" ELSE "off"]
    /\ StartPublisher
    /\ UNCHANGED <<config, pool, request, pending, report, store>>

\* assertAppsReachable: a backend does not answer its health check.
AppUnreachable ==
    /\ phase = "off" /\ BuyIntent /\ ~Direct
    /\ Throw("ended")
    /\ UNCHANGED <<config, pool, request, collector, publisher, pending, store>>

\* All this is done before the try: what has been started stays open when the rest fails.
StartFails ==
    /\ phase = "off" /\ BuyIntent /\ (NeedsCollector \/ Direct)
    /\ Throw("ended")
    /\ \E started \in BOOLEAN :
          collector' = [collector EXCEPT !.state = IF NeedsCollector /\ started THEN "joining" ELSE "off"]
    /\ UNCHANGED <<config, pool, request, publisher, pending, store>>

\* The SKU is enabled, the rows of earlier runs are deleted in one transaction, the stock
\* is read, the profiler is started; a query that fails ends the run.  The stock does not
\* limit the number of requests: the only mode there is sends them all.
Prepare ==
    /\ phase = "setup"
    /\ \/ phase' = "accepting" /\ UNCHANGED report
       \/ Throw("stopping")
    /\ UNCHANGED <<config, pool, request, collector, publisher, pending, store>>

------------------------------------------------------------------------------
(* The load: an index is the idempotency key of one request *)

Workers == IF config.style = "burst" THEN Min({Concurrency, Requests}) ELSE Concurrency

\* Mutation: a window starts to count at 0 again.
NextKeyOfWindow == pool.next

NextKey == pool.base + pool.next

Send(keys) ==
    request' = [i \in RequestKeys |-> IF i \in keys
                               THEN [request[i] EXCEPT !.sent = @ + 1, !.measured = ~pool.warmup]
                               ELSE request[i]]

\* How many requests a worker takes, and how many may be on their way.
Take ==
    IF config.style = "burst"
    THEN IF Direct THEN Min({BatchSize, Requests - pool.next}) ELSE 1
    ELSE IF Direct THEN BatchSize ELSE 1

MayIssue ==
    /\ IF Direct THEN pool.inFlight = {} ELSE Cardinality(pool.inFlight) < Workers
    /\ IF config.style = "burst" THEN pool.next < Requests
                                 ELSE /\ ~pool.closed
                                      /\ NextKey + Take <= IF pool.warmup THEN MaxKeys - Take ELSE MaxKeys

Issue ==
    /\ phase = "accepting" /\ MayIssue
    /\ LET keys == NextKey .. NextKey + Take - 1 IN
       /\ Send(keys)
       /\ pool' = [pool EXCEPT !.next = @ + Take, !.inFlight = @ \cup keys]
    /\ UNCHANGED <<config, phase, collector, publisher, pending, report, store>>

DeadlinePasses ==
    /\ phase = "accepting" /\ config.style = "steady_state"
    /\ ~pool.closed /\ pool.next > 0
    /\ pool' = [pool EXCEPT !.closed = TRUE]
    /\ UNCHANGED <<config, phase, request, collector, publisher, pending, report, store>>

\* createBuyIntent and postCheckoutIntent never throw, a batch has one answer; franz-go
\* goes on only with a batch that was written whole.  A checkout intent is in the event
\* store when it is accepted.
Answer(keys, answer) ==
    /\ phase = "accepting" /\ keys # {} /\ keys \subseteq pool.inFlight
    /\ IF Direct THEN keys = pool.inFlight ELSE Cardinality(keys) = 1
    /\ config.ingress = "franz_go" => answer = "accepted"
    /\ config.program = "checkout" /\ answer = "accepted" => \A i \in keys : request[i].outcome = "created"
    /\ request' = [i \in RequestKeys |-> IF i \in keys THEN [request[i] EXCEPT !.answer = answer] ELSE request[i]]
    /\ pool' = [pool EXCEPT !.inFlight = @ \ keys]
    /\ UNCHANGED <<config, phase, collector, publisher, pending, report, store>>

\* A program the harness has started exits with an error; what it had sent is on its way.
HelperFails(ingress) ==
    /\ phase = "accepting" /\ config.ingress = ingress
    /\ Throw("failing")
    /\ UNCHANGED <<config, pool, request, collector, publisher, pending, store>>

GoHTTPLoadgenFails == HelperFails("go-http")

\* One record that cannot be written is enough.
FranzGoPublisherFails == HelperFails("franz_go")

SendingDone ==
    /\ phase = "accepting" /\ pool.inFlight = {}
    /\ IF config.style = "burst" THEN pool.next = Requests ELSE pool.closed

\* Every worker of the warmup has returned before the window takes its first index.
EndWarmup ==
    /\ SendingDone /\ pool.warmup
    /\ pool' = [pool EXCEPT !.warmup = FALSE, !.closed = FALSE, !.next = 0, !.base = NextKey]
    /\ UNCHANGED <<config, phase, request, collector, publisher, pending, report, store>>

EndAccepting ==
    /\ SendingDone /\ ~pool.warmup
    /\ IF config.program = "checkout"
       THEN phase' = "replaying" /\ UNCHANGED report
       ELSE IF config.style = "burst" /\ Accepted = {}
       THEN Throw("failing")
       ELSE phase' = "waiting" /\ UNCHANGED report
    /\ pending' = IF BuyIntent THEN Accepted ELSE {}
    /\ UNCHANGED <<config, pool, request, collector, publisher, store>>

------------------------------------------------------------------------------
(* The system under test *)

Outcome(i, outcome) == [request EXCEPT ![i].outcome = outcome]

\* A command is decided once, whether its request was answered or not.  What is decided
\* after the harness has looked for the last time is left out.
Decide(i, outcome) ==
    /\ BuyIntent /\ request[i].sent > 0 /\ request[i].outcome = "none"
    /\ phase \in {"accepting", "waiting"}
    /\ request' = Outcome(i, outcome)
    /\ collector' = [collector EXCEPT !.seen = IF collector.state = "running" THEN @ \cup {i} ELSE @]
    /\ UNCHANGED <<config, phase, pool, publisher, pending, report, store>>

\* appendEvent: an id is taken also by an insert that a conflict turns into a replay.
AppendEvent(stored) ==
    store' = [store EXCEPT !.nextId = @ + 1, !.ids = IF stored THEN @ \cup {store.nextId} ELSE @]

StoreIntent(i) ==
    /\ config.program = "checkout" /\ i \in pool.inFlight /\ phase = "accepting"
    /\ request[i].outcome = "none"
    /\ request' = Outcome(i, "created")
    /\ AppendEvent(TRUE)
    /\ UNCHANGED <<config, phase, pool, collector, publisher, pending, report>>

\* The consumer gets its partitions; the seek to the offsets of the start has worked or,
\* when it came too early, it starts at the end of the topic.
Join ==
    /\ collector.state = "joining" /\ phase \notin {"stopping", "ended"}
    /\ \E sought \in BOOLEAN :
          collector' = [state |-> "running",
                        seen |-> IF sought THEN {i \in RequestKeys : request[i].outcome # "none"} ELSE {}]
    /\ UNCHANGED <<config, phase, pool, request, publisher, pending, report, store>>

\* What one pass of any projection worker applies.
Applied(c) ==
    LET waiting == {e \in store.ids : e > store.checkpoint}
    IN  /\ c \in waiting
        /\ Cardinality({e \in waiting : e <= c}) = Min({ProjectionBatch, Cardinality(waiting)})

OtherWorker ==
    /\ config.program = "checkout" /\ phase # "ended"
    /\ \E c \in store.ids : Applied(c) /\ store' = [store EXCEPT !.checkpoint = c]
    /\ UNCHANGED <<config, phase, pool, request, collector, publisher, pending, report>>

------------------------------------------------------------------------------
(* Waiting for the outcomes *)

\* The collector reads the topic, the other source the rows of command_status.
Visible(i) == IF NeedsCollector THEN i \in collector.seen ELSE request[i].outcome # "none"

Poll ==
    /\ phase = "waiting"
    /\ pending' = {i \in pending : ~Visible(i)}
    /\ phase' = IF pending' = {} THEN "measuring" ELSE "waiting"
    /\ UNCHANGED <<config, pool, request, collector, publisher, report, store>>

\* Mutation: the loop has no deadline.
WaitForever ==
    /\ phase = "waiting" /\ pending = {}
    /\ phase' = "measuring"
    /\ UNCHANGED <<config, pool, request, collector, publisher, pending, report, store>>

WaitTimesOut ==
    /\ phase = "waiting"
    /\ phase' = "measuring"
    /\ UNCHANGED <<config, pool, request, collector, publisher, pending, report, store>>

\* readCommandStatusBatch is rejected.
PollFails ==
    /\ phase = "waiting" /\ ~NeedsCollector
    /\ Throw("failing")
    /\ UNCHANGED <<config, pool, request, collector, publisher, pending, store>>

\* The first checkout intent is posted again: a replay, unless it had not arrived.
ReplayFirst ==
    /\ phase = "replaying"
    /\ request' = [request EXCEPT ![0].sent = @ + 1, ![0].outcome = "created"]
    /\ AppendEvent(request[0].outcome = "none")
    /\ phase' = "projecting"
    /\ UNCHANGED <<config, pool, collector, publisher, pending, report>>

\* processProjectionUntilCaughtUp compares the last applied id with the number of events.
CaughtUp == store.checkpoint >= Cardinality(store.ids)

CompareCheckpoint ==
    /\ phase = "projecting"
    /\ phase' = IF CaughtUp THEN "measuring" ELSE "batch"
    /\ UNCHANGED <<config, pool, request, collector, publisher, pending, report, store>>

\* A short batch ends the loop.  When another worker holds the lock the run is rejected.
ProcessBatch ==
    /\ phase = "batch"
    /\ \/ LET waiting == {e \in store.ids : e > store.checkpoint} IN
          /\ phase' = IF Cardinality(waiting) < ProjectionBatch THEN "measuring" ELSE "projecting"
          /\ store' = [store EXCEPT !.checkpoint =
                          IF waiting = {} THEN @ ELSE CHOOSE c \in waiting : Applied(c)]
          /\ UNCHANGED report
       \/ Throw("stopping") /\ UNCHANGED store
    /\ UNCHANGED <<config, pool, request, collector, publisher, pending>>

------------------------------------------------------------------------------
(* The figures, and the verdict *)

\* What becomes of a figure: a query of Postgres is "read" or rejects the run, while
\* Kafka, NATS, Prometheus and the backends may be silent, which the artifact notes.
Query == {"read", "throws"}
IfAnswered == {"read", "missing"}

CreatedOutcomes == {"read"}
CreatedRows == Query
KafkaSnapshot == IfAnswered
NatsSnapshot == IfAnswered
SeckillWorkerCounters == IfAnswered
BackendPrometheus == IF Direct THEN {"missing"} ELSE IfAnswered
BackendTimings == IF Direct THEN {"missing"} ELSE IfAnswered

\* Deliveries are counted by the harness itself, by Prometheus, or else by the backends.
KafkaDelivery == IF Direct THEN {"read"} ELSE BackendPrometheus \cup BackendTimings

\* The profile of the backend process; an error, also of writing the file, is noted.
AppProfile == IfAnswered
CheckoutProfile == IfAnswered

StoredIntents == Query
EventCounts == Query
Inventory == Query

Figures ==
    IF BuyIntent
    THEN {IF NeedsCollector THEN CreatedOutcomes ELSE CreatedRows, KafkaSnapshot, NatsSnapshot,
          SeckillWorkerCounters, KafkaDelivery, AppProfile}
    ELSE {StoredIntents, EventCounts, Inventory, CheckoutProfile}

ReadFigures ==
    /\ phase = "measuring"
    /\ phase' = "reporting"
    /\ \/ /\ \A f \in Figures : "read" \in f
          /\ report' = [report EXCEPT !.complete = TRUE]
       \/ /\ \E f \in Figures : "missing" \in f
          /\ UNCHANGED report
    /\ UNCHANGED <<config, pool, request, collector, publisher, pending, store>>

AfterError == IF BuyIntent THEN "failing" ELSE "stopping"

ReadFiguresFails ==
    /\ phase = "measuring"
    /\ \E f \in Figures : "throws" \in f
    /\ Throw(AfterError)
    /\ UNCHANGED <<config, pool, request, collector, publisher, pending, store>>

\* buildSeckillSemanticAssertion: nothing but failures although there was stock for all.
\* Only a scenario named after seckill that enables it is held to that.
SemanticFailure ==
    /\ NeedsCollector /\ config.asserted
    /\ {request[i].outcome : i \in Accepted \ pending} = {"failed"}
    /\ config.stock >= Cardinality(Accepted)

\* Mutation: commands that are still pending do not count.
PassWithPending == Accepted = Measured /\ ~SemanticFailure

Pass == Accepted = Measured /\ pending = {} /\ ~SemanticFailure

\* The inventory, which intents leave as it is, is left out.
CheckoutPass ==
    /\ Accepted = Measured
    /\ Cardinality(store.ids) = Cardinality(Accepted)
    /\ Cardinality(store.ids) <= store.checkpoint

WriteArtifact(pass, exitCode) ==
    report' = [report EXCEPT !.artifact = IF pass THEN "pass" ELSE "fail", !.failed = (exitCode = 1)]

\* A verdict of fail is no error of the process.
Report ==
    /\ phase = "reporting" /\ BuyIntent
    /\ phase' = "stopping"
    /\ WriteArtifact(Pass, 0)
    /\ UNCHANGED <<config, pool, request, collector, publisher, pending, store>>

CheckoutReport ==
    /\ phase = "reporting" /\ ~BuyIntent
    /\ phase' = "stopping"
    /\ WriteArtifact(CheckoutPass, IF CheckoutPass THEN 0 ELSE 1)
    /\ UNCHANGED <<config, pool, request, collector, publisher, pending, store>>

\* The file cannot be written.
ReportFails ==
    /\ phase = "reporting"
    /\ Throw(AfterError)
    /\ UNCHANGED <<config, pool, request, collector, publisher, pending, store>>

\* The artifact of a failed run, unless writing it fails as well.
WriteFailure ==
    /\ phase = "failing"
    /\ \E written \in BOOLEAN :
          report' = [report EXCEPT !.artifact = IF written THEN "fail" ELSE @]
    /\ phase' = "stopping"
    /\ UNCHANGED <<config, pool, request, collector, publisher, pending, store>>

Stop ==
    /\ phase = "stopping"
    /\ phase' = "ended"
    /\ collector' = [collector EXCEPT !.state = "off"]
    /\ publisher' = FALSE
    /\ UNCHANGED <<config, pool, request, pending, report, store>>

------------------------------------------------------------------------------
Setup == Start \/ AppUnreachable \/ StartFails \/ Prepare

HelperErrors == GoHTTPLoadgenFails \/ FranzGoPublisherFails

Accepting == Issue \/ EndWarmup \/ EndAccepting

Answers == \E keys \in SUBSET pool.inFlight, answer \in {"accepted", "refused"} : Answer(keys, answer)

Drain == Poll \/ ReplayFirst \/ CompareCheckpoint \/ ProcessBatch

Finish ==
    \/ ReadFigures \/ ReadFiguresFails
    \/ Report \/ CheckoutReport \/ ReportFails \/ WriteFailure
    \/ Stop

System ==
    \/ \E i \in RequestKeys, outcome \in {"created", "failed"} : Decide(i, outcome)
    \/ \E i \in RequestKeys : StoreIntent(i)
    \/ Join
    \/ OtherWorker

BenchmarkNext ==
    \/ Setup \/ Accepting \/ Answers \/ DeadlinePasses \/ HelperErrors
    \/ Drain \/ PollFails \/ WaitTimesOut \/ Finish
    \/ System

BenchmarkSpec == BenchmarkInit /\ [][BenchmarkNext]_benchmarkVars

\* The harness goes on, its deadlines pass, and every fetch or send is settled.  Nothing
\* is assumed of the system under test.
FairBenchmarkSpec ==
    /\ BenchmarkSpec
    /\ WF_benchmarkVars(Setup) /\ WF_benchmarkVars(Accepting) /\ WF_benchmarkVars(Answers)
    /\ WF_benchmarkVars(DeadlinePasses) /\ WF_benchmarkVars(Drain) /\ WF_benchmarkVars(WaitTimesOut)
    /\ WF_benchmarkVars(Finish)

------------------------------------------------------------------------------
(* Properties *)

\* No idempotency key is used for two requests, neither by two workers nor by the warmup
\* and the window after it: the answer to the second would be that of the first.  The
\* replay of the checkout harness is meant, and comes when the first request has its
\* answer.
KeysAreFresh ==
    \A i \in RequestKeys : request[i].sent <=
        (IF config.program = "checkout" /\ i = 0 /\ request[0].answer # "none" THEN 2 ELSE 1)

\* Ids the event store has skipped, and events no pass of the projection has applied.
SkippedIds == (1 .. store.nextId - 1) \ store.ids
Unapplied == {e \in store.ids : e > store.checkpoint}

\* An artifact that says "pass" is earned: every request that was measured has been
\* accepted and decided, whatever the collector has missed and however late the system
\* was, and where the outcomes are asserted at least one unit was sold if there was stock
\* for all.  A checkout run has one event for each request.  That all of them are applied
\* does not follow, as the last id applied is compared with the number of events: as many
\* as the ids that were skipped may still be waiting, and no more.
PassIsEarned ==
    report.artifact = "pass" =>
        /\ Measured # {} /\ pool.inFlight = {} /\ ~report.failed
        /\ \A i \in Measured : request[i].answer = "accepted" /\ request[i].outcome # "none"
        /\ NeedsCollector /\ config.asserted /\ config.stock >= Cardinality(Measured) =>
              \E i \in Measured : request[i].outcome = "created"
        /\ config.program = "checkout" =>
              /\ Cardinality(store.ids) = Cardinality(Measured)
              /\ Cardinality(Unapplied) <= Cardinality(SkippedIds)

\* A run ends, also when the system under test never decides a command.
RunEnds == phase = "off" ~> phase = "ended"

==============================================================================
