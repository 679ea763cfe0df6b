-------------------------- MODULE CommandPublishing --------------------------
(***************************************************************************)
(* What acceptBuyIntentCommand waits for: the classified command is put    *)
(* into the request topic of the seckill worker or into the NATS stream of *)
(* the staged pipeline, and the call is answered when that has settled.    *)
(*                                                                         *)
(* Seckill requests are collected.  A batch is flushed when it has reached *)
(* BatchSize, or when its timer fires; one flush is under way at a time,   *)
(* and a flush takes all that is pending.  The connections to Kafka and to *)
(* NATS are made once in a process and shared by all calls; a promise that *)
(* was rejected is kept like any other.                                    *)
(*                                                                         *)
(* Every await is a step of its own; between two of them any other call,   *)
(* timer or answer may come.                                               *)
(***************************************************************************)
EXTENDS Integers, FiniteSets

CONSTANTS
    Commands,
    SeckillCommands,    \* those SeckillRouting has given a seckill request
    BatchSize,          \* KAFKA_SECKILL_PUBLISH_BATCH_SIZE
    MaxFailures         \* bound: calls to a broker that fail

ASSUME PublishingAssumption ==
    /\ SeckillCommands \subseteq Commands
    /\ BatchSize \in Nat \ {0}
    /\ MaxFailures \in Nat

VARIABLES
    call,           \* Commands -> where its publish call is
    pendingBatch,   \* requests that wait for a flush
    flushTimer,     \* a timer is set
    activeFlush,    \* [entries, step, attempt], step "none" when there is none
    topicsEnsured,  \* the promise of ensureTopics
    producer,       \* KafkaSeckillProducer: "none", "created" or "connected"
    sends,          \* SeckillCommands -> how often its request was given to sendBatch
    requestTopic,   \* commands whose request is in the topic, in one or more copies
    natsConnection, \* the promises sharedConnection and sharedClient
    natsManager,    \* the promise sharedManager
    streamEnsured,
    stream,         \* commands stored in the NATS stream
    failures,
    troubled        \* requests that waited when a call to Kafka failed

batcherVars == <<pendingBatch, flushTimer, activeFlush, troubled>>
topicVars == <<sends, requestTopic>>
kafkaVars == <<topicsEnsured, producer, sends, requestTopic>>
natsVars == <<natsConnection, natsManager, streamEnsured, stream>>
vars == <<call, pendingBatch, flushTimer, activeFlush, topicsEnsured, producer, sends,
          requestTopic, natsConnection, natsManager, streamEnsured, stream, failures, troubled>>

Steps == {"none", "topics", "connect", "send", "reset", "done", "failed"}

DefaultCalls == {"connecting", "managing", "ensuring", "publishing"}

Answers == {"resolved", "rejected"}

NoFlush == [entries |-> {}, step |-> "none", attempt |-> 1]

TypeOK ==
    /\ call \in [Commands -> {"new", "waiting"} \cup DefaultCalls \cup Answers]
    /\ pendingBatch \in SUBSET SeckillCommands
    /\ flushTimer \in BOOLEAN
    /\ activeFlush \in [entries : SUBSET SeckillCommands, step : Steps, attempt : {1, 2}]
    /\ topicsEnsured \in {"unset", "ok", "failed"}
    /\ producer \in {"none", "created", "connected"}
    /\ sends \in [SeckillCommands -> Nat]
    /\ requestTopic \in SUBSET SeckillCommands
    /\ natsConnection \in {"unset", "open", "failed"}
    /\ natsManager \in {"unset", "open", "failed"}
    /\ streamEnsured \in BOOLEAN
    /\ stream \in SUBSET (Commands \ SeckillCommands)
    /\ failures \in 0 .. MaxFailures
    /\ troubled \in SUBSET SeckillCommands

Init ==
    /\ call = [c \in Commands |-> "new"]
    /\ pendingBatch = {} /\ flushTimer = FALSE /\ activeFlush = NoFlush
    /\ topicsEnsured = "unset" /\ producer = "none"
    /\ sends = [c \in SeckillCommands |-> 0] /\ requestTopic = {}
    /\ natsConnection = "unset" /\ natsManager = "unset"
    /\ streamEnsured = FALSE /\ stream = {}
    /\ failures = 0 /\ troubled = {}

Fail == failures < MaxFailures /\ failures' = failures + 1

KafkaFails == Fail /\ troubled' = {c \in SeckillCommands : call[c] = "waiting"}

------------------------------------------------------------------------------
(* The batcher *)

Full(batch) == Cardinality(batch) >= BatchSize

\* Mutation: the requests stay in the pending batch.
FlushAndKeep(batch) ==
    /\ activeFlush' = [entries |-> batch, step |-> "topics", attempt |-> 1]
    /\ pendingBatch' = batch
    /\ flushTimer' = FALSE

\* startFlush up to the first await of send.
Flush(batch) ==
    /\ activeFlush' = [entries |-> batch, step |-> "topics", attempt |-> 1]
    /\ pendingBatch' = {}
    /\ flushTimer' = FALSE

\* Mutation: a request that does not fill the batch sets no timer.
PublishSeckillWithoutTimer(c) ==
    /\ call[c] = "new" /\ c \in SeckillCommands
    /\ call' = [call EXCEPT ![c] = "waiting"]
    /\ LET batch == pendingBatch \cup {c} IN
       IF Full(batch) /\ activeFlush.step = "none"
       THEN Flush(batch)
       ELSE /\ pendingBatch' = batch
            /\ flushTimer' = flushTimer
            /\ UNCHANGED activeFlush
    /\ UNCHANGED <<kafkaVars, natsVars, failures, troubled>>

\* SeckillPublishBatcher.publish: a full batch is flushed, or left to the end of the
\* flush that is under way, without a timer; another one waits for the timer.
PublishSeckill(c) ==
    /\ call[c] = "new" /\ c \in SeckillCommands
    /\ call' = [call EXCEPT ![c] = "waiting"]
    /\ LET batch == pendingBatch \cup {c} IN
       IF Full(batch) /\ activeFlush.step = "none"
       THEN Flush(batch)
       ELSE /\ pendingBatch' = batch
            /\ flushTimer' = ~Full(batch)
            /\ UNCHANGED activeFlush
    /\ UNCHANGED <<kafkaVars, natsVars, failures, troubled>>

\* The timer fires; while a flush is under way that is all it does.
FlushTimerFires ==
    /\ flushTimer
    /\ IF activeFlush.step = "none" /\ pendingBatch # {}
       THEN Flush(pendingBatch)
       ELSE /\ flushTimer' = FALSE
            /\ UNCHANGED <<pendingBatch, activeFlush>>
    /\ UNCHANGED <<call, kafkaVars, natsVars, failures, troubled>>

\* Mutation: the end of a flush takes a full batch and forgets another one.
SettleFlushAndForget ==
    /\ activeFlush.step \in {"done", "failed"}
    /\ call' = [c \in Commands |->
          IF c \in activeFlush.entries
          THEN IF activeFlush.step = "done" THEN "resolved" ELSE "rejected"
          ELSE call[c]]
    /\ troubled' = troubled \ activeFlush.entries
    /\ IF Full(pendingBatch)
       THEN Flush(pendingBatch)
       ELSE activeFlush' = NoFlush /\ UNCHANGED <<flushTimer, pendingBatch>>
    /\ UNCHANGED <<kafkaVars, natsVars, failures>>

\* Mutation: an error of the batch is given to the requests that came meanwhile, too.
SettleAll ==
    /\ activeFlush.step \in {"done", "failed"}
    /\ call' = [c \in Commands |->
          IF activeFlush.step = "failed" /\ c \in pendingBatch THEN "rejected"
          ELSE IF c \in activeFlush.entries
               THEN IF activeFlush.step = "done" THEN "resolved" ELSE "rejected"
               ELSE call[c]]
    /\ troubled' = troubled \ activeFlush.entries
    /\ IF Full(pendingBatch)
       THEN Flush(pendingBatch)
       ELSE /\ activeFlush' = NoFlush
            /\ flushTimer' = (flushTimer \/ pendingBatch # {})
            /\ UNCHANGED pendingBatch
    /\ UNCHANGED <<kafkaVars, natsVars, failures>>

\* The answers of the calls of a batch, and what finally does with the requests that
\* came meanwhile.
SettleFlush ==
    /\ activeFlush.step \in {"done", "failed"}
    /\ call' = [c \in Commands |->
          IF c \in activeFlush.entries
          THEN IF activeFlush.step = "done" THEN "resolved" ELSE "rejected"
          ELSE call[c]]
    /\ troubled' = troubled \ activeFlush.entries
    /\ IF Full(pendingBatch)
       THEN Flush(pendingBatch)
       ELSE /\ activeFlush' = NoFlush
            /\ flushTimer' = (flushTimer \/ pendingBatch # {})
            /\ UNCHANGED pendingBatch
    /\ UNCHANGED <<kafkaVars, natsVars, failures>>

------------------------------------------------------------------------------
(* KafkaSeckillProducer.send, one batch at a time *)

FlushStep(step, attempt) == activeFlush' = [entries |-> activeFlush.entries, step |-> step, attempt |-> attempt]

\* ensureTopics: the admin client connects and creates both topics, once in a process.
EnsureTopics ==
    /\ activeFlush.step = "topics" /\ topicsEnsured # "failed"
    /\ topicsEnsured' = "ok"
    /\ FlushStep("connect", 1)
    /\ UNCHANGED <<call, pendingBatch, flushTimer, producer, topicVars, natsVars, failures, troubled>>

EnsureTopicsFails ==
    /\ activeFlush.step = "topics" /\ topicsEnsured = "unset"
    /\ KafkaFails
    /\ topicsEnsured' = "failed"
    /\ FlushStep("failed", 1)
    /\ UNCHANGED <<call, pendingBatch, flushTimer, producer, topicVars, natsVars>>

\* The promise of the first call is kept, also when it was rejected.
TopicsHaveFailed ==
    /\ activeFlush.step = "topics" /\ topicsEnsured = "failed"
    /\ FlushStep("failed", 1)
    /\ UNCHANGED <<call, pendingBatch, flushTimer, kafkaVars, natsVars, failures, troubled>>

\* A producer whose connection has failed is kept and connected again by the next batch.
Connect ==
    /\ activeFlush.step = "connect"
    /\ producer' = "connected"
    /\ FlushStep("send", activeFlush.attempt)
    /\ UNCHANGED <<call, pendingBatch, flushTimer, topicsEnsured, topicVars, natsVars, failures, troubled>>

\* An error that says "disconnected" is tried once more with another producer.
AfterError(disconnected) ==
    FlushStep(IF disconnected /\ activeFlush.attempt = 1 THEN "reset" ELSE "failed",
              activeFlush.attempt)

ConnectFails(disconnected) ==
    /\ activeFlush.step = "connect" /\ producer # "connected"
    /\ KafkaFails
    /\ producer' = "created"
    /\ AfterError(disconnected)
    /\ UNCHANGED <<call, pendingBatch, flushTimer, topicsEnsured, topicVars, natsVars>>

\* One sendBatch.  The client is built without enable.idempotence: its own retries may
\* store a message more than once, so the topic tells only that it holds a request.
Append(written) ==
    /\ sends' = [c \in SeckillCommands |->
                    IF c \in activeFlush.entries THEN sends[c] + 1 ELSE sends[c]]
    /\ requestTopic' = requestTopic \cup written

\* Mutation: a batch is reported as sent when the broker has some of it.
SendPartly ==
    /\ activeFlush.step = "send"
    /\ \E written \in SUBSET activeFlush.entries : Append(written)
    /\ FlushStep("done", activeFlush.attempt)
    /\ UNCHANGED <<call, pendingBatch, flushTimer, topicsEnsured, producer, natsVars, failures, troubled>>

\* sendBatch is resolved when the broker has acknowledged every message.
Send ==
    /\ activeFlush.step = "send"
    /\ Append(activeFlush.entries)
    /\ FlushStep("done", activeFlush.attempt)
    /\ UNCHANGED <<call, pendingBatch, flushTimer, topicsEnsured, producer, natsVars, failures, troubled>>

\* sendBatch is rejected: the broker may have stored any of the messages.
SendFails(disconnected, written) ==
    /\ activeFlush.step = "send"
    /\ KafkaFails
    /\ Append(written)
    /\ AfterError(disconnected)
    /\ UNCHANGED <<call, pendingBatch, flushTimer, topicsEnsured, producer, natsVars>>

\* Mutation: the second attempt counts as a first one.
ResetProducerAgain ==
    /\ activeFlush.step = "reset"
    /\ producer' = "none"
    /\ FlushStep("connect", 1)
    /\ UNCHANGED <<call, pendingBatch, flushTimer, topicsEnsured, topicVars, natsVars, failures, troubled>>

\* resetProducer; an error of disconnect() is ignored.
ResetProducer ==
    /\ activeFlush.step = "reset"
    /\ producer' = "none"
    /\ FlushStep("connect", 2)
    /\ UNCHANGED <<call, pendingBatch, flushTimer, topicsEnsured, topicVars, natsVars, failures, troubled>>

------------------------------------------------------------------------------
(* The default bus: NATS *)

PublishDefault(c) ==
    /\ call[c] = "new" /\ c \notin SeckillCommands
    /\ call' = [call EXCEPT ![c] = "connecting"]
    /\ UNCHANGED <<batcherVars, kafkaVars, natsVars, failures>>

AnswerCall(c, answer) == call' = [call EXCEPT ![c] = answer]

\* getJetStreamClient: the first call connects, the others wait for its promise.
NatsConnected(c) ==
    /\ call[c] = "connecting" /\ natsConnection # "failed"
    /\ natsConnection' = "open"
    /\ AnswerCall(c, IF streamEnsured THEN "publishing" ELSE "managing")
    /\ UNCHANGED <<batcherVars, kafkaVars, natsManager, streamEnsured, stream, failures>>

NatsConnectFails(c) ==
    /\ call[c] = "connecting" /\ natsConnection = "unset"
    /\ Fail
    /\ natsConnection' = "failed"
    /\ AnswerCall(c, "rejected")
    /\ UNCHANGED <<batcherVars, kafkaVars, natsManager, streamEnsured, stream>>

NatsHasFailed(c) ==
    /\ call[c] = "connecting" /\ natsConnection = "failed"
    /\ AnswerCall(c, "rejected")
    /\ UNCHANGED <<batcherVars, kafkaVars, natsVars, failures>>

\* getJetStreamManager: a call that has to ensure the stream waits for the shared promise.
ManagerMade(c) ==
    /\ call[c] = "managing" /\ natsManager # "failed"
    /\ natsManager' = "open"
    /\ AnswerCall(c, "ensuring")
    /\ UNCHANGED <<batcherVars, kafkaVars, natsConnection, streamEnsured, stream, failures>>

ManagerFails(c) ==
    /\ call[c] = "managing" /\ natsManager = "unset"
    /\ Fail
    /\ natsManager' = "failed"
    /\ AnswerCall(c, "rejected")
    /\ UNCHANGED <<batcherVars, kafkaVars, natsConnection, streamEnsured, stream>>

ManagerHasFailed(c) ==
    /\ call[c] = "managing" /\ natsManager = "failed"
    /\ AnswerCall(c, "rejected")
    /\ UNCHANGED <<batcherVars, kafkaVars, natsVars, failures>>

\* ensureBuyIntentCommandStream: the stream is looked up and else added; only a success
\* is remembered.
EnsureStream(c) ==
    /\ call[c] = "ensuring"
    /\ streamEnsured' = TRUE
    /\ AnswerCall(c, "publishing")
    /\ UNCHANGED <<batcherVars, kafkaVars, natsConnection, natsManager, stream, failures>>

EnsureStreamFails(c) ==
    /\ call[c] = "ensuring"
    /\ Fail
    /\ AnswerCall(c, "rejected")
    /\ UNCHANGED <<batcherVars, kafkaVars, natsVars>>

PublishAcknowledged(c) ==
    /\ call[c] = "publishing"
    /\ stream' = stream \cup {c}
    /\ AnswerCall(c, "resolved")
    /\ UNCHANGED <<batcherVars, kafkaVars, natsConnection, natsManager, streamEnsured, failures>>

\* The message or only its acknowledgement is lost.
PublishNotAcknowledged(c) ==
    /\ call[c] = "publishing"
    /\ Fail
    /\ \E stored \in BOOLEAN : stream' = IF stored THEN stream \cup {c} ELSE stream
    /\ AnswerCall(c, "rejected")
    /\ UNCHANGED <<batcherVars, kafkaVars, natsConnection, natsManager, streamEnsured>>

------------------------------------------------------------------------------
KafkaAnswers ==
    \/ EnsureTopics \/ EnsureTopicsFails \/ TopicsHaveFailed
    \/ Connect \/ Send \/ ResetProducer
    \/ \E disconnected \in BOOLEAN : ConnectFails(disconnected)
    \/ \E disconnected \in BOOLEAN, written \in SUBSET activeFlush.entries :
          SendFails(disconnected, written)

NatsAnswers(c) ==
    \/ NatsConnected(c) \/ NatsConnectFails(c) \/ NatsHasFailed(c)
    \/ ManagerMade(c) \/ ManagerFails(c) \/ ManagerHasFailed(c)
    \/ EnsureStream(c) \/ EnsureStreamFails(c)
    \/ PublishAcknowledged(c) \/ PublishNotAcknowledged(c)

Publish == \E c \in Commands : PublishSeckill(c) \/ PublishDefault(c)

Next ==
    \/ Publish
    \/ FlushTimerFires \/ SettleFlush \/ KafkaAnswers
    \/ \E c \in Commands : NatsAnswers(c)

Spec == Init /\ [][Next]_vars

\* Timers fire, and the clients of both brokers settle every promise they have given:
\* they have time limits of their own.  Nothing is assumed of the callers.
FairSpec ==
    /\ Spec
    /\ WF_vars(FlushTimerFires) /\ WF_vars(SettleFlush) /\ WF_vars(KafkaAnswers)
    /\ \A c \in Commands \ SeckillCommands : WF_vars(NatsAnswers(c))

------------------------------------------------------------------------------
(* Properties *)

\* A request that waits is never forgotten: it is in the pending batch or in the flush,
\* and while no flush is under way the timer of the pending batch is set, whatever
\* publish, the timer and the end of a flush have cleared; a full batch waits for nothing
\* but the flush before it.
NothingStranded ==
    /\ \A c \in SeckillCommands : call[c] = "waiting" => c \in pendingBatch \cup activeFlush.entries
    /\ pendingBatch # {} => flushTimer \/ activeFlush.step # "none"
    /\ Full(pendingBatch) => activeFlush.step # "none" /\ ~flushTimer

\* acceptBuyIntentCommand answers "accepted" only for a command that is in its
\* pipeline.
AcceptedIsPublished ==
    \A c \in Commands : call[c] = "resolved" =>
        IF c \in SeckillCommands THEN c \in requestTopic ELSE c \in stream

\* One lost connection costs one more send: whatever fails, and whatever joins or follows
\* the batch meanwhile, a request is given to sendBatch at most twice, and never after its
\* call was answered.
SentAtMostTwice ==
    [][\A c \in SeckillCommands : sends'[c] # sends[c] =>
          sends'[c] <= 2 /\ call[c] \notin Answers]_vars

\* A call is answered once: no later batch, failure or retry changes the answer.
AnsweredOnce ==
    [][\A c \in Commands : call[c] \in Answers => call'[c] = call[c]]_vars

\* An error is forgotten with the calls that have met it.  A call that began after the
\* last error is rejected only for a promise that was rejected and kept: that of
\* ensureTopics, of the connection to NATS, or of its manager, each on its own side.
RejectedForAReason ==
    [][\A c \in Commands : call'[c] = "rejected" /\ call[c] # "rejected" =>
          IF c \in SeckillCommands
          THEN c \in troubled \/ topicsEnsured = "failed"
          ELSE failures' > failures \/ "failed" \in {natsConnection, natsManager}]_vars

\* Every call that has begun is answered, whatever fails: in the end none is under way.
EveryCallAnswered ==
    <>[](\A c \in Commands : call[c] \in {"new"} \cup Answers)

==============================================================================
