------------------------ MODULE CommandPublishingProofs ------------------------
(***************************************************************************)
(* Proofs about CommandPublishing for every set of commands, every batch   *)
(* size and any number of failed calls to the brokers.                     *)
(***************************************************************************)
EXTENDS CommandPublishing, TLAPS, FiniteSetTheorems

------------------------------------------------------------------------------
(* The inductive invariant *)

\* Only calls of the default bus are on their way to NATS, and none gets past a
\* connection that is not open.
DefaultCallsInv ==
    /\ \A c \in Commands : call[c] \in DefaultCalls => c \notin SeckillCommands
    /\ natsConnection # "open" => \A c \in Commands : call[c] \notin DefaultCalls \ {"connecting"}

\* A request is in one batch at a time, and its call waits as long as it is in one.
BatchInv ==
    /\ pendingBatch \cap activeFlush.entries = {}
    /\ \A c \in pendingBatch \cup activeFlush.entries : call[c] = "waiting"
    /\ activeFlush.step = "none" => activeFlush.entries = {}

\* How often the requests of the flush have been sent by now, at most.
SendsSoFar ==
    IF activeFlush.step \in {"topics", "connect", "send"} THEN activeFlush.attempt - 1
    ELSE activeFlush.attempt

\* Nothing is sent before its first flush, an attempt is one send, and a send that has
\* succeeded has stored every request.
SendsInv ==
    /\ \A c \in SeckillCommands : call[c] = "new" \/ c \in pendingBatch => sends[c] = 0
    /\ \A c \in activeFlush.entries : sends[c] <= SendsSoFar
    /\ activeFlush.step \in {"topics", "reset"} => activeFlush.attempt = 1
    /\ activeFlush.step = "done" => activeFlush.entries \subseteq requestTopic

\* A flush that has failed has met an error together with all its requests, or the
\* rejection of ensureTopics that was kept.
ErrorsInv ==
    activeFlush.step = "failed" => topicsEnsured = "failed" \/ activeFlush.entries \subseteq troubled

IInv ==
    /\ TypeOK /\ DefaultCallsInv /\ BatchInv /\ SendsInv /\ ErrorsInv
    /\ AcceptedIsPublished /\ NothingStranded

\* A process starts with nothing pending, no promise given and nothing published.
LEMMA InitInv == Init => IInv
  <1>1. ~Full({})
    BY PublishingAssumption, FS_EmptySet DEF Full
  <1>2. Init => TypeOK
    <2>1. Init => activeFlush \in [entries : SUBSET SeckillCommands, step : Steps, attempt : {1, 2}]
      BY DEF Init, NoFlush, Steps
    <2>2. Init => call \in [Commands -> {"new", "waiting"} \cup DefaultCalls \cup Answers]
      BY DEF Init
    <2>3. Init => flushTimer \in BOOLEAN /\ streamEnsured \in BOOLEAN
      BY DEF Init
    <2> QED BY <2>1, <2>2, <2>3, PublishingAssumption DEF Init, TypeOK
  <1>3. Init => DefaultCallsInv /\ BatchInv /\ SendsInv /\ ErrorsInv
    BY DEF Init, DefaultCallsInv, DefaultCalls, BatchInv, SendsInv, SendsSoFar, ErrorsInv, NoFlush
  <1>4. Init => AcceptedIsPublished /\ NothingStranded
    BY <1>1, PublishingAssumption DEF Init, AcceptedIsPublished, NothingStranded, NoFlush
  <1> QED BY <1>2, <1>3, <1>4 DEF IInv

------------------------------------------------------------------------------
(* What the two brokers cannot disturb *)

\* While the clients of Kafka work, no call is answered, no request joins or leaves a
\* batch, and the NATS side is not touched.
LEMMA KafkaFrame ==
    ASSUME TypeOK, KafkaAnswers
    PROVE  /\ UNCHANGED <<call, pendingBatch, flushTimer, natsVars>>
           /\ activeFlush'.entries = activeFlush.entries
           /\ activeFlush.step \notin {"none", "done", "failed"} /\ activeFlush'.step # "none"
           /\ requestTopic \subseteq requestTopic'
  <1> USE DEF FlushStep, natsVars, topicVars
  <1>1. CASE EnsureTopics \/ EnsureTopicsFails \/ TopicsHaveFailed
    BY <1>1 DEF EnsureTopics, EnsureTopicsFails, TopicsHaveFailed, kafkaVars, TypeOK
  <1>2. CASE Connect \/ ResetProducer
    BY <1>2 DEF Connect, ResetProducer, TypeOK
  <1>3. CASE Send
    BY <1>3 DEF Send, Append, TypeOK
  <1>4. ASSUME NEW d \in BOOLEAN, ConnectFails(d)
        PROVE  /\ UNCHANGED <<call, pendingBatch, flushTimer, topicVars, natsVars>>
               /\ activeFlush'.entries = activeFlush.entries
               /\ activeFlush.step = "connect" /\ activeFlush'.step # "none"
    BY <1>4 DEF ConnectFails, AfterError
  <1>5. ASSUME NEW d \in BOOLEAN, NEW w \in SUBSET activeFlush.entries, SendFails(d, w)
        PROVE  /\ UNCHANGED <<call, pendingBatch, flushTimer, natsVars>>
               /\ activeFlush'.entries = activeFlush.entries
               /\ activeFlush.step = "send" /\ activeFlush'.step # "none"
               /\ requestTopic \subseteq requestTopic'
    BY <1>5 DEF SendFails, AfterError, Append, TypeOK
  <1> QED BY <1>1, <1>2, <1>3, <1>4, <1>5 DEF KafkaAnswers, TypeOK

\* An answer of NATS moves one call of the default bus and leaves the seckill side alone.
LEMMA NatsFrame ==
    ASSUME TypeOK, NEW c \in Commands, NatsAnswers(c)
    PROVE  /\ UNCHANGED <<pendingBatch, flushTimer, activeFlush, troubled>>
           /\ UNCHANGED <<topicsEnsured, producer, sends, requestTopic>>
           /\ call[c] \in DefaultCalls
           /\ call'[c] \in DefaultCalls \cup Answers
           /\ \A d \in Commands \ {c} : call'[d] = call[d]
  BY DEF NatsAnswers, NatsConnected, NatsConnectFails, NatsHasFailed, ManagerMade, ManagerFails,
         ManagerHasFailed, EnsureStream, EnsureStreamFails, PublishAcknowledged, PublishNotAcknowledged, AnswerCall,
         DefaultCalls, Answers, TypeOK, batcherVars, kafkaVars, natsVars

------------------------------------------------------------------------------
(* Every step keeps the invariant, part by part *)

\* Every step keeps the types; a default call alone reaches the stream.
LEMMA TypeStep ==
    ASSUME TypeOK, DefaultCallsInv, [Next]_vars
    PROVE  TypeOK'
  <1>1. ASSUME NEW c \in Commands, PublishSeckill(c) PROVE TypeOK'
    <2> DEFINE batch == pendingBatch \cup {c}
    <2>1. call' \in [Commands -> {"new", "waiting"} \cup DefaultCalls \cup Answers]
      BY <1>1 DEF PublishSeckill, TypeOK
    <2>2. batch \in SUBSET SeckillCommands
      BY <1>1 DEF PublishSeckill, TypeOK
    <2>3. pendingBatch' \in SUBSET SeckillCommands
      BY <1>1, <2>2 DEF PublishSeckill, Flush
    <2>4. flushTimer' \in BOOLEAN
      BY <1>1, Zenon DEF PublishSeckill, Flush
    <2>5. activeFlush' \in [entries : SUBSET SeckillCommands, step : Steps, attempt : {1, 2}]
      BY <1>1, <2>2 DEF PublishSeckill, Flush, TypeOK, Steps
    <2> QED BY <1>1, <2>1, <2>3, <2>4, <2>5 DEF PublishSeckill, TypeOK, kafkaVars, natsVars
  <1>2. ASSUME NEW c \in Commands, PublishDefault(c) PROVE TypeOK'
    BY <1>2 DEF PublishDefault, TypeOK, DefaultCalls, batcherVars, kafkaVars, natsVars
  <1>3. CASE FlushTimerFires
    <2>1. flushTimer' = FALSE
      BY <1>3 DEF FlushTimerFires, Flush
    <2>2. pendingBatch' \in SUBSET SeckillCommands
      BY <1>3 DEF FlushTimerFires, Flush, TypeOK
    <2>3. activeFlush' \in [entries : SUBSET SeckillCommands, step : Steps, attempt : {1, 2}]
      BY <1>3 DEF FlushTimerFires, Flush, TypeOK, Steps
    <2> QED BY <1>3, <2>1, <2>2, <2>3 DEF FlushTimerFires, TypeOK, kafkaVars, natsVars
  <1>4. CASE SettleFlush
    <2>1. call' \in [Commands -> {"new", "waiting"} \cup DefaultCalls \cup Answers]
      BY <1>4 DEF SettleFlush, TypeOK, Answers
    <2>2. flushTimer' \in BOOLEAN
      BY <1>4, Zenon DEF SettleFlush, Flush
    <2>3. pendingBatch' \in SUBSET SeckillCommands
      BY <1>4 DEF SettleFlush, Flush, TypeOK
    <2>4. activeFlush' \in [entries : SUBSET SeckillCommands, step : Steps, attempt : {1, 2}]
      BY <1>4 DEF SettleFlush, Flush, NoFlush, TypeOK, Steps
    <2> QED BY <1>4, <2>1, <2>2, <2>3, <2>4 DEF SettleFlush, TypeOK, kafkaVars, natsVars
  <1>5. CASE EnsureTopics \/ EnsureTopicsFails \/ TopicsHaveFailed
    BY <1>5, PublishingAssumption
    DEF EnsureTopics, EnsureTopicsFails, TopicsHaveFailed, KafkaFails, Fail, FlushStep, TypeOK,
        Steps, topicVars, kafkaVars, natsVars
  <1>6. CASE Connect \/ Send \/ ResetProducer
    BY <1>6 DEF Connect, Send, ResetProducer, Append, FlushStep, TypeOK, Steps, topicVars, natsVars
  <1>7. ASSUME NEW d \in BOOLEAN, ConnectFails(d) PROVE TypeOK'
    BY <1>7, PublishingAssumption
    DEF ConnectFails, AfterError, KafkaFails, Fail, FlushStep, TypeOK, Steps, topicVars, natsVars
  <1>8. ASSUME NEW d \in BOOLEAN, NEW w \in SUBSET activeFlush.entries, SendFails(d, w)
        PROVE  TypeOK'
    BY <1>8, PublishingAssumption
    DEF SendFails, Append, AfterError, KafkaFails, Fail, FlushStep, TypeOK, Steps, natsVars
  <1>9. ASSUME NEW c \in Commands, NatsAnswers(c) PROVE TypeOK'
    <2> USE DEF TypeOK, DefaultCalls, Answers, AnswerCall, batcherVars, kafkaVars, natsVars
    <2>1. CASE NatsConnected(c) \/ NatsConnectFails(c) \/ NatsHasFailed(c)
      BY <2>1, PublishingAssumption DEF NatsConnected, NatsConnectFails, NatsHasFailed, Fail
    <2>2. CASE ManagerMade(c) \/ ManagerFails(c) \/ ManagerHasFailed(c)
      BY <2>2, PublishingAssumption DEF ManagerMade, ManagerFails, ManagerHasFailed, Fail
    <2>3. CASE EnsureStream(c) \/ EnsureStreamFails(c)
      <3>1. streamEnsured' \in BOOLEAN
        BY <2>3 DEF EnsureStream, EnsureStreamFails
      <3> QED BY <2>3, <3>1, PublishingAssumption DEF EnsureStream, EnsureStreamFails, Fail
    <2>4. CASE PublishAcknowledged(c) \/ PublishNotAcknowledged(c)
      <3>1. c \notin SeckillCommands
        BY <2>4 DEF PublishAcknowledged, PublishNotAcknowledged, DefaultCallsInv
      <3> QED BY <2>4, <3>1, PublishingAssumption DEF PublishAcknowledged, PublishNotAcknowledged, Fail
    <2> QED BY <1>9, <2>1, <2>2, <2>3, <2>4 DEF NatsAnswers
  <1>10. CASE UNCHANGED vars
    BY <1>10 DEF vars, TypeOK
  <1> QED BY <1>1, <1>2, <1>3, <1>4, <1>5, <1>6, <1>7, <1>8, <1>9, <1>10
          DEF Next, Publish, KafkaAnswers

\* Only PublishDefault starts a call of the default bus, and only NatsConnected lets one
\* past the connection.
LEMMA DefaultCallsStep ==
    ASSUME TypeOK, DefaultCallsInv, [Next]_vars
    PROVE  DefaultCallsInv'
  <1> USE DEF DefaultCallsInv, DefaultCalls
  <1>1. ASSUME NEW c \in Commands, PublishSeckill(c) \/ PublishDefault(c) PROVE DefaultCallsInv'
    BY <1>1 DEF PublishSeckill, PublishDefault, TypeOK, natsVars
  <1>2. CASE FlushTimerFires \/ SettleFlush
    BY <1>2 DEF FlushTimerFires, SettleFlush, natsVars
  <1>3. CASE KafkaAnswers
    BY <1>3, KafkaFrame DEF natsVars
  <1>4. ASSUME NEW c \in Commands, NatsAnswers(c) PROVE DefaultCallsInv'
    BY <1>4 DEF NatsAnswers, NatsConnected, NatsConnectFails, NatsHasFailed, ManagerMade, ManagerFails,
                ManagerHasFailed, EnsureStream, EnsureStreamFails, PublishAcknowledged, PublishNotAcknowledged, AnswerCall,
                TypeOK, natsVars
  <1>5. CASE UNCHANGED vars
    BY <1>5 DEF vars
  <1> QED BY <1>1, <1>2, <1>3, <1>4, <1>5 DEF Next, Publish

\* A request enters the pending batch when its call starts to wait, moves to the flush
\* with all others, and leaves it when the calls of the flush are answered.
LEMMA BatchStep ==
    ASSUME TypeOK, BatchInv, [Next]_vars
    PROVE  BatchInv'
  <1>1. ASSUME NEW c \in Commands, PublishSeckill(c) PROVE BatchInv'
    BY <1>1 DEF PublishSeckill, Flush, BatchInv, TypeOK
  <1>2. ASSUME NEW c \in Commands, PublishDefault(c) PROVE BatchInv'
    BY <1>2 DEF PublishDefault, BatchInv, TypeOK, batcherVars
  <1>3. CASE FlushTimerFires
    BY <1>3 DEF FlushTimerFires, Flush, BatchInv
  <1>4. CASE SettleFlush
    BY <1>4, PublishingAssumption DEF SettleFlush, Flush, NoFlush, BatchInv, TypeOK
  <1>5. CASE KafkaAnswers
    BY <1>5, KafkaFrame DEF BatchInv
  <1>6. ASSUME NEW c \in Commands, NatsAnswers(c) PROVE BatchInv'
    <2>1. /\ UNCHANGED <<pendingBatch, flushTimer, activeFlush, sends, requestTopic>>
          /\ call[c] \in DefaultCalls /\ call'[c] \in DefaultCalls \cup Answers
          /\ \A d \in Commands \ {c} : call'[d] = call[d]
      BY <1>6, NatsFrame
    <2>2. \A d \in pendingBatch \cup activeFlush.entries : d \in Commands /\ d # c
      BY <2>1, PublishingAssumption DEF BatchInv, TypeOK, DefaultCalls
    <2> QED BY <2>1, <2>2 DEF BatchInv
  <1>7. CASE UNCHANGED vars
    BY <1>7 DEF vars, BatchInv
  <1> QED BY <1>1, <1>2, <1>3, <1>4, <1>5, <1>6, <1>7 DEF Next, Publish

\* The count of sends: a request enters a batch with none, a sendBatch adds one to each
\* request of the flush, and a second one needs the reset that only a first attempt has.
LEMMA SendsStep ==
    ASSUME TypeOK, BatchInv, SendsInv, [Next]_vars
    PROVE  SendsInv'
  <1> USE DEF SendsInv, SendsSoFar, TypeOK
  <1>1. ASSUME NEW c \in Commands, PublishSeckill(c) PROVE SendsInv'
    BY <1>1 DEF PublishSeckill, Flush, BatchInv, kafkaVars
  <1>2. ASSUME NEW c \in Commands, PublishDefault(c) PROVE SendsInv'
    BY <1>2 DEF PublishDefault, batcherVars, kafkaVars
  <1>3. CASE FlushTimerFires
    BY <1>3 DEF FlushTimerFires, Flush, kafkaVars
  <1>4. CASE SettleFlush
    BY <1>4, PublishingAssumption DEF SettleFlush, Flush, NoFlush, BatchInv, kafkaVars
  <1>5. CASE EnsureTopics \/ EnsureTopicsFails \/ TopicsHaveFailed
    BY <1>5 DEF EnsureTopics, EnsureTopicsFails, TopicsHaveFailed, FlushStep, topicVars, kafkaVars
  <1>6. CASE Connect \/ ResetProducer
    BY <1>6 DEF Connect, ResetProducer, FlushStep, topicVars
  <1>7. CASE Send
    BY <1>7 DEF Send, Append, FlushStep, BatchInv
  <1>8. ASSUME NEW d \in BOOLEAN, ConnectFails(d) PROVE SendsInv'
    BY <1>8 DEF ConnectFails, AfterError, FlushStep, topicVars
  <1>9. ASSUME NEW d \in BOOLEAN, NEW w \in SUBSET activeFlush.entries, SendFails(d, w)
        PROVE  SendsInv'
    <2>1. /\ activeFlush.step = "send"
          /\ \A c \in SeckillCommands :
                sends'[c] = IF c \in activeFlush.entries THEN sends[c] + 1 ELSE sends[c]
          /\ activeFlush'.entries = activeFlush.entries
          /\ activeFlush'.attempt = activeFlush.attempt
          /\ \/ activeFlush'.step = "reset" /\ activeFlush.attempt = 1
             \/ activeFlush'.step = "failed"
          /\ UNCHANGED <<call, pendingBatch>>
      BY <1>9 DEF SendFails, Append, AfterError, FlushStep
    <2>2. \A c \in activeFlush.entries : sends'[c] <= activeFlush.attempt
      BY <2>1
    <2>3. \A c \in SeckillCommands : call[c] = "new" \/ c \in pendingBatch => c \notin activeFlush.entries
      BY DEF BatchInv
    <2> QED BY <2>1, <2>2, <2>3
  <1>10. ASSUME NEW c \in Commands, NatsAnswers(c) PROVE SendsInv'
    <2>1. /\ UNCHANGED <<pendingBatch, flushTimer, activeFlush, sends, requestTopic>>
          /\ call[c] \in DefaultCalls /\ call'[c] \in DefaultCalls \cup Answers
          /\ \A d \in Commands \ {c} : call'[d] = call[d]
      BY <1>10, NatsFrame
    <2>2. \A d \in SeckillCommands : call'[d] = "new" => call[d] = "new"
      BY <2>1, PublishingAssumption DEF DefaultCalls, Answers
    <2> QED BY <2>1, <2>2
  <1>11. CASE UNCHANGED vars
    BY <1>11 DEF vars
  <1> QED BY <1>1, <1>2, <1>3, <1>4, <1>5, <1>6, <1>7, <1>8, <1>9, <1>10, <1>11
          DEF Next, Publish, KafkaAnswers

\* A flush fails where its requests, which all wait, meet an error, or at a rejection that
\* was kept; a rejection stays.
LEMMA ErrorsStep ==
    ASSUME TypeOK, BatchInv, ErrorsInv, [Next]_vars
    PROVE  ErrorsInv'
  <1> USE DEF ErrorsInv
  <1>1. ASSUME NEW c \in Commands, PublishSeckill(c) \/ PublishDefault(c) PROVE ErrorsInv'
    BY <1>1 DEF PublishSeckill, PublishDefault, Flush, batcherVars, kafkaVars
  <1>2. CASE FlushTimerFires \/ SettleFlush
    BY <1>2 DEF FlushTimerFires, SettleFlush, Flush, NoFlush, kafkaVars
  <1>3. CASE EnsureTopics \/ EnsureTopicsFails \/ TopicsHaveFailed
    BY <1>3 DEF EnsureTopics, EnsureTopicsFails, TopicsHaveFailed, FlushStep, kafkaVars
  <1>4. CASE Connect \/ Send \/ ResetProducer
    BY <1>4 DEF Connect, Send, ResetProducer, FlushStep
  <1>5. ASSUME NEW d \in BOOLEAN,
               ConnectFails(d) \/ \E w \in SUBSET activeFlush.entries : SendFails(d, w)
        PROVE  ErrorsInv'
    <2>1. activeFlush'.entries = activeFlush.entries
      BY <1>5 DEF ConnectFails, SendFails, AfterError, FlushStep
    <2>2. troubled' = {c \in SeckillCommands : call[c] = "waiting"}
      BY <1>5 DEF ConnectFails, SendFails, KafkaFails
    <2>3. activeFlush.entries \subseteq troubled'
      BY <2>2 DEF BatchInv, TypeOK
    <2> QED BY <2>1, <2>3
  <1>6. ASSUME NEW c \in Commands, NatsAnswers(c) PROVE ErrorsInv'
    BY <1>6, NatsFrame
  <1>7. CASE UNCHANGED vars
    BY <1>7 DEF vars
  <1> QED BY <1>1, <1>2, <1>3, <1>4, <1>5, <1>6, <1>7 DEF Next, Publish, KafkaAnswers

\* A call is accepted at the end of a flush whose send has succeeded, or when NATS has
\* acknowledged its message; the topic and the stream only grow.
LEMMA AcceptedStep ==
    ASSUME TypeOK, DefaultCallsInv, BatchInv, SendsInv, AcceptedIsPublished, [Next]_vars
    PROVE  AcceptedIsPublished'
  <1> USE DEF AcceptedIsPublished
  <1>1. ASSUME NEW c \in Commands, PublishSeckill(c) \/ PublishDefault(c)
        PROVE  AcceptedIsPublished'
    BY <1>1 DEF PublishSeckill, PublishDefault, TypeOK, kafkaVars, natsVars
  <1>2. CASE FlushTimerFires
    BY <1>2 DEF FlushTimerFires, kafkaVars, natsVars
  <1>3. CASE SettleFlush
    BY <1>3 DEF SettleFlush, SendsInv, TypeOK, kafkaVars, natsVars
  <1>4. CASE KafkaAnswers
    BY <1>4, KafkaFrame DEF natsVars
  <1>5. ASSUME NEW c \in Commands, NatsAnswers(c) PROVE AcceptedIsPublished'
    <2>1. /\ stream \subseteq stream'
          /\ call'[c] = "resolved" => c \in stream'
      BY <1>5 DEF NatsAnswers, NatsConnected, NatsConnectFails, NatsHasFailed, ManagerMade,
                  ManagerFails, ManagerHasFailed, EnsureStream, EnsureStreamFails, PublishAcknowledged, PublishNotAcknowledged, AnswerCall,
                  TypeOK, natsVars
    <2>2. /\ requestTopic' = requestTopic
          /\ \A d \in Commands \ {c} : call'[d] = call[d]
      BY <1>5, NatsFrame
    <2>3. c \notin SeckillCommands
      BY <1>5, NatsFrame DEF DefaultCallsInv
    <2> QED BY <2>1, <2>2, <2>3
  <1>6. CASE UNCHANGED vars
    BY <1>6 DEF vars
  <1> QED BY <1>1, <1>2, <1>3, <1>4, <1>5, <1>6 DEF Next, Publish

\* publish, the timer and the end of a flush each leave a non-empty batch with a timer
\* or behind a flush.
LEMMA StrandedStep ==
    ASSUME TypeOK, DefaultCallsInv, BatchInv, NothingStranded, [Next]_vars
    PROVE  NothingStranded'
  <1>1. ~Full({})
    BY PublishingAssumption, FS_EmptySet DEF Full
  <1>2. ASSUME NEW c \in Commands, PublishSeckill(c) PROVE NothingStranded'
    <2> DEFINE batch == pendingBatch \cup {c}
    <2>1. CASE Full(batch) /\ activeFlush.step = "none"
      <3>1. /\ activeFlush' = [entries |-> batch, step |-> "topics", attempt |-> 1]
            /\ pendingBatch' = {}
        BY <1>2, <2>1 DEF PublishSeckill, Flush
      <3>2. \A s \in SeckillCommands : call'[s] = "waiting" => s \in batch
        BY <1>2, <2>1 DEF PublishSeckill, NothingStranded, BatchInv, TypeOK
      <3>3. ~Full(pendingBatch)'
        BY <1>1, <3>1 DEF Full
      <3> QED BY <3>1, <3>2, <3>3 DEF NothingStranded
    <2>2. CASE ~(Full(batch) /\ activeFlush.step = "none")
      <3>1. pendingBatch' = batch /\ flushTimer' = ~Full(batch) /\ activeFlush' = activeFlush
        BY <1>2, <2>2, Zenon DEF PublishSeckill
      <3>2. \A s \in SeckillCommands : call'[s] = "waiting" => s \in batch \cup activeFlush.entries
        BY <1>2 DEF PublishSeckill, NothingStranded, TypeOK
      <3>3. flushTimer' \/ activeFlush'.step # "none"
        BY <2>2, <3>1
      <3>4. Full(pendingBatch)' => activeFlush'.step # "none" /\ ~flushTimer'
        BY <2>2, <3>1 DEF Full
      <3> QED BY <3>1, <3>2, <3>3, <3>4 DEF NothingStranded
    <2> QED BY <2>1, <2>2
  <1>3. ASSUME NEW c \in Commands, PublishDefault(c) PROVE NothingStranded'
    BY <1>3 DEF PublishDefault, NothingStranded, TypeOK, batcherVars, Full
  <1>4. CASE FlushTimerFires
    BY <1>1, <1>4 DEF FlushTimerFires, Flush, NothingStranded, BatchInv, Full
  <1>5. CASE SettleFlush
    <2>1. CASE Full(pendingBatch)
      <3>1. /\ activeFlush' = [entries |-> pendingBatch, step |-> "topics", attempt |-> 1]
            /\ pendingBatch' = {}
        BY <1>5, <2>1 DEF SettleFlush, Flush
      <3>2. \A s \in SeckillCommands : call'[s] = "waiting" => s \in pendingBatch
        BY <1>5, PublishingAssumption DEF SettleFlush, NothingStranded
      <3>3. ~Full(pendingBatch)'
        BY <1>1, <3>1 DEF Full
      <3> QED BY <3>1, <3>2, <3>3 DEF NothingStranded
    <2>2. CASE ~Full(pendingBatch)
      <3>1. /\ activeFlush' = NoFlush /\ pendingBatch' = pendingBatch
            /\ flushTimer' = (flushTimer \/ pendingBatch # {})
        BY <1>5, <2>2 DEF SettleFlush
      <3>2. \A s \in SeckillCommands : call'[s] = "waiting" => s \in pendingBatch
        BY <1>5, PublishingAssumption DEF SettleFlush, NothingStranded
      <3>3. pendingBatch # {} => flushTimer'
        BY <3>1
      <3>4. ~Full(pendingBatch')
        BY <2>2, <3>1
      <3> QED BY <3>1, <3>2, <3>3, <3>4 DEF NothingStranded, Full
    <2> QED BY <2>1, <2>2
  <1>6. CASE KafkaAnswers
    BY <1>6, KafkaFrame DEF NothingStranded, Full
  <1>7. ASSUME NEW c \in Commands, NatsAnswers(c) PROVE NothingStranded'
    <2>1. /\ UNCHANGED <<pendingBatch, flushTimer, activeFlush, sends, requestTopic>>
          /\ call[c] \in DefaultCalls /\ call'[c] \in DefaultCalls \cup Answers
          /\ \A d \in Commands \ {c} : call'[d] = call[d]
      BY <1>7, NatsFrame
    <2>2. \A d \in SeckillCommands : call'[d] = "waiting" => call[d] = "waiting"
      BY <2>1, PublishingAssumption DEF DefaultCalls, Answers
    <2> QED BY <2>1, <2>2 DEF NothingStranded, Full
  <1>8. CASE UNCHANGED vars
    BY <1>8 DEF vars, NothingStranded, Full
  <1> QED BY <1>2, <1>3, <1>4, <1>5, <1>6, <1>7, <1>8 DEF Next, Publish

\* The parts together.
LEMMA InvariantStep == IInv /\ [Next]_vars => IInv'
  BY TypeStep, DefaultCallsStep, BatchStep, SendsStep, ErrorsStep, AcceptedStep, StrandedStep
  DEF IInv

\* The inductive invariant holds in every state.
THEOREM Invariant == Spec => []IInv
  BY InitInv, InvariantStep, PTL DEF Spec

------------------------------------------------------------------------------
(* Results *)

\* Every variable keeps its type, whatever fails.
THEOREM TypeCorrect == Spec => []TypeOK
  <1>1. IInv => TypeOK
    BY DEF IInv
  <1> QED BY <1>1, Invariant, PTL

\* The batcher forgets no request: it is in a batch, and the batch has a timer or a
\* flush to wait for, for every batch size and every order of calls, timers and answers.
THEOREM NoneStranded == Spec => []NothingStranded
  <1>1. IInv => NothingStranded
    BY DEF IInv
  <1> QED BY <1>1, Invariant, PTL

\* A call that was answered "accepted" has its command in its pipeline.
THEOREM AcceptedMeansPublished == Spec => []AcceptedIsPublished
  <1>1. IInv => AcceptedIsPublished
    BY DEF IInv
  <1> QED BY <1>1, Invariant, PTL

\* Only the send of a flush gives requests to sendBatch; their calls wait, and by the
\* count of attempts it is the first or the second time.
THEOREM TwoSendsAtMost == Spec => SentAtMostTwice
  <1> DEFINE Twice == \A c \in SeckillCommands : sends'[c] # sends[c] =>
                        sends'[c] <= 2 /\ call[c] \notin Answers
  <1>1. ASSUME IInv, [Next]_vars PROVE Twice
    <2> USE <1>1 DEF IInv
    <2>1. ASSUME NEW c \in Commands, PublishSeckill(c) \/ PublishDefault(c) PROVE Twice
      BY <2>1 DEF PublishSeckill, PublishDefault, kafkaVars
    <2>2. CASE FlushTimerFires \/ SettleFlush
      BY <2>2 DEF FlushTimerFires, SettleFlush, kafkaVars
    <2>3. CASE EnsureTopics \/ EnsureTopicsFails \/ TopicsHaveFailed \/ Connect \/ ResetProducer
      BY <2>3 DEF EnsureTopics, EnsureTopicsFails, TopicsHaveFailed, Connect, ResetProducer,
                  topicVars, kafkaVars
    <2>4. ASSUME NEW d \in BOOLEAN, ConnectFails(d) PROVE Twice
      BY <2>4 DEF ConnectFails, topicVars
    <2>5. ASSUME Send \/ \E d \in BOOLEAN, w \in SUBSET activeFlush.entries : SendFails(d, w)
          PROVE  Twice
      <3>1. /\ activeFlush.step = "send"
            /\ \A c \in SeckillCommands :
                  sends'[c] = IF c \in activeFlush.entries THEN sends[c] + 1 ELSE sends[c]
        BY <2>5 DEF Send, SendFails, Append
      <3>2. \A c \in activeFlush.entries : sends[c] \in Nat /\ sends[c] <= activeFlush.attempt - 1
        BY <3>1 DEF SendsInv, SendsSoFar, TypeOK
      <3>3. activeFlush.attempt \in {1, 2}
        BY DEF TypeOK
      <3>4. \A c \in activeFlush.entries : call[c] \notin Answers
        BY DEF BatchInv, Answers
      <3> QED BY <3>1, <3>2, <3>3, <3>4
    <2>6. ASSUME NEW c \in Commands, NatsAnswers(c) PROVE Twice
      BY <2>6, NatsFrame
    <2>7. CASE UNCHANGED vars
      BY <2>7 DEF vars
    <2> QED BY <2>1, <2>2, <2>3, <2>4, <2>5, <2>6, <2>7 DEF Next, Publish, KafkaAnswers
  <1> HIDE DEF Twice
  <1>2. IInv /\ [Next]_vars => [Twice]_vars
    BY <1>1
  <1> QED BY <1>2, Invariant, PTL DEF Spec, SentAtMostTwice, Twice

\* The end of a flush answers waiting calls only, and NATS answers only calls that have
\* no answer yet.
THEOREM OneAnswer == Spec => AnsweredOnce
  <1>1. ASSUME IInv, [Next]_vars, NEW c \in Commands, call[c] \in Answers
        PROVE  call'[c] = call[c]
    <2> USE <1>1 DEF IInv, TypeOK, Answers
    <2>1. ASSUME NEW d \in Commands, PublishSeckill(d) \/ PublishDefault(d)
          PROVE  call'[c] = call[c]
      BY <2>1 DEF PublishSeckill, PublishDefault
    <2>2. CASE FlushTimerFires
      BY <2>2 DEF FlushTimerFires
    <2>3. CASE SettleFlush
      BY <2>3 DEF SettleFlush, BatchInv
    <2>4. CASE KafkaAnswers
      BY <2>4, KafkaFrame
    <2>5. ASSUME NEW d \in Commands, NatsAnswers(d) PROVE call'[c] = call[c]
      BY <2>5, NatsFrame DEF DefaultCalls
    <2>6. CASE UNCHANGED vars
      BY <2>6 DEF vars
    <2> QED BY <2>1, <2>2, <2>3, <2>4, <2>5, <2>6 DEF Next, Publish
  <1>2. IInv /\ [Next]_vars => [\A c \in Commands : call[c] \in Answers => call'[c] = call[c]]_vars
    BY <1>1
  <1> QED BY <1>2, Invariant, PTL DEF Spec, AnsweredOnce

\* Calls are rejected at the end of a flush, which by then has met an error with all its
\* requests or a kept rejection, and by NATS, at an error or at a kept rejection.
THEOREM NoErrorOutlivesItsCalls == Spec => RejectedForAReason
  <1> DEFINE Reason(c) ==
        IF c \in SeckillCommands
        THEN c \in troubled \/ topicsEnsured = "failed"
        ELSE failures' > failures \/ "failed" \in {natsConnection, natsManager}
  <1>1. ASSUME IInv, [Next]_vars, NEW c \in Commands, call'[c] = "rejected", call[c] # "rejected"
        PROVE  Reason(c)
    <2> USE <1>1 DEF IInv, TypeOK
    <2>1. ASSUME NEW d \in Commands, PublishSeckill(d) \/ PublishDefault(d) PROVE Reason(c)
      BY <2>1 DEF PublishSeckill, PublishDefault
    <2>2. CASE FlushTimerFires
      BY <2>2 DEF FlushTimerFires
    <2>3. CASE SettleFlush
      <3>1. c \in activeFlush.entries /\ activeFlush.step = "failed"
        BY <2>3 DEF SettleFlush
      <3> QED BY <3>1 DEF ErrorsInv
    <2>4. CASE KafkaAnswers
      BY <2>4, KafkaFrame
    <2>5. ASSUME NEW d \in Commands, NatsAnswers(d) PROVE Reason(c)
      <3>1. c = d /\ call[d] \in DefaultCalls
        BY <2>5, NatsFrame
      <3>2. c \notin SeckillCommands
        BY <3>1 DEF DefaultCallsInv
      <3>3. CASE Fail
        BY <3>2, <3>3, PublishingAssumption DEF Fail
      <3>4. CASE ~Fail
        BY <2>5, <3>1, <3>2, <3>4
        DEF NatsAnswers, NatsConnected, NatsConnectFails, NatsHasFailed, ManagerMade,
            ManagerFails, ManagerHasFailed, EnsureStream, EnsureStreamFails,
            PublishAcknowledged, PublishNotAcknowledged, AnswerCall, natsVars
      <3> QED BY <3>3, <3>4
    <2>6. CASE UNCHANGED vars
      BY <2>6 DEF vars
    <2> QED BY <2>1, <2>2, <2>3, <2>4, <2>5, <2>6 DEF Next, Publish
  <1> HIDE DEF Reason
  <1>2. IInv /\ [Next]_vars =>
          [\A c \in Commands : call'[c] = "rejected" /\ call[c] # "rejected" => Reason(c)]_vars
    BY <1>1
  <1> QED BY <1>2, Invariant, PTL DEF Spec, RejectedForAReason, Reason

================================================================================
