---------------------------- MODULE SeckillWorker ----------------------------
(***************************************************************************)
(* The seckill (flash sale) path of one hot SKU, from the ingress that     *)
(* publishes a buy intent to the Kafka request topic, through the Kafka    *)
(* Streams worker that decides it, to the outcomes on the result topic.    *)
(*                                                                         *)
(* The stock of the SKU is cut into BucketCount buckets.  A request names  *)
(* the bucket it should be taken from; when that bucket cannot serve it    *)
(* the worker publishes the request again for the next bucket, MaxProbe    *)
(* times at most.  The state stores of the worker (inventory and dedupe)   *)
(* belong to the task of a PARTITION of the request topic, not to a        *)
(* bucket: which partition a record of a bucket travels on is decided by   *)
(* its producer, so it is a parameter here (PublishPartition for the       *)
(* ingress, RetryPartition for the worker's own retries).                  *)
(*                                                                         *)
(* The worker runs with processing guarantee exactly_once_v2: the offset   *)
(* of a record, its store updates and its output records are committed in  *)
(* one Kafka transaction.  A crash before the commit undoes all three, so  *)
(* a record is one atomic step here.  What a consumer that reads           *)
(* uncommitted records sees of an undone transaction is the subject of     *)
(* module ResultSink.                                                      *)
(***************************************************************************)
EXTENDS Integers, Sequences, FiniteSets, FiniteSetsExt

CONSTANTS
    Commands,           \* buy intents the ingress may accept (command_id)
    Keys,               \* dedupe keys (idempotency_key, or the command_id)
    KeyOf,              \* Commands -> Keys; two commands with one key are a client's retry
    QuantityOf,         \* Commands -> Nat \ {0}
    BucketCount,        \* KAFKA_SECKILL_BUCKET_COUNT
    MaxProbe,           \* KAFKA_SECKILL_MAX_PROBE
    PrimaryBucket,      \* Keys -> Buckets, the hash of the dedupe key
    Partitions,         \* partitions of the request topic
    PublishPartition,   \* Buckets -> Partitions, as the ingress publishes
    RetryPartition,     \* Buckets -> Partitions, as the worker publishes a retry
    OnHand,             \* sku_inventory_projection.on_hand
    InitialLimit,       \* sku.seckill_stock_limit when the sale starts
    LimitValues,        \* what an administrator may set seckill_stock_limit to
    ReleasesElsewhere,  \* other checkouts may give stock back during the sale
    ResendOnDisconnect, \* the producer sends a batch again when it was disconnected
    BootstrapMayFail,   \* the worker's query to PostgreSQL may throw
    Null                \* SQL null, and a missing key of a state store

Buckets == 0 .. BucketCount - 1

Cell == [projectionAvailableRemaining : Nat,
         configuredStockLimit         : Nat,
         acceptedUnits                : Nat]

Request == [command : Commands, limit : Nat, bucket : Buckets, attempt : 0 .. MaxProbe - 1]

\* A decision is identified by the task and the command it was made for: this
\* stands for the fresh checkoutIntentId and eventId of a reservation.
Decision == [status : {"reserved", "rejected"}, partition : Partitions,
             bucket : Buckets, quantity : Nat, command : Commands]

Outcome == [command : Commands, decision : Decision, duplicate : BOOLEAN]

ASSUME ParameterAssumption ==
    /\ BucketCount \in Nat \ {0}
    /\ MaxProbe \in Nat \ {0}
    /\ OnHand \in Nat
    /\ InitialLimit \in Nat
    /\ LimitValues \subseteq Nat \cup {Null}
    /\ {ReleasesElsewhere, ResendOnDisconnect, BootstrapMayFail} \subseteq BOOLEAN

ASSUME RoutingAssumption ==
    /\ KeyOf \in [Commands -> Keys]
    /\ QuantityOf \in [Commands -> Nat \ {0}]
    /\ PrimaryBucket \in [Keys -> Buckets]
    /\ PublishPartition \in [Buckets -> Partitions]
    /\ RetryPartition \in [Buckets -> Partitions]

ASSUME NullAssumption == Null \notin Nat /\ Null \notin Cell /\ Null \notin Decision

VARIABLES
    sku,            \* the row of PostgreSQL the bootstrap reads: [available, limit]
    servedLimits,   \* limits the caches of the ingress replicas may still serve
    sendState,      \* Commands -> how far the producer got with the command's record
    outbox,         \* records handed to a producer and not acknowledged
    requestTopic,   \* Partitions -> unread records
    inventoryStore, \* Partitions -> Buckets -> Cell or Null
    dedupeStore,    \* Partitions -> Keys -> Decision or Null
    results         \* outcomes forwarded to the result topic

ingress == <<sku, servedLimits, sendState, outbox>>
stores  == <<inventoryStore, dedupeStore>>
vars    == <<sku, servedLimits, sendState, outbox, requestTopic,
             inventoryStore, dedupeStore, results>>

SendStates == {"idle", "sending", "resending", "acked", "failed"}

TypeOK ==
    /\ sku \in [available : 0 .. OnHand, limit : Nat \cup {Null}]
    /\ servedLimits \subseteq Nat
    /\ sendState \in [Commands -> SendStates]
    /\ outbox \subseteq Request
    /\ requestTopic \in [Partitions -> Seq(Request)]
    /\ inventoryStore \in [Partitions -> [Buckets -> Cell \cup {Null}]]
    /\ dedupeStore \in [Partitions -> [Keys -> Decision \cup {Null}]]
    /\ results \subseteq Outcome

Init ==
    /\ sku = [available |-> OnHand, limit |-> InitialLimit]
    /\ servedLimits = {InitialLimit}
    /\ sendState = [c \in Commands |-> "idle"]
    /\ outbox = {}
    /\ requestTopic = [p \in Partitions |-> <<>>]
    /\ inventoryStore = [p \in Partitions |-> [b \in Buckets |-> Null]]
    /\ dedupeStore = [p \in Partitions |-> [k \in Keys |-> Null]]
    /\ results = {}

------------------------------------------------------------------------------
(* The ingress and its producer *)

\* publishSeckillCommand: the request carries the limit the cache served, and
\* the bucket its dedupe key hashes to.  A limit of zero is not a seckill.
AcceptBuyIntent(c, limit) ==
    /\ sendState[c] = "idle"
    /\ limit > 0
    /\ outbox' = outbox \cup {[command |-> c, limit |-> limit,
                               bucket |-> PrimaryBucket[KeyOf[c]], attempt |-> 0]}
    /\ sendState' = [sendState EXCEPT ![c] = "sending"]
    /\ UNCHANGED <<sku, servedLimits, requestTopic, stores, results>>

Published(r) ==
    requestTopic' = [requestTopic EXCEPT ![PublishPartition[r.bucket]] = Append(@, r)]

BrokerAcks(r) ==
    /\ Published(r)
    /\ outbox' = outbox \ {r}
    /\ sendState' = [sendState EXCEPT ![r.command] = "acked"]
    /\ UNCHANGED <<sku, servedLimits, stores, results>>

\* The acknowledgement is lost with the connection: KafkaSeckillProducer.send
\* resets the producer and sends the batch a second time, once.
AckLostOnDisconnect(r) ==
    /\ ResendOnDisconnect
    /\ sendState[r.command] = "sending"
    /\ Published(r)
    /\ sendState' = [sendState EXCEPT ![r.command] = "resending"]
    /\ UNCHANGED <<sku, servedLimits, outbox, stores, results>>

\* The delivery callback of the asynchronous Produce reports an error, which is
\* counted and logged: the client already holds its 202.
DeliveryFails(r) ==
    /\ outbox' = outbox \ {r}
    /\ sendState' = [sendState EXCEPT ![r.command] = "failed"]
    /\ UNCHANGED <<sku, servedLimits, requestTopic, stores, results>>

------------------------------------------------------------------------------
(* PostgreSQL rows the worker reads, changed by the rest of the system *)

UpdateSeckillConfig(limit) ==
    /\ sku' = [sku EXCEPT !.limit = limit]
    /\ servedLimits' = servedLimits \cup ({limit} \ {Null})
    /\ UNCHANGED <<sendState, outbox, requestTopic, stores, results>>

\* The projection of reservations and releases of other checkouts.
AvailableChanges(n) ==
    /\ n < sku.available \/ ReleasesElsewhere
    /\ sku' = [sku EXCEPT !.available = n]
    /\ UNCHANGED <<servedLimits, sendState, outbox, requestTopic, stores, results>>

------------------------------------------------------------------------------
(* The worker: SeckillDecisionProcessor.process on the next record of a task *)

Smaller(m, n) == IF m < n THEN m ELSE n

\* Mutation: every bucket rounds its share up.
BucketLimitForRoundedUp(total, b) ==
    total \div BucketCount + (IF total % BucketCount > 0 THEN 1 ELSE 0)

BucketLimitFor(total, b) ==
    total \div BucketCount + (IF b < total % BucketCount THEN 1 ELSE 0)

\* PostgresBootstrapGateway.loadInitialState, for a SKU that is a candidate.
LoadInitialState(r) ==
    LET limit  == IF sku.limit = Null THEN r.limit ELSE sku.limit
        share  == BucketLimitFor(Smaller(sku.available, limit), r.bucket)
    IN  [projectionAvailableRemaining |-> share,
         configuredStockLimit |-> share,
         acceptedUnits |-> 0]

\* The stored or bootstrapped state, with the limit the request carries.
CellFor(p, r) ==
    LET stored == inventoryStore[p][r.bucket]
        state  == IF stored = Null THEN LoadInitialState(r) ELSE stored
    IN  [projectionAvailableRemaining |-> state.projectionAvailableRemaining,
         configuredStockLimit |-> BucketLimitFor(r.limit, r.bucket),
         acceptedUnits |-> state.acceptedUnits]

\* Mutation: units are accepted without taking them from the projection.
TakenFromLimitOnly(cell, units) ==
    [projectionAvailableRemaining |-> cell.projectionAvailableRemaining,
     configuredStockLimit |-> cell.configuredStockLimit,
     acceptedUnits |-> cell.acceptedUnits + units]

AtLeastZero(n) == IF n < 0 THEN 0 ELSE n

Taken(cell, units) ==
    [projectionAvailableRemaining |-> AtLeastZero(cell.projectionAvailableRemaining - units),
     configuredStockLimit |-> cell.configuredStockLimit,
     acceptedUnits |-> cell.acceptedUnits + units]

EffectiveRemaining(cell) ==
    IF cell.configuredStockLimit < cell.acceptedUnits THEN 0
    ELSE Smaller(cell.projectionAvailableRemaining,
                 cell.configuredStockLimit - cell.acceptedUnits)

Fits(p, r) == QuantityOf[r.command] <= EffectiveRemaining(CellFor(p, r))

\* Mutation: one probe short.
MayProbeOneShort(r) == r.attempt + 2 < MaxProbe /\ BucketCount > 1

\* Mutation: one probe too many.
MayProbeOnceMore(r) == r.attempt < MaxProbe /\ BucketCount > 1

MayProbe(r) == r.attempt + 1 < MaxProbe /\ BucketCount > 1

\* Mutation: the attempt is not counted.
NextProbeUncounted(r) ==
    [command |-> r.command,
     limit   |-> r.limit,
     bucket  |-> (PrimaryBucket[KeyOf[r.command]] + r.attempt + 1) % BucketCount,
     attempt |-> r.attempt]

NextProbe(r) ==
    [command |-> r.command,
     limit   |-> r.limit,
     bucket  |-> (PrimaryBucket[KeyOf[r.command]] + r.attempt + 1) % BucketCount,
     attempt |-> r.attempt + 1]

Consumed(p) == requestTopic' = [requestTopic EXCEPT ![p] = Tail(@)]

\* Mutation: only a reservation counts as an answer.
UnseenUnlessReserved(p, r) ==
    dedupeStore[p][KeyOf[r.command]] # Null
        => dedupeStore[p][KeyOf[r.command]].status = "rejected"

Unseen(p, r) == dedupeStore[p][KeyOf[r.command]] = Null

DecisionOn(p, r, status) ==
    [status |-> status, partition |-> p, bucket |-> r.bucket,
     quantity |-> QuantityOf[r.command], command |-> r.command]

\* Mutation: the decision is not remembered for its key.
DecideUnremembered(p, r, decision) ==
    /\ results' = results \cup
         {[command |-> r.command, decision |-> decision, duplicate |-> FALSE]}
    /\ UNCHANGED dedupeStore

Decide(p, r, decision) ==
    /\ dedupeStore' = [dedupeStore EXCEPT ![p][KeyOf[r.command]] = decision]
    /\ results' = results \cup
         {[command |-> r.command, decision |-> decision, duplicate |-> FALSE]}

\* The dedupe store knows the key: its decision is forwarded again for this command.
ForwardDuplicate(p, r) ==
    /\ ~Unseen(p, r)
    /\ results' = results \cup
         {[command |-> r.command, decision |-> dedupeStore[p][KeyOf[r.command]],
           duplicate |-> TRUE]}
    /\ Consumed(p)
    /\ UNCHANGED <<ingress, stores>>

Reserve(p, r) ==
    /\ Unseen(p, r)
    /\ Fits(p, r)
    /\ inventoryStore' = [inventoryStore EXCEPT ![p][r.bucket] =
                            Taken(CellFor(p, r), QuantityOf[r.command])]
    /\ Decide(p, r, DecisionOn(p, r, "reserved"))
    /\ Consumed(p)
    /\ UNCHANGED ingress

\* Mutation: the retry is published under the key of the bucket it comes from.
ScheduleRetryUnderOldKey(p, r) ==
    /\ Unseen(p, r)
    /\ ~Fits(p, r)
    /\ MayProbe(r)
    /\ requestTopic' = [[requestTopic EXCEPT ![p] = Tail(@)]
                           EXCEPT ![RetryPartition[r.bucket]] = Append(@, NextProbe(r))]
    /\ UNCHANGED <<ingress, stores, results>>

\* The bucket cannot serve the request: it goes round again, for the next bucket.
\* Neither store is written.
ScheduleRetry(p, r) ==
    /\ Unseen(p, r)
    /\ ~Fits(p, r)
    /\ MayProbe(r)
    /\ LET next == NextProbe(r) IN
       requestTopic' = [[requestTopic EXCEPT ![p] = Tail(@)]
                           EXCEPT ![RetryPartition[next.bucket]] = Append(@, next)]
    /\ UNCHANGED <<ingress, stores, results>>

Reject(p, r) ==
    /\ Unseen(p, r)
    /\ ~Fits(p, r)
    /\ ~MayProbe(r)
    /\ Decide(p, r, DecisionOn(p, r, "rejected"))
    /\ Consumed(p)
    /\ UNCHANGED <<ingress, inventoryStore>>

\* The query for a bucket that has no state yet throws; the processing exception
\* handler logs and continues, so the record is skipped and nothing is written.
SkipOnBootstrapFailure(p, r) ==
    /\ BootstrapMayFail
    /\ Unseen(p, r)
    /\ inventoryStore[p][r.bucket] = Null
    /\ Consumed(p)
    /\ UNCHANGED <<ingress, stores, results>>

Process(p) ==
    /\ requestTopic[p] # <<>>
    /\ LET r == Head(requestTopic[p]) IN
       \/ ForwardDuplicate(p, r)
       \/ Reserve(p, r)
       \/ ScheduleRetry(p, r)
       \/ Reject(p, r)

Skip(p) ==
    /\ requestTopic[p] # <<>>
    /\ SkipOnBootstrapFailure(p, Head(requestTopic[p]))

------------------------------------------------------------------------------

Next ==
    \/ \E c \in Commands, limit \in servedLimits : AcceptBuyIntent(c, limit)
    \/ \E r \in outbox : BrokerAcks(r) \/ AckLostOnDisconnect(r) \/ DeliveryFails(r)
    \/ \E limit \in LimitValues : UpdateSeckillConfig(limit)
    \/ \E n \in 0 .. OnHand : AvailableChanges(n)
    \/ \E p \in Partitions : Process(p) \/ Skip(p)

Spec == Init /\ [][Next]_vars

\* The stream thread keeps polling every task it owns.  Nobody has to buy, no
\* administrator has to act, and the broker may refuse what it is handed.
Fairness == \A p \in Partitions : WF_vars(Process(p))

FairSpec == Spec /\ Fairness

------------------------------------------------------------------------------
(* Properties *)

Reservations ==
    {o \in results : o.decision.status = "reserved" /\ ~o.duplicate}

Units(outcomes) == MapThenSumSet(LAMBDA o : o.decision.quantity, outcomes)

\* A stored cell never promises more than the limit it last accepted under, nor
\* more than the share of the stock on hand its bucket can have been given.
CellWithinShare ==
    \A p \in Partitions, b \in Buckets :
        LET cell == inventoryStore[p][b] IN
        cell # Null =>
            /\ cell.acceptedUnits <= cell.configuredStockLimit
            /\ cell.acceptedUnits + cell.projectionAvailableRemaining
                 <= BucketLimitFor(OnHand, b)

\* As long as the ingress and the worker agree on the partition of a bucket, no two
\* tasks ever keep a cell of the same bucket: records change partition with every
\* probe, and the shares only add up if each is handed out once.
OneTaskPerBucket ==
    PublishPartition = RetryPartition =>
        \A p \in Partitions, b \in Buckets :
            inventoryStore[p][b] # Null => p = RetryPartition[b]

\* Whatever is sent twice, by the client or by the producer, a task decides a
\* dedupe key once: every outcome it forwards carries the decision its store
\* holds for the key, and that decision was forwarded fresh to somebody.
OneDecisionPerTask ==
    \A o \in results :
        /\ dedupeStore[o.decision.partition][KeyOf[o.command]] = o.decision
        /\ \E f \in results : ~f.duplicate /\ f.decision = o.decision
                              /\ f.command = o.decision.command

\* The reservations promised for the sale exceed neither the stock on hand nor
\* every limit that was ever configured, although each bucket is bootstrapped at
\* a time of its own, from rows that change meanwhile.
NoOversell ==
    Units(Reservations) <= Smaller(OnHand, Max(servedLimits))

\* With enough probes, a buyer is turned away only if no bucket at all could have
\* served the order, now or when it was probed.
RejectedOnlyWhenNoBucketFits ==
    \A o \in results : \A b \in Buckets :
        o.decision.status = "rejected" /\ MaxProbe >= BucketCount =>
            LET r == [command |-> o.decision.command, limit |-> InitialLimit,
                      bucket |-> b, attempt |-> 0]
            IN  ~Fits(RetryPartition[b], r)

\* Every record the broker acknowledged is answered with an outcome of its
\* command, however often it is probed, repeated or overtaken.
EveryAckedCommandIsAnswered ==
    \A c \in Commands :
        sendState[c] = "acked" ~> \E o \in results : o.command = c

------------------------------------------------------------------------------
(* The sale the path implements *)

\* One answer per key, the one that was forwarded fresh.
KeyAnswer(k) ==
    LET fresh == {o \in results : ~o.duplicate /\ KeyOf[o.command] = k}
    IN  IF fresh = {} THEN "open"
        ELSE (CHOOSE o \in fresh : TRUE).decision.status

\* What a key asks for; a client that retries asks for the same again.
UnitsOfKey(k) == QuantityOf[CHOOSE c \in Commands : KeyOf[c] = k]

Sale == INSTANCE SeckillSale WITH
    UnitsOf <- [k \in Keys |-> UnitsOfKey(k)],
    Stock   <- Smaller(OnHand, InitialLimit),
    answer  <- [k \in Keys |-> KeyAnswer(k)],
    sold    <- Units(Reservations)

\* The seckill path of a sale whose limit stays, and whose stock is not handed
\* back by others, implements SeckillSale.
ImplementsSale == Sale!Spec

=============================================================================
