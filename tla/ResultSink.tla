------------------------------ MODULE ResultSink ------------------------------
(***************************************************************************)
(* The result sink in Go: goroutines of one process share a kafka-go       *)
(* reader of the seckill result topic.  Each of them fetches an outcome,   *)
(* writes it to PostgreSQL in one transaction and commits its offset; any  *)
(* error ends the process, which starts again from the committed offsets.  *)
(* When the group is balanced again the reader starts over as well, while  *)
(* the goroutines go on with what they have in hand.                       *)
(*                                                                         *)
(* The other end of the topic is the Kafka Streams worker of module        *)
(* SeckillWorker, of which only the outcomes are kept: one decision per    *)
(* dedupe key, repeated for every further record of the key.  It writes    *)
(* them in Kafka transactions.  A transaction that aborts leaves its       *)
(* records in the topic, marked; the worker then decides its requests      *)
(* again, with fresh identifiers.  The reader sets no isolation level, so  *)
(* it hands out every record as soon as it is written, whatever becomes of *)
(* its transaction.                                                        *)
(*                                                                         *)
(* The sink in TypeScript runs the same transaction, statement for         *)
(* statement; it hands the outcomes of a partition to one handler at a     *)
(* time.                                                                   *)
(***************************************************************************)
EXTENDS Integers, Sequences, FiniteSets

CONSTANTS
    Commands,
    Keys,
    KeyOf,          \* Commands -> Keys, or Null for a buyer without an idempotency key
    Deliveries,     \* Commands -> request records of the command the worker reads
    Partitions,     \* of the result topic
    Members,        \* goroutines (KAFKA_SECKILL_RESULT_SINK_PARTITIONS_CONCURRENTLY)
    JoinedBefore,   \* the consumer group has committed offsets already
    MaxAborts,      \* bound: records the worker may abort
    MaxCrashes,     \* bound: crashes of the sink other than the ones its data causes
    MaxRejoins,     \* bound: times the consumer group is balanced again
    Null

\* A checkout intent id, with the event id that is minted beside it.
Ids == [command : Commands, copy : Nat]

Outcome == [command : Commands, copy : Nat, status : {"reserved", "rejected"},
            checkout : Ids \cup {Null}, duplicate : BOOLEAN,
            mark : {"open", "committed", "aborted"}]

\* A fetched message, with whether its transaction has committed.
Holding == [partition : Partitions, offset : Nat, persisted : BOOLEAN]

\* A row of command_status.
StatusRow == [status : {"created", "failed"}, checkout : Ids \cup {Null}]

ASSUME SinkAssumption ==
    /\ KeyOf \in [Commands -> Keys \cup {Null}]
    /\ Deliveries \in [Commands -> Nat]
    /\ JoinedBefore \in BOOLEAN
    /\ IsFiniteSet(Members) /\ Members # {}
    /\ MaxAborts \in Nat /\ MaxCrashes \in Nat /\ MaxRejoins \in Nat
    /\ Null \notin Keys \cup Ids \cup Nat
    /\ Null \notin Holding \cup StatusRow

VARIABLES
    topic,          \* Partitions -> outcomes, each marked with the fate of its transaction
    committed,      \* Partitions -> committed offset of the group, or Null
    position,       \* Partitions -> records the reader has handed out
    inHand,         \* Members -> the fetched message a goroutine works on, or Null
    startedAt,      \* history: Partitions -> outcomes that lay in the topic when the reader
                    \* last started at the end of the partition
    handled,        \* history: <<partition, offset>> of the outcomes persisted
    eventStore,     \* CheckoutIntentCreated events: [checkout, key]
    commandStatus,  \* Commands -> row of command_status, or Null
    commandResult,  \* Commands -> row of seckill_command_result, or Null
    interruptions   \* [crashes, rejoins] against the bounds

reader   == <<committed, position, inHand, startedAt>>
database == <<handled, eventStore, commandStatus, commandResult>>
vars     == <<topic, committed, position, inHand, startedAt, handled, eventStore,
              commandStatus, commandResult, interruptions>>

TypeOK ==
    /\ topic \in [Partitions -> Seq(Outcome)]
    /\ committed \in [Partitions -> Nat \cup {Null}]
    /\ position \in [Partitions -> Nat]
    /\ inHand \in [Members -> {Null} \cup Holding]
    /\ startedAt \in [Partitions -> Nat]
    /\ handled \subseteq Partitions \X Nat
    /\ eventStore \subseteq [checkout : Ids, key : Keys \cup {Null}]
    /\ commandStatus \in [Commands -> {Null} \cup StatusRow]
    /\ commandResult \in [Commands -> {Null} \cup
                            [status : {"reserved", "rejected"}, checkout : Ids \cup {Null}]]
    /\ interruptions \in [crashes : 0 .. MaxCrashes, rejoins : 0 .. MaxRejoins]

Init ==
    /\ topic = [p \in Partitions |-> <<>>]
    /\ committed = [p \in Partitions |-> IF JoinedBefore THEN 0 ELSE Null]
    /\ position = [p \in Partitions |-> 0]
    /\ inHand = [m \in Members |-> Null]
    /\ startedAt = [p \in Partitions |-> 0]
    /\ handled = {}
    /\ eventStore = {}
    /\ commandStatus = [c \in Commands |-> Null]
    /\ commandResult = [c \in Commands |-> Null]
    /\ interruptions = [crashes |-> 0, rejoins |-> 0]

------------------------------------------------------------------------------
(* The worker's side of the topic *)

Records == UNION {{topic[p][i] : i \in 1 .. Len(topic[p])} : p \in Partitions}

Copies(c, marks) == Cardinality({o \in Records : o.command = c /\ o.mark \in marks})

DedupeKey(c) == IF KeyOf[c] = Null THEN c ELSE KeyOf[c]

\* Mutation: the dedupe store is keyed by the command alone.
DecisionsByCommand(c) == {o \in Records : /\ o.command = c
                                          /\ ~o.duplicate
                                          /\ o.mark # "aborted"}

\* Mutation: only a reservation is remembered.
DecisionsReserved(c) == {o \in Records : /\ DedupeKey(o.command) = DedupeKey(c)
                                         /\ ~o.duplicate
                                         /\ o.status = "reserved"
                                         /\ o.mark # "aborted"}

\* What the dedupe store of the worker holds for c, an aborted decision undone.
Decisions(c) == {o \in Records : /\ DedupeKey(o.command) = DedupeKey(c)
                                 /\ ~o.duplicate
                                 /\ o.mark # "aborted"}

Forward(c, p, status, checkout, duplicate) ==
    /\ topic' = [topic EXCEPT ![p] = Append(@,
           [command |-> c, copy |-> Copies(c, {"open", "committed", "aborted"}),
            status |-> status, checkout |-> checkout, duplicate |-> duplicate,
            mark |-> "open"])]
    /\ UNCHANGED <<reader, database, interruptions>>

\* A record of the command is processed.  Which partition the outcome goes to
\* depends on the bucket that answered, so it is free.
Decide(c, p) ==
    /\ Copies(c, {"open", "committed"}) < Deliveries[c]
    /\ Decisions(c) = {}
    /\ \/ Forward(c, p, "reserved",
                  [command |-> c, copy |-> Copies(c, {"open", "committed", "aborted"})], FALSE)
       \/ Forward(c, p, "rejected", Null, FALSE)

\* Mutation: a repeated reservation is given identifiers of its own.
RepeatUnderFreshId(c, p) ==
    /\ Copies(c, {"open", "committed"}) < Deliveries[c]
    /\ \E o \in Decisions(c) :
         Forward(c, p, o.status,
                 IF o.checkout = Null THEN Null
                 ELSE [command |-> c, copy |-> Copies(c, {"open", "committed", "aborted"})],
                 TRUE)

Repeat(c, p) ==
    /\ Copies(c, {"open", "committed"}) < Deliveries[c]
    /\ \E o \in Decisions(c) : Forward(c, p, o.status, o.checkout, TRUE)

\* One stream thread has one open transaction for all its tasks.
Close(mark) ==
    /\ topic' = [p \in Partitions |-> [i \in 1 .. Len(topic[p]) |->
                   IF topic[p][i].mark = "open" THEN [topic[p][i] EXCEPT !.mark = mark]
                   ELSE topic[p][i]]]
    /\ UNCHANGED <<reader, database, interruptions>>

OpenRecords == {o \in Records : o.mark = "open"}

CommitTransaction == OpenRecords # {} /\ Close("committed")

AbortTransaction ==
    /\ OpenRecords # {}
    /\ Cardinality({o \in Records : o.mark # "committed"}) <= MaxAborts
    /\ Close("aborted")

------------------------------------------------------------------------------
(* The sink *)

Fetch(m, p) ==
    /\ inHand[m] = Null
    /\ position[p] < Len(topic[p])
    /\ inHand' = [inHand EXCEPT ![m] =
                    [partition |-> p, offset |-> position[p] + 1, persisted |-> FALSE]]
    /\ position' = [position EXCEPT ![p] = @ + 1]
    /\ UNCHANGED <<topic, committed, startedAt, database, interruptions>>

Message(m) == topic[inHand[m].partition][inHand[m].offset]

\* Mutation: the insert has no ON CONFLICT clause.
KeyTakenIgnored(o) == FALSE

KeyTaken(o) == KeyOf[o.command] # Null /\ \E e \in eventStore : e.key = KeyOf[o.command]
IdTaken(o)  == \E e \in eventStore : e.checkout = o.checkout

\* insert into event_store ... on conflict (idempotency_key) do nothing: a taken
\* event_id is an error, unless the taken key has made the insert a no-op.
InsertFails(o) == o.status = "reserved" /\ ~KeyTaken(o) /\ IdTaken(o)

InsertEventStore(o) ==
    eventStore' = IF o.status = "reserved" /\ ~KeyTaken(o)
                  THEN eventStore \cup {[checkout |-> o.checkout, key |-> KeyOf[o.command]]}
                  ELSE eventStore

\* A failed outcome leaves checkout_intent_id of an existing row as it is.
UpsertCommandStatus(o) ==
    commandStatus' = [commandStatus EXCEPT ![o.command] =
        IF o.status = "reserved" THEN [status |-> "created", checkout |-> o.checkout]
        ELSE [status |-> "failed", checkout |-> IF @ = Null THEN Null ELSE @.checkout]]

UpsertSeckillCommandResult(o) ==
    commandResult' = [commandResult EXCEPT ![o.command] =
                        [status |-> o.status, checkout |-> o.checkout]]

\* handleMessage: the three writes are one transaction.
HandleMessage(m) ==
    /\ inHand[m] # Null
    /\ ~inHand[m].persisted
    /\ ~InsertFails(Message(m))
    /\ InsertEventStore(Message(m))
    /\ UpsertCommandStatus(Message(m))
    /\ UpsertSeckillCommandResult(Message(m))
    /\ handled' = handled \cup {<<inHand[m].partition, inHand[m].offset>>}
    /\ inHand' = [inHand EXCEPT ![m].persisted = TRUE]
    /\ UNCHANGED <<topic, committed, position, startedAt, interruptions>>

CommitOffset(m) ==
    /\ inHand[m] # Null
    /\ inHand[m].persisted
    /\ committed' = [committed EXCEPT ![inHand[m].partition] = inHand[m].offset]
    /\ inHand' = [inHand EXCEPT ![m] = Null]
    /\ UNCHANGED <<topic, position, startedAt, database, interruptions>>

AtEnd(p) == committed[p] = Null

\* Mutation: the reader ignores the committed offsets of its group.
StartReaderAtEnd ==
    /\ position' = [p \in Partitions |-> Len(topic[p])]
    /\ startedAt' = [p \in Partitions |-> IF AtEnd(p) THEN Len(topic[p]) ELSE startedAt[p]]
    /\ UNCHANGED <<topic, committed, database>>

\* StartOffset is LastOffset: a partition without a committed offset is read from its end.
StartReader ==
    /\ position' = [p \in Partitions |-> IF AtEnd(p) THEN Len(topic[p]) ELSE committed[p]]
    /\ startedAt' = [p \in Partitions |-> IF AtEnd(p) THEN Len(topic[p]) ELSE startedAt[p]]
    /\ UNCHANGED <<topic, committed, database>>

\* log.Fatalf and a new process: whatever was in hand is forgotten.
Restarted == inHand' = [m \in Members |-> Null] /\ StartReader

HandleMessageFails(m) ==
    /\ inHand[m] # Null
    /\ ~inHand[m].persisted
    /\ InsertFails(Message(m))
    /\ Restarted
    /\ UNCHANGED interruptions

\* A lost connection, a failed offset commit, a kill.
Crash ==
    /\ interruptions.crashes < MaxCrashes
    /\ Restarted
    /\ interruptions' = [interruptions EXCEPT !.crashes = @ + 1]

\* The group is balanced again, because a heartbeat was missed or the partitions of the
\* topic were watched to change: the reader starts over, and drops what it had not yet
\* handed out, while the goroutines handle and commit what they hold.
Rejoin ==
    /\ interruptions.rejoins < MaxRejoins
    /\ StartReader
    /\ interruptions' = [interruptions EXCEPT !.rejoins = @ + 1]
    /\ UNCHANGED inHand

Worker == \/ \E c \in Commands, p \in Partitions : Decide(c, p) \/ Repeat(c, p)
          \/ CommitTransaction \/ AbortTransaction

Sink == \/ \E m \in Members, p \in Partitions : Fetch(m, p)
        \/ \E m \in Members : HandleMessage(m) \/ CommitOffset(m) \/ HandleMessageFails(m)
        \/ Crash \/ Rejoin

Next == Worker \/ Sink

Spec == Init /\ [][Next]_vars

\* A goroutine goes on with the message it holds.  The reader feeds the messages
\* of all partitions through one channel, whose blocked senders are served in turn:
\* a partition is not passed over for ever.
Fairness ==
    /\ \A m \in Members :
          WF_vars(HandleMessage(m) \/ CommitOffset(m) \/ HandleMessageFails(m))
    /\ \A p \in Partitions : SF_vars(\E m \in Members : Fetch(m, p))

FairSpec == Spec /\ Fairness

------------------------------------------------------------------------------
(* Properties *)

InHand == {<<inHand[m].partition, inHand[m].offset>> : m \in {n \in Members : inHand[n] # Null}}

\* Outcomes no goroutine holds or will be given, though they were not persisted.  What lay
\* in a partition when the reader started at its end is not counted.
PassedOver ==
    (UNION {{p} \X {i \in 1 .. position[p] : i > startedAt[p]} : p \in Partitions})
        \ (handled \cup InHand)

\* Outcomes in hand that a committed offset covers already.
Overtaken ==
    {h \in InHand \ handled : /\ h[2] > startedAt[h[1]]
                             /\ committed[h[1]] # Null /\ h[2] <= committed[h[1]]}

\* Offsets are committed in the order the goroutines finish, and a goroutine may still
\* commit what it was handed before the group was balanced.  All the same an outcome is
\* passed over only when a goroutine is stopped while it holds it and another has
\* committed a later one: at one time at most as many as there are goroutines but one.
\* (With one goroutine none is.)
OnlyOvertakenPassedOver ==
    [][LET lost == PassedOver' \ PassedOver
       IN  lost \subseteq Overtaken /\ Cardinality(lost) < Cardinality(Members)]_vars

\* A buyer who is told created can find the checkout intent: its event is in the
\* event store.
CreatedHasEvent ==
    \A c \in Commands :
        commandStatus[c] # Null /\ commandStatus[c].status = "created" =>
            \E e \in eventStore : e.checkout = commandStatus[c].checkout

\* The retries of one idempotency key end at one checkout intent, in whatever
\* order and however often their outcomes are persisted.
OneIntentPerKey ==
    \A c, d \in Commands :
        /\ KeyOf[c] # Null /\ KeyOf[c] = KeyOf[d]
        /\ commandStatus[c] # Null /\ commandStatus[d] # Null
        => commandStatus[c] = commandStatus[d]

\* The status a client is shown.
Shown == [c \in Commands |->
    IF commandStatus[c] = Null THEN [name |-> "unknown", checkout |-> Null]
    ELSE [name |-> commandStatus[c].status, checkout |-> commandStatus[c].checkout]]

Lifecycle == INSTANCE CommandLifecycle WITH status <- Shown, facts <- eventStore

\* Whatever order the outcomes are persisted in, and however often, the client
\* sees the lifecycle of a command: the sink never takes an answer back, and an
\* answer of created names a checkout intent of the event store.
ImplementsLifecycle == Lifecycle!Spec

\* Every outcome the worker committed reaches command_status, whatever crashes.
EveryOutcomePersisted ==
    \A c \in Commands :
        (\E o \in Records : o.command = c /\ o.mark = "committed") ~> commandStatus[c] # Null

=============================================================================
