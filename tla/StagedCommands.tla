---------------------------- MODULE StagedCommands ----------------------------
(***************************************************************************)
(* The path of every buy intent that is not a seckill: the ingress         *)
(* publishes the command to a NATS JetStream stream; the ingest worker     *)
(* copies batches of messages into staged_buy_intent_command and then      *)
(* acknowledges them; the processors, several processes with one loop      *)
(* each, claim staged rows, append CheckoutIntentCreated to the event      *)
(* store and answer in command_status.                                     *)
(*                                                                         *)
(* Delivery is at least once: a message whose acknowledgement does not     *)
(* arrive is delivered again, so one command may have several rows.  Every *)
(* statement and every transaction of a processor is a step of its own,    *)
(* and the process may end between any two of them.                        *)
(***************************************************************************)
EXTENDS Integers, Sequences, SequencesExt, FiniteSets

CONSTANTS
    Commands,
    Keys,
    KeyOf,          \* Commands -> Keys, or Null for a buyer without an idempotency key
    Workers,        \* the processors (worker-staged-buy-intents-process, -2, -3)
    FetchSize,      \* NATS_BUY_INTENT_INGEST_BATCH_SIZE
    BatchSize,      \* BUY_INTENT_BATCH_SIZE
    MaxFaults,      \* bound: failed statements and lost acknowledgements
    MaxCrashes,     \* bound: processors that end within a batch
    Null

\* A row of command_status.
StatusRow == [status : {"accepted", "processing", "created", "failed"}, checkout : Nat \cup {Null}]

ASSUME StagedAssumption ==
    /\ IsFiniteSet(Commands)
    /\ KeyOf \in [Commands -> Keys \cup {Null}]
    /\ FetchSize \in Nat \ {0} /\ BatchSize \in Nat \ {0}
    /\ MaxFaults \in Nat /\ MaxCrashes \in Nat
    /\ Null \notin Keys \cup Nat
    /\ Null \notin StatusRow

VARIABLES
    message,        \* Commands -> the command's message in the stream
    fetched,        \* the batch of the ingest worker: [batch, staged]
    staged,         \* staged_buy_intent_command, in the order of received_at
    commandStatus,  \* Commands -> row of command_status, or Null
    eventStore,     \* CheckoutIntentCreated events: [checkout, key, command]
    worker,         \* Workers -> the batch a processor works on
    faults, crashes

vars == <<message, fetched, staged, commandStatus, eventStore, worker, faults, crashes>>

Phases == {"idle", "claimed", "accepted", "read", "merged", "appending", "created"}

Idle == [phase |-> "idle", rows |-> {}, ready |-> {}, outcomes |-> {}]

\* What a processor holds of the first n staged rows: the rows it has claimed, the ones
\* it goes on with, and what became of them.
Batch(n) == [phase : Phases, rows : SUBSET (1 .. n), ready : SUBSET (1 .. n),
             outcomes : SUBSET [row : 1 .. n, checkout : Nat \cup {Null}]]

TypeOK ==
    /\ message \in [Commands -> {"none", "stored", "acked"}]
    /\ fetched \in [batch : SUBSET Commands, staged : BOOLEAN]
    /\ staged \in Seq([command : Commands, ingest : {"pending", "claimed", "merged", "dlq"}])
    /\ commandStatus \in [Commands -> {Null} \cup StatusRow]
    /\ eventStore \subseteq [checkout : Nat, key : Keys \cup {Null}, command : Commands]
    /\ worker \in [Workers -> Batch(Len(staged))]
    /\ faults \in 0 .. MaxFaults
    /\ crashes \in 0 .. MaxCrashes

Init ==
    /\ message = [c \in Commands |-> "none"]
    /\ fetched = [batch |-> {}, staged |-> FALSE]
    /\ staged = <<>>
    /\ commandStatus = [c \in Commands |-> Null]
    /\ eventStore = {}
    /\ worker = [w \in Workers |-> Idle]
    /\ faults = 0
    /\ crashes = 0

------------------------------------------------------------------------------
(* The stream and the ingest worker *)

\* The broker drops a second message with the same msgID.
Publish(c) ==
    /\ message[c] = "none"
    /\ message' = [message EXCEPT ![c] = "stored"]
    /\ UNCHANGED <<fetched, staged, commandStatus, eventStore, worker, faults, crashes>>

\* The durable consumer wants explicit acknowledgements and sets no limit on how often
\* a message is delivered.
Deliverable == {c \in Commands : message[c] = "stored"}

Fetch(batch) ==
    /\ fetched.batch = {}
    /\ batch # {} /\ Cardinality(batch) <= FetchSize
    /\ batch \subseteq Deliverable
    /\ fetched' = [batch |-> batch, staged |-> FALSE]
    /\ UNCHANGED <<message, staged, commandStatus, eventStore, worker, faults, crashes>>

StagedRow(c) == [command |-> c, ingest |-> "pending"]

CopyRows == staged' = staged \o SetToSeq({StagedRow(c) : c \in fetched.batch})

\* stageBatch: one COPY for the batch.
StageBatch ==
    /\ fetched.batch # {} /\ ~fetched.staged
    /\ CopyRows
    /\ fetched' = [fetched EXCEPT !.staged = TRUE]
    /\ UNCHANGED <<message, commandStatus, eventStore, worker, faults, crashes>>

\* Mutation: the batch is acknowledged although it was not staged.
StageBatchFailsAcked ==
    /\ fetched.batch # {} /\ ~fetched.staged
    /\ faults < MaxFaults
    /\ CopyRows \/ UNCHANGED staged
    /\ message' = [c \in Commands |-> IF c \in fetched.batch THEN "acked" ELSE message[c]]
    /\ fetched' = [batch |-> {}, staged |-> FALSE]
    /\ faults' = faults + 1
    /\ UNCHANGED <<commandStatus, eventStore, worker, crashes>>

\* The COPY fails, or only its answer is lost: every message of the batch is given
\* back with nak.
StageBatchFails ==
    /\ fetched.batch # {} /\ ~fetched.staged
    /\ faults < MaxFaults
    /\ CopyRows \/ UNCHANGED staged
    /\ fetched' = [batch |-> {}, staged |-> FALSE]
    /\ faults' = faults + 1
    /\ UNCHANGED <<message, commandStatus, eventStore, worker, crashes>>

\* ack() waits for no answer: any of them may be lost, and the worker may end
\* before it has sent them all.
AckBatch(lost) ==
    /\ fetched.staged
    /\ faults + Cardinality(lost) <= MaxFaults
    /\ message' = [c \in Commands |-> IF c \in fetched.batch \ lost THEN "acked" ELSE message[c]]
    /\ fetched' = [batch |-> {}, staged |-> FALSE]
    /\ faults' = faults + Cardinality(lost)
    /\ UNCHANGED <<staged, commandStatus, eventStore, worker, crashes>>

------------------------------------------------------------------------------
(* A processor: processStagedBuyIntentCommandBatch *)

CommandOf(i) == staged[i].command

CommandsOf(rows) == {CommandOf(i) : i \in rows}

Ingested(rows, status) ==
    staged' = [i \in DOMAIN staged |->
                 IF i \in rows THEN [command |-> staged[i].command, ingest |-> status]
                 ELSE staged[i]]

Answered == {c \in Commands : commandStatus[c] # Null
                               /\ commandStatus[c].status \in {"created", "failed"}}

Pending == {i \in DOMAIN staged : staged[i].ingest = "pending"}

\* The oldest pending rows that no concurrent claim has locked.
ClaimPendingBatch(w) ==
    /\ worker[w].phase = "idle"
    /\ Pending # {}
    /\ LET rows == {i \in Pending : Cardinality({j \in Pending : j < i}) < BatchSize} IN
       /\ Ingested(rows, "claimed")
       /\ worker' = [worker EXCEPT ![w] = [Idle EXCEPT !.phase = "claimed", !.rows = rows]]
    /\ UNCHANGED <<message, fetched, commandStatus, eventStore, faults, crashes>>

\* Mutation: on conflict (command_id) do update.
EnsureAcceptedBatchOverwriting(w) ==
    /\ worker[w].phase = "claimed"
    /\ commandStatus' = [c \in Commands |->
         IF c \in CommandsOf(worker[w].rows)
         THEN [status |-> "accepted", checkout |-> Null] ELSE commandStatus[c]]
    /\ worker' = [worker EXCEPT ![w].phase = "accepted"]
    /\ UNCHANGED <<message, fetched, staged, eventStore, faults, crashes>>

EnsureAcceptedBatch(w) ==
    /\ worker[w].phase = "claimed"
    /\ commandStatus' = [c \in Commands |->
         IF c \in CommandsOf(worker[w].rows) /\ commandStatus[c] = Null
         THEN [status |-> "accepted", checkout |-> Null] ELSE commandStatus[c]]
    /\ worker' = [worker EXCEPT ![w].phase = "accepted"]
    /\ UNCHANGED <<message, fetched, staged, eventStore, faults, crashes>>

\* Mutation: a command that somebody else is processing counts as a duplicate.
ReadyOfAccepted(rows) == {i \in rows : commandStatus[CommandOf(i)].status = "accepted"}

\* A command that somebody else is still processing is processed here as well.
ReadyToProcess(rows) == {i \in rows : CommandOf(i) \notin Answered}

ReadStatuses(w) ==
    /\ worker[w].phase = "accepted"
    /\ worker' = [worker EXCEPT ![w].phase = "read",
                               ![w].ready = ReadyToProcess(worker[w].rows)]
    /\ UNCHANGED <<message, fetched, staged, commandStatus, eventStore, faults, crashes>>

MarkMergedDuplicateCommands(w) ==
    /\ worker[w].phase = "read"
    /\ Ingested(worker[w].rows \ worker[w].ready, "merged")
    /\ worker' = [worker EXCEPT ![w].phase = "merged"]
    /\ UNCHANGED <<message, fetched, commandStatus, eventStore, faults, crashes>>

MarkProcessingBatch(w) ==
    /\ worker[w].phase = "merged"
    /\ commandStatus' = [c \in Commands |->
         IF c \in CommandsOf(worker[w].ready) \ Answered
         THEN [status |-> "processing", checkout |-> Null] ELSE commandStatus[c]]
    /\ worker' = [worker EXCEPT ![w].phase = "appending"]
    /\ UNCHANGED <<message, fetched, staged, eventStore, faults, crashes>>

Undecided(w) == worker[w].ready \ {o.row : o \in worker[w].outcomes}

\* Mutation: the append does not look at the idempotency key.
SameKeyIgnored(c) == {}

SameKey(c) == {e \in eventStore : KeyOf[c] # Null /\ e.key = KeyOf[c]}

NewEvent(c) == [checkout |-> Cardinality(eventStore) + 1, key |-> KeyOf[c], command |-> c]

\* insert ... on conflict (idempotency_key) do nothing
Append1(c) == IF SameKey(c) = {} THEN eventStore \cup {NewEvent(c)} ELSE eventStore

\* createCheckoutIntent: the intent of the event appended, or of the one that has
\* the key already.
CreateCheckoutIntent(w, i) ==
    /\ worker[w].phase = "appending"
    /\ i \in Undecided(w)
    /\ LET c == CommandOf(i) IN
       /\ eventStore' = Append1(c)
       /\ \E e \in IF SameKey(c) = {} THEN {NewEvent(c)} ELSE SameKey(c) :
            worker' = [worker EXCEPT ![w].outcomes = @ \cup {[row |-> i, checkout |-> e.checkout]}]
    /\ UNCHANGED <<message, fetched, staged, commandStatus, faults, crashes>>

\* The append throws: it was not done, or only its answer is lost.
CreateCheckoutIntentFails(w, i) ==
    /\ worker[w].phase = "appending"
    /\ i \in Undecided(w)
    /\ faults < MaxFaults
    /\ eventStore' \in {eventStore, Append1(CommandOf(i))}
    /\ worker' = [worker EXCEPT ![w].outcomes = @ \cup {[row |-> i, checkout |-> Null]}]
    /\ faults' = faults + 1
    /\ UNCHANGED <<message, fetched, staged, commandStatus, crashes>>

Created(w) == {o \in worker[w].outcomes : o.checkout # Null}
Failed(w)  == {o \in worker[w].outcomes : o.checkout = Null}
RowsOf(outcomes) == {o.row : o \in outcomes}

\* update command_status ... from data where status in ('accepted', 'processing'):
\* of two rows of one command, either may be the one that is used.
MarkCreatedBatch(w) ==
    /\ worker[w].phase = "appending"
    /\ Undecided(w) = {}
    /\ \E answer \in [CommandsOf(RowsOf(Created(w))) \ Answered -> Created(w)] :
         /\ \A c \in DOMAIN answer : CommandOf(answer[c].row) = c
         /\ commandStatus' = [c \in Commands |->
              IF c \in DOMAIN answer
              THEN [status |-> "created", checkout |-> answer[c].checkout] ELSE commandStatus[c]]
    /\ Ingested(RowsOf(Created(w)), "merged")
    /\ worker' = [worker EXCEPT ![w].phase = "created"]
    /\ UNCHANGED <<message, fetched, eventStore, faults, crashes>>

MarkFailedBatch(w) ==
    /\ worker[w].phase = "created"
    /\ commandStatus' = [c \in Commands |->
         IF c \in CommandsOf(RowsOf(Failed(w))) \ Answered
         THEN [status |-> "failed", checkout |-> Null] ELSE commandStatus[c]]
    /\ Ingested(RowsOf(Failed(w)), "dlq")
    /\ worker' = [worker EXCEPT ![w] = Idle]
    /\ UNCHANGED <<message, fetched, eventStore, faults, crashes>>

\* The process is killed, or a statement outside createCheckoutIntent fails, which
\* ends the loop; the next one starts with a claim.  The rows stay claimed.
Crash(w) ==
    /\ worker[w].phase # "idle"
    /\ crashes < MaxCrashes
    /\ worker' = [worker EXCEPT ![w] = Idle]
    /\ crashes' = crashes + 1
    /\ UNCHANGED <<message, fetched, staged, commandStatus, eventStore, faults>>

------------------------------------------------------------------------------

Ingest ==
    \/ \E batch \in SUBSET Commands : Fetch(batch)
    \/ StageBatch
    \/ \E lost \in SUBSET fetched.batch : AckBatch(lost)

ProcessBatch(w) ==
    \/ ClaimPendingBatch(w) \/ EnsureAcceptedBatch(w) \/ ReadStatuses(w)
    \/ MarkMergedDuplicateCommands(w) \/ MarkProcessingBatch(w)
    \/ \E i \in worker[w].ready : CreateCheckoutIntent(w, i)
    \/ MarkCreatedBatch(w) \/ MarkFailedBatch(w)

Next ==
    \/ \E c \in Commands : Publish(c)
    \/ Ingest
    \/ StageBatchFails
    \/ \E w \in Workers :
         \/ ProcessBatch(w)
         \/ \E i \in worker[w].ready : CreateCheckoutIntentFails(w, i)
         \/ Crash(w)

Spec == Init /\ [][Next]_vars

\* Both loops go on as long as their process lives; nobody has to publish.
Fairness == WF_vars(Ingest) /\ \A w \in Workers : WF_vars(ProcessBatch(w))

FairSpec == Spec /\ Fairness

------------------------------------------------------------------------------
(* Properties *)

\* However often a command is delivered, staged and claimed, and whoever works on
\* it at the same time, it becomes a business fact once.
OneEventPerCommand ==
    \A e, f \in eventStore : e.command = f.command => e = f

\* A staged row is set aside, merged or in the dead letter queue, only when its
\* command has an answer: nothing is dropped on the assumption that somebody else
\* will answer.
SettledRowIsAnswered ==
    \A i \in DOMAIN staged : staged[i].ingest \in {"merged", "dlq"} => CommandOf(i) \in Answered

\* The status a client is shown.
Shown == [c \in Commands |->
    IF commandStatus[c] = Null THEN [name |-> "unknown", checkout |-> Null]
    ELSE [name |-> commandStatus[c].status, checkout |-> commandStatus[c].checkout]]

Lifecycle == INSTANCE CommandLifecycle WITH status <- Shown, facts <- eventStore

\* Processors that claim rows of one command at the same time, fail and are killed
\* still show its client the lifecycle of a command.
ImplementsLifecycle == Lifecycle!Spec

\* Every command the stream took in is answered, whatever fails or is delivered
\* again, provided no processor ends within a batch.
PublishedIsAnswered ==
    \A c \in Commands : message[c] # "none" ~> c \in Answered \/ crashes > 0

=============================================================================
