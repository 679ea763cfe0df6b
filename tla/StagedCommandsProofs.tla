------------------------- MODULE StagedCommandsProofs -------------------------
(***************************************************************************)
(* Proofs about StagedCommands for any number of commands, keys, copies,   *)
(* processors, batch sizes, faults and crashes: rows are set aside for     *)
(* answered commands only, and both loops implement CommandLifecycle.      *)
(***************************************************************************)
EXTENDS StagedCommands, TLAPS, FiniteSetTheorems

------------------------------------------------------------------------------
(* The inductive invariant *)

\* An event's identifier is its place in the order of the appends, and a key has one event.
EventInv ==
    /\ IsFiniteSet(eventStore)
    /\ \A e \in eventStore : e.checkout \in 1 .. Cardinality(eventStore)
    /\ \A e, f \in eventStore : e.checkout = f.checkout => e = f
    /\ \A e, f \in eventStore : e.key # Null /\ e.key = f.key => e = f
    /\ \A e \in eventStore : e.key = KeyOf[e.command]

\* n is the checkout intent of command c, or of a command with its key.
IntentOf(c, n) == \E e \in eventStore : e.checkout = n /\ e.key = KeyOf[c]

\* Only an answer of created names a checkout intent.
StatusInv ==
    \A c \in Commands : commandStatus[c] # Null =>
        /\ commandStatus[c].status \in {"accepted", "processing"} => commandStatus[c].checkout = Null
        /\ commandStatus[c].status = "created" => IntentOf(c, commandStatus[c].checkout)

\* A processor sets aside the rows of answered commands, and its outcomes are events.
BatchInv ==
    \A w \in Workers :
        /\ worker[w].phase = "read" =>
             \A i \in worker[w].rows \ worker[w].ready : CommandOf(i) \in Answered
        /\ \A o \in worker[w].outcomes : o.checkout # Null => IntentOf(CommandOf(o.row), o.checkout)

IInv == TypeOK /\ EventInv /\ StatusInv /\ BatchInv /\ SettledRowIsAnswered

\* A staged row.
Row == [command : Commands, ingest : {"pending", "claimed", "merged", "dlq"}]

\* What no step takes back: rows keep their place and command, answers and events stay.
Progress ==
    /\ Len(staged) <= Len(staged')
    /\ \A i \in 1 .. Len(staged) : staged'[i].command = staged[i].command
    /\ Answered \subseteq Answered'
    /\ eventStore \subseteq eventStore'

------------------------------------------------------------------------------
(* Rows *)

\* The table is a sequence of rows.
LEMMA RowsType ==
    ASSUME TypeOK
    PROVE  /\ staged \in Seq(Row) /\ Len(staged) \in Nat /\ DOMAIN staged = 1 .. Len(staged)
           /\ \A i \in 1 .. Len(staged) : staged[i] \in Row /\ CommandOf(i) \in Commands
  <1>1. staged \in Seq(Row)
    BY DEF TypeOK, Row
  <1>2. Len(staged) \in Nat /\ DOMAIN staged = 1 .. Len(staged)
    BY <1>1
  <1>3. \A i \in 1 .. Len(staged) : staged[i] \in Row
    BY <1>1
  <1> QED BY <1>1, <1>2, <1>3 DEF Row, CommandOf

\* An update of ingest_status touches the rows it names and nothing else of them.
LEMMA IngestedType ==
    ASSUME TypeOK, NEW rows, NEW status \in {"pending", "claimed", "merged", "dlq"},
           Ingested(rows, status)
    PROVE  /\ staged' \in Seq(Row) /\ Len(staged') = Len(staged)
           /\ \A i \in 1 .. Len(staged) :
                /\ staged'[i].command = staged[i].command
                /\ i \in rows => staged'[i].ingest = status
                /\ i \notin rows => staged'[i].ingest = staged[i].ingest
  <1>1. Len(staged) \in Nat /\ \A i \in 1 .. Len(staged) : staged[i] \in Row
    BY RowsType
  <1>2. staged' = [i \in 1 .. Len(staged) |->
                     IF i \in rows THEN [command |-> staged[i].command, ingest |-> status]
                     ELSE staged[i]]
    BY RowsType DEF Ingested
  <1>3. staged' \in [1 .. Len(staged) -> Row]
    BY <1>1, <1>2 DEF Row
  <1>4. staged' \in Seq(Row) /\ Len(staged') = Len(staged)
    BY <1>1, <1>3
  <1> QED BY <1>2, <1>4

\* A finite set has a sequence of its elements.
LEMMA SetToSeqType ==
    ASSUME NEW S, IsFiniteSet(S)
    PROVE  SetToSeq(S) \in Seq(S)
  <1>1. Cardinality(S) \in Nat /\ ExistsBijection(1 .. Cardinality(S), S)
    BY FS_CardinalityType
  <1>2. \E f \in [1 .. Cardinality(S) -> S] : IsInjective(f)
    BY <1>1 DEF ExistsBijection, Bijection, Injection
  <1>3. SetToSeq(S) \in [1 .. Cardinality(S) -> S]
    BY <1>2 DEF SetToSeq
  <1> QED BY <1>1, <1>3

\* The COPY appends pending rows.
LEMMA CopyRowsType ==
    ASSUME TypeOK, CopyRows
    PROVE  /\ staged' \in Seq(Row) /\ Len(staged) <= Len(staged')
           /\ \A i \in 1 .. Len(staged) : staged'[i] = staged[i]
           /\ \A i \in 1 .. Len(staged') : i \notin 1 .. Len(staged) => staged'[i].ingest = "pending"
  <1> DEFINE rows == {StagedRow(c) : c \in fetched.batch}
             new  == SetToSeq(rows)
  <1>1. fetched.batch \subseteq Commands
    BY DEF TypeOK
  <1>2. IsFiniteSet(fetched.batch)
    BY <1>1, FS_Subset, StagedAssumption
  <1>3. IsFiniteSet(rows)
    <2> DEFINE f == [c \in fetched.batch |-> StagedRow(c)]
    <2>1. f \in Surjection(fetched.batch, rows)
      BY DEF Surjection
    <2> QED BY <1>2, <2>1, FS_Surjection
  <1>4. rows \subseteq Row /\ \A r \in rows : r.ingest = "pending"
    BY <1>1 DEF StagedRow, Row
  <1>5. new \in Seq(rows)
    BY <1>3, SetToSeqType
  <1>6. staged' = staged \o new
    BY DEF CopyRows
  <1> HIDE DEF rows, new
  <1>7. Len(new) \in Nat /\ new \in Seq(Row) /\ \A i \in 1 .. Len(new) : new[i].ingest = "pending"
    BY <1>4, <1>5
  <1>8. /\ staged' \in Seq(Row) /\ Len(staged') = Len(staged) + Len(new)
        /\ \A i \in 1 .. Len(staged') :
             staged'[i] = IF i <= Len(staged) THEN staged[i] ELSE new[i - Len(staged)]
    BY <1>6, <1>7, RowsType
  <1> QED BY <1>7, <1>8, RowsType

------------------------------------------------------------------------------
(* Batches *)

\* A batch of the first rows is a batch of more rows.
LEMMA BatchGrows ==
    ASSUME NEW n \in Nat, NEW m \in Nat, n <= m, NEW b \in Batch(n)
    PROVE  b \in Batch(m)
  <1>1. 1 .. n \subseteq 1 .. m
    OBVIOUS
  <1>2. [row : 1 .. n, checkout : Nat \cup {Null}] \subseteq [row : 1 .. m, checkout : Nat \cup {Null}]
    BY <1>1
  <1> QED BY <1>1, <1>2 DEF Batch

\* What a processor does not touch stays right.
LEMMA BatchesKept ==
    ASSUME TypeOK, BatchInv, Progress, staged' \in Seq(Row), NEW w \in Workers, worker'[w] = worker[w]
    PROVE  /\ worker'[w] \in Batch(Len(staged'))
           /\ worker'[w].phase = "read" =>
                \A i \in worker'[w].rows \ worker'[w].ready : staged'[i].command \in Answered'
           /\ \A o \in worker'[w].outcomes : o.checkout # Null =>
                \E e \in eventStore' : e.checkout = o.checkout /\ e.key = KeyOf[staged'[o.row].command]
  <1>1. Len(staged) \in Nat /\ Len(staged') \in Nat /\ Len(staged) <= Len(staged')
    BY RowsType DEF Progress
  <1>2. worker[w] \in Batch(Len(staged))
    BY DEF TypeOK
  <1>3. worker[w] \in Batch(Len(staged'))
    BY <1>1, <1>2, BatchGrows
  <1>4. /\ worker[w].rows \subseteq 1 .. Len(staged)
        /\ \A o \in worker[w].outcomes : o.row \in 1 .. Len(staged)
    BY <1>2 DEF Batch
  <1>5. /\ worker[w].phase = "read" =>
             \A i \in worker[w].rows \ worker[w].ready : staged[i].command \in Answered
        /\ \A o \in worker[w].outcomes : o.checkout # Null =>
             \E e \in eventStore : e.checkout = o.checkout /\ e.key = KeyOf[staged[o.row].command]
    BY DEF BatchInv, CommandOf, IntentOf
  <1> QED BY <1>3, <1>4, <1>5 DEF Progress

\* A processor moves on to a batch that is right.
LEMMA BatchMoves ==
    ASSUME TypeOK, BatchInv, Progress, staged' \in Seq(Row), NEW w \in Workers,
           NEW next \in Batch(Len(staged)), worker' = [worker EXCEPT ![w] = next],
           next.phase = "read" =>
             \A i \in next.rows \ next.ready : staged[i].command \in Answered',
           \A o \in next.outcomes : o.checkout # Null =>
             \E e \in eventStore' : e.checkout = o.checkout /\ e.key = KeyOf[staged[o.row].command]
    PROVE  worker' \in [Workers -> Batch(Len(staged'))] /\ BatchInv'
  <1>1. Len(staged) \in Nat /\ Len(staged') \in Nat /\ Len(staged) <= Len(staged')
    BY RowsType DEF Progress
  <1>2. next \in Batch(Len(staged'))
    BY <1>1, BatchGrows
  <1>3. /\ next.rows \subseteq 1 .. Len(staged)
        /\ \A o \in next.outcomes : o.row \in 1 .. Len(staged)
    BY DEF Batch
  <1>4. worker'[w] = next /\ \A v \in Workers \ {w} : worker'[v] = worker[v]
    BY DEF TypeOK
  <1>5. ASSUME NEW v \in Workers
        PROVE  /\ worker'[v] \in Batch(Len(staged'))
               /\ worker'[v].phase = "read" =>
                    \A i \in worker'[v].rows \ worker'[v].ready : staged'[i].command \in Answered'
               /\ \A o \in worker'[v].outcomes : o.checkout # Null =>
                    \E e \in eventStore' :
                       e.checkout = o.checkout /\ e.key = KeyOf[staged'[o.row].command]
    <2>1. CASE v = w
      BY <1>2, <1>3, <1>4, <2>1 DEF Progress
    <2>2. CASE v # w
      BY <1>4, <2>2, BatchesKept
    <2> QED BY <2>1, <2>2
  <1>6. worker' \in [Workers -> Batch(Len(staged'))]
    BY <1>5 DEF TypeOK
  <1> QED BY <1>5, <1>6 DEF BatchInv, CommandOf, IntentOf

\* An idle processor holds nothing.
LEMMA IdleType ==
    ASSUME NEW n \in Nat
    PROVE  /\ Idle \in Batch(n) /\ Idle.phase = "idle" /\ Idle.rows = {} /\ Idle.ready = {}
           /\ Idle.outcomes = {}
  BY DEF Idle, Batch, Phases

\* Nobody holds more after a step that no processor takes.
LEMMA WorkersKept ==
    ASSUME TypeOK, BatchInv, Progress, staged' \in Seq(Row), worker' = worker
    PROVE  worker' \in [Workers -> Batch(Len(staged'))] /\ BatchInv'
  <1>1. ASSUME NEW v \in Workers
        PROVE  /\ worker'[v] \in Batch(Len(staged'))
               /\ worker'[v].phase = "read" =>
                    \A i \in worker'[v].rows \ worker'[v].ready : staged'[i].command \in Answered'
               /\ \A o \in worker'[v].outcomes : o.checkout # Null =>
                    \E e \in eventStore' :
                       e.checkout = o.checkout /\ e.key = KeyOf[staged'[o.row].command]
    BY BatchesKept
  <1>2. worker' \in [Workers -> Batch(Len(staged'))]
    BY <1>1 DEF TypeOK
  <1> QED BY <1>1, <1>2 DEF BatchInv, CommandOf, IntentOf

------------------------------------------------------------------------------
(* Answers, events and settled rows *)

\* A step that leaves a row of command_status out of the end states takes no answer back.
LEMMA StatusKept ==
    ASSUME StatusInv, commandStatus' = commandStatus, eventStore \subseteq eventStore'
    PROVE  StatusInv' /\ Answered' = Answered
  BY DEF StatusInv, IntentOf, Answered

\* Open commands get new rows; a new row of created names an event.
LEMMA StatusMoves ==
    ASSUME StatusInv, eventStore \subseteq eventStore',
           \A c \in Commands :
              \/ commandStatus'[c] = commandStatus[c]
              \/ /\ c \notin Answered
                 /\ commandStatus'[c].status \in {"accepted", "processing"} =>
                      commandStatus'[c].checkout = Null
                 /\ commandStatus'[c].status = "created" =>
                      \E e \in eventStore : e.checkout = commandStatus'[c].checkout /\ e.key = KeyOf[c]
    PROVE  StatusInv' /\ Answered \subseteq Answered'
  <1>1. Answered \subseteq Answered'
    BY DEF Answered
  <1>2. ASSUME NEW c \in Commands, commandStatus'[c] # Null
        PROVE  /\ commandStatus'[c].status \in {"accepted", "processing"} =>
                    commandStatus'[c].checkout = Null
               /\ commandStatus'[c].status = "created" =>
                    \E e \in eventStore' :
                      e.checkout = commandStatus'[c].checkout /\ e.key = KeyOf[c]
    <2>1. CASE commandStatus'[c] = commandStatus[c]
      BY <1>2, <2>1 DEF StatusInv, IntentOf
    <2>2. CASE commandStatus'[c] # commandStatus[c]
      BY <2>2
    <2> QED BY <2>1, <2>2
  <1> QED BY <1>1, <1>2 DEF StatusInv, IntentOf

\* Rows that were settled stay so, and the new ones have answered commands.
LEMMA SettledKept ==
    ASSUME TypeOK, Progress, SettledRowIsAnswered, staged' \in Seq(Row),
           \A i \in 1 .. Len(staged') : staged'[i].ingest \in {"merged", "dlq"} =>
              \/ i \in 1 .. Len(staged) /\ staged[i].ingest \in {"merged", "dlq"}
              \/ staged'[i].command \in Answered'
    PROVE  SettledRowIsAnswered'
  <1>1. DOMAIN staged' = 1 .. Len(staged')
    OBVIOUS
  <1>2. \A i \in 1 .. Len(staged) : staged[i].ingest \in {"merged", "dlq"} => staged[i].command \in Answered
    BY RowsType DEF SettledRowIsAnswered, CommandOf
  <1>3. \A i \in 1 .. Len(staged') :
           staged'[i].ingest \in {"merged", "dlq"} => staged'[i].command \in Answered'
    BY <1>2 DEF Progress
  <1> QED BY <1>1, <1>3 DEF SettledRowIsAnswered, CommandOf

\* A step that leaves the rows alone.
LEMMA RowsKept ==
    ASSUME TypeOK, staged' = staged, Answered \subseteq Answered', eventStore \subseteq eventStore'
    PROVE  Progress /\ staged' \in Seq(Row)
  BY RowsType DEF Progress

\* A step that only touches the stream, the fetched batch or the counters.
LEMMA QuietStep ==
    ASSUME IInv, UNCHANGED <<staged, commandStatus, eventStore, worker>>,
           message' \in [Commands -> {"none", "stored", "acked"}],
           fetched' \in [batch : SUBSET Commands, staged : BOOLEAN],
           faults' \in 0 .. MaxFaults, crashes' \in 0 .. MaxCrashes
    PROVE  IInv'
  <1>1. TypeOK'
    BY DEF IInv, TypeOK
  <1>2. EventInv' /\ StatusInv' /\ BatchInv' /\ SettledRowIsAnswered'
    BY DEF IInv, EventInv, StatusInv, IntentOf, BatchInv, CommandOf, Answered, SettledRowIsAnswered
  <1> QED BY <1>1, <1>2 DEF IInv

\* The COPY adds rows and nothing else.
LEMMA CopyStep ==
    ASSUME IInv, CopyRows \/ UNCHANGED staged, UNCHANGED <<commandStatus, eventStore, worker, crashes>>,
           message' \in [Commands -> {"none", "stored", "acked"}],
           fetched' \in [batch : SUBSET Commands, staged : BOOLEAN],
           faults' \in 0 .. MaxFaults
    PROVE  IInv'
  <1>1. CASE CopyRows
    <2>1. /\ staged' \in Seq(Row) /\ Len(staged) <= Len(staged')
          /\ \A i \in 1 .. Len(staged) : staged'[i] = staged[i]
          /\ \A i \in 1 .. Len(staged') : i \notin 1 .. Len(staged) => staged'[i].ingest = "pending"
      BY <1>1, CopyRowsType DEF IInv
    <2>2. StatusInv' /\ Answered' = Answered
      BY StatusKept DEF IInv
    <2>3. Progress
      BY <2>1, <2>2 DEF Progress
    <2>4. worker' \in [Workers -> Batch(Len(staged'))] /\ BatchInv'
      BY <2>1, <2>3, WorkersKept DEF IInv
    <2>5. SettledRowIsAnswered'
      BY <2>1, <2>3, SettledKept DEF IInv
    <2>6. TypeOK'
      BY <2>1, <2>4 DEF IInv, TypeOK, Row
    <2>7. EventInv'
      BY DEF IInv, EventInv
    <2> QED BY <2>2, <2>4, <2>5, <2>6, <2>7 DEF IInv
  <1>2. CASE UNCHANGED staged
    <2>1. crashes' \in 0 .. MaxCrashes
      BY DEF IInv, TypeOK
    <2> QED BY <1>2, <2>1, QuietStep
  <1> QED BY <1>1, <1>2

\* The steps of the client and of the ingest worker.
LEMMA IngestStep ==
    ASSUME IInv, (\E c \in Commands : Publish(c)) \/ Ingest \/ StageBatchFails
    PROVE  IInv'
  <1>0. /\ message \in [Commands -> {"none", "stored", "acked"}]
        /\ fetched \in [batch : SUBSET Commands, staged : BOOLEAN]
        /\ faults \in 0 .. MaxFaults /\ crashes \in 0 .. MaxCrashes
        /\ MaxFaults \in Nat
    BY StagedAssumption DEF IInv, TypeOK
  <1>1. CASE \E c \in Commands : Publish(c)
    BY <1>0, <1>1, QuietStep DEF Publish
  <1>2. CASE \E batch \in SUBSET Commands : Fetch(batch)
    BY <1>0, <1>2, QuietStep DEF Fetch
  <1>3. CASE StageBatch
    BY <1>0, <1>3, CopyStep DEF StageBatch
  <1>4. CASE StageBatchFails
    BY <1>0, <1>4, CopyStep DEF StageBatchFails
  <1>5. ASSUME NEW lost \in SUBSET fetched.batch, AckBatch(lost) PROVE IInv'
    <2>1. IsFiniteSet(lost)
      BY <1>0, FS_Subset, StagedAssumption
    <2>2. Cardinality(lost) \in Nat
      BY <2>1, FS_CardinalityType
    <2> QED BY <1>0, <1>5, <2>2, QuietStep DEF AckBatch
  <1> QED BY <1>1, <1>2, <1>3, <1>4, <1>5 DEF Ingest

------------------------------------------------------------------------------
(* The processors *)

\* The parts of a processor's batch.
LEMMA BatchType ==
    ASSUME TypeOK, NEW w \in Workers
    PROVE  /\ worker[w] \in Batch(Len(staged)) /\ worker[w].rows \subseteq 1 .. Len(staged)
           /\ worker[w].ready \subseteq 1 .. Len(staged)
           /\ worker[w].outcomes \subseteq [row : 1 .. Len(staged), checkout : Nat \cup {Null}]
  BY DEF TypeOK, Batch

\* A processor that changes its batch only.
LEMMA BatchStep ==
    ASSUME IInv, NEW w \in Workers, NEW next \in Batch(Len(staged)),
           worker' = [worker EXCEPT ![w] = next],
           UNCHANGED <<message, fetched, staged, commandStatus, eventStore, faults>>,
           crashes' \in 0 .. MaxCrashes,
           next.phase = "read" => \A i \in next.rows \ next.ready : CommandOf(i) \in Answered,
           next.outcomes \subseteq worker[w].outcomes
    PROVE  IInv'
  <1>1. StatusInv' /\ Answered' = Answered
    BY StatusKept DEF IInv
  <1>2. Progress /\ staged' \in Seq(Row)
    BY <1>1, RowsKept DEF IInv
  <1>3. \A o \in next.outcomes : o.checkout # Null =>
           \E e \in eventStore' : e.checkout = o.checkout /\ e.key = KeyOf[staged[o.row].command]
    BY DEF IInv, BatchInv, IntentOf, CommandOf
  <1>4. worker' \in [Workers -> Batch(Len(staged'))] /\ BatchInv'
    BY <1>1, <1>2, <1>3, BatchMoves DEF IInv, CommandOf
  <1>5. TypeOK'
    BY <1>4 DEF IInv, TypeOK
  <1>6. EventInv' /\ SettledRowIsAnswered'
    BY <1>1 DEF IInv, EventInv, SettledRowIsAnswered, CommandOf
  <1> QED BY <1>1, <1>4, <1>5, <1>6 DEF IInv

\* A step of a processor that updates command_status or ingest_status or both.
LEMMA UpdateStep ==
    ASSUME IInv, NEW w \in Workers, NEW next \in Batch(Len(staged)),
           worker' = [worker EXCEPT ![w] = next], next.phase # "read",
           next.outcomes \subseteq worker[w].outcomes,
           UNCHANGED <<message, fetched, eventStore, faults, crashes>>,
           staged' \in Seq(Row), Len(staged') = Len(staged),
           \A i \in 1 .. Len(staged) : staged'[i].command = staged[i].command,
           commandStatus' \in [Commands -> {Null} \cup StatusRow],
           \A c \in Commands :
              \/ commandStatus'[c] = commandStatus[c]
              \/ /\ c \notin Answered
                 /\ commandStatus'[c].status \in {"accepted", "processing"} =>
                      commandStatus'[c].checkout = Null
                 /\ commandStatus'[c].status = "created" =>
                      \E e \in eventStore : e.checkout = commandStatus'[c].checkout /\ e.key = KeyOf[c],
           \A i \in 1 .. Len(staged) : staged'[i].ingest \in {"merged", "dlq"} =>
              staged[i].ingest \in {"merged", "dlq"} \/ staged[i].command \in Answered'
    PROVE  IInv'
  <1>1. StatusInv' /\ Answered \subseteq Answered'
    BY StatusMoves DEF IInv
  <1>2. Progress
    BY <1>1, RowsType DEF IInv, Progress
  <1>3. \A o \in next.outcomes : o.checkout # Null =>
           \E e \in eventStore' : e.checkout = o.checkout /\ e.key = KeyOf[staged[o.row].command]
    BY DEF IInv, BatchInv, IntentOf, CommandOf
  <1>4. worker' \in [Workers -> Batch(Len(staged'))] /\ BatchInv'
    BY <1>2, <1>3, BatchMoves DEF IInv
  <1>5. SettledRowIsAnswered'
    BY <1>2, SettledKept DEF IInv
  <1>6. TypeOK'
    BY <1>4 DEF IInv, TypeOK, Row
  <1>7. EventInv'
    BY DEF IInv, EventInv
  <1> QED BY <1>1, <1>4, <1>5, <1>6, <1>7 DEF IInv

\* The claim settles nothing.
LEMMA ClaimStep ==
    ASSUME IInv, NEW w \in Workers, ClaimPendingBatch(w)
    PROVE  IInv'
  <1>1. PICK rows \in SUBSET Pending :
           /\ Ingested(rows, "claimed")
           /\ worker' = [worker EXCEPT ![w] = [Idle EXCEPT !.phase = "claimed", !.rows = rows]]
    BY DEF ClaimPendingBatch
  <1>2. UNCHANGED <<message, fetched, commandStatus, eventStore, faults, crashes>>
    BY DEF ClaimPendingBatch
  <1> DEFINE next == [Idle EXCEPT !.phase = "claimed", !.rows = rows]
  <1>3. rows \subseteq 1 .. Len(staged)
    BY RowsType DEF IInv, Pending
  <1>4. next \in Batch(Len(staged)) /\ next.phase = "claimed" /\ next.outcomes = {}
    BY <1>3 DEF Idle, Batch, Phases
  <1>5. worker' = [worker EXCEPT ![w] = next]
    BY <1>1
  <1> HIDE DEF next
  <1>6. /\ staged' \in Seq(Row) /\ Len(staged') = Len(staged)
        /\ \A i \in 1 .. Len(staged) :
             /\ staged'[i].command = staged[i].command
             /\ i \in rows => staged'[i].ingest = "claimed"
             /\ i \notin rows => staged'[i].ingest = staged[i].ingest
    BY <1>1, IngestedType DEF IInv
  <1>7. commandStatus' \in [Commands -> {Null} \cup StatusRow]
    BY <1>2 DEF IInv, TypeOK
  <1> QED BY <1>2, <1>4, <1>5, <1>6, <1>7, UpdateStep

\* A change of phase.
LEMMA PhaseType ==
    ASSUME IInv, NEW w \in Workers, NEW phase \in Phases
    PROVE  LET next == [worker[w] EXCEPT !.phase = phase]
           IN  /\ next \in Batch(Len(staged)) /\ next.phase = phase
               /\ next.outcomes = worker[w].outcomes
               /\ [worker EXCEPT ![w].phase = phase] = [worker EXCEPT ![w] = next]
  <1>1. worker[w] \in Batch(Len(staged))
    BY BatchType DEF IInv
  <1>2. LET next == [worker[w] EXCEPT !.phase = phase]
        IN  /\ next \in Batch(Len(staged)) /\ next.phase = phase
            /\ next.outcomes = worker[w].outcomes
    BY <1>1 DEF Batch
  <1> QED BY <1>2

\* Accepting a command is for commands without a row.
LEMMA EnsureStep ==
    ASSUME IInv, NEW w \in Workers, EnsureAcceptedBatch(w)
    PROVE  IInv'
  <1> DEFINE next == [worker[w] EXCEPT !.phase = "accepted"]
  <1>1. /\ next \in Batch(Len(staged)) /\ next.phase = "accepted"
        /\ next.outcomes = worker[w].outcomes /\ worker' = [worker EXCEPT ![w] = next]
    BY PhaseType DEF EnsureAcceptedBatch, Phases
  <1> HIDE DEF next
  <1>2. UNCHANGED <<message, fetched, staged, eventStore, faults, crashes>>
    BY DEF EnsureAcceptedBatch
  <1>3. \A c \in Commands :
           \/ commandStatus'[c] = commandStatus[c]
           \/ /\ commandStatus[c] = Null
              /\ commandStatus'[c] = [status |-> "accepted", checkout |-> Null]
    BY DEF EnsureAcceptedBatch
  <1>4. commandStatus' \in [Commands -> {Null} \cup StatusRow]
    BY DEF EnsureAcceptedBatch, IInv, TypeOK, StatusRow
  <1>5. \A c \in Commands :
           \/ commandStatus'[c] = commandStatus[c]
           \/ /\ c \notin Answered
              /\ commandStatus'[c].status \in {"accepted", "processing"} => commandStatus'[c].checkout = Null
              /\ commandStatus'[c].status # "created"
    BY <1>3 DEF Answered
  <1>6. staged' \in Seq(Row)
    BY <1>2, RowsType DEF IInv
  <1> QED BY <1>1, <1>2, <1>4, <1>5, <1>6, UpdateStep

\* Marking commands as processing passes over the answered ones.
LEMMA ProcessingStep ==
    ASSUME IInv, NEW w \in Workers, MarkProcessingBatch(w)
    PROVE  IInv'
  <1> DEFINE next == [worker[w] EXCEPT !.phase = "appending"]
  <1>1. /\ next \in Batch(Len(staged)) /\ next.phase = "appending"
        /\ next.outcomes = worker[w].outcomes /\ worker' = [worker EXCEPT ![w] = next]
    BY PhaseType DEF MarkProcessingBatch, Phases
  <1> HIDE DEF next
  <1>2. UNCHANGED <<message, fetched, staged, eventStore, faults, crashes>>
    BY DEF MarkProcessingBatch
  <1>3. \A c \in Commands :
           \/ commandStatus'[c] = commandStatus[c]
           \/ /\ c \notin Answered
              /\ commandStatus'[c] = [status |-> "processing", checkout |-> Null]
    BY DEF MarkProcessingBatch
  <1>4. commandStatus' \in [Commands -> {Null} \cup StatusRow]
    BY DEF MarkProcessingBatch, IInv, TypeOK, StatusRow
  <1>5. \A c \in Commands :
           \/ commandStatus'[c] = commandStatus[c]
           \/ /\ c \notin Answered
              /\ commandStatus'[c].status \in {"accepted", "processing"} => commandStatus'[c].checkout = Null
              /\ commandStatus'[c].status # "created"
    BY <1>3
  <1>6. staged' \in Seq(Row)
    BY <1>2, RowsType DEF IInv
  <1> QED BY <1>1, <1>2, <1>4, <1>5, <1>6, UpdateStep

\* The rows that are not ready are those of answered commands.
LEMMA ReadStep ==
    ASSUME IInv, NEW w \in Workers, ReadStatuses(w)
    PROVE  IInv'
  <1> DEFINE ready == ReadyToProcess(worker[w].rows)
             next  == [worker[w] EXCEPT !.phase = "read", !.ready = ready]
  <1>1. ready \subseteq worker[w].rows /\ \A i \in worker[w].rows \ ready : CommandOf(i) \in Answered
    BY DEF ReadyToProcess
  <1>2. worker' = [worker EXCEPT ![w] = next]
    BY DEF ReadStatuses, IInv, TypeOK
  <1>3. UNCHANGED <<message, fetched, staged, commandStatus, eventStore, faults, crashes>>
    BY DEF ReadStatuses
  <1> HIDE DEF ready
  <1>4. /\ next \in Batch(Len(staged)) /\ next.rows = worker[w].rows /\ next.ready = ready
        /\ next.outcomes = worker[w].outcomes
    BY <1>1, BatchType DEF IInv, Batch, Phases
  <1> HIDE DEF next
  <1>5. crashes' \in 0 .. MaxCrashes
    BY <1>3 DEF IInv, TypeOK
  <1> QED BY <1>1, <1>2, <1>3, <1>4, <1>5, BatchStep

\* The rows set aside have answered commands.
LEMMA DuplicatesStep ==
    ASSUME IInv, NEW w \in Workers, MarkMergedDuplicateCommands(w)
    PROVE  IInv'
  <1> DEFINE next == [worker[w] EXCEPT !.phase = "merged"]
             rows == worker[w].rows \ worker[w].ready
  <1>1. /\ next \in Batch(Len(staged)) /\ next.phase = "merged"
        /\ next.outcomes = worker[w].outcomes /\ worker' = [worker EXCEPT ![w] = next]
    BY PhaseType DEF MarkMergedDuplicateCommands, Phases
  <1>2. /\ UNCHANGED <<message, fetched, commandStatus, eventStore, faults, crashes>>
        /\ Ingested(rows, "merged") /\ worker[w].phase = "read"
    BY DEF MarkMergedDuplicateCommands
  <1>3. \A i \in rows : CommandOf(i) \in Answered
    BY <1>2 DEF IInv, BatchInv
  <1> HIDE DEF next, rows
  <1>4. /\ staged' \in Seq(Row) /\ Len(staged') = Len(staged)
        /\ \A i \in 1 .. Len(staged) :
             /\ staged'[i].command = staged[i].command
             /\ i \in rows => staged'[i].ingest = "merged"
             /\ i \notin rows => staged'[i].ingest = staged[i].ingest
    BY <1>2, IngestedType DEF IInv
  <1>5. commandStatus' \in [Commands -> {Null} \cup StatusRow] /\ Answered' = Answered
    BY <1>2 DEF IInv, TypeOK, Answered
  <1>6. \A i \in 1 .. Len(staged) : staged'[i].ingest \in {"merged", "dlq"} =>
           staged[i].ingest \in {"merged", "dlq"} \/ staged[i].command \in Answered'
    BY <1>3, <1>4, <1>5 DEF CommandOf
  <1> QED BY <1>1, <1>2, <1>4, <1>5, <1>6, UpdateStep

\* A processor that ends forgets its batch.
LEMMA CrashStep ==
    ASSUME IInv, NEW w \in Workers, Crash(w)
    PROVE  IInv'
  <1>1. Len(staged) \in Nat
    BY RowsType DEF IInv
  <1>2. crashes' \in 0 .. MaxCrashes
    BY StagedAssumption DEF Crash, IInv, TypeOK
  <1>3. /\ worker' = [worker EXCEPT ![w] = Idle]
        /\ UNCHANGED <<message, fetched, staged, commandStatus, eventStore, faults>>
    BY DEF Crash
  <1> QED BY <1>1, <1>2, <1>3, IdleType, BatchStep

\* An outcome more.
LEMMA OutcomeType ==
    ASSUME IInv, NEW w \in Workers, NEW i \in 1 .. Len(staged), NEW n \in Nat \cup {Null}
    PROVE  LET o    == [row |-> i, checkout |-> n]
               next == [worker[w] EXCEPT !.outcomes = worker[w].outcomes \cup {o}]
           IN  /\ next \in Batch(Len(staged)) /\ next.phase = worker[w].phase
               /\ next.outcomes = worker[w].outcomes \cup {o}
               /\ [worker EXCEPT ![w].outcomes = worker[w].outcomes \cup {o}]
                    = [worker EXCEPT ![w] = next]
  <1>1. worker[w] \in Batch(Len(staged))
    BY BatchType DEF IInv
  <1>2. [row |-> i, checkout |-> n] \in [row : 1 .. Len(staged), checkout : Nat \cup {Null}]
    OBVIOUS
  <1>3. LET o    == [row |-> i, checkout |-> n]
            next == [worker[w] EXCEPT !.outcomes = worker[w].outcomes \cup {o}]
        IN  /\ next \in Batch(Len(staged)) /\ next.phase = worker[w].phase
            /\ next.outcomes = worker[w].outcomes \cup {o}
    BY <1>1, <1>2 DEF Batch
  <1> QED BY <1>3

\* An append adds nothing for a taken key, and otherwise the event with the next number.
LEMMA AppendType ==
    ASSUME IInv, NEW c \in Commands, eventStore' = Append1(c)
    PROVE  /\ eventStore \subseteq eventStore' /\ EventInv'
           /\ eventStore' \subseteq [checkout : Nat, key : Keys \cup {Null}, command : Commands]
           /\ \A e \in IF SameKey(c) = {} THEN {NewEvent(c)} ELSE SameKey(c) :
                e \in eventStore' /\ e.checkout \in Nat /\ e.key = KeyOf[c]
  <1>1. /\ IsFiniteSet(eventStore) /\ Cardinality(eventStore) \in Nat
        /\ eventStore \subseteq [checkout : Nat, key : Keys \cup {Null}, command : Commands]
        /\ KeyOf[c] \in Keys \cup {Null}
    BY FS_CardinalityType, StagedAssumption DEF IInv, TypeOK, EventInv
  <1>2. CASE SameKey(c) # {}
    <2>1. eventStore' = eventStore
      BY <1>2 DEF Append1
    <2>2. EventInv'
      BY <2>1 DEF IInv, EventInv
    <2>3. \A e \in SameKey(c) : e \in eventStore /\ e.key = KeyOf[c]
      BY DEF SameKey
    <2> QED BY <1>1, <1>2, <2>1, <2>2, <2>3
  <1>3. CASE SameKey(c) = {}
    <2> DEFINE n == Cardinality(eventStore)
               new == NewEvent(c)
    <2>1. /\ new.checkout = n + 1 /\ new.key = KeyOf[c] /\ new.command = c
          /\ new \in [checkout : Nat, key : Keys \cup {Null}, command : Commands]
      BY <1>1 DEF NewEvent
    <2>2. eventStore' = eventStore \cup {new}
      BY <1>3 DEF Append1
    <2> HIDE DEF new
    <2>3. /\ \A e \in eventStore : e.checkout \in 1 .. n
          /\ \A e, f \in eventStore : e.checkout = f.checkout => e = f
          /\ \A e, f \in eventStore : e.key # Null /\ e.key = f.key => e = f
          /\ \A e \in eventStore : e.key = KeyOf[e.command]
      BY DEF IInv, EventInv
    <2>4. new \notin eventStore
      BY <1>1, <2>1, <2>3
    <2>5. IsFiniteSet(eventStore') /\ Cardinality(eventStore') = n + 1
      BY <1>1, <2>2, <2>4, FS_AddElement
    <2>6. \A e \in eventStore : ~(KeyOf[c] # Null /\ e.key = KeyOf[c])
      BY <1>3 DEF SameKey
    <2> HIDE DEF n
    <2>7. n \in Nat
      BY <1>1 DEF n
    <2>8. /\ \A e \in eventStore' : e.checkout \in 1 .. n + 1
          /\ \A e, f \in eventStore' : e.checkout = f.checkout => e = f
      BY <2>1, <2>2, <2>3, <2>7
    <2>9. /\ \A e, f \in eventStore' : e.key # Null /\ e.key = f.key => e = f
          /\ \A e \in eventStore' : e.key = KeyOf[e.command]
      BY <2>1, <2>2, <2>3, <2>6
    <2>10. EventInv'
      BY <2>5, <2>8, <2>9 DEF EventInv
    <2> QED BY <1>1, <1>3, <2>1, <2>2, <2>10 DEF new
  <1> QED BY <1>2, <1>3

\* An append with its outcome.
LEMMA AppendStep ==
    ASSUME IInv, NEW w \in Workers, NEW i \in 1 .. Len(staged), NEW n \in Nat \cup {Null},
           worker[w].phase = "appending",
           worker' = [worker EXCEPT ![w].outcomes = worker[w].outcomes \cup {[row |-> i, checkout |-> n]}],
           UNCHANGED <<message, fetched, staged, commandStatus, crashes>>,
           faults' \in 0 .. MaxFaults,
           eventStore \subseteq eventStore', EventInv',
           eventStore' \subseteq [checkout : Nat, key : Keys \cup {Null}, command : Commands],
           n # Null => \E e \in eventStore' : e.checkout = n /\ e.key = KeyOf[staged[i].command]
    PROVE  IInv'
  <1> DEFINE o    == [row |-> i, checkout |-> n]
             next == [worker[w] EXCEPT !.outcomes = worker[w].outcomes \cup {o}]
  <1>1. /\ next \in Batch(Len(staged)) /\ next.phase = "appending"
        /\ next.outcomes = worker[w].outcomes \cup {o} /\ worker' = [worker EXCEPT ![w] = next]
    BY OutcomeType
  <1>2. o.row = i /\ o.checkout = n
    OBVIOUS
  <1> HIDE DEF o, next
  <1>3. StatusInv' /\ Answered' = Answered
    BY StatusKept DEF IInv
  <1>4. Progress /\ staged' \in Seq(Row)
    BY <1>3, RowsKept DEF IInv
  <1>5. \A x \in worker[w].outcomes : x.checkout # Null =>
           \E e \in eventStore : e.checkout = x.checkout /\ e.key = KeyOf[staged[x.row].command]
    BY DEF IInv, BatchInv, IntentOf, CommandOf
  <1>6. \A x \in next.outcomes : x.checkout # Null =>
           \E e \in eventStore' : e.checkout = x.checkout /\ e.key = KeyOf[staged[x.row].command]
    BY <1>1, <1>2, <1>5
  <1>7. next.phase # "read"
    BY <1>1
  <1>8. worker' \in [Workers -> Batch(Len(staged'))] /\ BatchInv'
    BY <1>1, <1>4, <1>6, <1>7, BatchMoves DEF IInv
  <1>9. TypeOK'
    BY <1>8 DEF IInv, TypeOK
  <1>10. SettledRowIsAnswered'
    BY <1>3 DEF IInv, SettledRowIsAnswered, CommandOf
  <1> QED BY <1>3, <1>8, <1>9, <1>10 DEF IInv

\* createCheckoutIntent.
LEMMA CreateStep ==
    ASSUME IInv, NEW w \in Workers, NEW i \in worker[w].ready,
           CreateCheckoutIntent(w, i) \/ CreateCheckoutIntentFails(w, i)
    PROVE  IInv'
  <1> DEFINE c == CommandOf(i)
  <1>1. i \in 1 .. Len(staged) /\ c \in Commands /\ c = staged[i].command
    BY BatchType, RowsType DEF IInv, CommandOf
  <1>2. CASE CreateCheckoutIntent(w, i)
    <2>1. PICK e \in IF SameKey(c) = {} THEN {NewEvent(c)} ELSE SameKey(c) :
             worker' = [worker EXCEPT ![w].outcomes =
                          worker[w].outcomes \cup {[row |-> i, checkout |-> e.checkout]}]
      BY <1>2 DEF CreateCheckoutIntent
    <2>2. /\ UNCHANGED <<message, fetched, staged, commandStatus, faults, crashes>>
          /\ eventStore' = Append1(c) /\ worker[w].phase = "appending"
      BY <1>2 DEF CreateCheckoutIntent
    <2> HIDE DEF c
    <2>3. /\ eventStore \subseteq eventStore' /\ EventInv'
          /\ eventStore' \subseteq [checkout : Nat, key : Keys \cup {Null}, command : Commands]
          /\ e \in eventStore' /\ e.checkout \in Nat /\ e.key = KeyOf[c]
      BY <1>1, <2>1, <2>2, AppendType
    <2>4. faults' \in 0 .. MaxFaults
      BY <2>2 DEF IInv, TypeOK
    <2> QED BY <1>1, <2>1, <2>2, <2>3, <2>4, AppendStep
  <1>3. CASE CreateCheckoutIntentFails(w, i)
    <2>1. /\ worker' = [worker EXCEPT ![w].outcomes =
                          worker[w].outcomes \cup {[row |-> i, checkout |-> Null]}]
          /\ UNCHANGED <<message, fetched, staged, commandStatus, crashes>>
          /\ worker[w].phase = "appending"
          /\ eventStore' = eventStore \/ eventStore' = Append1(c)
      BY <1>3 DEF CreateCheckoutIntentFails
    <2>2. faults' \in 0 .. MaxFaults
      BY <1>3, StagedAssumption DEF CreateCheckoutIntentFails, IInv, TypeOK
    <2> HIDE DEF c
    <2>3. /\ eventStore \subseteq eventStore' /\ EventInv'
          /\ eventStore' \subseteq [checkout : Nat, key : Keys \cup {Null}, command : Commands]
      <3>1. CASE eventStore' = eventStore
        BY <3>1 DEF IInv, EventInv, TypeOK
      <3>2. CASE eventStore' = Append1(c)
        BY <1>1, <3>2, AppendType
      <3> QED BY <2>1, <3>1, <3>2
    <2> QED BY <1>1, <2>1, <2>2, <2>3, AppendStep
  <1> QED BY <1>2, <1>3

\* The created rows are merged with the answer of their command.
LEMMA CreatedStep ==
    ASSUME IInv, NEW w \in Workers, MarkCreatedBatch(w)
    PROVE  IInv'
  <1> DEFINE next == [worker[w] EXCEPT !.phase = "created"]
             rows == RowsOf(Created(w))
  <1>1. /\ next \in Batch(Len(staged)) /\ next.phase = "created"
        /\ next.outcomes = worker[w].outcomes /\ worker' = [worker EXCEPT ![w] = next]
    BY PhaseType DEF MarkCreatedBatch, Phases
  <1>2. /\ UNCHANGED <<message, fetched, eventStore, faults, crashes>>
        /\ Ingested(rows, "merged")
    BY DEF MarkCreatedBatch
  <1>3. PICK answer \in [CommandsOf(rows) \ Answered -> Created(w)] :
           /\ \A c \in DOMAIN answer : CommandOf(answer[c].row) = c
           /\ commandStatus' = [c \in Commands |->
                IF c \in DOMAIN answer
                THEN [status |-> "created", checkout |-> answer[c].checkout] ELSE commandStatus[c]]
    BY DEF MarkCreatedBatch
  <1> HIDE DEF next
  <1>4. \A o \in Created(w) : /\ o.checkout \in Nat /\ o.row \in 1 .. Len(staged)
                              /\ \E e \in eventStore : e.checkout = o.checkout
                                                       /\ e.key = KeyOf[CommandOf(o.row)]
    BY BatchType DEF IInv, BatchInv, IntentOf, Created
  <1>5. \A c \in CommandsOf(rows) \ Answered :
           /\ answer[c].checkout \in Nat
           /\ \E e \in eventStore : e.checkout = answer[c].checkout /\ e.key = KeyOf[c]
    BY <1>3, <1>4
  <1>6. /\ \A c \in (CommandsOf(rows) \ Answered) \cap Commands :
             commandStatus'[c] = [status |-> "created", checkout |-> answer[c].checkout]
        /\ \A c \in Commands \ (CommandsOf(rows) \ Answered) : commandStatus'[c] = commandStatus[c]
    BY <1>3
  <1>7. commandStatus' \in [Commands -> {Null} \cup StatusRow]
    <2>1. \A c \in (CommandsOf(rows) \ Answered) \cap Commands :
             [status |-> "created", checkout |-> answer[c].checkout] \in StatusRow
      BY <1>5 DEF StatusRow
    <2>2. \A c \in Commands : commandStatus[c] \in {Null} \cup StatusRow
      BY DEF IInv, TypeOK
    <2>3. \A c \in Commands : commandStatus'[c] \in {Null} \cup StatusRow
      BY <1>6, <2>1, <2>2
    <2> QED BY <1>3, <2>3
  <1>8. \A c \in Commands :
           \/ commandStatus'[c] = commandStatus[c]
           \/ /\ c \notin Answered
              /\ commandStatus'[c].status \in {"accepted", "processing"} => commandStatus'[c].checkout = Null
              /\ commandStatus'[c].status = "created" =>
                   \E e \in eventStore : e.checkout = commandStatus'[c].checkout /\ e.key = KeyOf[c]
    <2> SUFFICES ASSUME NEW c \in Commands, commandStatus'[c] # commandStatus[c]
                 PROVE  /\ c \notin Answered /\ commandStatus'[c].status = "created"
                        /\ \E e \in eventStore :
                              e.checkout = commandStatus'[c].checkout /\ e.key = KeyOf[c]
      OBVIOUS
    <2>1. /\ c \in CommandsOf(rows) \ Answered
          /\ commandStatus'[c] = [status |-> "created", checkout |-> answer[c].checkout]
      BY <1>6
    <2>2. PICK e \in eventStore : e.checkout = answer[c].checkout /\ e.key = KeyOf[c]
      BY <1>5, <2>1
    <2> QED BY <2>1, <2>2
  <1>9. \A i \in rows : i \in 1 .. Len(staged) /\ staged[i].command \in CommandsOf(rows)
    BY <1>4 DEF RowsOf, CommandsOf, CommandOf
  <1>10. \A i \in rows : staged[i].command \in Answered'
    <2> SUFFICES ASSUME NEW i \in rows PROVE staged[i].command \in Answered'
      OBVIOUS
    <2> DEFINE c == staged[i].command
    <2>1. c \in Commands /\ c \in CommandsOf(rows)
      BY <1>9, RowsType DEF IInv, CommandOf
    <2>2. CASE c \in Answered
      BY <1>6, <2>1, <2>2 DEF Answered
    <2>3. CASE c \notin Answered
      <3>1. /\ commandStatus'[c] = [status |-> "created", checkout |-> answer[c].checkout]
            /\ answer[c].checkout \in Nat
        BY <1>5, <1>6, <2>1, <2>3
      <3>2. commandStatus'[c] \in StatusRow /\ commandStatus'[c].status = "created"
        BY <3>1 DEF StatusRow
      <3>3. commandStatus'[c] # Null
        BY <3>2, StagedAssumption
      <3> QED BY <2>1, <3>2, <3>3 DEF Answered
    <2> QED BY <2>2, <2>3
  <1> HIDE DEF rows
  <1>11. /\ staged' \in Seq(Row) /\ Len(staged') = Len(staged)
         /\ \A i \in 1 .. Len(staged) :
              /\ staged'[i].command = staged[i].command
              /\ i \in rows => staged'[i].ingest = "merged"
              /\ i \notin rows => staged'[i].ingest = staged[i].ingest
    BY <1>2, IngestedType DEF IInv
  <1>12. \A i \in 1 .. Len(staged) : staged'[i].ingest \in {"merged", "dlq"} =>
            staged[i].ingest \in {"merged", "dlq"} \/ staged[i].command \in Answered'
    BY <1>10, <1>11
  <1> QED BY <1>1, <1>2, <1>7, <1>8, <1>11, <1>12, UpdateStep

\* The failed rows go to the dead letter queue with the answer of their command.
LEMMA FailedStep ==
    ASSUME IInv, NEW w \in Workers, MarkFailedBatch(w)
    PROVE  IInv'
  <1> DEFINE rows == RowsOf(Failed(w))
  <1>1. Idle \in Batch(Len(staged)) /\ Idle.phase # "read" /\ Idle.outcomes \subseteq worker[w].outcomes
    BY IdleType, RowsType DEF IInv
  <1>2. /\ UNCHANGED <<message, fetched, eventStore, faults, crashes>>
        /\ Ingested(rows, "dlq") /\ worker' = [worker EXCEPT ![w] = Idle]
        /\ commandStatus' = [c \in Commands |->
             IF c \in CommandsOf(rows) \ Answered
             THEN [status |-> "failed", checkout |-> Null] ELSE commandStatus[c]]
    BY DEF MarkFailedBatch
  <1>3. commandStatus' \in [Commands -> {Null} \cup StatusRow]
    BY <1>2 DEF IInv, TypeOK, StatusRow
  <1>4. \A c \in Commands :
           \/ commandStatus'[c] = commandStatus[c]
           \/ /\ c \notin Answered
              /\ commandStatus'[c].status \in {"accepted", "processing"} => commandStatus'[c].checkout = Null
              /\ commandStatus'[c].status = "created" =>
                   \E e \in eventStore : e.checkout = commandStatus'[c].checkout /\ e.key = KeyOf[c]
    BY <1>2
  <1>5. \A i \in rows : i \in 1 .. Len(staged) /\ staged[i].command \in CommandsOf(rows)
    BY BatchType DEF IInv, RowsOf, Failed, CommandsOf, CommandOf
  <1>6. \A i \in rows : staged[i].command \in Answered'
    <2> SUFFICES ASSUME NEW i \in rows PROVE staged[i].command \in Answered'
      OBVIOUS
    <2> DEFINE c == staged[i].command
    <2>1. c \in Commands /\ c \in CommandsOf(rows)
      BY <1>5, RowsType DEF IInv, CommandOf
    <2>2. CASE c \in Answered
      BY <1>2, <2>1, <2>2 DEF Answered
    <2>3. CASE c \notin Answered
      <3>1. commandStatus'[c] = [status |-> "failed", checkout |-> Null]
        BY <1>2, <2>1, <2>3
      <3>2. commandStatus'[c] \in StatusRow /\ commandStatus'[c].status = "failed"
        BY <3>1 DEF StatusRow
      <3>3. commandStatus'[c] # Null
        BY <3>2, StagedAssumption
      <3> QED BY <2>1, <3>2, <3>3 DEF Answered
    <2> QED BY <2>2, <2>3
  <1> HIDE DEF rows
  <1>7. /\ staged' \in Seq(Row) /\ Len(staged') = Len(staged)
        /\ \A i \in 1 .. Len(staged) :
             /\ staged'[i].command = staged[i].command
             /\ i \in rows => staged'[i].ingest = "dlq"
             /\ i \notin rows => staged'[i].ingest = staged[i].ingest
    BY <1>2, IngestedType DEF IInv
  <1>8. \A i \in 1 .. Len(staged) : staged'[i].ingest \in {"merged", "dlq"} =>
           staged[i].ingest \in {"merged", "dlq"} \/ staged[i].command \in Answered'
    BY <1>6, <1>7
  <1> QED BY <1>1, <1>2, <1>3, <1>4, <1>7, <1>8, UpdateStep

------------------------------------------------------------------------------
(* Theorems *)

\* The start: nothing is published, staged or answered.
LEMMA InitInv == Init => IInv
  <1> SUFFICES ASSUME Init PROVE IInv
    OBVIOUS
  <1>1. /\ staged = <<>> /\ Len(staged) = 0 /\ eventStore = {}
        /\ commandStatus = [c \in Commands |-> Null] /\ worker = [w \in Workers |-> Idle]
    BY DEF Init
  <1>2. /\ Idle \in Batch(0) /\ Idle.phase = "idle" /\ Idle.outcomes = {}
    BY IdleType
  <1>3. worker \in [Workers -> Batch(Len(staged))]
    BY <1>1, <1>2
  <1>4. staged \in Seq([command : Commands, ingest : {"pending", "claimed", "merged", "dlq"}])
    BY <1>1
  <1>5. TypeOK
    BY <1>1, <1>3, <1>4, StagedAssumption DEF Init, TypeOK
  <1>6. EventInv
    BY <1>1, FS_EmptySet DEF EventInv
  <1>7. StatusInv
    BY <1>1 DEF StatusInv
  <1>8. BatchInv
    BY <1>1, <1>2 DEF BatchInv
  <1>9. SettledRowIsAnswered
    BY <1>1 DEF SettledRowIsAnswered
  <1> QED BY <1>5, <1>6, <1>7, <1>8, <1>9 DEF IInv

\* Every step keeps the invariant.
LEMMA Step ==
    ASSUME IInv, [Next]_vars
    PROVE  IInv'
  <1>1. CASE (\E c \in Commands : Publish(c)) \/ Ingest \/ StageBatchFails
    BY <1>1, IngestStep
  <1>2. ASSUME NEW w \in Workers, ProcessBatch(w) PROVE IInv'
    BY <1>2, ClaimStep, EnsureStep, ReadStep, DuplicatesStep, ProcessingStep, CreateStep,
       CreatedStep, FailedStep DEF ProcessBatch
  <1>3. ASSUME NEW w \in Workers, \E i \in worker[w].ready : CreateCheckoutIntentFails(w, i) PROVE IInv'
    BY <1>3, CreateStep
  <1>4. ASSUME NEW w \in Workers, Crash(w) PROVE IInv'
    BY <1>4, CrashStep
  <1>5. CASE UNCHANGED vars
    <2>1. /\ UNCHANGED <<staged, commandStatus, eventStore, worker>>
          /\ message' = message /\ fetched' = fetched /\ faults' = faults /\ crashes' = crashes
      BY <1>5 DEF vars
    <2> QED BY <2>1, QuietStep DEF IInv, TypeOK
  <1> QED BY <1>1, <1>2, <1>3, <1>4, <1>5 DEF Next

\* The inductive invariant holds in every state.
LEMMA Invariant == Spec => []IInv
  BY InitInv, Step, PTL DEF Spec

\* Every variable keeps its type, for any number of commands, copies, processors and faults.
THEOREM TypeCorrect == Spec => []TypeOK
  <1>1. IInv => TypeOK
    BY DEF IInv
  <1> QED BY <1>1, Invariant, PTL

\* No row is merged or put into the dead letter queue before its command is answered,
\* whoever works on another copy of it and wherever a processor ends.
THEOREM SettledIsAnswered == Spec => []SettledRowIsAnswered
  <1>1. IInv => SettledRowIsAnswered
    BY DEF IInv
  <1> QED BY <1>1, Invariant, PTL

\* When every buyer gives an idempotency key, each command becomes one business fact,
\* however often it is delivered and claimed.  (Without a key the store has nothing to
\* tell a copy by.)
THEOREM KeyedCommandsHappenOnce ==
    ASSUME \A c \in Commands : KeyOf[c] # Null
    PROVE  Spec => []OneEventPerCommand
  <1>1. IInv => OneEventPerCommand
    <2> SUFFICES ASSUME IInv, NEW e \in eventStore, NEW f \in eventStore, e.command = f.command
                 PROVE  e = f
      BY DEF OneEventPerCommand
    <2>1. e.command \in Commands
      BY DEF IInv, TypeOK
    <2> QED BY <2>1 DEF IInv, EventInv
  <1> QED BY <1>1, Invariant, PTL

\* What a step does to the answers and the events.
LEMMA Advances ==
    ASSUME IInv, [Next]_vars
    PROVE  /\ eventStore \subseteq eventStore'
           /\ \A c \in Commands :
                \/ commandStatus'[c] = commandStatus[c]
                \/ /\ commandStatus[c] = Null
                   /\ commandStatus'[c] = [status |-> "accepted", checkout |-> Null]
                \/ /\ c \notin Answered
                   /\ commandStatus'[c] = [status |-> "processing", checkout |-> Null]
                \/ /\ c \notin Answered
                   /\ commandStatus'[c].status \in {"created", "failed"} /\ commandStatus'[c] \in StatusRow
  <1>1. CASE UNCHANGED <<commandStatus, eventStore>>
    BY <1>1
  <1>2. CASE (\E c \in Commands : Publish(c)) \/ Ingest \/ StageBatchFails \/ UNCHANGED vars
    BY <1>1, <1>2 DEF Publish, Ingest, Fetch, StageBatch, AckBatch, StageBatchFails, vars
  <1>3. ASSUME NEW w \in Workers, ClaimPendingBatch(w) \/ ReadStatuses(w)
                                  \/ MarkMergedDuplicateCommands(w) \/ Crash(w)
        PROVE  UNCHANGED <<commandStatus, eventStore>>
    BY <1>3 DEF ClaimPendingBatch, ReadStatuses, MarkMergedDuplicateCommands, Crash
  <1>4. ASSUME NEW w \in Workers, EnsureAcceptedBatch(w)
        PROVE  /\ eventStore' = eventStore
               /\ \A c \in Commands :
                    \/ commandStatus'[c] = commandStatus[c]
                    \/ /\ commandStatus[c] = Null
                       /\ commandStatus'[c] = [status |-> "accepted", checkout |-> Null]
    BY <1>4 DEF EnsureAcceptedBatch
  <1>5. ASSUME NEW w \in Workers, MarkProcessingBatch(w)
        PROVE  /\ eventStore' = eventStore
               /\ \A c \in Commands :
                    \/ commandStatus'[c] = commandStatus[c]
                    \/ /\ c \notin Answered
                       /\ commandStatus'[c] = [status |-> "processing", checkout |-> Null]
    BY <1>5 DEF MarkProcessingBatch
  <1>6. ASSUME NEW w \in Workers, NEW i \in worker[w].ready,
               CreateCheckoutIntent(w, i) \/ CreateCheckoutIntentFails(w, i)
        PROVE  commandStatus' = commandStatus /\ eventStore \subseteq eventStore'
    BY <1>6 DEF CreateCheckoutIntent, CreateCheckoutIntentFails, Append1
  <1>7. ASSUME NEW w \in Workers, MarkCreatedBatch(w) \/ MarkFailedBatch(w)
        PROVE  /\ eventStore' = eventStore
               /\ \A c \in Commands :
                    \/ commandStatus'[c] = commandStatus[c]
                    \/ /\ c \notin Answered
                       /\ commandStatus'[c].status \in {"created", "failed"} /\ commandStatus'[c] \in StatusRow
    <2>1. CASE MarkCreatedBatch(w)
      <3>1. PICK answer \in [CommandsOf(RowsOf(Created(w))) \ Answered -> Created(w)] :
               commandStatus' = [c \in Commands |->
                  IF c \in DOMAIN answer
                  THEN [status |-> "created", checkout |-> answer[c].checkout] ELSE commandStatus[c]]
        BY <2>1 DEF MarkCreatedBatch
      <3>2. DOMAIN answer = CommandsOf(RowsOf(Created(w))) \ Answered
        OBVIOUS
      <3>3. eventStore' = eventStore
        BY <2>1 DEF MarkCreatedBatch
      <3>4. \A c \in DOMAIN answer : [status |-> "created", checkout |-> answer[c].checkout] \in StatusRow
        BY BatchType DEF IInv, Created, StatusRow
      <3> QED BY <3>1, <3>2, <3>3, <3>4
    <2>2. CASE MarkFailedBatch(w)
      BY <2>2 DEF MarkFailedBatch, StatusRow
    <2> QED BY <1>7, <2>1, <2>2
  <1>8. CASE \E w \in Workers : ProcessBatch(w) \/ Crash(w)
                                \/ \E i \in worker[w].ready : CreateCheckoutIntentFails(w, i)
    <2>1. PICK w \in Workers : ProcessBatch(w) \/ Crash(w)
                                \/ \E i \in worker[w].ready : CreateCheckoutIntentFails(w, i)
      BY <1>8
    <2>2. CASE ClaimPendingBatch(w) \/ ReadStatuses(w) \/ MarkMergedDuplicateCommands(w) \/ Crash(w)
      BY <1>3, <2>2
    <2>3. CASE EnsureAcceptedBatch(w)
      BY <1>4, <2>3
    <2>4. CASE MarkProcessingBatch(w)
      BY <1>5, <2>4
    <2>5. CASE \E i \in worker[w].ready : CreateCheckoutIntent(w, i) \/ CreateCheckoutIntentFails(w, i)
      BY <1>6, <2>5
    <2>6. CASE MarkCreatedBatch(w) \/ MarkFailedBatch(w)
      BY <1>7, <2>6
    <2> QED BY <2>1, <2>2, <2>3, <2>4, <2>5, <2>6 DEF ProcessBatch
  <1> QED BY <1>2, <1>8 DEF Next

\* A row and what a client is shown of it.
LEMMA ShownType ==
    ASSUME TypeOK, NEW c \in Commands
    PROVE  /\ commandStatus[c] = Null => Shown[c].name = "unknown"
           /\ commandStatus[c] # Null => /\ Shown[c].name = commandStatus[c].status
                                         /\ Shown[c].checkout = commandStatus[c].checkout
                                         /\ Shown[c].name \in {"accepted", "processing", "created", "failed"}
  BY DEF Shown, StatusRow, TypeOK

\* The same of the next state.
LEMMA ShownTypeNext ==
    ASSUME TypeOK', NEW c \in Commands
    PROVE  commandStatus'[c] # Null => /\ Shown'[c].name = commandStatus'[c].status
                                       /\ Shown'[c].checkout = commandStatus'[c].checkout
                                       /\ Shown'[c].name \in {"accepted", "processing", "created", "failed"}
  BY DEF Shown, StatusRow, TypeOK

\* A status that changes advances.
LEMMA ShownAdvances ==
    ASSUME IInv, IInv', [Next]_vars, NEW c \in Commands, Shown'[c] # Shown[c]
    PROVE  Lifecycle!Advance(c)
  <1>1. commandStatus'[c] # commandStatus[c]
    BY DEF Shown
  <1>2. \/ /\ commandStatus[c] = Null
           /\ commandStatus'[c] = [status |-> "accepted", checkout |-> Null]
        \/ /\ c \notin Answered
           /\ commandStatus'[c] = [status |-> "processing", checkout |-> Null]
        \/ /\ c \notin Answered
           /\ commandStatus'[c].status \in {"created", "failed"} /\ commandStatus'[c] \in StatusRow
    BY <1>1, Advances
  <1>3. /\ commandStatus[c] \in {Null} \cup StatusRow
        /\ commandStatus'[c] \in {Null} \cup StatusRow
    BY DEF IInv, TypeOK
  <1>4. commandStatus'[c] # Null
    <2>1. CASE commandStatus[c] = Null
      BY <1>1, <2>1
    <2>2. CASE commandStatus'[c] = [status |-> "processing", checkout |-> Null]
      <3>1. commandStatus'[c] \in StatusRow
        BY <2>2 DEF StatusRow
      <3> QED BY <3>1, StagedAssumption
    <2>3. CASE commandStatus'[c] \in StatusRow
      BY <2>3, StagedAssumption
    <2> QED BY <1>2, <2>1, <2>2, <2>3
  <1>5. Shown'[c].name = "created" =>
          \E f \in eventStore' : f.checkout = Shown'[c].checkout /\ f.key = KeyOf[c]
    <2>1. commandStatus'[c].status = "created" =>
            \E f \in eventStore' : f.checkout = commandStatus'[c].checkout /\ f.key = KeyOf[c]
      BY <1>4 DEF IInv, StatusInv, IntentOf
    <2> QED BY <1>4, <2>1, ShownTypeNext DEF IInv
  <1>6. c \notin Answered /\ commandStatus[c] # Null => Shown[c].name \in {"accepted", "processing"}
    BY ShownType DEF IInv, Answered
  <1>7. Lifecycle!Rank(Shown[c]) < Lifecycle!Rank(Shown'[c])
    <2>1. CASE commandStatus[c] = Null
      BY <1>4, <2>1, ShownType, ShownTypeNext DEF IInv, Lifecycle!Rank
    <2>2. CASE commandStatus[c] # Null /\ c \notin Answered
               /\ commandStatus'[c] = [status |-> "processing", checkout |-> Null]
      <3>1. commandStatus[c].status = "accepted"
        <4>1. commandStatus[c].status \in {"accepted", "processing"}
          BY <1>6, <2>2, ShownType DEF IInv
        <4>2. commandStatus[c].checkout = Null
          BY <2>2, <4>1 DEF IInv, StatusInv
        <4> QED BY <1>1, <1>3, <2>2, <4>1, <4>2 DEF StatusRow
      <3> QED BY <1>4, <2>2, <3>1, ShownType, ShownTypeNext DEF IInv, Lifecycle!Rank
    <2>3. CASE commandStatus[c] # Null /\ c \notin Answered
               /\ commandStatus'[c].status \in {"created", "failed"}
      BY <1>4, <1>6, <2>3, ShownTypeNext DEF IInv, Lifecycle!Rank
    <2> QED BY <1>2, <2>1, <2>2, <2>3
  <1> QED BY <1>5, <1>7 DEF Lifecycle!Advance

\* The pipeline implements the lifecycle of a command for any number of copies and
\* processors, and wherever one of them fails or ends.
THEOREM PipelineImplementsLifecycle == Spec => ImplementsLifecycle
  <1>1. Init => Lifecycle!Init
    BY DEF Init, Shown, Lifecycle!Init, Lifecycle!Unknown
  <1>2. IInv /\ IInv' /\ [Next]_vars => [Lifecycle!Next]_<<Shown, eventStore>>
    <2> SUFFICES ASSUME IInv, IInv', [Next]_vars PROVE Lifecycle!Next
      OBVIOUS
    <2>1. eventStore \subseteq eventStore'
      BY Advances
    <2>2. Lifecycle!Establish
      BY <2>1 DEF IInv, EventInv, Lifecycle!Establish
    <2>3. \A c \in Commands : Lifecycle!Advance(c) \/ Shown'[c] = Shown[c]
      BY ShownAdvances
    <2> QED BY <2>2, <2>3 DEF Lifecycle!Next
  <1> QED BY <1>1, <1>2, Invariant, PTL DEF Spec, ImplementsLifecycle, Lifecycle!Spec
===============================================================================
