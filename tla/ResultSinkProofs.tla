--------------------------- MODULE ResultSinkProofs ---------------------------
(***************************************************************************)
(* Proofs about ResultSink for any number of commands, keys, deliveries,   *)
(* partitions, goroutines, crashes and rejoins.  The results about answers *)
(* need that no transaction of the worker aborts.                          *)
(***************************************************************************)
EXTENDS ResultSink, TLAPS, FiniteSetTheorems

------------------------------------------------------------------------------
(* The inductive invariants *)

\* The reader is never ahead of the topic.
OffsetInv ==
    /\ \A p \in Partitions : position[p] <= Len(topic[p])
    /\ \A p \in Partitions : committed[p] # Null => committed[p] <= Len(topic[p])
    /\ \A m \in Members : inHand[m] # Null => inHand[m].offset \in 1 .. Len(topic[inHand[m].partition])

\* A reservation has an identifier.
ReservedHasId == \A o \in Records : o.status = "reserved" => o.checkout \in Ids

IInv == TypeOK /\ OffsetInv /\ ReservedHasId /\ IsFiniteSet(Records)

\* Without aborts there is one decision per dedupe key, and every record repeats it.
DecisionInv ==
    /\ \A o \in Records : o.mark # "aborted"
    /\ \A o \in Records : o.status = "rejected" => o.checkout = Null
    /\ \A o \in Records : \E d \in Records :
          DedupeKey(d.command) = DedupeKey(o.command) /\ ~d.duplicate
    /\ \A o, q \in Records : DedupeKey(o.command) = DedupeKey(q.command) =>
          o.status = q.status /\ o.checkout = q.checkout

\* The answer an outcome stands for.
AnswerOf(o) ==
    IF o.status = "reserved" THEN [status |-> "created", checkout |-> o.checkout]
    ELSE [status |-> "failed", checkout |-> Null]

\* The database holds what outcomes of the topic say.
DatabaseInv ==
    /\ \A c \in Commands : commandStatus[c] # Null =>
          \E o \in Records : o.command = c /\ commandStatus[c] = AnswerOf(o)
    /\ \A e \in eventStore : e.key # Null =>
          \E o \in Records : KeyOf[o.command] = e.key /\ o.checkout = e.checkout

NoAbortInv == IInv /\ DecisionInv /\ DatabaseInv /\ CreatedHasEvent

\* A key and an identifier have one event, and an answer of created names the event of
\* its own key.
FactsInv ==
    /\ \A f, g \in eventStore : f.key # Null /\ f.key = g.key => f = g
    /\ \A f, g \in eventStore : f.checkout = g.checkout => f = g
    /\ \A c \in Commands : commandStatus[c] # Null /\ commandStatus[c].status = "created" =>
          \E f \in eventStore : f.checkout = commandStatus[c].checkout /\ f.key = KeyOf[c]

\* A goroutine holds the outcome.
Held(p, i) ==
    \E m \in Members : inHand[m] # Null /\ inHand[m].partition = p /\ inHand[m].offset = i

\* An outcome that has still to be handed out, or never will be.
Due(p, i) == i > startedAt[p] /\ <<p, i>> \notin handled /\ ~Held(p, i)

Covered(p, i) == committed[p] # Null /\ i <= committed[p]

\* An outcome nobody holds lies either before all that is in hand of its partition, and the
\* committed offset has passed over it, or after it, and no committed offset covers it.
PassAt(p, i) ==
    /\ i <= position[p] =>
          /\ Covered(p, i)
          /\ \A m \in Members : inHand[m] # Null /\ inHand[m].partition = p => i < inHand[m].offset
    /\ ~(i <= position[p]) =>
          /\ ~Covered(p, i)
          /\ \A m \in Members : inHand[m] # Null /\ inHand[m].partition = p => inHand[m].offset < i

PersistedInv ==
    \A m \in Members : inHand[m] # Null /\ inHand[m].persisted =>
       <<inHand[m].partition, inHand[m].offset>> \in handled

PassInv ==
    /\ PersistedInv
    /\ \A p \in Partitions : \A i \in Nat \ {0} : Due(p, i) => PassAt(p, i)

\* The goroutine that committed last is not overtaken by its own commit.
FewInv == Cardinality(Overtaken) < Cardinality(Members)

------------------------------------------------------------------------------
(* The records of the topic *)

\* A record is an outcome, and has a partition and an offset.
LEMMA RecordsType ==
    ASSUME TypeOK
    PROVE  /\ Records \subseteq Outcome
           /\ \A p \in Partitions : Len(topic[p]) \in Nat
           /\ \A p \in Partitions : \A i \in 1 .. Len(topic[p]) : topic[p][i] \in Records
           /\ \A o \in Records : \E p \in Partitions : \E i \in 1 .. Len(topic[p]) : o = topic[p][i]
  <1>1. ASSUME NEW p \in Partitions
        PROVE  /\ topic[p] \in Seq(Outcome) /\ Len(topic[p]) \in Nat
               /\ \A i \in 1 .. Len(topic[p]) : topic[p][i] \in Outcome
    BY DEF TypeOK
  <1> QED BY <1>1 DEF Records

\* The number of records of a kind is a number.
LEMMA CopiesType ==
    ASSUME IsFiniteSet(Records), NEW c \in Commands, NEW marks
    PROVE  Copies(c, marks) \in Nat
  <1>1. {o \in Records : o.command = c /\ o.mark \in marks} \in SUBSET Records
    OBVIOUS
  <1> QED BY <1>1, FS_Subset, FS_CardinalityType DEF Copies

\* The topic gets the record o of command c.
Added(o, c, status, checkout, duplicate) ==
    /\ o.command = c /\ o.status = status /\ o.checkout = checkout
    /\ o.duplicate = duplicate /\ o.mark = "open"
    /\ Records' = Records \cup {o}

\* Forward adds one record, at the end of a partition.
LEMMA Forwarded ==
    ASSUME TypeOK, IsFiniteSet(Records), NEW c \in Commands, NEW p \in Partitions,
           NEW status \in {"reserved", "rejected"}, NEW checkout \in Ids \cup {Null},
           NEW duplicate \in BOOLEAN, Forward(c, p, status, checkout, duplicate)
    PROVE  /\ UNCHANGED <<reader, database, interruptions>>
           /\ topic' \in [Partitions -> Seq(Outcome)]
           /\ \A q \in Partitions : Len(topic[q]) <= Len(topic'[q])
           /\ IsFiniteSet(Records')
           /\ \E o \in Outcome : Added(o, c, status, checkout, duplicate)
  <1> DEFINE o == [command |-> c, copy |-> Copies(c, {"open", "committed", "aborted"}),
                   status |-> status, checkout |-> checkout, duplicate |-> duplicate,
                   mark |-> "open"]
  <1>1. o \in Outcome
    BY CopiesType DEF Outcome
  <1>2. /\ topic' = [topic EXCEPT ![p] = Append(topic[p], o)]
        /\ UNCHANGED <<reader, database, interruptions>>
    BY DEF Forward
  <1>3. /\ o.command = c /\ o.status = status /\ o.checkout = checkout
        /\ o.duplicate = duplicate /\ o.mark = "open"
    OBVIOUS
  <1> HIDE DEF o
  <1>4. topic[p] \in Seq(Outcome)
    BY DEF TypeOK
  <1>5. /\ Append(topic[p], o) \in Seq(Outcome)
        /\ Len(Append(topic[p], o)) = Len(topic[p]) + 1
        /\ Len(topic[p]) \in Nat
        /\ \A i \in 1 .. Len(topic[p]) : Append(topic[p], o)[i] = topic[p][i]
        /\ Append(topic[p], o)[Len(topic[p]) + 1] = o
    BY <1>1, <1>4
  <1>6. /\ topic'[p] = Append(topic[p], o)
        /\ \A q \in Partitions \ {p} : topic'[q] = topic[q]
    BY <1>2 DEF TypeOK
  <1>7. topic' \in [Partitions -> Seq(Outcome)]
    BY <1>2, <1>5 DEF TypeOK
  <1>8. \A q \in Partitions : Len(topic[q]) <= Len(topic'[q])
    BY <1>5, <1>6, RecordsType
  <1>9. Records' = Records \cup {o}
    <2>1. ASSUME NEW x \in Records' PROVE x \in Records \cup {o}
      <3>1. PICK q \in Partitions : \E i \in 1 .. Len(topic'[q]) : x = topic'[q][i]
        BY <2>1 DEF Records
      <3>2. CASE q = p
        BY <1>5, <1>6, <3>1, <3>2, RecordsType
      <3>3. CASE q # p
        BY <1>6, <3>1, <3>3, RecordsType
      <3> QED BY <3>2, <3>3
    <2>2. ASSUME NEW x \in Records PROVE x \in Records'
      <3>1. PICK q \in Partitions : \E i \in 1 .. Len(topic[q]) : x = topic[q][i]
        BY <2>2 DEF Records
      <3>2. \E i \in 1 .. Len(topic'[q]) : x = topic'[q][i]
        BY <1>5, <1>6, <3>1
      <3> QED BY <3>2 DEF Records
    <2>3. o \in Records'
      BY <1>5, <1>6 DEF Records
    <2> QED BY <2>1, <2>2, <2>3
  <1>10. IsFiniteSet(Records')
    BY <1>9, FS_AddElement
  <1>11. Added(o, c, status, checkout, duplicate)
    BY <1>3, <1>9 DEF Added
  <1> QED BY <1>1, <1>2, <1>7, <1>8, <1>10, <1>11

\* What the end of a transaction makes of a record.
Marked(o, mark) == IF o.mark = "open" THEN [o EXCEPT !.mark = mark] ELSE o

\* Close marks the open records and leaves everything else of them, and their places.
LEMMA Closed ==
    ASSUME TypeOK, IsFiniteSet(Records), NEW mark \in {"committed", "aborted"}, Close(mark)
    PROVE  /\ UNCHANGED <<reader, database, interruptions>>
           /\ topic' \in [Partitions -> Seq(Outcome)]
           /\ \A q \in Partitions : Len(topic'[q]) = Len(topic[q])
           /\ IsFiniteSet(Records')
           /\ \A o \in Records : Marked(o, mark) \in Records'
           /\ \A x \in Records' : \E o \in Records : x = Marked(o, mark)
  <1>1. /\ topic' = [p \in Partitions |-> [i \in 1 .. Len(topic[p]) |-> Marked(topic[p][i], mark)]]
        /\ UNCHANGED <<reader, database, interruptions>>
    BY DEF Close, Marked
  <1>2. \A o \in Outcome : Marked(o, mark) \in Outcome
    BY DEF Marked, Outcome
  <1> HIDE DEF Marked
  <1>3. ASSUME NEW p \in Partitions
        PROVE  /\ topic'[p] \in Seq(Outcome) /\ Len(topic'[p]) = Len(topic[p])
               /\ \A i \in 1 .. Len(topic[p]) : topic'[p][i] = Marked(topic[p][i], mark)
    <2>1. Len(topic[p]) \in Nat /\ \A i \in 1 .. Len(topic[p]) : topic[p][i] \in Outcome
      BY RecordsType
    <2>2. topic'[p] = [i \in 1 .. Len(topic[p]) |-> Marked(topic[p][i], mark)]
      BY <1>1
    <2>3. topic'[p] \in [1 .. Len(topic[p]) -> Outcome]
      BY <1>2, <2>1, <2>2
    <2> QED BY <2>1, <2>2, <2>3
  <1>4. topic' \in [Partitions -> Seq(Outcome)]
    BY <1>1, <1>3
  <1>5. ASSUME NEW o \in Records PROVE Marked(o, mark) \in Records'
    <2>1. PICK p \in Partitions : \E i \in 1 .. Len(topic[p]) : o = topic[p][i]
      BY <1>5, RecordsType
    <2>2. \E i \in 1 .. Len(topic'[p]) : Marked(o, mark) = topic'[p][i]
      BY <1>3, <2>1
    <2> QED BY <2>2 DEF Records
  <1>6. ASSUME NEW x \in Records' PROVE \E o \in Records : x = Marked(o, mark)
    <2>1. PICK p \in Partitions : \E i \in 1 .. Len(topic'[p]) : x = topic'[p][i]
      BY <1>6 DEF Records
    <2> QED BY <1>3, <2>1, RecordsType
  <1>7. IsFiniteSet(Records')
    <2> DEFINE f == [o \in Records |-> Marked(o, mark)]
    <2>1. f \in Surjection(Records, Records')
      BY <1>5, <1>6 DEF Surjection
    <2> QED BY <2>1, FS_Surjection
  <1> QED BY <1>1, <1>3, <1>4, <1>5, <1>6, <1>7

\* What marking changes and leaves.
LEMMA MarkedFields ==
    ASSUME NEW o \in Outcome, NEW mark \in {"committed", "aborted"}
    PROVE  /\ Marked(o, mark).command = o.command /\ Marked(o, mark).status = o.status
           /\ Marked(o, mark).checkout = o.checkout /\ Marked(o, mark).duplicate = o.duplicate
           /\ Marked(o, mark).mark = o.mark \/ Marked(o, mark).mark = mark
  BY DEF Marked, Outcome

\* The worker's side does not touch the sink, and its side of the topic keeps its type.
LEMMA WorkerFrame ==
    ASSUME IInv, Worker
    PROVE  /\ UNCHANGED <<committed, position, inHand, startedAt, handled, eventStore, commandStatus,
                          commandResult, interruptions>>
           /\ topic' \in [Partitions -> Seq(Outcome)]
           /\ \A q \in Partitions : Len(topic[q]) <= Len(topic'[q])
           /\ IsFiniteSet(Records') /\ ReservedHasId'
  <1> USE DEF IInv, ReservedHasId
  <1>1. ASSUME NEW c \in Commands, NEW p \in Partitions, Decide(c, p)
        PROVE  /\ UNCHANGED <<reader, database, interruptions>>
               /\ topic' \in [Partitions -> Seq(Outcome)]
               /\ \A q \in Partitions : Len(topic[q]) <= Len(topic'[q])
               /\ IsFiniteSet(Records') /\ ReservedHasId'
    <2> DEFINE id == [command |-> c, copy |-> Copies(c, {"open", "committed", "aborted"})]
    <2>1. id \in Ids
      BY CopiesType DEF Ids
    <2>2. Forward(c, p, "reserved", id, FALSE) \/ Forward(c, p, "rejected", Null, FALSE)
      BY <1>1 DEF Decide
    <2> HIDE DEF id
    <2>3. /\ UNCHANGED <<reader, database, interruptions>>
          /\ topic' \in [Partitions -> Seq(Outcome)]
          /\ \A q \in Partitions : Len(topic[q]) <= Len(topic'[q])
          /\ IsFiniteSet(Records')
      BY <2>1, <2>2, Forwarded
    <2>4. \E o \in Outcome :
             (o.status = "reserved" => o.checkout = id) /\ Records' = Records \cup {o}
      <3>1. CASE Forward(c, p, "reserved", id, FALSE)
        <4>1. PICK o \in Outcome : Added(o, c, "reserved", id, FALSE)
          BY <2>1, <3>1, Forwarded
        <4> QED BY <4>1 DEF Added
      <3>2. CASE Forward(c, p, "rejected", Null, FALSE)
        <4>1. PICK o \in Outcome : Added(o, c, "rejected", Null, FALSE)
          BY <3>2, Forwarded
        <4> QED BY <4>1 DEF Added
      <3> QED BY <2>2, <3>1, <3>2
    <2>5. ReservedHasId'
      BY <2>1, <2>4
    <2> QED BY <2>3, <2>5
  <1>2. ASSUME NEW c \in Commands, NEW p \in Partitions, Repeat(c, p)
        PROVE  /\ UNCHANGED <<reader, database, interruptions>>
               /\ topic' \in [Partitions -> Seq(Outcome)]
               /\ \A q \in Partitions : Len(topic[q]) <= Len(topic'[q])
               /\ IsFiniteSet(Records') /\ ReservedHasId'
    <2>1. PICK o \in Records : Forward(c, p, o.status, o.checkout, TRUE)
      BY <1>2 DEF Repeat, Decisions
    <2>2. o.status \in {"reserved", "rejected"} /\ o.checkout \in Ids \cup {Null}
      BY RecordsType DEF Outcome
    <2>3. /\ UNCHANGED <<reader, database, interruptions>>
          /\ topic' \in [Partitions -> Seq(Outcome)]
          /\ \A q \in Partitions : Len(topic[q]) <= Len(topic'[q])
          /\ IsFiniteSet(Records')
      BY <2>1, <2>2, Forwarded
    <2>4. PICK x \in Outcome : Added(x, c, o.status, o.checkout, TRUE)
      BY <2>1, <2>2, Forwarded
    <2>5. ReservedHasId'
      BY <2>4 DEF Added
    <2> QED BY <2>3, <2>5
  <1>3. CASE CommitTransaction \/ AbortTransaction
    <2>1. PICK mark \in {"committed", "aborted"} : Close(mark)
      BY <1>3 DEF CommitTransaction, AbortTransaction
    <2>2. \A q \in Partitions : Len(topic[q]) <= Len(topic'[q])
      BY <2>1, Closed, RecordsType
    <2>3. ReservedHasId'
      <3> SUFFICES ASSUME NEW x \in Records', x.status = "reserved" PROVE x.checkout \in Ids
        OBVIOUS
      <3>1. PICK o \in Records : x = Marked(o, mark)
        BY <2>1, Closed
      <3> QED BY <3>1, RecordsType, MarkedFields
    <2> QED BY <2>1, <2>2, <2>3, Closed DEF reader, database
  <1> QED BY <1>1, <1>2, <1>3 DEF Worker, reader, database

------------------------------------------------------------------------------
(* Types *)

\* The sink starts with an empty topic.
LEMMA InitInv == Init => IInv
  <1> SUFFICES ASSUME Init PROVE IInv
    OBVIOUS
  <1>1. topic \in [Partitions -> Seq(Outcome)]
    BY DEF Init
  <1>2. TypeOK
    BY <1>1, SinkAssumption DEF Init, TypeOK
  <1>3. \A p \in Partitions : Len(topic[p]) = 0
    BY DEF Init
  <1>4. Records = {}
    BY <1>3 DEF Records
  <1>5. OffsetInv /\ ReservedHasId
    BY <1>3, <1>4 DEF Init, OffsetInv, ReservedHasId
  <1> QED BY <1>2, <1>4, <1>5, FS_EmptySet DEF IInv

\* What a goroutine holds is a record of the topic.
LEMMA MessageType ==
    ASSUME TypeOK, OffsetInv, NEW m \in Members, inHand[m] # Null
    PROVE  Message(m) \in Records /\ Message(m) \in Outcome
  <1>1. /\ inHand[m].partition \in Partitions
        /\ inHand[m].offset \in 1 .. Len(topic[inHand[m].partition])
    BY DEF TypeOK, OffsetInv, Holding
  <1> QED BY <1>1, RecordsType DEF Message

\* What handleMessage does to the goroutine.
LEMMA HandledHand ==
    ASSUME TypeOK, NEW m \in Members, HandleMessage(m)
    PROVE  /\ inHand[m] # Null
           /\ UNCHANGED <<topic, committed, position, startedAt, interruptions>>
           /\ handled' = handled \cup {<<inHand[m].partition, inHand[m].offset>>}
           /\ inHand[m] \in Holding
           /\ inHand' \in [Members -> {Null} \cup Holding]
           /\ inHand'[m] # Null
           /\ inHand'[m].partition = inHand[m].partition /\ inHand'[m].offset = inHand[m].offset
           /\ \A n \in Members \ {m} : inHand'[n] = inHand[n]
  <1> DEFINE after == [inHand[m] EXCEPT !.persisted = TRUE]
  <1>1. /\ inHand[m] # Null
        /\ UNCHANGED <<topic, committed, position, startedAt, interruptions>>
        /\ handled' = handled \cup {<<inHand[m].partition, inHand[m].offset>>}
        /\ inHand' = [inHand EXCEPT ![m] = after]
    BY DEF HandleMessage
  <1>2. inHand[m] \in Holding
    BY <1>1 DEF TypeOK
  <1>3. /\ after \in Holding
        /\ after.partition = inHand[m].partition /\ after.offset = inHand[m].offset
    BY <1>2 DEF Holding
  <1> HIDE DEF after
  <1>4. /\ inHand' \in [Members -> {Null} \cup Holding]
        /\ inHand'[m] = after
        /\ \A n \in Members \ {m} : inHand'[n] = inHand[n]
    BY <1>1, <1>3 DEF TypeOK
  <1> QED BY <1>1, <1>2, <1>3, <1>4, SinkAssumption

\* What handleMessage does to the event store.
LEMMA HandledEvent ==
    ASSUME NEW m \in Members, HandleMessage(m)
    PROVE  /\ ~(Message(m).status = "reserved" /\ ~KeyTaken(Message(m))) => eventStore' = eventStore
           /\ Message(m).status = "reserved" /\ ~KeyTaken(Message(m)) =>
                eventStore' = eventStore \cup
                   {[checkout |-> Message(m).checkout, key |-> KeyOf[Message(m).command]]}
  <1>1. InsertEventStore(Message(m))
    BY DEF HandleMessage
  <1> QED BY <1>1 DEF InsertEventStore

\* What handleMessage does to the status rows.
LEMMA HandledStatus ==
    ASSUME IInv, NEW m \in Members, HandleMessage(m)
    PROVE  /\ Message(m) \in Records /\ Message(m) \in Outcome
           /\ Message(m).status = "reserved" => Message(m).checkout \in Ids
           /\ \A c \in Commands \ {Message(m).command} : commandStatus'[c] = commandStatus[c]
           /\ Message(m).status = "reserved" =>
                commandStatus'[Message(m).command] =
                  [status |-> "created", checkout |-> Message(m).checkout]
           /\ Message(m).status = "rejected" =>
                commandStatus'[Message(m).command] =
                  [status |-> "failed",
                   checkout |-> IF commandStatus[Message(m).command] = Null THEN Null
                                ELSE commandStatus[Message(m).command].checkout]
           /\ commandStatus'[Message(m).command] \in StatusRow
           /\ commandStatus' \in [Commands -> {Null} \cup StatusRow]
           /\ commandResult' \in [Commands -> {Null} \cup
                  [status : {"reserved", "rejected"}, checkout : Ids \cup {Null}]]
  <1>1. /\ inHand[m] # Null
        /\ UpsertCommandStatus(Message(m))
        /\ UpsertSeckillCommandResult(Message(m))
    BY DEF HandleMessage
  <1>2. Message(m) \in Records /\ Message(m) \in Outcome
    BY <1>1, MessageType DEF IInv
  <1>3. /\ Message(m).command \in Commands /\ Message(m).status \in {"reserved", "rejected"}
        /\ Message(m).checkout \in Ids \cup {Null}
        /\ Message(m).status = "reserved" => Message(m).checkout \in Ids
    BY <1>2 DEF Outcome, IInv, ReservedHasId
  <1>4. /\ commandStatus \in [Commands -> {Null} \cup StatusRow]
        /\ commandResult \in [Commands -> {Null} \cup
                  [status : {"reserved", "rejected"}, checkout : Ids \cup {Null}]]
    BY DEF IInv, TypeOK
  <1>5. /\ \A c \in Commands \ {Message(m).command} : commandStatus'[c] = commandStatus[c]
        /\ Message(m).status = "reserved" =>
             commandStatus'[Message(m).command] =
               [status |-> "created", checkout |-> Message(m).checkout]
        /\ Message(m).status = "rejected" =>
             commandStatus'[Message(m).command] =
               [status |-> "failed",
                checkout |-> IF commandStatus[Message(m).command] = Null THEN Null
                             ELSE commandStatus[Message(m).command].checkout]
    BY <1>1, <1>3, <1>4 DEF UpsertCommandStatus
  <1>6. commandStatus' \in [Commands -> {Null} \cup StatusRow]
    BY <1>1, <1>3, <1>4 DEF UpsertCommandStatus, StatusRow
  <1>8. commandStatus'[Message(m).command] \in StatusRow
    BY <1>1, <1>3, <1>4 DEF UpsertCommandStatus, StatusRow
  <1>7. commandResult' \in [Commands -> {Null} \cup
                              [status : {"reserved", "rejected"}, checkout : Ids \cup {Null}]]
    BY <1>1, <1>3, <1>4 DEF UpsertSeckillCommandResult
  <1> QED BY <1>2, <1>3, <1>5, <1>6, <1>7, <1>8

\* Crashes and rejoins stay within their bounds.
LEMMA Counted ==
    ASSUME interruptions \in [crashes : 0 .. MaxCrashes, rejoins : 0 .. MaxRejoins]
    PROVE  /\ interruptions.crashes < MaxCrashes =>
                [interruptions EXCEPT !.crashes = @ + 1]
                   \in [crashes : 0 .. MaxCrashes, rejoins : 0 .. MaxRejoins]
           /\ interruptions.rejoins < MaxRejoins =>
                [interruptions EXCEPT !.rejoins = @ + 1]
                   \in [crashes : 0 .. MaxCrashes, rejoins : 0 .. MaxRejoins]
  BY SinkAssumption

\* Every step keeps the types and the reader behind the topic.
LEMMA TypeStep ==
    ASSUME IInv, [Next]_vars
    PROVE  IInv'
  <1> USE DEF IInv
  <1>1. CASE Worker
    <2>1. /\ UNCHANGED <<committed, position, inHand, startedAt, handled, eventStore, commandStatus,
                       commandResult, interruptions>>
          /\ topic' \in [Partitions -> Seq(Outcome)]
          /\ \A q \in Partitions : Len(topic[q]) <= Len(topic'[q])
          /\ IsFiniteSet(Records') /\ ReservedHasId'
      BY <1>1, WorkerFrame
    <2>2. TypeOK'
      BY <2>1 DEF TypeOK
    <2>3. \A q \in Partitions : Len(topic'[q]) \in Nat
      BY <2>2 DEF TypeOK
    <2>4. OffsetInv'
      BY <2>1, <2>3, RecordsType DEF TypeOK, OffsetInv, Holding
    <2> QED BY <2>1, <2>2, <2>4
  <1>2. ASSUME NEW m \in Members, NEW p \in Partitions, Fetch(m, p) PROVE IInv'
    <2> DEFINE next == [partition |-> p, offset |-> position[p] + 1, persisted |-> FALSE]
    <2>1. /\ UNCHANGED <<topic, committed, startedAt, handled, eventStore, commandStatus,
                       commandResult, interruptions>>
          /\ position' = [position EXCEPT ![p] = position[p] + 1]
          /\ inHand' = [inHand EXCEPT ![m] = next]
          /\ position[p] < Len(topic[p])
      BY <1>2 DEF Fetch, database
    <2>2. position[p] \in Nat /\ Len(topic[p]) \in Nat
      BY RecordsType DEF TypeOK
    <2>3. next \in Holding
      BY <2>2 DEF Holding
    <2>4. next.partition = p /\ next.offset = position[p] + 1
      OBVIOUS
    <2> HIDE DEF next
    <2>5. TypeOK'
      BY <2>1, <2>2, <2>3 DEF TypeOK
    <2>6. OffsetInv'
      BY <2>1, <2>2, <2>4 DEF OffsetInv, TypeOK
    <2>7. Records' = Records
      BY <2>1 DEF Records
    <2> QED BY <2>5, <2>6, <2>7 DEF ReservedHasId
  <1>3. ASSUME NEW m \in Members, HandleMessage(m) PROVE IInv'
    <2>1. /\ UNCHANGED <<topic, committed, position, startedAt, interruptions>>
          /\ handled' = handled \cup {<<inHand[m].partition, inHand[m].offset>>}
          /\ inHand[m] \in Holding /\ inHand[m] # Null
          /\ inHand' \in [Members -> {Null} \cup Holding]
          /\ inHand'[m].partition = inHand[m].partition /\ inHand'[m].offset = inHand[m].offset
          /\ \A n \in Members \ {m} : inHand'[n] = inHand[n]
      BY <1>3, HandledHand
    <2>2. handled' \subseteq Partitions \X Nat
      BY <2>1 DEF TypeOK, Holding
    <2>3. eventStore' \subseteq [checkout : Ids, key : Keys \cup {Null}]
      <3>1. CASE Message(m).status = "reserved" /\ ~KeyTaken(Message(m))
        <4>1. Message(m).checkout \in Ids /\ KeyOf[Message(m).command] \in Keys \cup {Null}
          BY <1>3, <3>1, HandledStatus, SinkAssumption DEF Outcome
        <4>2. eventStore' = eventStore \cup
                   {[checkout |-> Message(m).checkout, key |-> KeyOf[Message(m).command]]}
          BY <1>3, <3>1, HandledEvent
        <4> QED BY <4>1, <4>2 DEF TypeOK
      <3>2. CASE ~(Message(m).status = "reserved" /\ ~KeyTaken(Message(m)))
        BY <1>3, <3>2, HandledEvent DEF TypeOK
      <3> QED BY <3>1, <3>2
    <2>4. /\ commandStatus' \in [Commands -> {Null} \cup StatusRow]
          /\ commandResult' \in [Commands -> {Null} \cup
                  [status : {"reserved", "rejected"}, checkout : Ids \cup {Null}]]
      BY <1>3, HandledStatus
    <2>5. TypeOK'
      BY <2>1, <2>2, <2>3, <2>4 DEF TypeOK
    <2>6. OffsetInv'
      BY <2>1 DEF OffsetInv
    <2>7. Records' = Records
      BY <2>1 DEF Records
    <2> QED BY <2>5, <2>6, <2>7 DEF ReservedHasId
  <1>4. ASSUME NEW m \in Members, CommitOffset(m) PROVE IInv'
    <2>1. /\ UNCHANGED <<topic, position, startedAt, handled, eventStore, commandStatus,
                       commandResult, interruptions>>
          /\ inHand[m] # Null
          /\ committed' = [committed EXCEPT ![inHand[m].partition] = inHand[m].offset]
          /\ inHand' = [inHand EXCEPT ![m] = Null]
      BY <1>4 DEF CommitOffset, database
    <2>2. /\ inHand[m].partition \in Partitions /\ inHand[m].offset \in Nat
          /\ inHand[m].offset <= Len(topic[inHand[m].partition])
      BY <2>1, RecordsType DEF TypeOK, OffsetInv, Holding
    <2>3. TypeOK'
      BY <2>1, <2>2 DEF TypeOK
    <2>4. OffsetInv'
      BY <2>1, <2>2 DEF OffsetInv, TypeOK
    <2>5. Records' = Records
      BY <2>1 DEF Records
    <2> QED BY <2>3, <2>4, <2>5 DEF ReservedHasId
  <1>5. ASSUME StartReader, inHand' = inHand \/ inHand' = [m \in Members |-> Null],
               interruptions' \in [crashes : 0 .. MaxCrashes, rejoins : 0 .. MaxRejoins]
        PROVE  IInv'
    <2>1. /\ UNCHANGED <<topic, committed, handled, eventStore, commandStatus, commandResult>>
          /\ position' = [p \in Partitions |-> IF committed[p] = Null THEN Len(topic[p])
                                               ELSE committed[p]]
          /\ startedAt' = [p \in Partitions |-> IF committed[p] = Null THEN Len(topic[p])
                                                ELSE startedAt[p]]
      BY <1>5 DEF StartReader, AtEnd, database
    <2>2. \A p \in Partitions : /\ position'[p] \in Nat /\ position'[p] <= Len(topic[p])
                                /\ startedAt'[p] \in Nat
      BY <2>1, RecordsType DEF TypeOK, OffsetInv, Holding
    <2>3. TypeOK'
      BY <1>5, <2>1, <2>2 DEF TypeOK
    <2>4. OffsetInv'
      BY <1>5, <2>1, <2>2 DEF OffsetInv
    <2>5. Records' = Records
      BY <2>1 DEF Records
    <2> QED BY <2>3, <2>4, <2>5 DEF ReservedHasId
  <1>6. ASSUME NEW m \in Members, HandleMessageFails(m) PROVE IInv'
    BY <1>5, <1>6 DEF HandleMessageFails, Restarted, TypeOK
  <1>7. CASE Crash
    BY <1>5, <1>7, Counted DEF Crash, Restarted, TypeOK
  <1>9. CASE Rejoin
    BY <1>5, <1>9, Counted DEF Rejoin, TypeOK
  <1>8. CASE UNCHANGED vars
    BY <1>8 DEF vars, TypeOK, OffsetInv, Records, ReservedHasId
  <1> QED BY <1>1, <1>2, <1>3, <1>4, <1>6, <1>7, <1>8, <1>9 DEF Next, Sink

\* The inductive invariant holds in every state.
LEMMA Invariant == Spec => []IInv
  BY InitInv, TypeStep, PTL DEF Spec

\* Every variable keeps its type: what the sink writes is built from what it has read,
\* and no restart makes it read what is not there.
THEOREM TypeCorrect == Spec => []TypeOK
  <1>1. IInv => TypeOK
    BY DEF IInv
  <1> QED BY <1>1, Invariant, PTL

------------------------------------------------------------------------------
(* Any number of goroutines *)

LEMMA InHandIs ==
    ASSUME NEW p, NEW i
    PROVE  /\ <<p, i>> \in InHand <=> Held(p, i)
           /\ <<p, i>> \in Overtaken <=>
                 Held(p, i) /\ <<p, i>> \notin handled /\ i > startedAt[p] /\ Covered(p, i)
  BY DEF InHand, Held, Overtaken, Covered

LEMMA PassedOverIs ==
    ASSUME NEW p, NEW i
    PROVE  /\ <<p, i>> \in PassedOver <=> p \in Partitions /\ i \in 1 .. position[p] /\ Due(p, i)
           /\ <<p, i>> \in PassedOver' <=> p \in Partitions /\ i \in 1 .. position'[p] /\ Due(p, i)'
  <1>1. <<p, i>> \in InHand <=> Held(p, i)
    BY DEF InHand, Held
  <1>2. <<p, i>> \in InHand' <=> Held(p, i)'
    BY DEF InHand, Held
  <1>3. <<p, i>> \in PassedOver <=> p \in Partitions /\ i \in 1 .. position[p] /\ Due(p, i)
    <2> DEFINE after(q) == {j \in 1 .. position[q] : j > startedAt[q]}
    <2>1. PassedOver = (UNION {{q} \X after(q) : q \in Partitions}) \ (handled \cup InHand)
      BY DEF PassedOver
    <2>2. i \in after(p) <=> i \in 1 .. position[p] /\ i > startedAt[p]
      OBVIOUS
    <2> HIDE DEF after
    <2>3. <<p, i>> \in UNION {{q} \X after(q) : q \in Partitions} <=> p \in Partitions /\ i \in after(p)
      OBVIOUS
    <2> QED BY <1>1, <2>1, <2>2, <2>3 DEF Due
  <1>4. <<p, i>> \in PassedOver' <=> p \in Partitions /\ i \in 1 .. position'[p] /\ Due(p, i)'
    <2> DEFINE after(q) == {j \in 1 .. position'[q] : j > startedAt'[q]}
    <2>1. PassedOver' = (UNION {{q} \X after(q) : q \in Partitions}) \ (handled' \cup InHand')
      BY DEF PassedOver
    <2>2. i \in after(p) <=> i \in 1 .. position'[p] /\ i > startedAt'[p]
      OBVIOUS
    <2> HIDE DEF after
    <2>3. <<p, i>> \in UNION {{q} \X after(q) : q \in Partitions} <=> p \in Partitions /\ i \in after(p)
      OBVIOUS
    <2> QED BY <1>2, <2>1, <2>2, <2>3 DEF Due
  <1> QED BY <1>3, <1>4

LEMMA ImageIsFinite ==
    ASSUME NEW S, IsFiniteSet(S), NEW f
    PROVE  IsFiniteSet({f[x] : x \in S}) /\ Cardinality({f[x] : x \in S}) <= Cardinality(S)
  <1> DEFINE T == {f[x] : x \in S}
             g == [x \in S |-> f[x]]
  <1>1. g \in [S -> T] /\ \A y \in T : \E x \in S : g[x] = y
    OBVIOUS
  <1>2. g \in Surjection(S, T)
    BY <1>1 DEF Surjection
  <1> HIDE DEF g, T
  <1>3. IsFiniteSet(T) /\ Cardinality(T) <= Cardinality(S)
    BY <1>2, FS_Surjection
  <1> QED BY <1>3 DEF T

LEMMA FetchedHand ==
    ASSUME TypeOK, NEW m \in Members, NEW p \in Partitions, Fetch(m, p)
    PROVE  /\ UNCHANGED <<committed, startedAt, handled>>
           /\ inHand[m] = Null /\ inHand'[m] # Null
           /\ inHand'[m].partition = p /\ inHand'[m].offset = position[p] + 1
           /\ ~inHand'[m].persisted
           /\ \A n \in Members \ {m} : inHand'[n] = inHand[n]
           /\ position[p] \in Nat /\ position'[p] = position[p] + 1
           /\ \A q \in Partitions \ {p} : position'[q] = position[q]
  <1> DEFINE next == [partition |-> p, offset |-> position[p] + 1, persisted |-> FALSE]
  <1>1. /\ UNCHANGED <<committed, startedAt, handled>> /\ inHand[m] = Null
        /\ position' = [position EXCEPT ![p] = position[p] + 1]
        /\ inHand' = [inHand EXCEPT ![m] = next]
    BY DEF Fetch, database
  <1>2. position[p] \in Nat /\ position \in [Partitions -> Nat]
    BY DEF TypeOK
  <1>3. next \in Holding /\ next.partition = p /\ next.offset = position[p] + 1 /\ ~next.persisted
    BY <1>2 DEF Holding
  <1>4. next # Null
    BY <1>3, SinkAssumption
  <1> HIDE DEF next
  <1>5. inHand'[m] = next /\ \A n \in Members \ {m} : inHand'[n] = inHand[n]
    BY <1>1 DEF TypeOK
  <1> QED BY <1>1, <1>2, <1>3, <1>4, <1>5

LEMMA CommittedHand ==
    ASSUME TypeOK, NEW m \in Members, CommitOffset(m)
    PROVE  /\ UNCHANGED <<position, startedAt, handled>>
           /\ inHand[m] # Null /\ inHand[m].persisted /\ inHand'[m] = Null
           /\ inHand[m].partition \in Partitions /\ inHand[m].offset \in Nat
           /\ committed'[inHand[m].partition] = inHand[m].offset
           /\ \A q \in Partitions \ {inHand[m].partition} : committed'[q] = committed[q]
           /\ \A n \in Members \ {m} : inHand'[n] = inHand[n]
  <1>1. /\ UNCHANGED <<position, startedAt, handled>>
        /\ inHand[m] # Null /\ inHand[m].persisted
        /\ committed' = [committed EXCEPT ![inHand[m].partition] = inHand[m].offset]
        /\ inHand' = [inHand EXCEPT ![m] = Null]
    BY DEF CommitOffset, database
  <1>2. inHand[m].partition \in Partitions /\ inHand[m].offset \in Nat
    BY <1>1 DEF TypeOK, Holding
  <1> QED BY <1>1, <1>2 DEF TypeOK

LEMMA StartedReader ==
    ASSUME StartReader, NEW p \in Partitions
    PROVE  /\ UNCHANGED <<committed, handled>>
           /\ committed[p] = Null => position'[p] = Len(topic[p]) /\ startedAt'[p] = Len(topic[p])
           /\ committed[p] # Null => position'[p] = committed[p] /\ startedAt'[p] = startedAt[p]
  BY DEF StartReader, AtEnd, database

\* What a step can do to outcomes that nobody holds: while the process lives none becomes
\* due, and a process that is stopped gives back what it had in hand.
LEMMA DueBefore ==
    ASSUME IInv, PassInv, [Next]_vars, NEW p \in Partitions, NEW i \in Nat \ {0}, Due(p, i)'
    PROVE  \/ Due(p, i)
           \/ Restarted /\ Held(p, i) /\ committed[p] # Null
           \/ StartReader /\ committed[p] = Null
  <1> USE DEF IInv
  <1>1. CASE Worker
    BY <1>1, WorkerFrame DEF Due, Held
  <1>2. ASSUME NEW m \in Members, NEW q \in Partitions, Fetch(m, q) PROVE Due(p, i)
    BY <1>2, FetchedHand DEF Due, Held
  <1>3. ASSUME NEW m \in Members, HandleMessage(m) PROVE Due(p, i)
    BY <1>3, HandledHand DEF Due, Held
  <1>4. ASSUME NEW m \in Members, CommitOffset(m) PROVE Due(p, i)
    <2>1. <<inHand[m].partition, inHand[m].offset>> \in handled
      BY <1>4, CommittedHand DEF PassInv, PersistedInv
    <2> QED BY <1>4, <2>1, CommittedHand DEF Due, Held
  <1>5. CASE StartReader /\ committed[p] # Null /\ Restarted
    BY <1>5, StartedReader DEF Due
  <1>6. CASE StartReader /\ committed[p] # Null /\ UNCHANGED inHand
    BY <1>6, StartedReader DEF Due, Held
  <1>7. ((\E m \in Members : HandleMessageFails(m)) \/ Crash => Restarted /\ StartReader)
        /\ (Rejoin => StartReader /\ UNCHANGED inHand)
    BY DEF HandleMessageFails, Crash, Rejoin, Restarted
  <1>8. CASE UNCHANGED vars
    BY <1>8 DEF vars, Due, Held
  <1> QED BY <1>1, <1>2, <1>3, <1>4, <1>5, <1>6, <1>7, <1>8 DEF Next, Sink

LEMMA PassStep ==
    ASSUME IInv, PassInv, [Next]_vars
    PROVE  PassInv'
  <1> USE DEF IInv
  <1>n. \A p \in Partitions : /\ position[p] \in Nat /\ startedAt[p] \in Nat /\ Len(topic[p]) \in Nat
                              /\ committed[p] # Null => committed[p] \in Nat
    BY RecordsType DEF TypeOK
  <1>o. \A n \in Members : inHand[n] # Null =>
           /\ inHand[n].partition \in Partitions /\ inHand[n].offset \in Nat
           /\ inHand[n].offset <= Len(topic[inHand[n].partition])
    BY <1>n DEF TypeOK, Holding, OffsetInv
  <1>p. PersistedInv
    BY DEF PassInv
  <1>q. \A p \in Partitions : \A i \in Nat \ {0} : Due(p, i) => PassAt(p, i)
    BY DEF PassInv
  <1> SUFFICES /\ PersistedInv'
               /\ \A p \in Partitions : \A i \in Nat \ {0} : Due(p, i)' => PassAt(p, i)'
    BY DEF PassInv
  <1>1. CASE UNCHANGED <<committed, position, inHand, startedAt, handled>>
    BY <1>1, <1>p, <1>q DEF PersistedInv, PassAt, Due, Held, Covered
  <1>2. ASSUME NEW m \in Members, NEW q \in Partitions, Fetch(m, q)
        PROVE  /\ PersistedInv'
               /\ \A p \in Partitions : \A i \in Nat \ {0} : Due(p, i)' => PassAt(p, i)'
    <2>1. /\ UNCHANGED <<committed, startedAt, handled>>
          /\ inHand[m] = Null /\ inHand'[m] # Null
          /\ inHand'[m].partition = q /\ inHand'[m].offset = position[q] + 1
          /\ ~inHand'[m].persisted
          /\ \A n \in Members \ {m} : inHand'[n] = inHand[n]
          /\ position'[q] = position[q] + 1
          /\ \A r \in Partitions \ {q} : position'[r] = position[r]
      BY <1>2, FetchedHand
    <2>2. ASSUME NEW p \in Partitions, NEW i \in Nat \ {0}, Due(p, i)'
          PROVE  Due(p, i) /\ ~(p = q /\ i = position[q] + 1) /\ (Covered(p, i)' <=> Covered(p, i))
      BY <2>1, <2>2 DEF Due, Held, Covered
    <2>3. ASSUME NEW p \in Partitions, NEW i \in Nat \ {0}, Due(p, i)'
          PROVE  i <= position'[p] <=> i <= position[p]
      BY <1>n, <2>1, <2>2, <2>3
    <2>4. ASSUME NEW p \in Partitions, NEW i \in Nat \ {0}, Due(p, i)',
                 NEW n \in Members, inHand'[n] # Null, inHand'[n].partition = p
          PROVE  (i <= position[p] => i < inHand'[n].offset)
                 /\ (~(i <= position[p]) => inHand'[n].offset < i)
      <3>1. CASE n = m
        BY <1>n, <2>1, <2>2, <2>4, <3>1
      <3>2. CASE n # m
        BY <1>q, <2>1, <2>2, <2>4, <3>2 DEF PassAt
      <3> QED BY <3>1, <3>2
    <2>5. PersistedInv'
      BY <1>p, <2>1 DEF PersistedInv
    <2> QED BY <1>q, <2>2, <2>3, <2>4, <2>5 DEF PassAt
  <1>3. ASSUME NEW m \in Members, HandleMessage(m)
        PROVE  /\ PersistedInv'
               /\ UNCHANGED <<committed, position>>
               /\ \A p \in Partitions : \A i \in Nat : Due(p, i)' => Due(p, i)
               /\ \A n \in Members : inHand'[n] # Null =>
                     /\ inHand[n] # Null
                     /\ inHand'[n].partition = inHand[n].partition /\ inHand'[n].offset = inHand[n].offset
    <2>1. /\ inHand[m] # Null
          /\ UNCHANGED <<committed, position, startedAt>>
          /\ handled' = handled \cup {<<inHand[m].partition, inHand[m].offset>>}
          /\ inHand'[m] # Null
          /\ inHand'[m].partition = inHand[m].partition /\ inHand'[m].offset = inHand[m].offset
          /\ \A n \in Members \ {m} : inHand'[n] = inHand[n]
      BY <1>3, HandledHand
    <2> QED BY <1>p, <2>1 DEF PersistedInv, Due, Held
  <1>4. ASSUME NEW m \in Members, CommitOffset(m)
        PROVE  /\ PersistedInv'
               /\ \A p \in Partitions : \A i \in Nat \ {0} : Due(p, i)' => PassAt(p, i)'
    <2>1. /\ UNCHANGED <<position, startedAt, handled>>
          /\ inHand[m] # Null /\ inHand[m].persisted /\ inHand'[m] = Null
          /\ inHand[m].partition \in Partitions /\ inHand[m].offset \in Nat
          /\ committed'[inHand[m].partition] = inHand[m].offset
          /\ \A q \in Partitions \ {inHand[m].partition} : committed'[q] = committed[q]
          /\ \A n \in Members \ {m} : inHand'[n] = inHand[n]
      BY <1>4, CommittedHand
    <2>2. ASSUME NEW p \in Partitions, NEW i \in Nat \ {0}, Due(p, i)'
          PROVE  Due(p, i)
      BY <1>p, <2>1, <2>2 DEF PersistedInv, Due, Held
    <2>3. ASSUME NEW p \in Partitions, NEW i \in Nat \ {0}, Due(p, i)'
          PROVE  Covered(p, i)' <=> i <= position[p]
      <3>1. CASE p = inHand[m].partition
        <4>1. Covered(p, i)' <=> i <= inHand[m].offset
          BY <2>1, <3>1, SinkAssumption DEF Covered
        <4> QED BY <1>q, <2>1, <2>2, <2>3, <3>1, <4>1 DEF PassAt
      <3>2. CASE p # inHand[m].partition
        BY <1>q, <2>1, <2>2, <2>3, <3>2 DEF PassAt, Covered
      <3> QED BY <3>1, <3>2
    <2>4. \A n \in Members : inHand'[n] # Null => inHand[n] = inHand'[n]
      BY <2>1
    <2>5. PersistedInv'
      BY <1>p, <2>1, <2>4 DEF PersistedInv
    <2> QED BY <1>q, <2>1, <2>2, <2>3, <2>4, <2>5 DEF PassAt
  <1>5. ASSUME StartReader, inHand' = inHand \/ inHand' = [n \in Members |-> Null],
               NEW p \in Partitions, NEW i \in Nat \ {0}, Due(p, i)'
        PROVE  PassAt(p, i)'
    <2>1. CASE committed[p] = Null
      <3>1. position'[p] = Len(topic[p]) /\ i > Len(topic[p]) /\ committed'[p] = Null
        BY <1>5, <2>1, StartedReader DEF Due
      <3> QED BY <1>5, <1>n, <1>o, <3>1 DEF PassAt, Covered
    <2>2. CASE committed[p] # Null
      <3>1. /\ position'[p] = committed[p] /\ UNCHANGED <<committed, handled>>
            /\ startedAt'[p] = startedAt[p]
        BY <1>5, <2>2, StartedReader
      <3>2. Covered(p, i)' <=> i <= position'[p]
        BY <2>2, <3>1 DEF Covered
      <3>3. CASE inHand' = inHand
        <4>1. Due(p, i)
          BY <1>5, <3>1, <3>3 DEF Due, Held
        <4>2. Covered(p, i) <=> i <= position'[p]
          BY <2>2, <3>1 DEF Covered
        <4> QED BY <1>q, <3>2, <3>3, <4>1, <4>2 DEF PassAt
      <3>4. CASE inHand' = [n \in Members |-> Null]
        BY <3>2, <3>4 DEF PassAt
      <3> QED BY <1>5, <3>3, <3>4
    <2> QED BY <2>1, <2>2
  <1>6. CASE \E m \in Members, q \in Partitions : Fetch(m, q)
    BY <1>2, <1>6
  <1>7. CASE \E m \in Members : HandleMessage(m)
    <2>1. PICK m \in Members : HandleMessage(m)
      BY <1>7
    <2>2. /\ UNCHANGED <<committed, position>>
          /\ \A p \in Partitions : \A i \in Nat : Due(p, i)' => Due(p, i)
          /\ \A n \in Members : inHand'[n] # Null =>
                /\ inHand[n] # Null
                /\ inHand'[n].partition = inHand[n].partition /\ inHand'[n].offset = inHand[n].offset
      BY <1>3, <2>1
    <2>3. ASSUME NEW p \in Partitions, NEW i \in Nat \ {0}, Due(p, i)'
          PROVE  Due(p, i) /\ (Covered(p, i)' <=> Covered(p, i))
      BY <2>2, <2>3 DEF Covered
    <2> QED BY <1>3, <1>q, <2>1, <2>2, <2>3 DEF PassAt
  <1>8. CASE \E m \in Members : CommitOffset(m)
    BY <1>4, <1>8
  <1>9. CASE (\E m \in Members : HandleMessageFails(m)) \/ Crash \/ Rejoin
    <2>1. StartReader /\ (inHand' = inHand \/ inHand' = [n \in Members |-> Null])
      BY <1>9 DEF HandleMessageFails, Crash, Rejoin, Restarted
    <2>2. handled' = handled
      BY <2>1 DEF StartReader, database
    <2>3. PersistedInv'
      BY <1>p, <2>1, <2>2 DEF PersistedInv
    <2> QED BY <1>5, <2>1, <2>3
  <1>10. CASE Worker
    BY <1>1, <1>10, WorkerFrame
  <1>11. CASE UNCHANGED vars
    BY <1>1, <1>11 DEF vars
  <1> QED BY <1>6, <1>7, <1>8, <1>9, <1>10, <1>11 DEF Next, Sink

LEMMA CommitOrMove ==
    ASSUME IInv, [Next]_vars
    PROVE  committed' = committed \/ position' = position
  <1>1. Worker => committed' = committed
    BY WorkerFrame
  <1>2. (\E m \in Members, p \in Partitions : Fetch(m, p)) => committed' = committed
    BY DEF Fetch
  <1>3. (\E m \in Members : HandleMessage(m)) => committed' = committed
    BY DEF HandleMessage
  <1>4. (\E m \in Members : CommitOffset(m)) => position' = position
    BY DEF CommitOffset
  <1>5. (\E m \in Members : HandleMessageFails(m)) \/ Crash \/ Rejoin => committed' = committed
    BY DEF HandleMessageFails, Crash, Rejoin, Restarted, StartReader
  <1> QED BY <1>1, <1>2, <1>3, <1>4, <1>5 DEF Next, Sink, vars

\* Every outcome that is passed over was in hand, and overtaken.
LEMMA LostWasOvertaken ==
    ASSUME IInv, PassInv, [Next]_vars
    PROVE  PassedOver' \ PassedOver \subseteq Overtaken
  <1> SUFFICES ASSUME NEW h \in PassedOver', h \notin PassedOver PROVE h \in Overtaken
    OBVIOUS
  <1>1. PICK p \in Partitions, i \in Nat : h = <<p, i>>
    <2>1. position' \in [Partitions -> Nat]
      BY TypeStep DEF IInv, TypeOK
    <2> QED BY <2>1 DEF PassedOver
  <1>2. i \in 1 .. position'[p] /\ Due(p, i)'
    BY <1>1, PassedOverIs
  <1>3. ~(i \in 1 .. position[p] /\ Due(p, i))
    BY <1>1, PassedOverIs
  <1>4. i \in Nat \ {0}
    BY <1>1, <1>2
  <1>5. position[p] \in Nat /\ position'[p] \in Nat
    BY TypeStep DEF IInv, TypeOK
  <1>6. CASE Due(p, i)
    <2>1. ~(i <= position[p]) /\ ~Covered(p, i)
      BY <1>3, <1>4, <1>5, <1>6 DEF PassInv, PassAt
    <2>2. Covered(p, i)'
      BY <1>2, <1>4, <1>5, PassStep DEF PassInv, PassAt
    <2>3. CASE committed' = committed
      BY <2>1, <2>2, <2>3 DEF Covered
    <2>4. CASE position' = position
      BY <1>2, <1>4, <1>5, <2>1, <2>4
    <2> QED BY <2>3, <2>4, CommitOrMove
  <1>7. CASE Restarted /\ Held(p, i) /\ committed[p] # Null
    <2>1. /\ position'[p] = committed[p] /\ startedAt'[p] = startedAt[p] /\ handled' = handled
      BY <1>7, StartedReader DEF Restarted
    <2>2. i > startedAt[p] /\ <<p, i>> \notin handled /\ i <= committed[p]
      BY <1>2, <2>1 DEF Due
    <2> QED BY <1>1, <1>7, <2>2, InHandIs DEF Covered
  <1>8. CASE StartReader /\ committed[p] = Null
    <2>1. position'[p] = Len(topic[p]) /\ startedAt'[p] = Len(topic[p])
      BY <1>8, StartedReader
    <2> QED BY <1>2, <1>5, <2>1 DEF Due
  <1> QED BY <1>2, <1>4, <1>6, <1>7, <1>8, DueBefore

LEMMA OvertakenFinite ==
    /\ IsFiniteSet(InHand) /\ IsFiniteSet(Overtaken)
    /\ \A S : S \subseteq Overtaken => IsFiniteSet(S) /\ Cardinality(S) <= Cardinality(Overtaken)
    /\ Cardinality(Overtaken) \in Nat /\ Cardinality(Members) \in Nat
  <1> DEFINE busy == {n \in Members : inHand[n] # Null}
             held == [m \in Members |-> <<inHand[m].partition, inHand[m].offset>>]
  <1>1. IsFiniteSet(busy)
    BY SinkAssumption, FS_Subset
  <1>2. IsFiniteSet({held[m] : m \in busy})
    <2> HIDE DEF held, busy
    <2> QED BY <1>1, ImageIsFinite
  <1>3. IsFiniteSet(InHand)
    <2>1. InHand = {held[m] : m \in busy}
      BY DEF InHand
    <2> QED BY <1>2, <2>1
  <1>4. Overtaken \subseteq InHand
    BY DEF Overtaken
  <1>5. IsFiniteSet(Overtaken)
    BY <1>3, <1>4, FS_Subset
  <1> QED BY <1>3, <1>5, FS_Subset, FS_CardinalityType, SinkAssumption

\* Only a commit adds to the overtaken, and it leaves out the goroutine that made it.
LEMMA FewStep ==
    ASSUME IInv, PassInv, FewInv, [Next]_vars
    PROVE  FewInv'
  <1> USE DEF IInv
  <1>n. \A p \in Partitions : position[p] \in Nat /\ startedAt[p] \in Nat /\ Len(topic[p]) \in Nat
    BY RecordsType DEF TypeOK
  <1>h. ASSUME NEW h \in Overtaken'
        PROVE  \E p \in Partitions, i \in Nat \ {0} :
                  /\ h = <<p, i>>
                  /\ Held(p, i)' /\ <<p, i>> \notin handled' /\ i > startedAt'[p] /\ Covered(p, i)'
    <2>1. PICK m \in Members : inHand'[m] # Null /\ h = <<inHand'[m].partition, inHand'[m].offset>>
      BY <1>h DEF Overtaken, InHand
    <2>2. inHand'[m].partition \in Partitions /\ inHand'[m].offset \in Nat \ {0}
      BY <2>1, TypeStep DEF TypeOK, OffsetInv, Holding
    <2>3. PICK p \in Partitions, i \in Nat \ {0} : h = <<p, i>>
      BY <2>1, <2>2
    <2>4. <<p, i>> \in Overtaken' <=>
             Held(p, i)' /\ <<p, i>> \notin handled' /\ i > startedAt'[p] /\ Covered(p, i)'
      BY DEF InHand, Held, Overtaken, Covered
    <2> QED BY <1>h, <2>3, <2>4
  <1>t. ASSUME \A p \in Partitions : \A i \in Nat \ {0} :
                 Held(p, i)' /\ <<p, i>> \notin handled' /\ i > startedAt'[p] /\ Covered(p, i)'
                    => <<p, i>> \in Overtaken
        PROVE  Overtaken' \subseteq Overtaken
    <2> SUFFICES ASSUME NEW h \in Overtaken' PROVE h \in Overtaken
      OBVIOUS
    <2>1. PICK p \in Partitions, i \in Nat \ {0} :
             /\ h = <<p, i>>
             /\ Held(p, i)' /\ <<p, i>> \notin handled' /\ i > startedAt'[p] /\ Covered(p, i)'
      BY <1>h
    <2> QED BY <1>t, <2>1
  <1>s. ASSUME Overtaken' \subseteq Overtaken PROVE FewInv'
    <2>1. Cardinality(Overtaken') <= Cardinality(Overtaken)
      BY <1>s, OvertakenFinite
    <2>2. Cardinality(Overtaken') \in Nat
      BY <1>s, OvertakenFinite, FS_CardinalityType
    <2> QED BY <2>1, <2>2, OvertakenFinite DEF FewInv
  <1>1. CASE UNCHANGED <<committed, inHand, startedAt, handled>>
    <2>1. Overtaken' = Overtaken
      BY <1>1 DEF Overtaken, InHand
    <2> QED BY <1>s, <2>1
  <1>2. ASSUME NEW m \in Members, NEW q \in Partitions, Fetch(m, q) PROVE FewInv'
    <2>1. /\ UNCHANGED <<committed, startedAt, handled>>
          /\ inHand[m] = Null
          /\ inHand'[m].partition = q /\ inHand'[m].offset = position[q] + 1
          /\ \A n \in Members \ {m} : inHand'[n] = inHand[n]
      BY <1>2, FetchedHand
    <2>2. ASSUME NEW p \in Partitions, NEW i \in Nat \ {0},
                 Held(p, i)', <<p, i>> \notin handled', i > startedAt'[p], Covered(p, i)'
          PROVE  <<p, i>> \in Overtaken
      <3>1. <<p, i>> \notin handled /\ i > startedAt[p] /\ Covered(p, i)
        BY <2>1, <2>2 DEF Covered
      <3>2. ASSUME ~Held(p, i) PROVE FALSE
        <4>1. i <= position[p]
          BY <3>1, <3>2 DEF PassInv, PassAt, Due
        <4>2. p = q /\ i = position[q] + 1
          BY <2>1, <2>2, <3>2 DEF Held
        <4> QED BY <1>n, <4>1, <4>2
      <3> QED BY <3>1, <3>2, InHandIs
    <2>3. Overtaken' \subseteq Overtaken
      BY <1>t, <2>2
    <2> QED BY <1>s, <2>3
  <1>3. ASSUME NEW m \in Members, HandleMessage(m) PROVE FewInv'
    <2>1. /\ inHand[m] # Null
          /\ UNCHANGED <<committed, position, startedAt>>
          /\ handled' = handled \cup {<<inHand[m].partition, inHand[m].offset>>}
          /\ inHand'[m].partition = inHand[m].partition /\ inHand'[m].offset = inHand[m].offset
          /\ \A n \in Members \ {m} : inHand'[n] = inHand[n]
      BY <1>3, HandledHand
    <2>2. ASSUME NEW p \in Partitions, NEW i \in Nat \ {0},
                 Held(p, i)', <<p, i>> \notin handled', i > startedAt'[p], Covered(p, i)'
          PROVE  <<p, i>> \in Overtaken
      BY <2>1, <2>2, InHandIs DEF Held, Covered
    <2>3. Overtaken' \subseteq Overtaken
      BY <1>t, <2>2
    <2> QED BY <1>s, <2>3
  <1>4. ASSUME NEW m \in Members, CommitOffset(m) PROVE FewInv'
    <2> DEFINE others == Members \ {m}
               held == [n \in Members |-> <<inHand[n].partition, inHand[n].offset>>]
    <2>1. /\ inHand[m] # Null /\ inHand'[m] = Null
          /\ \A n \in Members \ {m} : inHand'[n] = inHand[n]
      BY <1>4, CommittedHand
    <2>2. /\ IsFiniteSet(others) /\ Cardinality(others) = Cardinality(Members) - 1
      BY SinkAssumption, FS_RemoveElement
    <2>3. /\ IsFiniteSet({held[n] : n \in others})
          /\ Cardinality({held[n] : n \in others}) <= Cardinality(others)
      <3> HIDE DEF held, others
      <3> QED BY <2>2, ImageIsFinite
    <2>4. Overtaken' \subseteq {held[n] : n \in others}
      BY <2>1 DEF Overtaken, InHand
    <2>5. Cardinality(Overtaken') <= Cardinality({held[n] : n \in others})
          /\ IsFiniteSet(Overtaken')
      BY <2>3, <2>4, FS_Subset
    <2>6. Cardinality(Overtaken') \in Nat /\ Cardinality(others) \in Nat
          /\ Cardinality({held[n] : n \in others}) \in Nat
      BY <2>2, <2>3, <2>5, FS_CardinalityType
    <2> HIDE DEF others
    <2> QED BY <2>2, <2>3, <2>5, <2>6, OvertakenFinite DEF FewInv
  <1>5. ASSUME StartReader, inHand' = inHand \/ inHand' = [n \in Members |-> Null] PROVE FewInv'
    <2>1. ASSUME NEW p \in Partitions, NEW i \in Nat \ {0},
                 Held(p, i)', <<p, i>> \notin handled', i > startedAt'[p], Covered(p, i)'
          PROVE  <<p, i>> \in Overtaken
      <3>1. UNCHANGED <<committed, handled>> /\ committed[p] # Null /\ startedAt'[p] = startedAt[p]
        BY <1>5, <2>1, StartedReader DEF Covered
      <3>2. Held(p, i)
        BY <1>5, <2>1 DEF Held
      <3> QED BY <2>1, <3>1, <3>2, InHandIs DEF Covered
    <2>2. Overtaken' \subseteq Overtaken
      BY <1>t, <2>1
    <2> QED BY <1>s, <2>2
  <1>6. CASE Worker
    BY <1>1, <1>6, WorkerFrame
  <1>7. CASE (\E m \in Members : HandleMessageFails(m)) \/ Crash \/ Rejoin
    BY <1>5, <1>7 DEF HandleMessageFails, Crash, Rejoin, Restarted
  <1>8. CASE UNCHANGED vars
    BY <1>1, <1>8 DEF vars
  <1> QED BY <1>2, <1>3, <1>4, <1>6, <1>7, <1>8 DEF Next, Sink

\* For any number of goroutines, partitions, crashes and rejoins: an outcome is passed over
\* only when the process ends while a goroutine holds it and another has committed a later
\* one, and never by as many as there are goroutines at a time.
THEOREM FewOutcomesPassedOver == Spec => OnlyOvertakenPassedOver
  <1>1. Init => PassInv /\ FewInv
    <2> SUFFICES ASSUME Init PROVE PassInv /\ FewInv
      OBVIOUS
    <2>1. /\ position = [p \in Partitions |-> 0] /\ inHand = [m \in Members |-> Null]
          /\ committed = [p \in Partitions |-> IF JoinedBefore THEN 0 ELSE Null]
      BY DEF Init
    <2>2. PassInv
      BY <2>1 DEF PassInv, PersistedInv, PassAt, Covered
    <2>3. Overtaken = {}
      BY <2>1 DEF Overtaken, InHand
    <2>4. Cardinality(Members) > 0
      BY SinkAssumption, FS_EmptySet, FS_CardinalityType
    <2> QED BY <2>2, <2>3, <2>4, FS_EmptySet DEF FewInv
  <1>2. IInv /\ PassInv /\ FewInv /\ [Next]_vars => PassInv' /\ FewInv'
    BY PassStep, FewStep
  <1>3. IInv /\ PassInv /\ FewInv /\ [Next]_vars =>
           [LET lost == PassedOver' \ PassedOver
            IN  lost \subseteq Overtaken /\ Cardinality(lost) < Cardinality(Members)]_vars
    <2> SUFFICES ASSUME IInv, PassInv, FewInv, [Next]_vars
                 PROVE  /\ PassedOver' \ PassedOver \subseteq Overtaken
                        /\ Cardinality(PassedOver' \ PassedOver) < Cardinality(Members)
      OBVIOUS
    <2>1. PassedOver' \ PassedOver \subseteq Overtaken
      BY LostWasOvertaken
    <2>2. /\ Cardinality(PassedOver' \ PassedOver) <= Cardinality(Overtaken)
          /\ Cardinality(PassedOver' \ PassedOver) \in Nat
      BY <2>1, OvertakenFinite, FS_CardinalityType
    <2> QED BY <2>1, <2>2, OvertakenFinite DEF FewInv
  <1> QED BY <1>1, <1>2, <1>3, Invariant, PTL DEF Spec, OnlyOvertakenPassedOver

------------------------------------------------------------------------------
(* No aborts *)

\* A worker that may abort nothing aborts nothing: an open record would count.
LEMMA NoAbort ==
    ASSUME MaxAborts = 0, IsFiniteSet(Records)
    PROVE  ~AbortTransaction
  <1> SUFFICES ASSUME AbortTransaction PROVE FALSE
    OBVIOUS
  <1> DEFINE unsettled == {o \in Records : o.mark # "committed"}
  <1>1. IsFiniteSet(unsettled)
    BY FS_Subset
  <1>2. unsettled # {}
    BY DEF AbortTransaction, OpenRecords
  <1>3. Cardinality(unsettled) <= 0
    BY DEF AbortTransaction
  <1> HIDE DEF unsettled
  <1>4. Cardinality(unsettled) \in Nat /\ Cardinality(unsettled) # 0
    BY <1>1, <1>2, FS_CardinalityType, FS_EmptySet
  <1> QED BY <1>3, <1>4

\* The worker decides a dedupe key once and repeats the decision.
LEMMA DecisionStep ==
    ASSUME MaxAborts = 0, IInv, DecisionInv, Worker
    PROVE  /\ DecisionInv'
           /\ \A o \in Records : \E x \in Records' :
                 x.command = o.command /\ x.status = o.status /\ x.checkout = o.checkout
  <1>0. Records \subseteq Outcome
    BY RecordsType DEF IInv
  <1>d. /\ \A o \in Records : o.mark # "aborted"
        /\ \A o \in Records : o.status = "rejected" => o.checkout = Null
        /\ \A o \in Records : \E d \in Records :
              DedupeKey(d.command) = DedupeKey(o.command) /\ ~d.duplicate
        /\ \A o, q \in Records : DedupeKey(o.command) = DedupeKey(q.command) =>
              o.status = q.status /\ o.checkout = q.checkout
    BY DEF DecisionInv
  <1>1. ASSUME NEW c \in Commands, NEW p \in Partitions, Decide(c, p)
        PROVE  DecisionInv' /\ Records \subseteq Records'
    <2> DEFINE id == [command |-> c, copy |-> Copies(c, {"open", "committed", "aborted"})]
    <2>1. id \in Ids
      BY CopiesType DEF Ids, IInv
    <2>2. /\ Forward(c, p, "reserved", id, FALSE) \/ Forward(c, p, "rejected", Null, FALSE)
          /\ Decisions(c) = {}
      BY <1>1 DEF Decide
    <2> HIDE DEF id
    <2>3. \E x \in Outcome : \/ Added(x, c, "reserved", id, FALSE)
                             \/ Added(x, c, "rejected", Null, FALSE)
      <3>1. CASE Forward(c, p, "reserved", id, FALSE)
        BY <2>1, <3>1, Forwarded DEF IInv
      <3>2. CASE Forward(c, p, "rejected", Null, FALSE)
        BY <3>2, Forwarded DEF IInv
      <3> QED BY <2>2, <3>1, <3>2
    <2>4. PICK x \in Outcome : \/ Added(x, c, "reserved", id, FALSE)
                               \/ Added(x, c, "rejected", Null, FALSE)
      BY <2>3
    <2>5. /\ x.command = c /\ x.duplicate = FALSE /\ x.mark = "open"
          /\ x.status = "rejected" => x.checkout = Null
          /\ Records' = Records \cup {x}
      BY <2>4 DEF Added
    <2>6. \A o \in Records : DedupeKey(o.command) # DedupeKey(c)
      BY <1>d, <2>2 DEF Decisions
    <2>7. DecisionInv'
      BY <1>d, <2>5, <2>6 DEF DecisionInv
    <2> QED BY <2>5, <2>7
  <1>2. ASSUME NEW c \in Commands, NEW p \in Partitions, Repeat(c, p)
        PROVE  DecisionInv' /\ Records \subseteq Records'
    <2>1. PICK o \in Decisions(c) : Forward(c, p, o.status, o.checkout, TRUE)
      BY <1>2 DEF Repeat
    <2>2. o \in Records /\ DedupeKey(o.command) = DedupeKey(c) /\ ~o.duplicate
      BY DEF Decisions
    <2>3. o.status \in {"reserved", "rejected"} /\ o.checkout \in Ids \cup {Null}
      BY <1>0, <2>2 DEF Outcome
    <2>4. PICK x \in Outcome : Added(x, c, o.status, o.checkout, TRUE)
      BY <2>1, <2>3, Forwarded DEF IInv
    <2>5. /\ x.command = c /\ x.status = o.status /\ x.checkout = o.checkout /\ x.mark = "open"
          /\ Records' = Records \cup {x}
      BY <2>4 DEF Added
    <2>6. DecisionInv'
      BY <1>d, <2>2, <2>5 DEF DecisionInv
    <2> QED BY <2>5, <2>6
  <1>3. CASE CommitTransaction
    <2>1. Close("committed")
      BY <1>3 DEF CommitTransaction
    <2>2. /\ \A o \in Records : Marked(o, "committed") \in Records'
          /\ \A x \in Records' : \E o \in Records : x = Marked(o, "committed")
      BY <2>1, Closed DEF IInv
    <2>3. \A o \in Records :
             /\ Marked(o, "committed").command = o.command
             /\ Marked(o, "committed").status = o.status
             /\ Marked(o, "committed").checkout = o.checkout
             /\ Marked(o, "committed").duplicate = o.duplicate
             /\ Marked(o, "committed").mark # "aborted"
      BY <1>0, <1>d, MarkedFields
    <2>4. \A x \in Records' : \E o \in Records :
             /\ x.command = o.command /\ x.status = o.status /\ x.checkout = o.checkout
             /\ x.duplicate = o.duplicate /\ x.mark # "aborted"
      BY <2>2, <2>3
    <2>5. \A o \in Records : \E x \in Records' :
             /\ x.command = o.command /\ x.status = o.status /\ x.checkout = o.checkout
             /\ x.duplicate = o.duplicate
      BY <2>2, <2>3
    <2>6. \A x \in Records' : x.mark # "aborted" /\ (x.status = "rejected" => x.checkout = Null)
      BY <1>d, <2>4
    <2>7. ASSUME NEW x \in Records'
          PROVE  \E d \in Records' : DedupeKey(d.command) = DedupeKey(x.command) /\ ~d.duplicate
      <3>1. PICK o \in Records : x.command = o.command
        BY <2>4
      <3>2. PICK d \in Records : DedupeKey(d.command) = DedupeKey(o.command) /\ ~d.duplicate
        BY <1>d
      <3>3. PICK y \in Records' : y.command = d.command /\ y.duplicate = d.duplicate
        BY <2>5
      <3> QED BY <3>1, <3>2, <3>3
    <2>8. ASSUME NEW x \in Records', NEW y \in Records', DedupeKey(x.command) = DedupeKey(y.command)
          PROVE  x.status = y.status /\ x.checkout = y.checkout
      <3>1. PICK o \in Records :
               x.command = o.command /\ x.status = o.status /\ x.checkout = o.checkout
        BY <2>4
      <3>2. PICK q \in Records :
               y.command = q.command /\ y.status = q.status /\ y.checkout = q.checkout
        BY <2>4
      <3> QED BY <1>d, <2>8, <3>1, <3>2
    <2>9. DecisionInv'
      BY <2>6, <2>7, <2>8 DEF DecisionInv
    <2> QED BY <2>5, <2>9
  <1>4. ~AbortTransaction
    BY NoAbort DEF IInv
  <1> QED BY <1>1, <1>2, <1>3, <1>4 DEF Worker

\* What is told of a command is what the topic says of it, and the event is there.
LEMMA HandledAnswer ==
    ASSUME IInv, NoAbortInv, NEW m \in Members, HandleMessage(m)
    PROVE  DatabaseInv' /\ CreatedHasEvent'
  <1> DEFINE o == Message(m)
  <1>0. Records' = Records /\ Records \subseteq Outcome
    BY HandledHand, RecordsType DEF Records, IInv
  <1>1. /\ o \in Records /\ o.command \in Commands /\ o.status \in {"reserved", "rejected"}
        /\ o.status = "reserved" => o.checkout \in Ids
        /\ \A c \in Commands \ {o.command} : commandStatus'[c] = commandStatus[c]
        /\ o.status = "reserved" =>
             commandStatus'[o.command] = [status |-> "created", checkout |-> o.checkout]
        /\ o.status = "rejected" =>
             commandStatus'[o.command] =
               [status |-> "failed",
                checkout |-> IF commandStatus[o.command] = Null THEN Null
                             ELSE commandStatus[o.command].checkout]
    BY HandledStatus DEF Outcome
  <1>2. /\ ~(o.status = "reserved" /\ ~KeyTaken(o)) => eventStore' = eventStore
        /\ o.status = "reserved" /\ ~KeyTaken(o) =>
             eventStore' = eventStore \cup {[checkout |-> o.checkout, key |-> KeyOf[o.command]]}
    BY HandledEvent
  <1>3. KeyTaken(o) => KeyOf[o.command] # Null /\ \E e \in eventStore : e.key = KeyOf[o.command]
    BY DEF KeyTaken
  <1> HIDE DEF o
  <1>d. \A x, y \in Records : DedupeKey(x.command) = DedupeKey(y.command) =>
            x.status = y.status /\ x.checkout = y.checkout
    BY DEF NoAbortInv, DecisionInv
  <1>4. commandStatus'[o.command] = AnswerOf(o)
    <2>1. CASE o.status = "reserved"
      BY <1>1, <2>1 DEF AnswerOf
    <2>2. CASE o.status = "rejected"
      <3>1. commandStatus[o.command] # Null => commandStatus[o.command].checkout = Null
        <4> SUFFICES ASSUME commandStatus[o.command] # Null
                     PROVE  commandStatus[o.command].checkout = Null
          OBVIOUS
        <4>1. PICK q \in Records : q.command = o.command /\ commandStatus[o.command] = AnswerOf(q)
          BY <1>1 DEF NoAbortInv, DatabaseInv
        <4>2. q.status = "rejected"
          BY <1>1, <1>d, <2>2, <4>1
        <4> QED BY <4>1, <4>2 DEF AnswerOf
      <3> QED BY <1>1, <2>2, <3>1 DEF AnswerOf
    <2> QED BY <1>1, <2>1, <2>2
  <1>5. \A c \in Commands : commandStatus'[c] # Null =>
           \E x \in Records : x.command = c /\ commandStatus'[c] = AnswerOf(x)
    BY <1>1, <1>4 DEF NoAbortInv, DatabaseInv
  <1>6. ASSUME NEW e \in eventStore', e.key # Null
        PROVE  \E x \in Records : KeyOf[x.command] = e.key /\ x.checkout = e.checkout
    <2>1. CASE e \in eventStore
      BY <1>6, <2>1 DEF NoAbortInv, DatabaseInv
    <2>2. CASE e \notin eventStore
      <3>1. e = [checkout |-> o.checkout, key |-> KeyOf[o.command]]
        BY <1>2, <2>2
      <3> QED BY <1>1, <3>1
    <2> QED BY <2>1, <2>2
  <1>7. DatabaseInv'
    BY <1>0, <1>5, <1>6 DEF DatabaseInv
  <1>8. eventStore \subseteq eventStore'
    BY <1>2
  <1>9. o.status = "reserved" => \E e \in eventStore' : e.checkout = o.checkout
    <2> SUFFICES ASSUME o.status = "reserved" PROVE \E e \in eventStore' : e.checkout = o.checkout
      OBVIOUS
    <2>1. CASE ~KeyTaken(o)
      <3> DEFINE e == [checkout |-> o.checkout, key |-> KeyOf[o.command]]
      <3>1. e \in eventStore' /\ e.checkout = o.checkout
        BY <1>2, <2>1
      <3> QED BY <3>1
    <2>2. CASE KeyTaken(o)
      <3>1. PICK e \in eventStore : e.key = KeyOf[o.command]
        BY <1>3, <2>2
      <3>2. e.key # Null
        BY <1>3, <2>2, <3>1
      <3>3. PICK q \in Records : KeyOf[q.command] = e.key /\ q.checkout = e.checkout
        BY <3>2 DEF NoAbortInv, DatabaseInv
      <3>4. DedupeKey(q.command) = DedupeKey(o.command)
        BY <3>1, <3>2, <3>3 DEF DedupeKey
      <3>5. q.checkout = o.checkout
        BY <1>1, <1>d, <3>4
      <3> QED BY <1>8, <3>3, <3>5
    <2> QED BY <2>1, <2>2
  <1>10. ASSUME NEW c \in Commands, commandStatus'[c] # Null, commandStatus'[c].status = "created"
         PROVE  \E e \in eventStore' : e.checkout = commandStatus'[c].checkout
    <2>1. CASE c = o.command
      <3>1. o.status = "reserved" /\ commandStatus'[c].checkout = o.checkout
        BY <1>1, <1>4, <1>10, <2>1 DEF AnswerOf
      <3> QED BY <1>9, <3>1
    <2>2. CASE c # o.command
      <3>1. commandStatus'[c] = commandStatus[c]
        BY <1>1, <2>2
      <3>2. PICK e \in eventStore : e.checkout = commandStatus[c].checkout
        BY <1>10, <3>1 DEF NoAbortInv, CreatedHasEvent
      <3> QED BY <1>8, <3>1, <3>2
    <2> QED BY <2>1, <2>2
  <1> QED BY <1>7, <1>10 DEF CreatedHasEvent

\* Without aborts every step keeps one answer per key.
LEMMA NoAbortStep ==
    ASSUME MaxAborts = 0, IInv, NoAbortInv, [Next]_vars
    PROVE  NoAbortInv'
  <1>0. IInv'
    BY TypeStep
  <1>1. CASE Worker
    <2>1. UNCHANGED <<eventStore, commandStatus>>
      BY <1>1, WorkerFrame
    <2>2. /\ DecisionInv'
          /\ \A o \in Records : \E x \in Records' :
                x.command = o.command /\ x.status = o.status /\ x.checkout = o.checkout
      BY <1>1, DecisionStep DEF NoAbortInv
    <2>3. DatabaseInv'
      BY <2>1, <2>2 DEF NoAbortInv, DatabaseInv, AnswerOf
    <2>4. CreatedHasEvent'
      BY <2>1 DEF NoAbortInv, CreatedHasEvent
    <2> QED BY <1>0, <2>2, <2>3, <2>4 DEF NoAbortInv
  <1>2. ASSUME NEW m \in Members, HandleMessage(m) PROVE NoAbortInv'
    <2>1. DatabaseInv' /\ CreatedHasEvent'
      BY <1>2, HandledAnswer
    <2>2. Records' = Records
      BY <1>2, HandledHand DEF IInv, Records
    <2>3. DecisionInv'
      BY <2>2 DEF NoAbortInv, DecisionInv
    <2> QED BY <1>0, <2>1, <2>3 DEF NoAbortInv
  <1>3. CASE UNCHANGED <<topic, eventStore, commandStatus>>
    <2>1. Records' = Records
      BY <1>3 DEF Records
    <2> QED BY <1>0, <1>3, <2>1 DEF NoAbortInv, DecisionInv, DatabaseInv, CreatedHasEvent
  <1>4. (\E m \in Members, p \in Partitions : Fetch(m, p)) => UNCHANGED <<topic, eventStore, commandStatus>>
    BY DEF Fetch, database
  <1>5. (\E m \in Members : CommitOffset(m)) => UNCHANGED <<topic, eventStore, commandStatus>>
    BY DEF CommitOffset, database
  <1>6. (\E m \in Members : HandleMessageFails(m)) \/ Crash \/ Rejoin
           => UNCHANGED <<topic, eventStore, commandStatus>>
    BY DEF HandleMessageFails, Crash, Rejoin, Restarted, StartReader, database
  <1>7. UNCHANGED vars => UNCHANGED <<topic, eventStore, commandStatus>>
    BY DEF vars
  <1> QED BY <1>1, <1>2, <1>3, <1>4, <1>5, <1>6, <1>7 DEF Next, Sink

\* Without aborts the invariant holds from the start.
LEMMA NoAbortInvariant ==
    ASSUME MaxAborts = 0
    PROVE  Spec => []NoAbortInv
  <1>1. Init => NoAbortInv
    <2> SUFFICES ASSUME Init PROVE NoAbortInv
      OBVIOUS
    <2>1. IInv
      BY InitInv
    <2>2. /\ \A p \in Partitions : Len(topic[p]) = 0
          /\ eventStore = {} /\ commandStatus = [c \in Commands |-> Null]
      BY DEF Init
    <2>3. Records = {}
      BY <2>2 DEF Records
    <2> QED BY <2>1, <2>2, <2>3 DEF NoAbortInv, DecisionInv, DatabaseInv, CreatedHasEvent
  <1>2. IInv /\ NoAbortInv /\ [Next]_vars => NoAbortInv'
    BY NoAbortStep
  <1> QED BY <1>1, <1>2, Invariant, PTL DEF Spec

\* While no transaction of the worker aborts, a buyer who is told created finds the
\* event, whatever crashes, is redelivered or shares a key.
THEOREM CreatedHasEventWithoutAborts ==
    ASSUME MaxAborts = 0
    PROVE  Spec => []CreatedHasEvent
  <1>1. NoAbortInv => CreatedHasEvent
    BY DEF NoAbortInv
  <1> QED BY <1>1, NoAbortInvariant, PTL

\* While no transaction of the worker aborts, the commands of one idempotency key are
\* answered alike, in whatever order the goroutines of the sink write them.
THEOREM OneIntentPerKeyWithoutAborts ==
    ASSUME MaxAborts = 0
    PROVE  Spec => []OneIntentPerKey
  <1>1. NoAbortInv => OneIntentPerKey
    <2> SUFFICES ASSUME NoAbortInv, NEW c \in Commands, NEW d \in Commands,
                        KeyOf[c] # Null, KeyOf[c] = KeyOf[d],
                        commandStatus[c] # Null, commandStatus[d] # Null
                 PROVE  commandStatus[c] = commandStatus[d]
      BY DEF OneIntentPerKey
    <2>1. PICK o \in Records : o.command = c /\ commandStatus[c] = AnswerOf(o)
      BY DEF NoAbortInv, DatabaseInv
    <2>2. PICK q \in Records : q.command = d /\ commandStatus[d] = AnswerOf(q)
      BY DEF NoAbortInv, DatabaseInv
    <2>3. o.status = q.status /\ o.checkout = q.checkout
      BY <2>1, <2>2 DEF NoAbortInv, DecisionInv, DedupeKey
    <2> QED BY <2>1, <2>2, <2>3 DEF AnswerOf
  <1> QED BY <1>1, NoAbortInvariant, PTL

------------------------------------------------------------------------------
(* The sink implements CommandLifecycle *)

\* The insert keeps keys and identifiers unique.
LEMMA FactsStep ==
    ASSUME IInv, NoAbortInv, FactsInv, NEW m \in Members, HandleMessage(m)
    PROVE  FactsInv' /\ eventStore \subseteq eventStore'
  <1> DEFINE o == Message(m)
             new == [checkout |-> o.checkout, key |-> KeyOf[o.command]]
  <1>0. /\ o \in Records /\ o.command \in Commands /\ o.status \in {"reserved", "rejected"}
        /\ \A c \in Commands \ {o.command} : commandStatus'[c] = commandStatus[c]
        /\ o.status = "reserved" =>
             commandStatus'[o.command] = [status |-> "created", checkout |-> o.checkout]
        /\ o.status = "rejected" =>
             commandStatus'[o.command] =
               [status |-> "failed",
                checkout |-> IF commandStatus[o.command] = Null THEN Null
                             ELSE commandStatus[o.command].checkout]
    BY HandledStatus DEF Outcome
  <1>1. o.status = "rejected" => commandStatus'[o.command].status = "failed"
    BY <1>0
  <1>2. /\ ~(o.status = "reserved" /\ ~KeyTaken(o)) => eventStore' = eventStore
        /\ o.status = "reserved" /\ ~KeyTaken(o) => eventStore' = eventStore \cup {new}
    BY HandledEvent
  <1>3. /\ KeyTaken(o) <=> KeyOf[o.command] # Null /\ \E e \in eventStore : e.key = KeyOf[o.command]
        /\ o.status = "reserved" /\ ~KeyTaken(o) => \A e \in eventStore : e.checkout # o.checkout
    BY DEF HandleMessage, InsertFails, KeyTaken, IdTaken
  <1>4. new.checkout = o.checkout /\ new.key = KeyOf[o.command]
    OBVIOUS
  <1> HIDE DEF o, new
  <1>d. \A x, y \in Records : DedupeKey(x.command) = DedupeKey(y.command) => x.checkout = y.checkout
    BY DEF NoAbortInv, DecisionInv
  <1>5. /\ \A f, g \in eventStore' : f.key # Null /\ f.key = g.key => f = g
        /\ \A f, g \in eventStore' : f.checkout = g.checkout => f = g
        /\ eventStore \subseteq eventStore'
    BY <1>2, <1>3, <1>4 DEF FactsInv
  <1>6. o.status = "reserved" => \E f \in eventStore' : f.checkout = o.checkout /\ f.key = KeyOf[o.command]
    <2>1. CASE o.status = "reserved" /\ ~KeyTaken(o)
      BY <1>2, <1>4, <2>1
    <2>2. CASE o.status = "reserved" /\ KeyTaken(o)
      <3>1. PICK e \in eventStore : e.key = KeyOf[o.command] /\ e.key # Null
        BY <1>3, <2>2
      <3>2. PICK q \in Records : KeyOf[q.command] = e.key /\ q.checkout = e.checkout
        BY <3>1 DEF NoAbortInv, DatabaseInv
      <3>3. e.checkout = o.checkout
        BY <1>0, <1>d, <3>1, <3>2 DEF DedupeKey
      <3> QED BY <1>5, <3>1, <3>3
    <2> QED BY <2>1, <2>2
  <1>7. ASSUME NEW c \in Commands, commandStatus'[c] # Null, commandStatus'[c].status = "created"
        PROVE  \E f \in eventStore' : f.checkout = commandStatus'[c].checkout /\ f.key = KeyOf[c]
    <2>1. CASE c = o.command
      <3>1. o.status = "reserved" /\ commandStatus'[c].checkout = o.checkout
        BY <1>0, <1>1, <1>7, <2>1
      <3> QED BY <1>6, <2>1, <3>1
    <2>2. CASE c # o.command
      <3>1. commandStatus'[c] = commandStatus[c]
        BY <1>0, <2>2
      <3>2. PICK f \in eventStore : f.checkout = commandStatus[c].checkout /\ f.key = KeyOf[c]
        BY <1>7, <3>1 DEF FactsInv
      <3> QED BY <1>5, <3>1, <3>2
    <2> QED BY <2>1, <2>2
  <1> QED BY <1>5, <1>7 DEF FactsInv

\* Only handleMessage writes to the database.
LEMMA OthersWriteNothing ==
    ASSUME IInv, [Next]_vars, \A m \in Members : ~HandleMessage(m)
    PROVE  UNCHANGED <<eventStore, commandStatus>>
  <1>1. Worker => UNCHANGED <<eventStore, commandStatus>>
    BY WorkerFrame
  <1>2. (\E m \in Members, p \in Partitions : Fetch(m, p)) => UNCHANGED <<eventStore, commandStatus>>
    BY DEF Fetch, database
  <1>3. (\E m \in Members : CommitOffset(m)) => UNCHANGED <<eventStore, commandStatus>>
    BY DEF CommitOffset, database
  <1>4. (\E m \in Members : HandleMessageFails(m)) \/ Crash \/ Rejoin
           => UNCHANGED <<eventStore, commandStatus>>
    BY DEF HandleMessageFails, Crash, Rejoin, Restarted, StartReader, database
  <1>5. UNCHANGED vars => UNCHANGED <<eventStore, commandStatus>>
    BY DEF vars
  <1> QED BY <1>1, <1>2, <1>3, <1>4, <1>5 DEF Next, Sink

\* A second outcome of a command says what the first one said.
LEMMA AnswersStand ==
    ASSUME MaxAborts = 0, IInv, NoAbortInv, NEW m \in Members, HandleMessage(m), NEW c \in Commands,
           commandStatus[c] # Null
    PROVE  commandStatus'[c] = commandStatus[c]
  <1>1. CASE c # Message(m).command
    BY <1>1, HandledStatus
  <1>2. CASE c = Message(m).command
    <2>1. DatabaseInv' /\ Records' = Records
      BY HandledAnswer, HandledHand DEF IInv, Records
    <2>2. commandStatus'[c] # Null
      BY <1>2, HandledStatus, SinkAssumption
    <2>3. PICK x \in Records : x.command = c /\ commandStatus'[c] = AnswerOf(x)
      BY <2>1, <2>2 DEF DatabaseInv
    <2>4. PICK q \in Records : q.command = c /\ commandStatus[c] = AnswerOf(q)
      BY DEF NoAbortInv, DatabaseInv
    <2>5. x.status = q.status /\ x.checkout = q.checkout
      BY <2>3, <2>4 DEF NoAbortInv, DecisionInv
    <2> QED BY <2>3, <2>4, <2>5 DEF AnswerOf
  <1> QED BY <1>1, <1>2


\* Without aborts the events stay unique and the answers name them.
LEMMA FactsInvariant ==
    ASSUME MaxAborts = 0
    PROVE  Spec => []FactsInv
  <1>1. Init => FactsInv
    BY DEF Init, FactsInv
  <1>2. IInv /\ NoAbortInv /\ FactsInv /\ [Next]_vars => FactsInv'
    <2> SUFFICES ASSUME IInv, NoAbortInv, FactsInv, [Next]_vars PROVE FactsInv'
      OBVIOUS
    <2>1. CASE \E m \in Members : HandleMessage(m)
      BY <2>1, FactsStep
    <2>2. CASE \A m \in Members : ~HandleMessage(m)
      <3>1. UNCHANGED <<eventStore, commandStatus>>
        BY <2>2, OthersWriteNothing
      <3> QED BY <3>1 DEF FactsInv
    <2> QED BY <2>1, <2>2
  <1> QED BY <1>1, <1>2, Invariant, NoAbortInvariant, PTL DEF Spec

\* A shown status is unknown or final.
LEMMA ShownType ==
    ASSUME TypeOK, NEW c \in Commands
    PROVE  /\ commandStatus[c] = Null => Shown[c].name = "unknown"
           /\ commandStatus[c] # Null => /\ Shown[c].name = commandStatus[c].status
                                         /\ Shown[c].checkout = commandStatus[c].checkout
                                         /\ Shown[c].name \in {"created", "failed"}
  BY DEF Shown, StatusRow, TypeOK

\* The same of the next state.
LEMMA ShownTypeNext ==
    ASSUME TypeOK', NEW c \in Commands
    PROVE  commandStatus'[c] # Null => /\ Shown'[c].name = commandStatus'[c].status
                                       /\ Shown'[c].checkout = commandStatus'[c].checkout
                                       /\ Shown'[c].name \in {"created", "failed"}
  BY DEF Shown, StatusRow, TypeOK

\* The sink implements the lifecycle of a command: answers are final, facts stay, and
\* one key has one of them, for any number of goroutines, copies and crashes, while no
\* transaction of the worker aborts.
THEOREM SinkImplementsLifecycle ==
    ASSUME MaxAborts = 0
    PROVE  Spec => ImplementsLifecycle
  <1>1. Init => Lifecycle!Init
    BY DEF Init, Shown, Lifecycle!Init, Lifecycle!Unknown
  <1>2. IInv /\ IInv' /\ NoAbortInv /\ FactsInv /\ FactsInv' /\ [Next]_vars
           => [Lifecycle!Next]_<<Shown, eventStore>>
    <2> SUFFICES ASSUME IInv, IInv', NoAbortInv, FactsInv, FactsInv', [Next]_vars
                 PROVE  [Lifecycle!Next]_<<Shown, eventStore>>
      OBVIOUS
    <2>1. CASE \A m \in Members : ~HandleMessage(m)
      BY <2>1, OthersWriteNothing DEF Shown
    <2>2. ASSUME NEW m \in Members, HandleMessage(m) PROVE Lifecycle!Next
      <3>1. eventStore \subseteq eventStore'
        BY <2>2, FactsStep
      <3>2. Lifecycle!Establish
        BY <3>1 DEF FactsInv, Lifecycle!Establish
      <3>3. ASSUME NEW c \in Commands, Shown'[c] # Shown[c] PROVE Lifecycle!Advance(c)
        <4>1. commandStatus[c] = Null
          BY <2>2, <3>3, AnswersStand DEF Shown
        <4>2. commandStatus'[c] # Null
          BY <3>3, <4>1 DEF Shown
        <4>3. Shown[c].name = "unknown"
          BY <4>1, ShownType DEF IInv
        <4>4. /\ Shown'[c].name \in {"created", "failed"}
              /\ Shown'[c].name = commandStatus'[c].status
              /\ Shown'[c].checkout = commandStatus'[c].checkout
          BY <4>2, ShownTypeNext DEF IInv
        <4>5. Shown'[c].name = "created" =>
                \E f \in eventStore' : f.checkout = Shown'[c].checkout /\ f.key = KeyOf[c]
          <5>1. commandStatus'[c].status = "created" =>
                  \E f \in eventStore' : f.checkout = commandStatus'[c].checkout /\ f.key = KeyOf[c]
            BY <4>2 DEF FactsInv
          <5> QED BY <4>4, <5>1
        <4>6. Lifecycle!Rank(Shown[c]) < Lifecycle!Rank(Shown'[c])
          BY <4>3, <4>4 DEF Lifecycle!Rank
        <4> QED BY <4>5, <4>6 DEF Lifecycle!Advance
      <3> QED BY <3>2, <3>3 DEF Lifecycle!Next
    <2> QED BY <2>1, <2>2
  <1> QED BY <1>1, <1>2, Invariant, NoAbortInvariant, FactsInvariant, PTL
          DEF Spec, ImplementsLifecycle, Lifecycle!Spec
===============================================================================
