------------------------- MODULE SeckillWorkerProofs -------------------------
(***************************************************************************)
(* Proofs about SeckillWorker for every number of buckets, partitions,     *)
(* commands and probes, every routing of buckets to partitions (so for     *)
(* both ingresses), every limit an administrator sets, and with lost,      *)
(* failed and repeated sends and failed bootstraps.                        *)
(* The last part is about a steady sale, where the limit stays and nobody  *)
(* hands stock back, and shows that the worker implements SeckillSale.     *)
(***************************************************************************)
EXTENDS SeckillWorker, SumLemmas, TLAPS

------------------------------------------------------------------------------
(* Arithmetic of the bucket shares *)

\* A share is a natural number.
LEMMA ShareType ==
    ASSUME NEW total \in Nat, NEW b \in Buckets
    PROVE  BucketLimitFor(total, b) \in Nat
  BY ParameterAssumption DEF BucketLimitFor, Buckets

\* Dividing with remainder by the number of buckets.
LEMMA Division ==
    ASSUME NEW n \in Nat
    PROVE  /\ n \div BucketCount \in Nat
           /\ n % BucketCount \in 0 .. BucketCount - 1
           /\ n = BucketCount * (n \div BucketCount) + (n % BucketCount)
  BY ParameterAssumption

\* A larger stock gives no bucket a smaller share.
LEMMA ShareMonotone ==
    ASSUME NEW m \in Nat, NEW n \in Nat, m <= n, NEW b \in Buckets
    PROVE  BucketLimitFor(m, b) <= BucketLimitFor(n, b)
  <1> DEFINE q1 == m \div BucketCount
             q2 == n \div BucketCount
             r1 == m % BucketCount
             r2 == n % BucketCount
  <1>1. /\ q1 \in Nat /\ q2 \in Nat
        /\ r1 \in 0 .. BucketCount - 1 /\ r2 \in 0 .. BucketCount - 1
        /\ m = BucketCount * q1 + r1
        /\ n = BucketCount * q2 + r2
    BY Division
  <1>2. BucketCount \in Nat \ {0} /\ b \in Int
    BY ParameterAssumption DEF Buckets
  <1> HIDE DEF q1, q2, r1, r2
  <1>3. q1 <= q2
    <2>1. SUFFICES ASSUME q2 + 1 <= q1 PROVE FALSE
      BY <1>1
    <2>2. PICK d \in Nat : q1 = q2 + 1 + d
      <3>1. q1 - q2 - 1 \in Nat
        BY <1>1, <2>1
      <3>2. q1 = q2 + 1 + (q1 - q2 - 1)
        BY <1>1
      <3> QED BY <3>1, <3>2
    <2>3. BucketCount * q1 = BucketCount * q2 + BucketCount + BucketCount * d
      BY <1>1, <1>2, <2>2
    <2>4. BucketCount * d >= 0 /\ BucketCount * d \in Int /\ BucketCount * q2 \in Int
      BY <1>1, <1>2, <2>2
    <2> QED BY <1>1, <1>2, <2>3, <2>4
  <1>4. CASE q1 = q2
    <2>1. r1 <= r2
      <3>1. BucketCount * q1 = BucketCount * q2 /\ BucketCount * q1 \in Int
        BY <1>1, <1>2, <1>4
      <3> QED BY <1>1, <1>2, <3>1
    <2> QED BY <1>1, <1>2, <1>4, <2>1 DEF BucketLimitFor, q1, q2, r1, r2
  <1>5. CASE q1 + 1 <= q2
    BY <1>1, <1>2, <1>5 DEF BucketLimitFor, q1, q2, r1, r2
  <1> QED BY <1>1, <1>3, <1>4, <1>5

------------------------------------------------------------------------------
(* Types *)

\* What a bucket may have left is a natural number, and never more than the
\* projection or the configured limit leaves.
LEMMA RemainingType ==
    ASSUME NEW cell \in Cell
    PROVE  /\ EffectiveRemaining(cell) \in Nat
           /\ EffectiveRemaining(cell) <= cell.projectionAvailableRemaining
           /\ EffectiveRemaining(cell) # 0 =>
                cell.acceptedUnits + EffectiveRemaining(cell) <= cell.configuredStockLimit
  BY DEF EffectiveRemaining, Smaller, Cell

\* The bootstrap and the stored state give a cell; its limit is the request's
\* share, and a stored cell keeps its two counters.
LEMMA CellForType ==
    ASSUME TypeOK, NEW p \in Partitions, NEW r \in Request
    PROVE  /\ LoadInitialState(r) \in Cell
           /\ CellFor(p, r) \in Cell
           /\ CellFor(p, r).acceptedUnits =
                IF inventoryStore[p][r.bucket] = Null THEN 0
                ELSE inventoryStore[p][r.bucket].acceptedUnits
           /\ CellFor(p, r).projectionAvailableRemaining =
                IF inventoryStore[p][r.bucket] = Null
                THEN LoadInitialState(r).projectionAvailableRemaining
                ELSE inventoryStore[p][r.bucket].projectionAvailableRemaining
  <1>1. r.limit \in Nat /\ r.bucket \in Buckets
    BY DEF Request
  <1>2. sku.available \in Nat /\ sku.limit \in Nat \cup {Null}
    BY ParameterAssumption DEF TypeOK
  <1>3. BucketLimitFor(r.limit, r.bucket) \in Nat
    BY <1>1, ShareType
  <1>4. Smaller(sku.available, IF sku.limit = Null THEN r.limit ELSE sku.limit) \in Nat
    BY <1>1, <1>2 DEF Smaller
  <1>5. BucketLimitFor(Smaller(sku.available, IF sku.limit = Null THEN r.limit ELSE sku.limit),
                       r.bucket) \in Nat
    BY <1>1, <1>4, ShareType
  <1>6. LoadInitialState(r) \in Cell
    BY <1>5 DEF LoadInitialState, Cell
  <1>7. inventoryStore[p][r.bucket] \in Cell \cup {Null}
    BY <1>1 DEF TypeOK
  <1>8. CASE inventoryStore[p][r.bucket] = Null
    BY <1>3, <1>6, <1>8 DEF CellFor, Cell, LoadInitialState
  <1>9. CASE inventoryStore[p][r.bucket] \in Cell /\ inventoryStore[p][r.bucket] # Null
    BY <1>3, <1>6, <1>9 DEF CellFor, Cell
  <1> QED BY <1>7, <1>8, <1>9

\* The next probe is a request again, for a bucket that exists.
LEMMA NextProbeType ==
    ASSUME NEW r \in Request, MayProbe(r)
    PROVE  NextProbe(r) \in Request
  <1>1. PrimaryBucket[KeyOf[r.command]] \in Nat
    BY RoutingAssumption DEF Request, Buckets
  <1> DEFINE n == PrimaryBucket[KeyOf[r.command]] + r.attempt + 1
  <1>2. n \in Nat
    BY <1>1, ParameterAssumption DEF Request
  <1>3. r.attempt + 1 \in 0 .. MaxProbe - 1
    BY ParameterAssumption DEF Request, MayProbe
  <1> HIDE DEF n
  <1>4. n % BucketCount \in Buckets
    BY <1>2, Division DEF Buckets
  <1> QED BY <1>3, <1>4 DEF NextProbe, Request, n

\* Reading the head of a partition and taking it off keep the types.
LEMMA HeadType ==
    ASSUME TypeOK, NEW p \in Partitions, requestTopic[p] # <<>>
    PROVE  /\ Head(requestTopic[p]) \in Request
           /\ [requestTopic EXCEPT ![p] = Tail(@)] \in [Partitions -> Seq(Request)]
  BY DEF TypeOK

\* Appending a request to a partition keeps the type of the topic.
LEMMA AppendType ==
    ASSUME NEW topic \in [Partitions -> Seq(Request)], NEW q \in Partitions,
           NEW r \in Request
    PROVE  [topic EXCEPT ![q] = Append(@, r)] \in [Partitions -> Seq(Request)]
  <1>1. Append(topic[q], r) \in Seq(Request)
    OBVIOUS
  <1> QED BY <1>1

\* Writing a decision to a dedupe store, and a cell to an inventory store.
LEMMA StoreTypes ==
    ASSUME TypeOK, NEW p \in Partitions, NEW k \in Keys, NEW b \in Buckets,
           NEW d \in Decision, NEW cell \in Cell
    PROVE  /\ [dedupeStore EXCEPT ![p][k] = d]
                \in [Partitions -> [Keys -> Decision \cup {Null}]]
           /\ [inventoryStore EXCEPT ![p][b] = cell]
                \in [Partitions -> [Buckets -> Cell \cup {Null}]]
  <1>1. [dedupeStore[p] EXCEPT ![k] = d] \in [Keys -> Decision \cup {Null}]
    BY DEF TypeOK
  <1>2. [inventoryStore[p] EXCEPT ![b] = cell] \in [Buckets -> Cell \cup {Null}]
    BY DEF TypeOK
  <1> QED BY <1>1, <1>2 DEF TypeOK

\* A decision on a request is a decision.
LEMMA DecisionType ==
    ASSUME NEW p \in Partitions, NEW r \in Request, NEW s \in {"reserved", "rejected"}
    PROVE  DecisionOn(p, r, s) \in Decision /\ r.command \in Commands /\ KeyOf[r.command] \in Keys
  BY RoutingAssumption DEF DecisionOn, Decision, Request

\* Forwarding one more outcome keeps the type of the results.
LEMMA OutcomeType ==
    ASSUME TypeOK, NEW c \in Commands, NEW d \in Decision, NEW dup \in BOOLEAN
    PROVE  results \cup {[command |-> c, decision |-> d, duplicate |-> dup]} \subseteq Outcome
  <1>1. [command |-> c, decision |-> d, duplicate |-> dup] \in Outcome
    BY Zenon DEF Outcome
  <1> QED BY <1>1 DEF TypeOK

\* Every variable keeps its type, whatever the routing.
THEOREM TypeCorrect == Spec => []TypeOK
  <1>1. Init => TypeOK
    BY ParameterAssumption DEF Init, TypeOK, SendStates
  <1>2. TypeOK /\ [Next]_vars => TypeOK'
    <2> SUFFICES ASSUME TypeOK, [Next]_vars PROVE TypeOK'
      OBVIOUS
    <2>1. ASSUME NEW c \in Commands, NEW limit \in servedLimits, AcceptBuyIntent(c, limit)
          PROVE  TypeOK'
      <3>1. [command |-> c, limit |-> limit, bucket |-> PrimaryBucket[KeyOf[c]],
             attempt |-> 0] \in Request
        BY RoutingAssumption, ParameterAssumption DEF TypeOK, Request
      <3> QED BY <2>1, <3>1 DEF AcceptBuyIntent, TypeOK, SendStates, stores
    <2>2. ASSUME NEW r \in outbox, BrokerAcks(r) \/ AckLostOnDisconnect(r) \/ DeliveryFails(r)
          PROVE  TypeOK'
      <3>1. r \in Request /\ PublishPartition[r.bucket] \in Partitions
        BY RoutingAssumption DEF TypeOK, Request
      <3>2. CASE BrokerAcks(r)
        BY <3>1, <3>2, AppendType DEF BrokerAcks, Published, TypeOK, SendStates, stores
      <3>3. CASE AckLostOnDisconnect(r)
        BY <3>1, <3>3, AppendType DEF AckLostOnDisconnect, Published, TypeOK, SendStates, stores
      <3>4. CASE DeliveryFails(r)
        BY <3>1, <3>4 DEF DeliveryFails, TypeOK, SendStates, stores
      <3> QED BY <2>2, <3>2, <3>3, <3>4
    <2>3. ASSUME NEW limit \in LimitValues, UpdateSeckillConfig(limit)
          PROVE  TypeOK'
      BY <2>3, ParameterAssumption DEF UpdateSeckillConfig, TypeOK, stores
    <2>4. ASSUME NEW n \in 0 .. OnHand, AvailableChanges(n)
          PROVE  TypeOK'
      BY <2>4 DEF AvailableChanges, TypeOK, stores
    <2>5. ASSUME NEW p \in Partitions, Process(p)
          PROVE  TypeOK'
      <3> DEFINE r == Head(requestTopic[p])
      <3>1. requestTopic[p] # <<>>
        BY <2>5 DEF Process
      <3>2. r \in Request /\ [requestTopic EXCEPT ![p] = Tail(@)] \in [Partitions -> Seq(Request)]
        BY <3>1, HeadType
      <3>3. /\ r.command \in Commands /\ KeyOf[r.command] \in Keys
            /\ r.bucket \in Buckets /\ QuantityOf[r.command] \in Nat
        BY <3>2, RoutingAssumption DEF Request
      <3> HIDE DEF r
      <3>4. CASE ForwardDuplicate(p, r)
        <4>1. dedupeStore[p][KeyOf[r.command]] \in Decision
          BY <3>3, <3>4 DEF ForwardDuplicate, Unseen, TypeOK
        <4>2. results' \subseteq Outcome
          BY <3>3, <3>4, <4>1, OutcomeType DEF ForwardDuplicate
        <4> QED BY <3>2, <3>4, <4>2 DEF ForwardDuplicate, Consumed, TypeOK, ingress, stores, r
      <3>5. CASE Reserve(p, r)
        <4> DEFINE cell == CellFor(p, r)
                   q == QuantityOf[r.command]
        <4>1. cell \in Cell
          BY <3>2, CellForType
        <4>2. q \in Nat /\ q <= EffectiveRemaining(cell)
          BY <3>3, <3>5 DEF Reserve, Fits
        <4> HIDE DEF cell, q
        <4>3. q <= cell.projectionAvailableRemaining
          BY <4>1, <4>2, RemainingType DEF Cell
        <4>4. Taken(cell, q) \in Cell
          BY <4>1, <4>2, <4>3 DEF Taken, AtLeastZero, Cell
        <4>5. DecisionOn(p, r, "reserved") \in Decision
          BY <3>2, DecisionType
        <4>6. /\ inventoryStore' \in [Partitions -> [Buckets -> Cell \cup {Null}]]
              /\ dedupeStore' \in [Partitions -> [Keys -> Decision \cup {Null}]]
          BY <3>3, <3>5, <4>4, <4>5, StoreTypes DEF Reserve, Decide, cell, q
        <4>7. results' \subseteq Outcome
          BY <3>3, <3>5, <4>5, OutcomeType DEF Reserve, Decide
        <4> QED BY <3>2, <3>5, <4>6, <4>7 DEF Reserve, Consumed, TypeOK, ingress
      <3>6. CASE ScheduleRetry(p, r)
        <4>1. NextProbe(r) \in Request /\ RetryPartition[NextProbe(r).bucket] \in Partitions
          BY <3>2, <3>6, NextProbeType, RoutingAssumption DEF Request, ScheduleRetry
        <4>2. requestTopic' \in [Partitions -> Seq(Request)]
          BY <3>2, <3>6, <4>1, AppendType DEF ScheduleRetry
        <4> QED BY <3>6, <4>2 DEF ScheduleRetry, TypeOK, ingress, stores
      <3>7. CASE Reject(p, r)
        <4>1. DecisionOn(p, r, "rejected") \in Decision
          BY <3>2, DecisionType
        <4>2. dedupeStore' \in [Partitions -> [Keys -> Decision \cup {Null}]]
          <5>1. PICK cell : cell \in Cell
            BY <3>2, CellForType
          <5> QED BY <3>3, <3>7, <4>1, <5>1, StoreTypes DEF Reject, Decide
        <4>3. results' \subseteq Outcome
          BY <3>3, <3>7, <4>1, OutcomeType DEF Reject, Decide
        <4> QED BY <3>2, <3>7, <4>2, <4>3 DEF Reject, Consumed, TypeOK, ingress
      <3> QED BY <2>5, <3>4, <3>5, <3>6, <3>7 DEF Process, r
    <2>6. ASSUME NEW p \in Partitions, Skip(p)
          PROVE  TypeOK'
      BY <2>6, HeadType DEF Skip, SkipOnBootstrapFailure, Consumed, TypeOK, ingress, stores
    <2>7. CASE UNCHANGED vars
      BY <2>7 DEF TypeOK, vars
    <2> QED BY <2>1, <2>2, <2>3, <2>4, <2>5, <2>6, <2>7 DEF Next
  <1> QED BY <1>1, <1>2, PTL DEF Spec


------------------------------------------------------------------------------
(* Steps of the worker, seen from the record they read *)

\* A step of a task reads the head of its partition, a request.
LEMMA RecordType ==
    ASSUME TypeOK, NEW p \in Partitions, requestTopic[p] # <<>>,
           NEW r, r = Head(requestTopic[p])
    PROVE  /\ r \in Request
           /\ r.command \in Commands /\ KeyOf[r.command] \in Keys
           /\ r.bucket \in Buckets /\ QuantityOf[r.command] \in Nat \ {0}
  <1>1. r \in Request
    BY HeadType
  <1> QED BY <1>1, RoutingAssumption DEF Request

\* Only Reserve writes a cell.
LEMMA OnlyReserveWritesCells ==
    ASSUME [Next]_vars
    PROVE  \/ UNCHANGED inventoryStore
           \/ \E p \in Partitions : /\ requestTopic[p] # <<>>
                                     /\ Reserve(p, Head(requestTopic[p]))
  BY DEF Next, vars, AcceptBuyIntent, BrokerAcks, AckLostOnDisconnect, DeliveryFails,
         UpdateSeckillConfig, AvailableChanges, Process, ForwardDuplicate, ScheduleRetry,
         Reject, Skip, SkipOnBootstrapFailure, stores, ingress

\* Only a decision or its repetition writes an outcome or a dedupe store.
LEMMA OnlyDecisionsWriteOutcomes ==
    ASSUME [Next]_vars
    PROVE  \/ UNCHANGED <<dedupeStore, results>>
           \/ \E p \in Partitions :
                /\ requestTopic[p] # <<>>
                /\ LET r == Head(requestTopic[p]) IN
                   \/ ForwardDuplicate(p, r)
                   \/ \E s \in {"reserved", "rejected"} :
                         Unseen(p, r) /\ Decide(p, r, DecisionOn(p, r, s))
  <1>1. CASE \E p \in Partitions : Process(p)
    BY <1>1 DEF Process, Reserve, Reject, ScheduleRetry, stores, ingress
  <1>2. CASE ~ \E p \in Partitions : Process(p)
    BY <1>2 DEF Next, vars, AcceptBuyIntent, BrokerAcks, AckLostOnDisconnect, DeliveryFails,
         UpdateSeckillConfig, AvailableChanges, Skip, SkipOnBootstrapFailure, stores, ingress
  <1> QED BY <1>1, <1>2

------------------------------------------------------------------------------
(* A bucket's promises stay within its share *)

\* The cell a reservation leaves behind keeps to the request's limit and to the
\* share of the stock on hand.
LEMMA ReservedCellWithinShare ==
    ASSUME TypeOK, CellWithinShare, NEW p \in Partitions, NEW r \in Request, Fits(p, r)
    PROVE  LET cell == Taken(CellFor(p, r), QuantityOf[r.command]) IN
           /\ cell.acceptedUnits <= cell.configuredStockLimit
           /\ cell.acceptedUnits + cell.projectionAvailableRemaining
                <= BucketLimitFor(OnHand, r.bucket)
  <1> DEFINE before == CellFor(p, r)
             q      == QuantityOf[r.command]
  <1>1. before \in Cell
    BY CellForType
  <1>2. q \in Nat \ {0} /\ r.bucket \in Buckets /\ r.limit \in Nat
    BY RoutingAssumption DEF Request
  <1>3. q <= EffectiveRemaining(before)
    BY DEF Fits
  <1>4. before.acceptedUnits + before.projectionAvailableRemaining
          <= BucketLimitFor(OnHand, r.bucket)
    <2>1. CASE inventoryStore[p][r.bucket] = Null
      <3> DEFINE total == Smaller(sku.available, IF sku.limit = Null THEN r.limit ELSE sku.limit)
      <3>1. total \in Nat /\ OnHand \in Nat /\ total <= OnHand
        BY <1>2, ParameterAssumption DEF TypeOK, Smaller
      <3>2. BucketLimitFor(total, r.bucket) <= BucketLimitFor(OnHand, r.bucket)
        BY <1>2, <3>1, ShareMonotone
      <3>3. LoadInitialState(r).projectionAvailableRemaining = BucketLimitFor(total, r.bucket)
        BY DEF LoadInitialState
      <3>4. before.acceptedUnits = 0
            /\ before.projectionAvailableRemaining = BucketLimitFor(total, r.bucket)
        BY <2>1, <3>3, CellForType
      <3>5. BucketLimitFor(total, r.bucket) \in Nat
        BY <1>2, <3>1, ShareType
      <3> HIDE DEF total, before
      <3> QED BY <3>2, <3>4, <3>5
    <2>2. CASE inventoryStore[p][r.bucket] # Null
      BY <1>2, <2>2, CellForType DEF CellWithinShare
    <2> QED BY <2>1, <2>2
  <1> HIDE DEF before, q
  <1>5. before.acceptedUnits + q <= before.configuredStockLimit
    BY <1>1, <1>2, <1>3, RemainingType DEF Cell
  <1>6. BucketLimitFor(OnHand, r.bucket) \in Nat
    BY <1>2, ShareType, ParameterAssumption
  <1>7. /\ Taken(before, q).acceptedUnits = before.acceptedUnits + q
        /\ Taken(before, q).configuredStockLimit = before.configuredStockLimit
        /\ Taken(before, q).projectionAvailableRemaining = before.projectionAvailableRemaining - q
    <2>1. q <= before.projectionAvailableRemaining
      BY <1>1, <1>2, <1>3, RemainingType DEF Cell
    <2>2. AtLeastZero(before.projectionAvailableRemaining - q) = before.projectionAvailableRemaining - q
      BY <1>1, <1>2, <2>1 DEF AtLeastZero, Cell
    <2> QED BY <2>2 DEF Taken
  <1>8. /\ before.acceptedUnits \in Nat /\ before.projectionAvailableRemaining \in Nat
        /\ before.configuredStockLimit \in Nat
    BY <1>1 DEF Cell
  <1>9. /\ Taken(before, q).acceptedUnits <= Taken(before, q).configuredStockLimit
        /\ Taken(before, q).acceptedUnits + Taken(before, q).projectionAvailableRemaining
             <= BucketLimitFor(OnHand, r.bucket)
    BY <1>2, <1>4, <1>5, <1>6, <1>7, <1>8
  <1> QED BY <1>9 DEF before, q

\* However limits and stock change between the bootstraps of the buckets, and
\* wherever retries go, a cell keeps to the limit it accepted under and to its
\* bucket's share of the stock on hand.
THEOREM SharesKept == Spec => []CellWithinShare
  <1>1. Init => CellWithinShare
    BY DEF Init, CellWithinShare
  <1>2. TypeOK /\ CellWithinShare /\ [Next]_vars => CellWithinShare'
    <2> SUFFICES ASSUME TypeOK, CellWithinShare, [Next]_vars,
                        NEW q \in Partitions, NEW b \in Buckets, inventoryStore'[q][b] # Null
                 PROVE  /\ inventoryStore'[q][b].acceptedUnits
                             <= inventoryStore'[q][b].configuredStockLimit
                        /\ inventoryStore'[q][b].acceptedUnits
                             + inventoryStore'[q][b].projectionAvailableRemaining
                             <= BucketLimitFor(OnHand, b)
      BY DEF CellWithinShare, BucketLimitFor
    <2>1. CASE UNCHANGED inventoryStore
      BY <2>1 DEF CellWithinShare
    <2>2. ASSUME NEW p \in Partitions, requestTopic[p] # <<>>,
                 Reserve(p, Head(requestTopic[p]))
          PROVE  /\ inventoryStore'[q][b].acceptedUnits
                      <= inventoryStore'[q][b].configuredStockLimit
                 /\ inventoryStore'[q][b].acceptedUnits
                      + inventoryStore'[q][b].projectionAvailableRemaining
                      <= BucketLimitFor(OnHand, b)
      <3> DEFINE r == Head(requestTopic[p])
                 cell == Taken(CellFor(p, r), QuantityOf[r.command])
      <3>1. r \in Request /\ r.bucket \in Buckets
        BY <2>2, RecordType
      <3>2. Fits(p, r) /\ inventoryStore' = [inventoryStore EXCEPT ![p][r.bucket] = cell]
        BY <2>2 DEF Reserve
      <3>3. /\ cell.acceptedUnits <= cell.configuredStockLimit
            /\ cell.acceptedUnits + cell.projectionAvailableRemaining
                 <= BucketLimitFor(OnHand, r.bucket)
        BY <3>1, <3>2, ReservedCellWithinShare
      <3> HIDE DEF r, cell
      <3>4. CASE q = p /\ b = r.bucket
        <4>1. inventoryStore'[q][b] = cell
          BY <3>1, <3>2, <3>4 DEF TypeOK
        <4> QED BY <3>3, <3>4, <4>1
      <3>5. CASE ~(q = p /\ b = r.bucket)
        <4>1. inventoryStore'[q][b] = inventoryStore[q][b]
          BY <3>1, <3>2, <3>5 DEF TypeOK
        <4> QED BY <4>1 DEF CellWithinShare
      <3> QED BY <3>4, <3>5
    <2> QED BY <2>1, <2>2, OnlyReserveWritesCells
  <1> QED BY <1>1, <1>2, TypeCorrect, PTL DEF Spec

------------------------------------------------------------------------------
(* One decision per task and dedupe key *)

\* The strengthening: what a dedupe store holds was decided by its own task, and
\* was forwarded fresh to the command it was made for.
StoredDecisionForwarded ==
    \A p \in Partitions, k \in Keys :
        LET d == dedupeStore[p][k] IN
        d # Null =>
            /\ d.partition = p
            /\ \E f \in results : ~f.duplicate /\ f.decision = d /\ f.command = d.command

DecisionInv == OneDecisionPerTask /\ StoredDecisionForwarded

\* Repeating the stored decision keeps the invariant.
LEMMA DuplicateKeepsDecisions ==
    ASSUME TypeOK, DecisionInv, NEW p \in Partitions, NEW r \in Request, ForwardDuplicate(p, r)
    PROVE  DecisionInv'
  <1> DEFINE d == dedupeStore[p][KeyOf[r.command]]
             o == [command |-> r.command, decision |-> d, duplicate |-> TRUE]
  <1>1. results' = results \cup {o} /\ UNCHANGED dedupeStore /\ d # Null
    BY DEF ForwardDuplicate, stores, Unseen
  <1>2. o.command = r.command /\ o.decision = d
    OBVIOUS
  <1>3. p \in Partitions /\ KeyOf[r.command] \in Keys
    BY RoutingAssumption DEF Request
  <1>4. d.partition = p /\ \E f \in results : ~f.duplicate /\ f.decision = d
                                             /\ f.command = d.command
    BY <1>1, <1>3 DEF DecisionInv, StoredDecisionForwarded
  <1>5. dedupeStore[o.decision.partition][KeyOf[o.command]] = o.decision
    BY <1>2, <1>4
  <1> HIDE DEF o
  <1>6. OneDecisionPerTask'
    BY <1>1, <1>2, <1>4, <1>5 DEF DecisionInv, OneDecisionPerTask
  <1>7. StoredDecisionForwarded'
    BY <1>1 DEF DecisionInv, StoredDecisionForwarded
  <1> QED BY <1>6, <1>7 DEF DecisionInv

\* A fresh decision keeps the invariant: no outcome of the task carried the key
\* before, since the store did not know it.
LEMMA DecisionKeepsDecisions ==
    ASSUME TypeOK, DecisionInv, NEW p \in Partitions, NEW r \in Request,
           NEW s \in {"reserved", "rejected"},
           Unseen(p, r), Decide(p, r, DecisionOn(p, r, s))
    PROVE  DecisionInv'
  <1> DEFINE k == KeyOf[r.command]
             d == DecisionOn(p, r, s)
             o == [command |-> r.command, decision |-> d, duplicate |-> FALSE]
  <1>1. /\ dedupeStore' = [dedupeStore EXCEPT ![p][k] = d]
        /\ results' = results \cup {o}
        /\ dedupeStore[p][k] = Null
    BY DEF Decide, Unseen
  <1>2. k \in Keys /\ d \in Decision
    BY DecisionType
  <1>3. d.partition = p /\ d.command = r.command
    BY DEF DecisionOn
  <1>4. ~o.duplicate /\ o.decision = d /\ o.command = r.command
    OBVIOUS
  <1>5. KeyOf[o.command] = k
    BY <1>4
  <1>6. dedupeStore'[p][k] = d
    BY <1>1, <1>2 DEF TypeOK
  <1>7. \A q \in Partitions, j \in Keys :
          ~(q = p /\ j = k) => dedupeStore'[q][j] = dedupeStore[q][j]
    BY <1>1, <1>2 DEF TypeOK
  <1> HIDE DEF k, d, o
  <1>8. OneDecisionPerTask'
    <2>1. SUFFICES ASSUME NEW x \in results'
                   PROVE  /\ dedupeStore'[x.decision.partition][KeyOf[x.command]] = x.decision
                          /\ \E f \in results' : ~f.duplicate /\ f.decision = x.decision
                                                 /\ f.command = x.decision.command
      BY DEF OneDecisionPerTask
    <2>2. CASE x = o
      BY <1>1, <1>3, <1>4, <1>5, <1>6, <2>2
    <2>3. CASE x \in results
      <3>1. /\ x.decision \in Decision /\ x.decision.partition \in Partitions
            /\ KeyOf[x.command] \in Keys
        BY <2>3, RoutingAssumption DEF TypeOK, Outcome, Decision
      <3>2. dedupeStore[x.decision.partition][KeyOf[x.command]] = x.decision
        BY <2>3 DEF DecisionInv, OneDecisionPerTask
      <3>3. ~(x.decision.partition = p /\ KeyOf[x.command] = k)
        BY <1>1, <3>1, <3>2, NullAssumption
      <3>4. dedupeStore'[x.decision.partition][KeyOf[x.command]] = x.decision
        BY <1>7, <3>1, <3>2, <3>3
      <3>5. \E f \in results : ~f.duplicate /\ f.decision = x.decision
                              /\ f.command = x.decision.command
        BY <2>3 DEF DecisionInv, OneDecisionPerTask
      <3> QED BY <1>1, <3>4, <3>5
    <2> QED BY <1>1, <2>2, <2>3
  <1>9. StoredDecisionForwarded'
    <2>1. SUFFICES ASSUME NEW q \in Partitions, NEW j \in Keys, dedupeStore'[q][j] # Null
                   PROVE  /\ dedupeStore'[q][j].partition = q
                          /\ \E f \in results' : /\ ~f.duplicate
                                                /\ f.decision = dedupeStore'[q][j]
                                                /\ f.command = dedupeStore'[q][j].command
      BY DEF StoredDecisionForwarded
    <2>2. CASE q = p /\ j = k
      BY <1>1, <1>3, <1>4, <1>6, <2>2
    <2>3. CASE ~(q = p /\ j = k)
      <3>1. dedupeStore'[q][j] = dedupeStore[q][j]
        BY <1>7, <2>3
      <3> QED BY <1>1, <2>1, <3>1 DEF DecisionInv, StoredDecisionForwarded
    <2> QED BY <2>2, <2>3
  <1> QED BY <1>8, <1>9 DEF DecisionInv

\* Every outcome a task forwards for a key, fresh or repeated, carries the one
\* decision its store holds for the key, and that decision was forwarded fresh.
THEOREM DecidedOnce == Spec => []OneDecisionPerTask
  <1>1. Init => DecisionInv
    BY DEF Init, DecisionInv, OneDecisionPerTask, StoredDecisionForwarded
  <1>2. TypeOK /\ DecisionInv /\ [Next]_vars => DecisionInv'
    <2> SUFFICES ASSUME TypeOK, DecisionInv, [Next]_vars PROVE DecisionInv'
      OBVIOUS
    <2>1. CASE UNCHANGED <<dedupeStore, results>>
      BY <2>1 DEF DecisionInv, OneDecisionPerTask, StoredDecisionForwarded
    <2>2. ASSUME NEW p \in Partitions, requestTopic[p] # <<>>,
                 ForwardDuplicate(p, Head(requestTopic[p]))
          PROVE  DecisionInv'
      BY <2>2, RecordType, DuplicateKeepsDecisions
    <2>3. ASSUME NEW p \in Partitions, requestTopic[p] # <<>>,
                 NEW s \in {"reserved", "rejected"},
                 Unseen(p, Head(requestTopic[p])),
                 Decide(p, Head(requestTopic[p]), DecisionOn(p, Head(requestTopic[p]), s))
          PROVE  DecisionInv'
      BY <2>3, RecordType, DecisionKeepsDecisions
    <2> QED BY <2>1, <2>2, <2>3, OnlyDecisionsWriteOutcomes
  <1>3. DecisionInv => OneDecisionPerTask
    BY DEF DecisionInv
  <1> QED BY <1>1, <1>2, <1>3, TypeCorrect, PTL DEF Spec

------------------------------------------------------------------------------
(* One task per bucket, when the producers agree on the routing *)

\* The requests that belong on partition p.
RequestsOf(p) == {r \in Request : RetryPartition[r.bucket] = p}

\* The strengthening: every unread record is on the partition of its bucket.
RecordsInPlace == \A p \in Partitions : requestTopic[p] \in Seq(RequestsOf(p))

RoutingInv ==
    PublishPartition = RetryPartition => OneTaskPerBucket /\ RecordsInPlace

\* Publishing a record on the partition of its bucket keeps the records in place.
LEMMA AppendInPlace ==
    ASSUME NEW topic \in [Partitions -> Seq(Request)],
           \A p \in Partitions : topic[p] \in Seq(RequestsOf(p)),
           NEW r \in Request, RetryPartition[r.bucket] \in Partitions
    PROVE  LET after == [topic EXCEPT ![RetryPartition[r.bucket]] = Append(@, r)] IN
           \A p \in Partitions : after[p] \in Seq(RequestsOf(p))
  <1> DEFINE q == RetryPartition[r.bucket]
             after == [topic EXCEPT ![q] = Append(@, r)]
  <1>1. r \in RequestsOf(q) /\ topic[q] \in Seq(RequestsOf(q))
    BY DEF RequestsOf
  <1>2. Append(topic[q], r) \in Seq(RequestsOf(q))
    BY <1>1
  <1>3. \A p \in Partitions : after[p] = IF p = q THEN Append(topic[q], r) ELSE topic[p]
    OBVIOUS
  <1> HIDE DEF q, after
  <1>4. \A p \in Partitions : after[p] \in Seq(RequestsOf(p))
    BY <1>2, <1>3
  <1> QED BY <1>4 DEF q, after

\* Consuming a record keeps the others in place.
LEMMA TailInPlace ==
    ASSUME TypeOK, RecordsInPlace, NEW q \in Partitions, requestTopic[q] # <<>>
    PROVE  /\ Head(requestTopic[q]) \in RequestsOf(q)
           /\ \A p \in Partitions :
                [requestTopic EXCEPT ![q] = Tail(@)][p] \in Seq(RequestsOf(p))
  <1>1. requestTopic[q] \in Seq(RequestsOf(q))
    BY DEF RecordsInPlace
  <1>2. Head(requestTopic[q]) \in RequestsOf(q) /\ Tail(requestTopic[q]) \in Seq(RequestsOf(q))
    BY <1>1
  <1>3. \A p \in Partitions : [requestTopic EXCEPT ![q] = Tail(@)][p] =
                               IF p = q THEN Tail(requestTopic[q]) ELSE requestTopic[p]
    BY DEF TypeOK
  <1> QED BY <1>2, <1>3 DEF RecordsInPlace

\* Records stay on the partition of their bucket, and a bucket with one task, in every
\* reachable state.
LEMMA RoutingKept == Spec => []RoutingInv
  <1>1. Init => RoutingInv
    <2> SUFFICES ASSUME Init PROVE RoutingInv
      OBVIOUS
    <2>1. OneTaskPerBucket
      BY DEF Init, OneTaskPerBucket
    <2>2. RecordsInPlace
      BY DEF Init, RecordsInPlace
    <2> QED BY <2>1, <2>2 DEF RoutingInv
  <1>2. TypeOK /\ RoutingInv /\ [Next]_vars => RoutingInv'
    <2> SUFFICES ASSUME TypeOK, [Next]_vars, PublishPartition = RetryPartition,
                        OneTaskPerBucket, RecordsInPlace
                 PROVE  OneTaskPerBucket' /\ RecordsInPlace'
      BY DEF RoutingInv
    <2>1. OneTaskPerBucket'
      <3>1. CASE UNCHANGED inventoryStore
        BY <3>1 DEF OneTaskPerBucket
      <3>2. ASSUME NEW q \in Partitions, requestTopic[q] # <<>>,
                   Reserve(q, Head(requestTopic[q]))
            PROVE  OneTaskPerBucket'
        <4> DEFINE r == Head(requestTopic[q])
                   cell == Taken(CellFor(q, r), QuantityOf[r.command])
        <4>1. r \in RequestsOf(q)
          BY <3>2, TailInPlace
        <4>2. inventoryStore' = [inventoryStore EXCEPT ![q][r.bucket] = cell]
          BY <3>2 DEF Reserve
        <4> HIDE DEF r, cell
        <4>3. \A p \in Partitions, b \in Buckets :
                ~(p = q /\ b = r.bucket) => inventoryStore'[p][b] = inventoryStore[p][b]
          BY <4>2 DEF TypeOK
        <4>4. RetryPartition[r.bucket] = q
          BY <4>1 DEF RequestsOf
        <4> QED BY <4>3, <4>4 DEF OneTaskPerBucket
      <3> QED BY <3>1, <3>2, OnlyReserveWritesCells
    <2>2. RecordsInPlace'
      <3>1. ASSUME NEW r \in outbox, Published(r)
            PROVE  RecordsInPlace'
        <4>1. r \in Request /\ RetryPartition[r.bucket] \in Partitions
          BY RoutingAssumption DEF TypeOK, Request
        <4> QED BY <3>1, <4>1, AppendInPlace DEF Published, TypeOK, RecordsInPlace
      <3>2. ASSUME NEW p \in Partitions, requestTopic[p] # <<>>, Consumed(p)
            PROVE  RecordsInPlace'
        BY <3>2, TailInPlace DEF Consumed, RecordsInPlace
      <3>3. ASSUME NEW p \in Partitions, requestTopic[p] # <<>>,
                   ScheduleRetry(p, Head(requestTopic[p]))
            PROVE  RecordsInPlace'
        <4> DEFINE next == NextProbe(Head(requestTopic[p]))
                   rest == [requestTopic EXCEPT ![p] = Tail(@)]
        <4>1. next \in Request
          BY <3>3, RecordType, NextProbeType DEF ScheduleRetry
        <4>2. RetryPartition[next.bucket] \in Partitions
          BY <4>1, RoutingAssumption DEF Request
        <4>3. rest \in [Partitions -> Seq(Request)]
          BY <3>3, HeadType
        <4>4. \A q \in Partitions : rest[q] \in Seq(RequestsOf(q))
          BY <3>3, TailInPlace
        <4>5. requestTopic' = [rest EXCEPT ![RetryPartition[next.bucket]] = Append(@, next)]
          BY <3>3 DEF ScheduleRetry
        <4> HIDE DEF next, rest
        <4> QED BY <4>1, <4>2, <4>3, <4>4, <4>5, AppendInPlace DEF RecordsInPlace
      <3>4. CASE UNCHANGED requestTopic
        BY <3>4 DEF RecordsInPlace
      <3> QED BY <3>1, <3>2, <3>3, <3>4 DEF Next, vars, AcceptBuyIntent, BrokerAcks,
             AckLostOnDisconnect, DeliveryFails, UpdateSeckillConfig, AvailableChanges,
             Process, ForwardDuplicate, Reserve, Reject, Skip, SkipOnBootstrapFailure
    <2> QED BY <2>1, <2>2
  <1> QED BY <1>1, <1>2, TypeCorrect, PTL DEF Spec

\* If the ingress and the worker agree on the partition of every bucket, no two
\* tasks ever keep a cell of one bucket, whatever is probed, repeated or skipped.
THEOREM OneTask == Spec => []OneTaskPerBucket
  <1>1. RoutingInv => OneTaskPerBucket
    BY DEF RoutingInv, OneTaskPerBucket
  <1> QED BY <1>1, RoutingKept, PTL

------------------------------------------------------------------------------
(* No oversell *)

\* The shares of the buckets before k.
SharesBefore(total, k) ==
    k * (total \div BucketCount) + Smaller(k, total % BucketCount)

\* The shares add up to the total, whether or not the number of buckets divides it.
LEMMA SharesAddUp ==
    ASSUME NEW total \in Nat
    PROVE  /\ \A k \in 0 .. BucketCount : SharesBefore(total, k) \in Nat
           /\ \A k \in Buckets :
                 SharesBefore(total, k) + BucketLimitFor(total, k) = SharesBefore(total, k + 1)
           /\ SharesBefore(total, BucketCount) = total
  <1> DEFINE q == total \div BucketCount
             r == total % BucketCount
  <1>1. q \in Nat /\ r \in 0 .. BucketCount - 1 /\ total = BucketCount * q + r
    BY Division
  <1>2. BucketCount \in Nat \ {0}
    BY ParameterAssumption
  <1>3. \A k : SharesBefore(total, k) = k * q + Smaller(k, r)
    BY DEF SharesBefore
  <1>4. \A k : BucketLimitFor(total, k) = q + (IF k < r THEN 1 ELSE 0)
    BY DEF BucketLimitFor
  <1> HIDE DEF q, r
  <1>5. ASSUME NEW k \in 0 .. BucketCount PROVE SharesBefore(total, k) \in Nat
    <2>1. k * q \in Nat /\ Smaller(k, r) \in Nat
      BY <1>1, <1>2 DEF Smaller
    <2> QED
      BY <1>3, <2>1
  <1>6. ASSUME NEW k \in Buckets
        PROVE  SharesBefore(total, k) + BucketLimitFor(total, k) = SharesBefore(total, k + 1)
    <2>1. k \in Nat /\ k * q \in Nat
      BY <1>1 DEF Buckets
    <2>2. (k + 1) * q = k * q + q
      BY <1>1, <2>1
    <2>3. Smaller(k, r) + (IF k < r THEN 1 ELSE 0) = Smaller(k + 1, r)
      BY <1>1, <1>2, <2>1 DEF Smaller
    <2>4. Smaller(k, r) \in Nat /\ Smaller(k + 1, r) \in Nat
      BY <1>1, <1>2, <2>1 DEF Smaller
    <2> QED
      BY <1>1, <1>3, <1>4, <2>1, <2>2, <2>3, <2>4
  <1>7. SharesBefore(total, BucketCount) = total
    <2>1. Smaller(BucketCount, r) = r
      BY <1>1, <1>2 DEF Smaller
    <2> QED
      BY <1>1, <1>3, <2>1
  <1> QED
    BY <1>5, <1>6, <1>7

\* The units of an outcome.
QuantityIn == [o \in Outcome |-> o.decision.quantity]

\* Units is the number of tokens of SumLemmas.
LEMMA UnitsAreCounted ==
    ASSUME NEW S \in SUBSET Outcome, IsFiniteSet(S)
    PROVE  Units(S) = Count(QuantityIn, S)
  <1> DEFINE Rec(g) == g = [T \in SUBSET S |-> IF T = {} THEN 0
                  ELSE (CHOOSE x \in T : TRUE).decision.quantity + g[T \ {CHOOSE x \in T : TRUE}]]
             i == CHOOSE g : Rec(g)
  <1>1. \A x \in S : QuantityIn[x] \in Nat /\ QuantityIn[x] = x.decision.quantity
    BY RoutingAssumption DEF QuantityIn, Outcome, Decision
  <1>2. \A g : Rec(g) <=> Sums(g, QuantityIn, S)
    BY <1>1 DEF Sums
  <1>3. \E g : Rec(g)
    BY <1>1, <1>2, CountSums
  <1>4. Rec(i)
    BY <1>3
  <1>5. Units(S) = i[S]
    BY DEF Units, MapThenSumSet, MapThenFoldSet
  <1> HIDE DEF i, Rec
  <1> QED
    BY <1>1, <1>2, <1>4, <1>5, SumsCount

\* What the task of a partition has reserved from a bucket.
ReservedBy(p, b) == {o \in Reservations : o.decision.partition = p /\ o.decision.bucket = b}

\* A cell has accepted at least what its task has reserved from the bucket, and there are
\* no reservations without a cell.
StockInv ==
    /\ IsFiniteSet(Reservations)
    /\ \A p \in Partitions, b \in Buckets :
          IF inventoryStore[p][b] = Null THEN ReservedBy(p, b) = {}
          ELSE Count(QuantityIn, ReservedBy(p, b)) <= inventoryStore[p][b].acceptedUnits

\* A reservation is made and counted in one step.
LEMMA OnlyReserveReserves ==
    ASSUME TypeOK, [Next]_vars
    PROVE  \/ inventoryStore' = inventoryStore /\ Reservations' = Reservations
           \/ \E p \in Partitions : requestTopic[p] # <<>> /\ Reserve(p, Head(requestTopic[p]))
  <1>1. ASSUME NEW o, results' = results \cup {o}, o.duplicate \/ o.decision.status = "rejected"
        PROVE  Reservations' = Reservations
    BY <1>1 DEF Reservations
  <1>2. CASE results' = results
    BY <1>2, OnlyReserveWritesCells DEF Reservations
  <1>3. ASSUME NEW p \in Partitions, Process(p)
        PROVE  \/ inventoryStore' = inventoryStore /\ Reservations' = Reservations
               \/ requestTopic[p] # <<>> /\ Reserve(p, Head(requestTopic[p]))
    <2> DEFINE r == Head(requestTopic[p])
    <2>1. CASE ForwardDuplicate(p, r)
      <3> DEFINE o == [command |-> r.command, decision |-> dedupeStore[p][KeyOf[r.command]],
                       duplicate |-> TRUE]
      <3>1. results' = results \cup {o} /\ o.duplicate /\ inventoryStore' = inventoryStore
        BY <2>1 DEF ForwardDuplicate, stores
      <3> HIDE DEF o
      <3> QED
        BY <3>1, <1>1
    <2>2. CASE Reject(p, r)
      <3> DEFINE o == [command |-> r.command, decision |-> DecisionOn(p, r, "rejected"),
                       duplicate |-> FALSE]
      <3>1. results' = results \cup {o} /\ o.decision.status = "rejected"
        BY <2>2 DEF Reject, Decide, DecisionOn
      <3>2. inventoryStore' = inventoryStore
        BY <2>2 DEF Reject
      <3> HIDE DEF o
      <3> QED
        BY <3>1, <3>2, <1>1
    <2>3. CASE ScheduleRetry(p, r)
      BY <2>3 DEF ScheduleRetry, stores, Reservations
    <2> QED
      BY <1>3, <2>1, <2>2, <2>3 DEF Process
  <1>4. CASE ~ \E p \in Partitions : Process(p)
    <2>1. results' = results
      BY <1>4 DEF Next, vars, AcceptBuyIntent, BrokerAcks, AckLostOnDisconnect, DeliveryFails,
         UpdateSeckillConfig, AvailableChanges, Skip, SkipOnBootstrapFailure, stores, ingress
    <2> QED
      BY <1>2, <2>1
  <1> QED
    BY <1>3, <1>4

\* The bookkeeping of a cell keeps up with what its task reserves.
LEMMA ReserveKeepsStock ==
    ASSUME TypeOK, StockInv, NEW p \in Partitions, NEW r \in Request, Reserve(p, r)
    PROVE  StockInv'
  <1> DEFINE units == QuantityOf[r.command]
             cell == CellFor(p, r)
             o == [command |-> r.command, decision |-> DecisionOn(p, r, "reserved"),
                   duplicate |-> FALSE]
  <1>1. /\ inventoryStore' = [inventoryStore EXCEPT ![p][r.bucket] = Taken(cell, units)]
        /\ results' = results \cup {o}
    BY DEF Reserve, Decide
  <1>2. /\ o.decision.status = "reserved" /\ ~o.duplicate
        /\ o.decision.partition = p /\ o.decision.bucket = r.bucket
        /\ o.decision.quantity = units
    BY DEF DecisionOn
  <1>3. o \in Outcome /\ r.bucket \in Buckets /\ units \in Nat
    <2>1. DecisionOn(p, r, "reserved") \in Decision /\ r.command \in Commands
      BY DecisionType
    <2>2. o \in Outcome
      BY <2>1, Zenon DEF Outcome
    <2> QED
      BY <2>2, RoutingAssumption DEF Request
  <1>4. QuantityIn[o] = units
    BY <1>2, <1>3 DEF QuantityIn
  <1>5. cell \in Cell /\ cell.acceptedUnits \in Nat
    BY CellForType DEF Cell
  <1>6. Taken(cell, units).acceptedUnits = cell.acceptedUnits + units
    BY DEF Taken
  <1>7. cell.acceptedUnits = IF inventoryStore[p][r.bucket] = Null THEN 0
                             ELSE inventoryStore[p][r.bucket].acceptedUnits
    BY CellForType
  <1>8. Taken(cell, units) # Null
    <2>1. Fits(p, r)
      BY DEF Reserve
    <2>2. units <= cell.projectionAvailableRemaining
      BY <1>3, <1>5, <2>1, RemainingType DEF Fits, Cell
    <2>3. Taken(cell, units) \in Cell
      BY <1>3, <1>5, <2>2 DEF Taken, AtLeastZero, Cell
    <2> QED
      BY <2>3, NullAssumption
  <1>9. \A q \in Partitions, b \in Buckets :
          inventoryStore'[q][b] = IF q = p /\ b = r.bucket THEN Taken(cell, units)
                                  ELSE inventoryStore[q][b]
    BY <1>1, <1>3 DEF TypeOK
  <1> HIDE DEF o, cell, units
  <1>10. Reservations' = Reservations \cup {o}
    BY <1>1, <1>2 DEF Reservations
  <1>11. IsFiniteSet(Reservations')
    BY <1>10, FS_AddElement DEF StockInv
  <1>12. \A q, b : ReservedBy(q, b)' =
            IF q = p /\ b = r.bucket THEN ReservedBy(q, b) \cup {o} ELSE ReservedBy(q, b)
    BY <1>2, <1>10 DEF ReservedBy
  <1>13. ASSUME NEW q \in Partitions, NEW b \in Buckets
         PROVE  IF inventoryStore'[q][b] = Null THEN ReservedBy(q, b)' = {}
                ELSE Count(QuantityIn, ReservedBy(q, b)') <= inventoryStore'[q][b].acceptedUnits
    <2>1. CASE q = p /\ b = r.bucket
      <3> DEFINE S == ReservedBy(p, r.bucket)
      <3>1. IsFiniteSet(S) /\ \A x \in S \cup {o} : QuantityIn[x] \in Nat
        <4>1. S \subseteq Reservations /\ S \subseteq Outcome
          BY DEF ReservedBy, Reservations, TypeOK
        <4> HIDE DEF S
        <4> QED
          BY <1>3, <1>4, <4>1, FS_Subset, RoutingAssumption DEF StockInv, QuantityIn, Outcome, Decision
      <3>2. Count(QuantityIn, S) <= cell.acceptedUnits
        <4>1. CASE inventoryStore[p][r.bucket] = Null
          <5>1. S = {}
            BY <1>3, <4>1 DEF StockInv
          <5> HIDE DEF S
          <5>2. Count(QuantityIn, S) = 0
            BY <5>1, CountEmpty
          <5> QED
            BY <1>7, <4>1, <5>2
        <4>2. CASE inventoryStore[p][r.bucket] # Null
          BY <1>3, <1>7, <4>2 DEF StockInv
        <4> QED
          BY <4>1, <4>2
      <3>3. Count(QuantityIn, S) \in Nat
        BY <3>1, TokensFinite
      <3>4. Count(QuantityIn, S \cup {o}) <= cell.acceptedUnits + units
        <4>1. CASE o \in S
          <5>1. S \cup {o} = S
            BY <4>1
          <5> HIDE DEF S
          <5>2. Count(QuantityIn, S \cup {o}) = Count(QuantityIn, S)
            BY <5>1
          <5> QED
            BY <1>3, <1>5, <3>2, <3>3, <5>2
        <4>2. CASE o \notin S
          <5> HIDE DEF S
          <5>1. Count(QuantityIn, S \cup {o}) = Count(QuantityIn, S) + units
            BY <1>4, <3>1, <4>2, CountAdd
          <5> QED
            BY <1>3, <1>5, <3>2, <3>3, <5>1
        <4> QED
          BY <4>1, <4>2
      <3> QED
        BY <1>6, <1>8, <1>9, <1>12, <2>1, <3>4
    <2>2. CASE ~(q = p /\ b = r.bucket)
      BY <1>9, <1>12, <2>2 DEF StockInv
    <2> QED
      BY <2>1, <2>2
  <1> QED
    BY <1>11, <1>13 DEF StockInv

\* Every reservation is counted in a cell, in every reachable state.
LEMMA StockKept == Spec => []StockInv
  <1>1. Init => StockInv
    <2> SUFFICES ASSUME Init PROVE StockInv
      OBVIOUS
    <2>1. Reservations = {}
      BY DEF Init, Reservations
    <2>2. \A p, b : ReservedBy(p, b) = {}
      BY <2>1 DEF ReservedBy
    <2> QED
      BY <2>1, <2>2, FS_EmptySet DEF Init, StockInv
  <1>2. TypeOK /\ StockInv /\ [Next]_vars => StockInv'
    <2> SUFFICES ASSUME TypeOK, StockInv, [Next]_vars PROVE StockInv'
      OBVIOUS
    <2>1. CASE inventoryStore' = inventoryStore /\ Reservations' = Reservations
      BY <2>1 DEF StockInv, ReservedBy
    <2>2. ASSUME NEW p \in Partitions, requestTopic[p] # <<>>, Reserve(p, Head(requestTopic[p]))
          PROVE  StockInv'
      BY <2>2, RecordType, ReserveKeepsStock
    <2> QED
      BY <2>1, <2>2, OnlyReserveReserves
  <1> QED
    BY <1>1, <1>2, TypeCorrect, PTL DEF Spec

RequestsWithin(limits) == {r \in Request : r.limit \in limits}

\* Requests carry, and cells were last accepted under, a limit that was configured; one
\* of these limits is the largest.
LimitInv ==
    /\ \E m \in servedLimits : \A n \in servedLimits : n <= m
    /\ outbox \subseteq RequestsWithin(servedLimits)
    /\ \A p \in Partitions : requestTopic[p] \in Seq(RequestsWithin(servedLimits))
    /\ \A p \in Partitions, b \in Buckets :
          inventoryStore[p][b] # Null =>
             \E n \in servedLimits : inventoryStore[p][b].configuredStockLimit = BucketLimitFor(n, b)

\* The limits that were served only grow in number.
LEMMA LimitsGrow ==
    ASSUME TypeOK, [Next]_vars
    PROVE  /\ servedLimits' = servedLimits \/ \E n \in Nat : servedLimits' = servedLimits \cup {n}
           /\ servedLimits \subseteq servedLimits'
  <1>1. ASSUME NEW limit \in LimitValues, UpdateSeckillConfig(limit)
        PROVE  servedLimits' = servedLimits \/ \E n \in Nat : servedLimits' = servedLimits \cup {n}
    <2>1. CASE limit = Null
      BY <1>1, <2>1 DEF UpdateSeckillConfig
    <2>2. CASE limit # Null
      BY <1>1, <2>2, ParameterAssumption DEF UpdateSeckillConfig
    <2> QED
      BY <2>1, <2>2
  <1>2. CASE ~ \E limit \in LimitValues : UpdateSeckillConfig(limit)
    BY <1>2 DEF Next, vars, AcceptBuyIntent, BrokerAcks, AckLostOnDisconnect, DeliveryFails,
         AvailableChanges, Process, ForwardDuplicate, Reserve, ScheduleRetry, Reject, Skip,
         SkipOnBootstrapFailure, ingress
  <1> QED
    BY <1>1, <1>2

\* Appending keeps the topic within a set of requests.
LEMMA AppendWithin ==
    ASSUME NEW R \in SUBSET Request, NEW topic \in [Partitions -> Seq(Request)],
           \A p \in Partitions : topic[p] \in Seq(R),
           NEW r \in R, NEW q \in Partitions
    PROVE  \A p \in Partitions : [topic EXCEPT ![q] = Append(@, r)][p] \in Seq(R)
  <1>1. Append(topic[q], r) \in Seq(R)
    OBVIOUS
  <1>2. \A p \in Partitions : [topic EXCEPT ![q] = Append(@, r)][p] =
                               IF p = q THEN Append(topic[q], r) ELSE topic[p]
    OBVIOUS
  <1> QED
    BY <1>1, <1>2

\* Reading a record keeps the topic within a set of requests.
LEMMA TailWithin ==
    ASSUME TypeOK, NEW R \in SUBSET Request, \A p \in Partitions : requestTopic[p] \in Seq(R),
           NEW q \in Partitions, requestTopic[q] # <<>>
    PROVE  /\ Head(requestTopic[q]) \in R
           /\ \A p \in Partitions : [requestTopic EXCEPT ![q] = Tail(@)][p] \in Seq(R)
  <1>1. Head(requestTopic[q]) \in R /\ Tail(requestTopic[q]) \in Seq(R)
    OBVIOUS
  <1>2. \A p \in Partitions : [requestTopic EXCEPT ![q] = Tail(@)][p] =
                               IF p = q THEN Tail(requestTopic[q]) ELSE requestTopic[p]
    BY DEF TypeOK
  <1> QED
    BY <1>1, <1>2

\* What a step hands to the producer is in R if the command it accepts is asked for so.
LEMMA OutboxWithin ==
    ASSUME TypeOK, [Next]_vars, NEW R \in SUBSET Request, outbox \subseteq R,
           ASSUME NEW r \in Request, r.limit \in servedLimits, r.attempt = 0,
                  r.bucket = PrimaryBucket[KeyOf[r.command]]
           PROVE  r \in R
    PROVE  outbox' \subseteq R
  <1>1. ASSUME NEW c \in Commands, NEW limit \in servedLimits, AcceptBuyIntent(c, limit)
        PROVE  outbox' \subseteq R
    <2> DEFINE r == [command |-> c, limit |-> limit, bucket |-> PrimaryBucket[KeyOf[c]], attempt |-> 0]
    <2>1. /\ r \in Request /\ r.limit = limit /\ r.attempt = 0
          /\ r.bucket = PrimaryBucket[KeyOf[r.command]]
      BY RoutingAssumption, ParameterAssumption DEF TypeOK, Request
    <2>2. outbox' = outbox \cup {r}
      BY <1>1 DEF AcceptBuyIntent
    <2> HIDE DEF r
    <2>3. r \in R
      BY <2>1
    <2> QED
      BY <2>2, <2>3
  <1>2. CASE ~ \E c \in Commands, limit \in servedLimits : AcceptBuyIntent(c, limit)
    <2>1. outbox' \subseteq outbox
      BY <1>2 DEF Next, vars, BrokerAcks, AckLostOnDisconnect, DeliveryFails,
         UpdateSeckillConfig, AvailableChanges, Process, ForwardDuplicate, Reserve, ScheduleRetry,
         Reject, Skip, SkipOnBootstrapFailure, ingress
    <2> QED
      BY <2>1
  <1> QED
    BY <1>1, <1>2

\* The topic stays within R if what the producer holds is in R, and what the worker
\* probes next.
LEMMA TopicWithin ==
    ASSUME TypeOK, [Next]_vars, NEW R \in SUBSET Request, outbox \subseteq R,
           \A p \in Partitions : requestTopic[p] \in Seq(R),
           ASSUME NEW p \in Partitions, NEW r \in R,
                  requestTopic[p] # <<>>, r = Head(requestTopic[p]),
                  ScheduleRetry(p, r)
           PROVE  NextProbe(r) \in R
    PROVE  \A p \in Partitions : requestTopic'[p] \in Seq(R)
  <1>1. ASSUME NEW r \in outbox, Published(r)
        PROVE  \A p \in Partitions : requestTopic'[p] \in Seq(R)
    <2>1. r \in R /\ PublishPartition[r.bucket] \in Partitions
      BY RoutingAssumption DEF Request
    <2>2. requestTopic' = [requestTopic EXCEPT ![PublishPartition[r.bucket]] = Append(@, r)]
      BY <1>1 DEF Published
    <2> QED
      BY <2>1, <2>2, AppendWithin DEF TypeOK
  <1>2. ASSUME NEW p \in Partitions, requestTopic[p] # <<>>, Consumed(p)
        PROVE  \A q \in Partitions : requestTopic'[q] \in Seq(R)
    <2>1. requestTopic' = [requestTopic EXCEPT ![p] = Tail(@)]
      BY <1>2 DEF Consumed
    <2> QED
      BY <1>2, <2>1, TailWithin
  <1>3. ASSUME NEW p \in Partitions, requestTopic[p] # <<>>, ScheduleRetry(p, Head(requestTopic[p]))
        PROVE  \A q \in Partitions : requestTopic'[q] \in Seq(R)
    <2> DEFINE r == Head(requestTopic[p])
               next == NextProbe(r)
               rest == [requestTopic EXCEPT ![p] = Tail(@)]
    <2>1. r \in R /\ \A q \in Partitions : rest[q] \in Seq(R)
      BY <1>3, TailWithin
    <2>2. next \in R
      <3> HIDE DEF next
      <3>1. NextProbe(r) \in R
        BY <1>3, <2>1
      <3> QED
        BY <3>1 DEF next
    <2>3. RetryPartition[next.bucket] \in Partitions
      <3> HIDE DEF next
      <3> QED
        BY <2>2, RoutingAssumption DEF Request
    <2>4. rest \in [Partitions -> Seq(Request)]
      BY <1>3, HeadType
    <2>5. requestTopic' = [rest EXCEPT ![RetryPartition[next.bucket]] = Append(@, next)]
      BY <1>3 DEF ScheduleRetry
    <2> HIDE DEF r, next, rest
    <2> QED
      BY <2>1, <2>2, <2>3, <2>4, <2>5, AppendWithin
  <1>4. CASE UNCHANGED requestTopic
    BY <1>4
  <1> QED
    BY <1>1, <1>2, <1>3, <1>4 DEF Next, vars, AcceptBuyIntent, BrokerAcks,
       AckLostOnDisconnect, DeliveryFails, UpdateSeckillConfig, AvailableChanges,
       Process, ForwardDuplicate, Reserve, Reject, Skip, SkipOnBootstrapFailure

\* Every step keeps the limits of the requests among those that were served.
LEMMA RequestsKeepLimits ==
    ASSUME TypeOK, LimitInv, [Next]_vars
    PROVE  /\ outbox' \subseteq RequestsWithin(servedLimits)
           /\ \A p \in Partitions : requestTopic'[p] \in Seq(RequestsWithin(servedLimits))
  <1> DEFINE R == RequestsWithin(servedLimits)
  <1>1. R \in SUBSET Request /\ outbox \subseteq R /\ \A p \in Partitions : requestTopic[p] \in Seq(R)
    BY DEF RequestsWithin, LimitInv
  <1>2. ASSUME NEW r \in Request, r.limit \in servedLimits PROVE r \in R
    BY <1>2 DEF RequestsWithin
  <1>3. ASSUME NEW p \in Partitions, NEW r \in R, ScheduleRetry(p, r) PROVE NextProbe(r) \in R
    <2>1. r \in Request /\ r.limit \in servedLimits
      BY DEF RequestsWithin
    <2>2. NextProbe(r) \in Request /\ NextProbe(r).limit = r.limit
      BY <1>3, <2>1, NextProbeType DEF NextProbe, ScheduleRetry
    <2> QED
      BY <2>1, <2>2 DEF RequestsWithin
  <1> HIDE DEF R
  <1>4. outbox' \subseteq R
    BY <1>1, <1>2, OutboxWithin
  <1>5. \A p \in Partitions : requestTopic'[p] \in Seq(R)
    BY <1>1, <1>3, TopicWithin
  <1> QED
    BY <1>4, <1>5 DEF R

\* No request and no cell has a limit that was not served.
LEMMA LimitsKept == Spec => []LimitInv
  <1>1. Init => LimitInv
    <2> SUFFICES ASSUME Init PROVE LimitInv
      OBVIOUS
    <2>1. \E m \in servedLimits : \A n \in servedLimits : n <= m
      BY ParameterAssumption DEF Init
    <2>2. \A R : <<>> \in Seq(R)
      OBVIOUS
    <2>3. \A p \in Partitions : requestTopic[p] \in Seq(RequestsWithin(servedLimits))
      BY <2>2, Zenon DEF Init
    <2> QED
      BY <2>1, <2>3 DEF Init, LimitInv
  <1>2. TypeOK /\ LimitInv /\ [Next]_vars => LimitInv'
    <2> SUFFICES ASSUME TypeOK, LimitInv, [Next]_vars PROVE LimitInv'
      OBVIOUS
    <2>1. (\E m \in servedLimits : \A n \in servedLimits : n <= m)'
      <3>1. PICK m \in servedLimits : \A n \in servedLimits : n <= m
        BY DEF LimitInv
      <3>2. servedLimits \subseteq Nat
        BY DEF TypeOK
      <3>3. CASE servedLimits' = servedLimits
        BY <3>1, <3>3
      <3>4. ASSUME NEW k \in Nat, servedLimits' = servedLimits \cup {k}
            PROVE  \E l \in servedLimits' : \A n \in servedLimits' : n <= l
        <4>1. CASE k <= m
          BY <3>1, <3>4, <4>1
        <4>2. CASE m <= k
          BY <3>1, <3>2, <3>4, <4>2
        <4> QED
          BY <3>1, <3>2, <4>1, <4>2
      <3> QED
        BY <3>3, <3>4, LimitsGrow
    <2>2. servedLimits \subseteq servedLimits'
      BY LimitsGrow
    <2>3. RequestsWithin(servedLimits) \subseteq RequestsWithin(servedLimits')
      BY <2>2 DEF RequestsWithin
    <2>4. outbox' \subseteq RequestsWithin(servedLimits')
      BY <2>3, RequestsKeepLimits
    <2>5. \A p \in Partitions : requestTopic'[p] \in Seq(RequestsWithin(servedLimits'))
      <3>1. \A p \in Partitions : requestTopic'[p] \in Seq(RequestsWithin(servedLimits))
        BY RequestsKeepLimits
      <3>2. ASSUME NEW A, NEW B, A \subseteq B, NEW s \in Seq(A) PROVE s \in Seq(B)
        BY <3>2
      <3> QED
        BY <2>3, <3>1, <3>2
    <2>6. ASSUME NEW q \in Partitions, NEW b \in Buckets, inventoryStore'[q][b] # Null
          PROVE  \E n \in servedLimits' : inventoryStore'[q][b].configuredStockLimit = BucketLimitFor(n, b)
      <3>1. CASE inventoryStore'[q][b] = inventoryStore[q][b]
        BY <2>2, <2>6, <3>1 DEF LimitInv
      <3>2. ASSUME NEW p \in Partitions, requestTopic[p] # <<>>, Reserve(p, Head(requestTopic[p]))
            PROVE  \E n \in servedLimits' :
                      inventoryStore'[q][b].configuredStockLimit = BucketLimitFor(n, b)
        <4> DEFINE r == Head(requestTopic[p])
                   cell == Taken(CellFor(p, r), QuantityOf[r.command])
        <4>1. r \in RequestsWithin(servedLimits)
          <5>1. RequestsWithin(servedLimits) \in SUBSET Request
                /\ \A s \in Partitions : requestTopic[s] \in Seq(RequestsWithin(servedLimits))
            BY DEF RequestsWithin, LimitInv
          <5> QED
            BY <3>2, <5>1, TailWithin
        <4>2. r.limit \in servedLimits /\ r.bucket \in Buckets
          BY <4>1 DEF RequestsWithin, Request
        <4>3. inventoryStore' = [inventoryStore EXCEPT ![p][r.bucket] = cell]
          BY <3>2 DEF Reserve
        <4>4. cell.configuredStockLimit = BucketLimitFor(r.limit, r.bucket)
          BY DEF Taken, CellFor
        <4> HIDE DEF r, cell
        <4>5. CASE q = p /\ b = r.bucket
          <5>1. inventoryStore'[q][b] = cell
            BY <4>2, <4>3, <4>5 DEF TypeOK
          <5> QED
            BY <2>2, <4>2, <4>4, <4>5, <5>1
        <4>6. CASE ~(q = p /\ b = r.bucket)
          <5>1. inventoryStore'[q][b] = inventoryStore[q][b]
            BY <4>2, <4>3, <4>6 DEF TypeOK
          <5> QED
            BY <3>1, <5>1
        <4> QED
          BY <4>5, <4>6
      <3> QED
        BY <3>1, <3>2, OnlyReserveWritesCells
    <2> QED
      BY <2>1, <2>4, <2>5, <2>6 DEF LimitInv, BucketLimitFor
  <1> QED
    BY <1>1, <1>2, TypeCorrect, PTL DEF Spec

\* What the reservations of one bucket add up to.
LEMMA BucketWithinShare ==
    ASSUME PublishPartition = RetryPartition,
           TypeOK, CellWithinShare, OneTaskPerBucket, StockInv, LimitInv,
           NEW most \in Nat, \A n \in servedLimits : n <= most, NEW b \in Buckets
    PROVE  Count(QuantityIn, {o \in Reservations : o.decision.bucket = b})
             <= BucketLimitFor(Smaller(OnHand, most), b)
  <1> DEFINE p == RetryPartition[b]
             cell == inventoryStore[p][b]
             S == {o \in Reservations : o.decision.bucket = b}
  <1>1. p \in Partitions
    BY RoutingAssumption
  <1>2. S = ReservedBy(p, b)
    <2>1. SUFFICES ASSUME NEW o \in S PROVE o.decision.partition = p
      BY DEF ReservedBy
    <2>2. o.decision.partition \in Partitions
      BY RoutingAssumption DEF Reservations, TypeOK, Outcome, Decision
    <2>3. o \in ReservedBy(o.decision.partition, b)
      BY DEF ReservedBy
    <2>4. inventoryStore[o.decision.partition][b] # Null
      BY <2>2, <2>3 DEF StockInv
    <2> QED
      BY <2>2, <2>4 DEF OneTaskPerBucket
  <1>3. /\ BucketLimitFor(Smaller(OnHand, most), b) \in Nat
        /\ Smaller(OnHand, most) = OnHand \/ Smaller(OnHand, most) = most
    <2>1. Smaller(OnHand, most) \in Nat
      BY ParameterAssumption DEF Smaller
    <2>2. BucketLimitFor(Smaller(OnHand, most), b) \in Nat
      BY <2>1, ShareType
    <2> QED
      BY <2>2 DEF Smaller
  <1>4. CASE cell = Null
    <2>1. S = {}
      BY <1>1, <1>2, <1>4 DEF StockInv
    <2>2. Count(QuantityIn, {}) = 0
      BY CountEmpty
    <2>3. Count(QuantityIn, S) = 0
      <3> HIDE DEF S
      <3> QED
        BY <2>1, <2>2
    <2> QED
      BY <1>3, <2>3
  <1>5. CASE cell # Null
    <2>1. Count(QuantityIn, S) <= cell.acceptedUnits
      <3>1. Count(QuantityIn, ReservedBy(p, b)) <= cell.acceptedUnits
        BY <1>1, <1>5 DEF StockInv
      <3> HIDE DEF S, cell, p
      <3> QED
        BY <1>2, <3>1
    <2>2. /\ cell.acceptedUnits <= cell.configuredStockLimit
          /\ cell.acceptedUnits + cell.projectionAvailableRemaining <= BucketLimitFor(OnHand, b)
      BY <1>1, <1>5 DEF CellWithinShare
    <2>3. /\ cell.acceptedUnits \in Nat /\ cell.projectionAvailableRemaining \in Nat
          /\ cell.configuredStockLimit \in Nat
      BY <1>1, <1>5 DEF TypeOK, Cell
    <2>4. PICK n \in servedLimits : cell.configuredStockLimit = BucketLimitFor(n, b)
      BY <1>1, <1>5 DEF LimitInv
    <2>5. n \in Nat /\ n <= most
      BY DEF TypeOK
    <2>6. BucketLimitFor(n, b) <= BucketLimitFor(most, b)
      BY <2>5, ShareMonotone
    <2>7. BucketLimitFor(most, b) \in Nat /\ BucketLimitFor(OnHand, b) \in Nat
      BY ShareType, ParameterAssumption
    <2>8. IsFiniteSet(S) /\ \A x \in S : QuantityIn[x] \in Nat
      <3>1. S \subseteq Reservations /\ S \subseteq Outcome
        BY DEF Reservations, TypeOK
      <3> HIDE DEF S
      <3> QED
        BY <3>1, FS_Subset, RoutingAssumption DEF StockInv, QuantityIn, Outcome, Decision
    <2>9. Count(QuantityIn, S) \in Nat
      <3> HIDE DEF S
      <3> QED
        BY <2>8, TokensFinite
    <2>10. Count(QuantityIn, S) <= BucketLimitFor(most, b) /\ Count(QuantityIn, S) <= BucketLimitFor(OnHand, b)
      <3> HIDE DEF S, cell
      <3> QED
        BY <2>1, <2>2, <2>3, <2>4, <2>6, <2>7, <2>9
    <2> QED
      BY <1>3, <2>10
  <1> QED
    BY <1>4, <1>5

\* The buckets together stay within the stock and the largest limit.
LEMMA BucketsWithinStock ==
    ASSUME PublishPartition = RetryPartition,
           TypeOK, CellWithinShare, OneTaskPerBucket, StockInv, LimitInv
    PROVE  NoOversell
  <1> DEFINE most == Max(servedLimits)
             total == Smaller(OnHand, most)
             bucketOf == [o \in Outcome |-> o.decision.bucket]
             upTo == [k \in 0 .. BucketCount |-> SharesBefore(total, k)]
  <1>1. most \in Nat /\ \A n \in servedLimits : n <= most
    <2>1. servedLimits \subseteq Nat
      BY DEF TypeOK
    <2>2. \E m \in servedLimits : \A n \in servedLimits : m >= n
      <3>1. PICK m \in servedLimits : \A n \in servedLimits : n <= m
        BY DEF LimitInv
      <3> QED
        BY <2>1, <3>1
    <2>3. most \in servedLimits /\ \A n \in servedLimits : most >= n
      BY <2>2 DEF Max
    <2> HIDE DEF most
    <2> QED
      BY <2>1, <2>3
  <1>2. total \in Nat /\ BucketCount \in Nat
    BY <1>1, ParameterAssumption DEF Smaller
  <1>3. Reservations \in SUBSET Outcome /\ IsFiniteSet(Reservations)
    BY DEF Reservations, TypeOK, StockInv
  <1>4. \A o \in Reservations : QuantityIn[o] \in Nat /\ bucketOf[o] \in 0 .. BucketCount - 1
    BY <1>3, RoutingAssumption DEF QuantityIn, Outcome, Decision, Buckets
  <1> HIDE DEF most
  <1>5. \A k \in 0 .. BucketCount : upTo[k] \in Nat
    <2> HIDE DEF total
    <2> QED
      BY <1>2, SharesAddUp
  <1>6. ASSUME NEW k \in 0 .. BucketCount - 1
        PROVE  upTo[k] + Count(QuantityIn, {o \in Reservations : bucketOf[o] = k}) <= upTo[k + 1]
    <2>1. {o \in Reservations : bucketOf[o] = k} = {o \in Reservations : o.decision.bucket = k}
      BY <1>3
    <2>2. k \in Buckets /\ k \in 0 .. BucketCount /\ k + 1 \in 0 .. BucketCount
      BY <1>2 DEF Buckets
    <2>3. Count(QuantityIn, {o \in Reservations : o.decision.bucket = k}) <= BucketLimitFor(total, k)
      BY <1>1, <2>2, BucketWithinShare
    <2>4. Count(QuantityIn, {o \in Reservations : o.decision.bucket = k}) \in Nat
      <3>1. IsFiniteSet({o \in Reservations : o.decision.bucket = k})
        BY <1>3, FS_Subset
      <3> QED
        BY <1>4, <3>1, TokensFinite
    <2> DEFINE here == Count(QuantityIn, {o \in Reservations : o.decision.bucket = k})
    <2>5. Count(QuantityIn, {o \in Reservations : bucketOf[o] = k}) = here
      BY <2>1
    <2> HIDE DEF total, here
    <2>6. /\ SharesBefore(total, k) + BucketLimitFor(total, k) = SharesBefore(total, k + 1)
          /\ SharesBefore(total, k) \in Nat /\ BucketLimitFor(total, k) \in Nat
      BY <1>2, <2>2, SharesAddUp, ShareType
    <2>7. here \in Nat /\ here <= BucketLimitFor(total, k)
      BY <2>3, <2>4 DEF here
    <2>8. upTo[k] = SharesBefore(total, k) /\ upTo[k + 1] = SharesBefore(total, k + 1)
      BY <2>2
    <2> HIDE DEF upTo, bucketOf
    <2> QED
      BY <2>5, <2>6, <2>7, <2>8
  <1>7. upTo[BucketCount] = total
    <2> HIDE DEF total
    <2> QED
      BY <1>2, SharesAddUp
  <1>8. Count(QuantityIn, Reservations) <= upTo[BucketCount]
    <2> HIDE DEF upTo, bucketOf, total
    <2> QED
      BY <1>2, <1>3, <1>4, <1>5, <1>6, CountByGroups
  <1>9. Units(Reservations) = Count(QuantityIn, Reservations)
    BY <1>3, UnitsAreCounted
  <1> HIDE DEF upTo, total
  <1>10. Units(Reservations) <= total
    BY <1>7, <1>8, <1>9
  <1> QED
    BY <1>10 DEF NoOversell, total, most

\* If the ingress and the worker agree on the partition of every bucket, the reservations
\* promised never exceed the stock on hand, nor the largest limit that was ever
\* configured, for any number of buckets, commands, retries, resends and bootstraps.
THEOREM NeverOversold == PublishPartition = RetryPartition => (Spec => []NoOversell)
  <1>1. ASSUME PublishPartition = RetryPartition
        PROVE  TypeOK /\ CellWithinShare /\ OneTaskPerBucket /\ StockInv /\ LimitInv => NoOversell
    BY <1>1, BucketsWithinStock
  <1>2. CASE PublishPartition = RetryPartition
    <2>1. TypeOK /\ CellWithinShare /\ OneTaskPerBucket /\ StockInv /\ LimitInv => NoOversell
      BY <1>1, <1>2
    <2> QED
      BY <2>1, TypeCorrect, SharesKept, OneTask, StockKept, LimitsKept, PTL
  <1> QED
    BY <1>2

------------------------------------------------------------------------------
(* A steady sale *)

\* The limit stays, nobody hands stock back, the producers agree on the routing of
\* buckets, and a client that retries asks for the same quantity.
Steady ==
    /\ LimitValues = {}
    /\ ~ReleasesElsewhere
    /\ PublishPartition = RetryPartition
    /\ \A c, d \in Commands : KeyOf[c] = KeyOf[d] => QuantityOf[c] = QuantityOf[d]

\* What a command asks for is what its key asks for.
LEMMA SameUnits ==
    ASSUME Steady, NEW c \in Commands
    PROVE  /\ KeyOf[c] \in Keys
           /\ UnitsOfKey(KeyOf[c]) = QuantityOf[c]
           /\ QuantityOf[c] \in Nat \ {0}
  <1> DEFINE d == CHOOSE d \in Commands : KeyOf[d] = KeyOf[c]
  <1>1. d \in Commands /\ KeyOf[d] = KeyOf[c]
    OBVIOUS
  <1>2. UnitsOfKey(KeyOf[c]) = QuantityOf[d]
    BY DEF UnitsOfKey
  <1> HIDE DEF d
  <1> QED
    BY <1>1, <1>2, RoutingAssumption DEF Steady

\* One limit is served, and the row keeps it.
LimitStays == servedLimits = {InitialLimit} /\ sku.limit = InitialLimit

\* Nobody changes the limit of a steady sale, and the stock available only falls.
LEMMA SteadyStep ==
    ASSUME Steady, TypeOK, LimitStays, [Next]_vars
    PROVE  /\ LimitStays'
           /\ sku'.available \in 0 .. OnHand /\ sku'.available <= sku.available
  <1>1. sku.available \in 0 .. OnHand /\ OnHand \in Nat
    BY ParameterAssumption DEF TypeOK
  <1>2. ASSUME NEW n \in 0 .. OnHand, AvailableChanges(n)
        PROVE  LimitStays' /\ sku'.available \in 0 .. OnHand /\ sku'.available <= sku.available
    BY <1>1, <1>2 DEF AvailableChanges, Steady, LimitStays, TypeOK
  <1>3. CASE UNCHANGED <<sku, servedLimits>>
    BY <1>1, <1>3 DEF LimitStays
  <1> QED
    BY <1>2, <1>3 DEF Next, vars, AcceptBuyIntent, BrokerAcks, AckLostOnDisconnect,
       DeliveryFails, Process, ForwardDuplicate, Reserve, ScheduleRetry, Reject, Skip,
       SkipOnBootstrapFailure, Steady, ingress

\* The state of bucket b as its task would read it for a request of this sale.
CellHere(b) == CellFor(RetryPartition[b], [limit |-> InitialLimit, bucket |-> b])

\* What bucket b has left.
Left(b) == EffectiveRemaining(CellHere(b))

\* The state a bucket is read with depends on the limit and the bucket of the request.
LEMMA CellHereIs ==
    ASSUME TypeOK, LimitStays, NEW b \in Buckets
    PROVE  LET stored == inventoryStore[RetryPartition[b]][b] IN
           /\ CellHere(b) \in Cell
           /\ CellHere(b).configuredStockLimit = BucketLimitFor(InitialLimit, b)
           /\ CellHere(b).acceptedUnits = IF stored = Null THEN 0 ELSE stored.acceptedUnits
           /\ CellHere(b).projectionAvailableRemaining =
                IF stored = Null THEN BucketLimitFor(Smaller(sku.available, InitialLimit), b)
                ELSE stored.projectionAvailableRemaining
           /\ \A r \in Request : r.limit = InitialLimit /\ r.bucket = b =>
                 CellFor(RetryPartition[b], r) = CellHere(b)
  <1>1. InitialLimit \in Nat /\ RetryPartition[b] \in Partitions /\ sku.available \in Nat
    BY ParameterAssumption, RoutingAssumption DEF TypeOK
  <1>2. InitialLimit # Null /\ sku.limit = InitialLimit
    BY <1>1, NullAssumption DEF LimitStays
  <1>3. Smaller(sku.available, InitialLimit) \in Nat
    BY <1>1 DEF Smaller
  <1>4. /\ BucketLimitFor(InitialLimit, b) \in Nat
        /\ BucketLimitFor(Smaller(sku.available, InitialLimit), b) \in Nat
    BY <1>1, <1>3, ShareType
  <1>5. inventoryStore[RetryPartition[b]][b] \in Cell \cup {Null}
    BY <1>1 DEF TypeOK
  <1>6. ASSUME NEW r, r.limit = InitialLimit, r.bucket = b
        PROVE  CellFor(RetryPartition[b], r) =
                 [projectionAvailableRemaining |->
                     IF inventoryStore[RetryPartition[b]][b] = Null
                     THEN BucketLimitFor(Smaller(sku.available, InitialLimit), b)
                     ELSE inventoryStore[RetryPartition[b]][b].projectionAvailableRemaining,
                  configuredStockLimit |-> BucketLimitFor(InitialLimit, b),
                  acceptedUnits |->
                     IF inventoryStore[RetryPartition[b]][b] = Null THEN 0
                     ELSE inventoryStore[RetryPartition[b]][b].acceptedUnits]
    <2>1. LoadInitialState(r).projectionAvailableRemaining =
            BucketLimitFor(Smaller(sku.available, InitialLimit), b)
          /\ LoadInitialState(r).acceptedUnits = 0
      BY <1>2, <1>6 DEF LoadInitialState
    <2> QED
      BY <1>6, <2>1 DEF CellFor
  <1>7. /\ CellHere(b) =
                 [projectionAvailableRemaining |->
                     IF inventoryStore[RetryPartition[b]][b] = Null
                     THEN BucketLimitFor(Smaller(sku.available, InitialLimit), b)
                     ELSE inventoryStore[RetryPartition[b]][b].projectionAvailableRemaining,
                  configuredStockLimit |-> BucketLimitFor(InitialLimit, b),
                  acceptedUnits |->
                     IF inventoryStore[RetryPartition[b]][b] = Null THEN 0
                     ELSE inventoryStore[RetryPartition[b]][b].acceptedUnits]
    BY <1>6 DEF CellHere
  <1>8. \A r \in Request : r.limit = InitialLimit /\ r.bucket = b =>
                 CellFor(RetryPartition[b], r) = CellHere(b)
    BY <1>6, <1>7
  <1> QED
    BY <1>4, <1>5, <1>7, <1>8 DEF Cell

\* A bucket that has less in its projection, or has accepted more, has not more left.
LEMMA RemainingFalls ==
    ASSUME NEW x \in Cell, NEW y \in Cell,
           x.configuredStockLimit = y.configuredStockLimit,
           x.projectionAvailableRemaining <= y.projectionAvailableRemaining,
           y.acceptedUnits <= x.acceptedUnits
    PROVE  EffectiveRemaining(x) <= EffectiveRemaining(y)
  BY DEF EffectiveRemaining, Smaller, Cell

\* Requests of this sale: with its limit.
OfThisSale == {r \in Request : r.limit = InitialLimit}

\* In a steady sale no step gives a bucket more than it had: a reservation takes from it,
\* and a bucket that is bootstrapped later finds no more stock than it would have before.
LEMMA LeftFalls ==
    ASSUME Steady, TypeOK, LimitStays, RecordsInPlace,
           \A p \in Partitions : requestTopic[p] \in Seq(OfThisSale),
           [Next]_vars, TypeOK', NEW b \in Buckets
    PROVE  /\ Left(b) \in Nat
           /\ Left(b)' \in Nat
           /\ Left(b)' <= Left(b)
  <1> DEFINE p == RetryPartition[b]
             stored == inventoryStore[p][b]
  <1>0. p \in Partitions /\ InitialLimit \in Nat
    BY RoutingAssumption, ParameterAssumption
  <1>1. LimitStays' /\ sku'.available \in 0 .. OnHand /\ sku'.available <= sku.available
    BY SteadyStep
  <1>2. PICK x : x = CellHere(b)
    OBVIOUS
  <1>3. PICK y : y = CellHere(b)'
    OBVIOUS
  <1>4. /\ x \in Cell
        /\ x.configuredStockLimit = BucketLimitFor(InitialLimit, b)
        /\ x.acceptedUnits = IF stored = Null THEN 0 ELSE stored.acceptedUnits
        /\ x.projectionAvailableRemaining =
             IF stored = Null THEN BucketLimitFor(Smaller(sku.available, InitialLimit), b)
             ELSE stored.projectionAvailableRemaining
    BY <1>2, CellHereIs
  <1>5. /\ y \in Cell
        /\ y.configuredStockLimit = BucketLimitFor(InitialLimit, b)
        /\ y.acceptedUnits = IF stored' = Null THEN 0 ELSE stored'.acceptedUnits
        /\ y.projectionAvailableRemaining =
             IF stored' = Null THEN BucketLimitFor(Smaller(sku'.available, InitialLimit), b)
             ELSE stored'.projectionAvailableRemaining
    <2>1. (/\ CellHere(b) \in Cell
           /\ CellHere(b).configuredStockLimit = BucketLimitFor(InitialLimit, b)
           /\ CellHere(b).acceptedUnits = IF stored = Null THEN 0 ELSE stored.acceptedUnits
           /\ CellHere(b).projectionAvailableRemaining =
                IF stored = Null THEN BucketLimitFor(Smaller(sku.available, InitialLimit), b)
                ELSE stored.projectionAvailableRemaining)'
      BY <1>1, CellHereIs, PTL
    <2> QED
      BY <1>3, <2>1
  <1>6. y.projectionAvailableRemaining <= x.projectionAvailableRemaining
        /\ x.acceptedUnits <= y.acceptedUnits
    <2>1. CASE stored' = stored
      <3>1. Smaller(sku'.available, InitialLimit) <= Smaller(sku.available, InitialLimit)
            /\ Smaller(sku'.available, InitialLimit) \in Nat
            /\ Smaller(sku.available, InitialLimit) \in Nat
        BY <1>0, <1>1, ParameterAssumption DEF Smaller, TypeOK
      <3>2. BucketLimitFor(Smaller(sku'.available, InitialLimit), b)
              <= BucketLimitFor(Smaller(sku.available, InitialLimit), b)
        BY <3>1, ShareMonotone
      <3> QED
        BY <1>4, <1>5, <2>1, <3>2 DEF Cell
    <2>2. ASSUME NEW q \in Partitions, requestTopic[q] # <<>>, Reserve(q, Head(requestTopic[q]))
          PROVE  y.projectionAvailableRemaining <= x.projectionAvailableRemaining
                 /\ x.acceptedUnits <= y.acceptedUnits
      <3> DEFINE r == Head(requestTopic[q])
                 units == QuantityOf[r.command]
      <3>1. r \in RequestsOf(q) /\ r \in Request /\ r.bucket \in Buckets /\ units \in Nat
        BY <2>2, TailInPlace, RecordType
      <3>2. inventoryStore' = [inventoryStore EXCEPT ![q][r.bucket] = Taken(CellFor(q, r), units)]
            /\ Fits(q, r)
        BY <2>2 DEF Reserve
      <3>3. r.limit = InitialLimit
        <4>1. OfThisSale \in SUBSET Request
          BY DEF OfThisSale
        <4>2. r \in OfThisSale
          BY <2>2, <4>1, TailWithin
        <4> QED
          BY <4>2 DEF OfThisSale
      <3> HIDE DEF r, units
      <3>4. CASE r.bucket = b
        <4>1. q = p
          BY <3>1, <3>4 DEF RequestsOf
        <4>2. CellFor(q, r) = x
          BY <1>2, <3>1, <3>3, <3>4, <4>1, CellHereIs DEF RequestsOf
        <4>3. stored' = Taken(x, units)
          BY <1>0, <3>2, <3>4, <4>1, <4>2 DEF TypeOK
        <4>4. units <= EffectiveRemaining(x)
          BY <3>2, <4>2 DEF Fits, units
        <4>5. units <= x.projectionAvailableRemaining
          BY <1>4, <3>1, <4>4, RemainingType DEF Cell
        <4>6. Taken(x, units) \in Cell
          BY <1>4, <3>1, <4>5 DEF Taken, AtLeastZero, Cell
        <4>7. stored' # Null
          BY <4>3, <4>6, NullAssumption
        <4>8. y.acceptedUnits = x.acceptedUnits + units
              /\ y.projectionAvailableRemaining = x.projectionAvailableRemaining - units
          <5>1. AtLeastZero(x.projectionAvailableRemaining - units) = x.projectionAvailableRemaining - units
            BY <1>4, <3>1, <4>5 DEF AtLeastZero, Cell
          <5> QED BY <1>5, <4>3, <4>7, <5>1 DEF Taken
        <4> QED
          BY <1>4, <3>1, <4>8 DEF Cell
      <3>5. CASE r.bucket # b
        <4>1. stored' = stored
          BY <1>0, <3>1, <3>2, <3>5 DEF TypeOK
        <4> QED
          BY <2>1, <4>1
      <3> QED
        BY <3>4, <3>5
    <2> QED
      BY <2>1, <2>2, OnlyReserveWritesCells
  <1>7. EffectiveRemaining(y) <= EffectiveRemaining(x)
        /\ EffectiveRemaining(x) \in Nat /\ EffectiveRemaining(y) \in Nat
    BY <1>4, <1>5, <1>6, RemainingFalls, RemainingType
  <1>8. Left(b) = EffectiveRemaining(x) /\ Left(b)' = EffectiveRemaining(y)
    BY <1>2, <1>3 DEF Left, EffectiveRemaining, Smaller
  <1> QED
    BY <1>7, <1>8

------------------------------------------------------------------------------
(* Probes of a steady sale *)

\* The bucket the request of key k is probed at after n moves, and the last move.
BucketAt(k, n) == (PrimaryBucket[k] + n) % BucketCount

LastProbe == IF BucketCount > 1 THEN MaxProbe - 1 ELSE 0

\* A number below the divisor is its own remainder, also when the divisor is added.
LEMMA RemainderIs ==
    ASSUME NEW b \in Buckets
    PROVE  b % BucketCount = b /\ (b + BucketCount) % BucketCount = b
  <1> DEFINE n == BucketCount
  <1>1. n \in Nat \ {0} /\ b \in Nat /\ b < n
    BY ParameterAssumption DEF Buckets
  <1>2. ASSUME NEW x \in Nat, NEW e \in {0, 1}, x = n * e + b
        PROVE  x % n = b
    <2> DEFINE q == x \div n
               r == x % n
    <2>1. q \in Nat /\ r \in 0 .. n - 1 /\ x = n * q + r
      BY Division
    <2> HIDE DEF q, r
    <2>2. q <= e
      <3>1. SUFFICES ASSUME e + 1 <= q PROVE FALSE
        BY <2>1
      <3>2. PICK d \in Nat : q = e + 1 + d
        <4>1. q - e - 1 \in Nat /\ q = e + 1 + (q - e - 1)
          BY <2>1, <3>1
        <4> QED
          BY <4>1
      <3>3. n * q = n * e + n + n * d /\ n * d \in Nat /\ n * e \in Nat
        BY <1>1, <2>1, <3>2
      <3> QED
        BY <1>1, <1>2, <2>1, <3>3
    <2>3. e <= q
      <3>1. SUFFICES ASSUME e = 1, q = 0 PROVE FALSE
        BY <2>1
      <3> QED
        BY <1>1, <1>2, <2>1, <3>1
    <2>4. q = e
      BY <2>1, <2>2, <2>3
    <2>5. n * q = n * e /\ n * e \in Nat
      BY <1>1, <2>4
    <2>6. r = b
      BY <1>1, <1>2, <2>1, <2>5
    <2> QED
      BY <2>6 DEF r
  <1>3. b = n * 0 + b /\ b + n = n * 1 + b
    BY <1>1
  <1>4. b % n = b
    BY <1>1, <1>2, <1>3
  <1>5. (b + n) % n = b
    BY <1>1, <1>2, <1>3
  <1> QED
    BY <1>4, <1>5

\* Where the moves of a key lead: to buckets, first to its primary one, and to every
\* bucket if there are as many probes as buckets.
LEMMA ProbedBuckets ==
    ASSUME NEW k \in Keys
    PROVE  /\ LastProbe \in Nat
           /\ \A n \in Nat : BucketAt(k, n) \in Buckets
           /\ BucketAt(k, 0) = PrimaryBucket[k]
           /\ MaxProbe >= BucketCount =>
                \A b \in Buckets : \E n \in 0 .. LastProbe : BucketAt(k, n) = b
  <1> DEFINE first == PrimaryBucket[k]
  <1>1. first \in Buckets /\ first \in Nat /\ first < BucketCount /\ BucketCount \in Nat \ {0}
    BY RoutingAssumption, ParameterAssumption DEF Buckets
  <1>2. LastProbe \in Nat /\ (MaxProbe >= BucketCount => BucketCount - 1 <= LastProbe)
    BY ParameterAssumption DEF LastProbe
  <1>3. ASSUME NEW n \in Nat PROVE BucketAt(k, n) \in Buckets
    <2>1. first + n \in Nat
      BY <1>1
    <2>2. (first + n) % BucketCount \in 0 .. BucketCount - 1
      BY <2>1, Division
    <2> QED
      BY <2>2 DEF BucketAt, Buckets
  <1>4. BucketAt(k, 0) = first
    BY <1>1, RemainderIs DEF BucketAt
  <1>5. ASSUME MaxProbe >= BucketCount, NEW b \in Buckets
        PROVE  \E n \in 0 .. LastProbe : BucketAt(k, n) = b
    <2>1. b \in Nat /\ b < BucketCount
      BY <1>1 DEF Buckets
    <2>2. CASE first <= b
      <3>1. b - first \in 0 .. LastProbe /\ first + (b - first) = b
        BY <1>1, <1>2, <1>5, <2>1, <2>2
      <3>2. BucketAt(k, b - first) = b
        BY <3>1, RemainderIs DEF BucketAt
      <3> QED
        BY <3>1, <3>2
    <2>3. CASE b < first
      <3>1. /\ b + BucketCount - first \in 0 .. LastProbe
            /\ first + (b + BucketCount - first) = b + BucketCount
        BY <1>1, <1>2, <1>5, <2>1, <2>3
      <3>2. BucketAt(k, b + BucketCount - first) = b
        BY <3>1, RemainderIs DEF BucketAt
      <3> QED
        BY <3>1, <3>2
    <2> QED
      BY <1>1, <2>1, <2>2, <2>3
  <1> QED
    BY <1>2, <1>3, <1>4, <1>5

\* The bucket key k is at after n moves could serve it now.
FitsAt(k, n) == UnitsOfKey(k) <= Left(BucketAt(k, n))

\* None of the first n buckets of key k can serve it any more.
Tried(k, n) == \A m \in 0 .. n - 1 : ~FitsAt(k, m)

\* The requests of key k that have not moved more than n times.
MovedUpTo(k, n) == {r \in Request : KeyOf[r.command] = k => r.attempt <= n}

\* A request of the sale is at the bucket its moves lead to, and every bucket
\* before that one has been tried.
Probes ==
    {r \in OfThisSale : /\ r.attempt \in 0 .. LastProbe
                        /\ r.bucket = BucketAt(KeyOf[r.command], r.attempt)
                        /\ Tried(KeyOf[r.command], r.attempt)}

ProbeInv ==
    /\ outbox \subseteq {r \in Probes : r.attempt = 0}
    /\ \A p \in Partitions : requestTopic[p] \in Seq(Probes)

\* The worker tries a probe at the bucket of its place.
LEMMA ProbeFits ==
    ASSUME Steady, TypeOK, LimitStays, NEW r \in Probes, NEW p \in Partitions,
           p = RetryPartition[r.bucket]
    PROVE  /\ r \in Request /\ r.limit = InitialLimit /\ r.attempt \in 0 .. LastProbe
           /\ KeyOf[r.command] \in Keys
           /\ r.bucket = BucketAt(KeyOf[r.command], r.attempt)
           /\ Tried(KeyOf[r.command], r.attempt)
           /\ Fits(p, r) <=> FitsAt(KeyOf[r.command], r.attempt)
           /\ MayProbe(r) <=> r.attempt # LastProbe
  <1>1. /\ r \in Request /\ r.limit = InitialLimit /\ r.attempt \in 0 .. LastProbe
        /\ r.bucket = BucketAt(KeyOf[r.command], r.attempt)
        /\ Tried(KeyOf[r.command], r.attempt)
    BY DEF Probes, OfThisSale
  <1>2. r.command \in Commands /\ r.bucket \in Buckets
    BY <1>1 DEF Request
  <1>3. KeyOf[r.command] \in Keys /\ UnitsOfKey(KeyOf[r.command]) = QuantityOf[r.command]
    BY <1>2, SameUnits
  <1>4. CellFor(p, r) = CellHere(r.bucket)
    BY <1>1, <1>2, CellHereIs
  <1>5. Fits(p, r) <=> FitsAt(KeyOf[r.command], r.attempt)
    BY <1>1, <1>3, <1>4 DEF Fits, FitsAt, Left
  <1>6. MayProbe(r) <=> r.attempt # LastProbe
    BY <1>1, ParameterAssumption DEF MayProbe, LastProbe
  <1> QED
    BY <1>1, <1>3, <1>5, <1>6

\* What was tried stays tried: no step of a steady sale makes a bucket serve a key it
\* could not serve before.
LEMMA TriedStays ==
    ASSUME Steady, TypeOK, LimitStays, RecordsInPlace, ProbeInv, [Next]_vars, TypeOK'
    PROVE  /\ \A c \in Commands, n \in Nat : ~FitsAt(KeyOf[c], n) => ~FitsAt(KeyOf[c], n)'
           /\ \A c \in Commands, n \in Nat : Tried(KeyOf[c], n) => Tried(KeyOf[c], n)'
           /\ Probes \subseteq Probes'
  <1>1. \A p \in Partitions : requestTopic[p] \in Seq(OfThisSale)
    <2>1. Probes \subseteq OfThisSale
      BY DEF Probes
    <2>2. ASSUME NEW A, NEW B, A \subseteq B, NEW s \in Seq(A) PROVE s \in Seq(B)
      BY <2>2
    <2> QED
      BY <2>1, <2>2 DEF ProbeInv
  <1>2. ASSUME NEW c \in Commands, NEW n \in Nat, ~FitsAt(KeyOf[c], n)
        PROVE  ~FitsAt(KeyOf[c], n)'
    <2>1. BucketAt(KeyOf[c], n) \in Buckets
      BY SameUnits, ProbedBuckets
    <2>2. PICK b \in Buckets : b = BucketAt(KeyOf[c], n)
      BY <2>1
    <2>3. Left(b) \in Nat /\ Left(b)' \in Nat /\ Left(b)' <= Left(b)
      BY <1>1, LeftFalls
    <2>4. UnitsOfKey(KeyOf[c]) \in Nat
      BY SameUnits
    <2>5. FitsAt(KeyOf[c], n) <=> UnitsOfKey(KeyOf[c]) <= Left(b)
      BY <2>2 DEF FitsAt
    <2>6. FitsAt(KeyOf[c], n)' <=> UnitsOfKey(KeyOf[c]) <= Left(b)'
      BY <2>2 DEF FitsAt, UnitsOfKey, BucketAt
    <2> QED
      BY <1>2, <2>3, <2>4, <2>5, <2>6
  <1>3. ASSUME NEW c \in Commands, NEW n \in Nat, Tried(KeyOf[c], n)
        PROVE  Tried(KeyOf[c], n)'
    <2>1. ASSUME NEW m \in 0 .. n - 1 PROVE ~FitsAt(KeyOf[c], m)'
      <3>1. m \in Nat
        OBVIOUS
      <3>2. ~FitsAt(KeyOf[c], m)
        BY <1>3 DEF Tried
      <3> QED
        BY <1>2, <3>1, <3>2
    <2> QED
      BY <2>1 DEF Tried
  <1>4. ASSUME NEW r \in Probes PROVE r \in Probes'
    <2>1. /\ r \in OfThisSale /\ r.command \in Commands /\ r.attempt \in 0 .. LastProbe
          /\ r.bucket = BucketAt(KeyOf[r.command], r.attempt) /\ Tried(KeyOf[r.command], r.attempt)
      BY DEF Probes, OfThisSale, Request
    <2>2. Tried(KeyOf[r.command], r.attempt)'
      BY <1>3, <2>1
    <2>3. Probes' = {x \in OfThisSale : /\ x.attempt \in 0 .. LastProbe
                        /\ x.bucket = BucketAt(KeyOf[x.command], x.attempt)
                        /\ Tried(KeyOf[x.command], x.attempt)'}
      BY DEF Probes, OfThisSale, Request, LastProbe, BucketAt
    <2> QED
      BY <2>1, <2>2, <2>3
  <1> QED
    BY <1>2, <1>3, <1>4

\* A probe that does not fit moves on to its next bucket, a probe again.
LEMMA NextProbeIs ==
    ASSUME Steady, TypeOK, LimitStays, NEW r \in Probes, NEW p \in Partitions,
           p = RetryPartition[r.bucket], ~Fits(p, r), MayProbe(r)
    PROVE  NextProbe(r) \in Probes /\ NextProbe(r).attempt = r.attempt + 1
  <1>1. /\ r \in Request /\ r.limit = InitialLimit /\ r.attempt \in 0 .. LastProbe
        /\ KeyOf[r.command] \in Keys
        /\ Tried(KeyOf[r.command], r.attempt)
        /\ ~FitsAt(KeyOf[r.command], r.attempt)
        /\ r.attempt # LastProbe /\ LastProbe \in Nat
    BY ProbeFits, ProbedBuckets
  <1> DEFINE next == NextProbe(r)
  <1>2. next \in Request
    BY <1>1, NextProbeType
  <1>3. next.command = r.command /\ next.limit = r.limit /\ next.attempt = r.attempt + 1
        /\ next.bucket = (PrimaryBucket[KeyOf[r.command]] + r.attempt + 1) % BucketCount
    BY DEF NextProbe
  <1>4. PrimaryBucket[KeyOf[r.command]] \in Nat
    BY <1>1, RoutingAssumption DEF Buckets
  <1>5. next.bucket = BucketAt(KeyOf[r.command], r.attempt + 1)
    <2>1. PrimaryBucket[KeyOf[r.command]] + r.attempt + 1 = PrimaryBucket[KeyOf[r.command]] + (r.attempt + 1)
      BY <1>1, <1>4
    <2> QED
      BY <1>3, <2>1 DEF BucketAt
  <1>6. Tried(KeyOf[r.command], r.attempt + 1)
    BY <1>1 DEF Tried
  <1>7. r.attempt + 1 \in 0 .. LastProbe
    BY <1>1
  <1> HIDE DEF next
  <1>8. next \in Probes
    BY <1>1, <1>2, <1>3, <1>5, <1>6, <1>7 DEF Probes, OfThisSale
  <1> QED
    BY <1>3, <1>8 DEF next

\* The record a task reads is a probe, on the partition of its bucket.
LEMMA ReadProbe ==
    ASSUME TypeOK, RecordsInPlace, ProbeInv, NEW p \in Partitions, requestTopic[p] # <<>>,
           NEW r, r = Head(requestTopic[p])
    PROVE  r \in Probes /\ p = RetryPartition[r.bucket]
  <1>1. Probes \in SUBSET Request
    BY DEF Probes, OfThisSale
  <1>2. r \in Probes
    BY <1>1, TailWithin DEF ProbeInv
  <1>3. r \in RequestsOf(p)
    BY TailInPlace
  <1> QED
    BY <1>2, <1>3 DEF RequestsOf

\* Every step keeps the requests of a steady sale probes.
LEMMA ProbesKept ==
    ASSUME Steady, TypeOK, LimitStays, RecordsInPlace, ProbeInv, [Next]_vars, TypeOK'
    PROVE  /\ \A p \in Partitions : requestTopic'[p] \in Seq(Probes)
           /\ ProbeInv'
  <1> DEFINE New == {r \in Probes : r.attempt = 0}
  <1>1. Probes \in SUBSET Request /\ New \in SUBSET Request /\ New \subseteq Probes
    BY DEF Probes, OfThisSale
  <1>2. outbox \subseteq New /\ \A p \in Partitions : requestTopic[p] \in Seq(Probes)
    BY DEF ProbeInv
  <1>3. ASSUME NEW r \in Request, r.limit \in servedLimits, r.attempt = 0,
               r.bucket = PrimaryBucket[KeyOf[r.command]]
        PROVE  r \in New
    <2>1. r.limit = InitialLimit /\ KeyOf[r.command] \in Keys
      BY <1>3, RoutingAssumption DEF LimitStays, Request
    <2>2. r.bucket = BucketAt(KeyOf[r.command], r.attempt) /\ r.attempt \in 0 .. LastProbe
      BY <1>3, <2>1, ProbedBuckets
    <2>3. Tried(KeyOf[r.command], r.attempt)
      BY <1>3 DEF Tried
    <2> QED
      BY <1>3, <2>1, <2>2, <2>3 DEF Probes, OfThisSale
  <1>4. ASSUME NEW p \in Partitions, NEW r \in Probes,
               requestTopic[p] # <<>>, r = Head(requestTopic[p]), ScheduleRetry(p, r)
        PROVE  NextProbe(r) \in Probes
    <2>1. p = RetryPartition[r.bucket]
      BY <1>4, ReadProbe
    <2> QED
      BY <1>4, <2>1, NextProbeIs DEF ScheduleRetry
  <1> HIDE DEF New
  <1>5. outbox' \subseteq New
    BY <1>1, <1>2, <1>3, OutboxWithin
  <1>6. \A p \in Partitions : requestTopic'[p] \in Seq(Probes)
    <2>1. outbox \subseteq Probes
      BY <1>1, <1>2
    <2> HIDE DEF Probes
    <2> QED
      BY <1>1, <1>2, <1>4, <2>1, TopicWithin
  <1>7. Probes \subseteq Probes'
    BY TriedStays
  <1>8. ProbeInv'
    <2>1. outbox' \subseteq {r \in Probes' : r.attempt = 0}
      BY <1>5, <1>7 DEF New
    <2>2. \A p \in Partitions : requestTopic'[p] \in Seq(Probes')
      <3>1. ASSUME NEW A, NEW B, A \subseteq B, NEW s \in Seq(A) PROVE s \in Seq(B)
        BY <3>1
      <3> QED
        BY <1>6, <1>7, <3>1
    <2> QED
      BY <2>1, <2>2 DEF ProbeInv
  <1> QED
    BY <1>6, <1>8

------------------------------------------------------------------------------
(* One answer per key of a steady sale *)

Fresh == {o \in results : ~o.duplicate}

\* Outcome o answers its key at the bucket it was at after n moves: the buckets before
\* could not serve it, nor could this one if it is turned away, and no unread request
\* of the key has moved further.
AnsweredAt(o, n) ==
    LET k == KeyOf[o.command] IN
    /\ o.decision.bucket = BucketAt(k, n)
    /\ Tried(k, n)
    /\ o.decision.status = "rejected" => n = LastProbe /\ ~FitsAt(k, n)
    /\ \A p \in Partitions : requestTopic[p] \in Seq(MovedUpTo(k, n))

FreshInv ==
    \A o \in Fresh :
        /\ o.decision.command = o.command
        /\ o.decision.quantity = QuantityOf[o.command]
        /\ o.decision.partition = RetryPartition[o.decision.bucket]
        /\ \E n \in 0 .. LastProbe : AnsweredAt(o, n)

OneAnswerPerKey ==
    \A o, x \in Fresh : KeyOf[o.command] = KeyOf[x.command] => o = x

AnswerInv == FreshInv /\ OneAnswerPerKey

\* The outcome that is forwarded for a decision of the task of p on request r.
FreshOutcome(p, r, status) ==
    [command |-> r.command, decision |-> DecisionOn(p, r, status), duplicate |-> FALSE]

\* A fresh outcome comes from a reservation or a rejection.
LEMMA FreshSteps ==
    ASSUME TypeOK, [Next]_vars
    PROVE  \/ Fresh' = Fresh /\ Reservations' = Reservations
           \/ \E p \in Partitions, s \in {"reserved", "rejected"} :
                LET r == Head(requestTopic[p]) IN
                /\ requestTopic[p] # <<>>
                /\ Unseen(p, r)
                /\ IF s = "reserved" THEN Fits(p, r) ELSE ~Fits(p, r) /\ ~MayProbe(r)
                /\ Fresh' = Fresh \cup {FreshOutcome(p, r, s)}
                /\ Reservations' = Reservations \cup
                     (IF s = "reserved" THEN {FreshOutcome(p, r, s)} ELSE {})
  <1>1. CASE results' = results
    BY <1>1 DEF Fresh, Reservations
  <1>2. ASSUME NEW p \in Partitions, Process(p)
        PROVE  \/ Fresh' = Fresh /\ Reservations' = Reservations
               \/ \E s \in {"reserved", "rejected"} :
                    LET r == Head(requestTopic[p]) IN
                    /\ requestTopic[p] # <<>>
                    /\ Unseen(p, r)
                    /\ IF s = "reserved" THEN Fits(p, r) ELSE ~Fits(p, r) /\ ~MayProbe(r)
                    /\ Fresh' = Fresh \cup {FreshOutcome(p, r, s)}
                    /\ Reservations' = Reservations \cup
                         (IF s = "reserved" THEN {FreshOutcome(p, r, s)} ELSE {})
    <2> DEFINE r == Head(requestTopic[p])
    <2>1. CASE ForwardDuplicate(p, r)
      <3> DEFINE o == [command |-> r.command, decision |-> dedupeStore[p][KeyOf[r.command]],
                       duplicate |-> TRUE]
      <3>1. results' = results \cup {o} /\ o.duplicate
        BY <2>1 DEF ForwardDuplicate
      <3> HIDE DEF o
      <3> QED
        BY <3>1 DEF Fresh, Reservations
    <2>2. ASSUME NEW s \in {"reserved", "rejected"}, results' = results \cup {FreshOutcome(p, r, s)}
          PROVE  /\ Fresh' = Fresh \cup {FreshOutcome(p, r, s)}
                 /\ Reservations' = Reservations \cup
                      (IF s = "reserved" THEN {FreshOutcome(p, r, s)} ELSE {})
      <3>1. PICK o : o = FreshOutcome(p, r, s)
        OBVIOUS
      <3>2. ~o.duplicate /\ o.decision.status = s
        BY <3>1 DEF FreshOutcome, DecisionOn
      <3>3. Fresh' = Fresh \cup {o}
        BY <2>2, <3>1, <3>2 DEF Fresh
      <3>4. Reservations' = Reservations \cup (IF s = "reserved" THEN {o} ELSE {})
        BY <2>2, <3>1, <3>2 DEF Reservations
      <3> QED
        BY <3>1, <3>3, <3>4
    <2>3. CASE Reserve(p, r)
      BY <1>2, <2>2, <2>3 DEF Reserve, Decide, Process, FreshOutcome
    <2>4. CASE Reject(p, r)
      BY <1>2, <2>2, <2>4 DEF Reject, Decide, Process, FreshOutcome
    <2>5. CASE ScheduleRetry(p, r)
      BY <2>5 DEF ScheduleRetry, Fresh, Reservations
    <2> QED
      BY <1>2, <2>1, <2>3, <2>4, <2>5 DEF Process
  <1>3. CASE ~ \E p \in Partitions : Process(p)
    <2>1. results' = results
      BY <1>3 DEF Next, vars, AcceptBuyIntent, BrokerAcks, AckLostOnDisconnect, DeliveryFails,
         UpdateSeckillConfig, AvailableChanges, Skip, SkipOnBootstrapFailure, stores, ingress
    <2> QED
      BY <1>1, <2>1
  <1> QED
    BY <1>2, <1>3

\* A task that has not seen a key reads a request that has moved less far than the one
\* that was answered.
LEMMA UnseenIsBehind ==
    ASSUME Steady, TypeOK, LimitStays, RecordsInPlace, ProbeInv, OneDecisionPerTask, FreshInv,
           NEW p \in Partitions, requestTopic[p] # <<>>,
           NEW r, r = Head(requestTopic[p]), Unseen(p, r),
           NEW o \in Fresh, KeyOf[o.command] = KeyOf[r.command],
           NEW n \in 0 .. LastProbe, AnsweredAt(o, n)
    PROVE  r.attempt < n /\ ~Fits(p, r) /\ MayProbe(r)
  <1> DEFINE k == KeyOf[r.command]
  <1>1. r \in Probes /\ p = RetryPartition[r.bucket]
    BY ReadProbe
  <1>2. /\ r \in Request /\ r.attempt \in 0 .. LastProbe /\ LastProbe \in Nat
        /\ k \in Keys /\ r.bucket = BucketAt(k, r.attempt)
        /\ Fits(p, r) <=> FitsAt(k, r.attempt)
        /\ MayProbe(r) <=> r.attempt # LastProbe
    BY <1>1, ProbeFits, ProbedBuckets
  <1>3. r.attempt <= n
    <2>1. MovedUpTo(k, n) \in SUBSET Request
      BY DEF MovedUpTo
    <2>2. \A q \in Partitions : requestTopic[q] \in Seq(MovedUpTo(k, n))
      BY DEF AnsweredAt
    <2>3. r \in MovedUpTo(k, n)
      BY <2>1, <2>2, TailWithin
    <2> QED
      BY <2>3 DEF MovedUpTo
  <1>4. r.attempt # n
    <2>1. SUFFICES ASSUME r.attempt = n PROVE FALSE
      OBVIOUS
    <2>2. o.decision.bucket = r.bucket
      BY <1>2, <2>1 DEF AnsweredAt
    <2>3. o.decision.partition = p
      BY <1>1, <2>2 DEF FreshInv
    <2>4. o \in results /\ o.decision \in Decision
      BY DEF Fresh, TypeOK, Outcome
    <2>5. dedupeStore[p][k] = o.decision
      BY <2>3, <2>4 DEF OneDecisionPerTask
    <2> QED
      BY <2>4, <2>5, NullAssumption DEF Unseen
  <1>5. r.attempt < n
    BY <1>2, <1>3, <1>4
  <1>6. ~FitsAt(k, r.attempt)
    BY <1>2, <1>5 DEF AnsweredAt, Tried
  <1> QED
    BY <1>2, <1>5, <1>6

\* An answer stands: whatever happens next, the key was answered where it was.
LEMMA AnswerStands ==
    ASSUME Steady, TypeOK, LimitStays, RecordsInPlace, ProbeInv, OneDecisionPerTask, FreshInv,
           [Next]_vars, TypeOK',
           NEW o \in Fresh, NEW n \in 0 .. LastProbe, AnsweredAt(o, n)
    PROVE  AnsweredAt(o, n)'
  <1> DEFINE k == KeyOf[o.command]
             R == MovedUpTo(k, n)
  <1>1. o.command \in Commands /\ n \in Nat
    BY DEF Fresh, TypeOK, Outcome
  <1>2. /\ o.decision.bucket = BucketAt(k, n)
        /\ Tried(k, n)
        /\ o.decision.status = "rejected" => n = LastProbe /\ ~FitsAt(k, n)
        /\ \A p \in Partitions : requestTopic[p] \in Seq(R)
    BY DEF AnsweredAt
  <1>3. Tried(k, n)' /\ (~FitsAt(k, n) => ~FitsAt(k, n)')
    BY <1>1, <1>2, TriedStays
  <1>4. R \in SUBSET Request
    BY DEF MovedUpTo
  <1>5. outbox \subseteq R
    BY <1>1 DEF ProbeInv, MovedUpTo, Probes, OfThisSale
  <1>6. ASSUME NEW p \in Partitions, NEW r \in R,
               requestTopic[p] # <<>>, r = Head(requestTopic[p]), ScheduleRetry(p, r)
        PROVE  NextProbe(r) \in R
    <2>1. r \in Probes /\ p = RetryPartition[r.bucket] /\ r \in Request /\ r.attempt \in Nat
      BY <1>6, ReadProbe, ParameterAssumption DEF MovedUpTo, Request
    <2>2. NextProbe(r) \in Request /\ NextProbe(r).attempt = r.attempt + 1
          /\ NextProbe(r).command = r.command
      BY <1>6, <2>1, NextProbeType DEF NextProbe, ScheduleRetry
    <2>3. CASE KeyOf[r.command] = k
      <3>1. Unseen(p, r)
        BY <1>6 DEF ScheduleRetry
      <3>2. r.attempt < n
        BY <1>6, <2>3, <3>1, UnseenIsBehind
      <3> QED
        BY <1>1, <2>1, <2>2, <3>2 DEF MovedUpTo
    <2>4. CASE KeyOf[r.command] # k
      BY <2>2, <2>4 DEF MovedUpTo
    <2> QED
      BY <2>3, <2>4
  <1>7. \A p \in Partitions : requestTopic'[p] \in Seq(R)
    <2> HIDE DEF R
    <2> QED
      BY <1>2, <1>4, <1>5, <1>6, TopicWithin
  <1> QED
    BY <1>2, <1>3, <1>7 DEF AnsweredAt, MovedUpTo, Request, BucketAt, LastProbe

\* A key is decided afresh only if it has no answer, and the decision answers it where
\* the request is.
LEMMA DecisionAnswers ==
    ASSUME Steady, TypeOK, LimitStays, RecordsInPlace, ProbeInv, OneDecisionPerTask, FreshInv,
           [Next]_vars, TypeOK',
           NEW p \in Partitions, requestTopic[p] # <<>>,
           NEW r, r = Head(requestTopic[p]), Unseen(p, r),
           NEW s \in {"reserved", "rejected"},
           IF s = "reserved" THEN Fits(p, r) ELSE ~Fits(p, r) /\ ~MayProbe(r),
           NEW o, o = FreshOutcome(p, r, s)
    PROVE  /\ \A x \in Fresh : KeyOf[x.command] # KeyOf[r.command]
           /\ o.command = r.command
           /\ o.decision.command = o.command
           /\ o.decision.quantity = QuantityOf[o.command]
           /\ o.decision.status = s
           /\ o.decision.partition = RetryPartition[o.decision.bucket]
           /\ \E n \in 0 .. LastProbe : AnsweredAt(o, n)'
  <1> DEFINE k == KeyOf[r.command]
             n == r.attempt
  <1>1. r \in Probes /\ p = RetryPartition[r.bucket]
    BY ReadProbe
  <1>2. /\ r \in Request /\ n \in 0 .. LastProbe /\ n \in Nat /\ LastProbe \in Nat
        /\ k \in Keys /\ r.command \in Commands /\ r.bucket = BucketAt(k, n) /\ Tried(k, n)
        /\ Fits(p, r) <=> FitsAt(k, n)
        /\ MayProbe(r) <=> n # LastProbe
    <2>1. /\ r \in Request /\ n \in 0 .. LastProbe /\ k \in Keys /\ LastProbe \in Nat
          /\ r.bucket = BucketAt(k, n) /\ Tried(k, n)
          /\ Fits(p, r) <=> FitsAt(k, n)
          /\ MayProbe(r) <=> n # LastProbe
      BY <1>1, ProbeFits, ProbedBuckets
    <2>2. r.command \in Commands
      BY <2>1 DEF Request
    <2>3. n \in Nat
      BY <2>1
    <2> HIDE DEF n, k
    <2> QED
      BY <2>1, <2>2, <2>3
  <1>3. ASSUME NEW x \in Fresh, KeyOf[x.command] = k PROVE FALSE
    <2>1. PICK m \in 0 .. LastProbe : AnsweredAt(x, m)
      BY DEF FreshInv
    <2>2. r.attempt < m /\ ~Fits(p, r) /\ MayProbe(r)
      BY <1>3, <2>1, UnseenIsBehind
    <2> QED
      BY <2>2
  <1>4. /\ o.command = r.command
        /\ o.decision.command = r.command
        /\ o.decision.quantity = QuantityOf[r.command]
        /\ o.decision.status = s
        /\ o.decision.partition = p
        /\ o.decision.bucket = r.bucket
    BY DEF FreshOutcome, DecisionOn
  <1>5. Tried(k, n)' /\ (~FitsAt(k, n) => ~FitsAt(k, n)')
    BY <1>2, TriedStays
  <1>6. Probes \subseteq MovedUpTo(k, n)
    <2>1. SUFFICES ASSUME NEW x \in Probes, KeyOf[x.command] = k PROVE x \in Request /\ x.attempt <= n
      BY DEF MovedUpTo, Probes, OfThisSale
    <2>2. x \in Request /\ x.attempt \in 0 .. LastProbe /\ Tried(k, x.attempt)
      BY <2>1 DEF Probes, OfThisSale
    <2>3. CASE s = "reserved"
      <3>1. FitsAt(k, n)
        BY <1>2, <2>3
      <3> QED
        BY <1>2, <2>2, <3>1 DEF Tried
    <2>4. CASE s = "rejected"
      <3>1. n = LastProbe
        BY <1>2, <2>4
      <3> QED
        BY <1>2, <2>2, <3>1
    <2> QED
      BY <2>3, <2>4
  <1>7. \A q \in Partitions : requestTopic'[q] \in Seq(MovedUpTo(k, n))
    <2>1. \A q \in Partitions : requestTopic'[q] \in Seq(Probes)
      BY ProbesKept
    <2>2. ASSUME NEW A, NEW B, A \subseteq B, NEW t \in Seq(A) PROVE t \in Seq(B)
      BY <2>2
    <2> QED
      BY <1>6, <2>1, <2>2
  <1>8. o.decision.status = "rejected" => n = LastProbe /\ ~FitsAt(k, n)'
    <2>1. CASE s = "reserved"
      BY <1>4, <2>1
    <2>2. CASE s = "rejected"
      BY <1>2, <1>5, <2>2
    <2> QED
      BY <2>1, <2>2
  <1> HIDE DEF k, n
  <1>9. PICK j, m : j = k /\ m = n
    OBVIOUS
  <1>10. KeyOf[o.command] = j
    BY <1>4, <1>9 DEF k
  <1>11. Tried(j, m)' /\ (o.decision.status = "rejected" => m = LastProbe /\ ~FitsAt(j, m)')
         /\ o.decision.bucket = BucketAt(j, m) /\ m \in 0 .. LastProbe
         /\ \A q \in Partitions : requestTopic'[q] \in Seq(MovedUpTo(j, m))
    <2>1. Tried(j, m)' /\ (~FitsAt(k, n)' => ~FitsAt(j, m)')
      BY <1>5, <1>9 DEF k, n, Tried, FitsAt
    <2> QED
      BY <1>2, <1>4, <1>7, <1>8, <1>9, <2>1
  <1>12. AnsweredAt(o, m)'
    BY <1>10, <1>11 DEF AnsweredAt, MovedUpTo, Request, BucketAt, LastProbe
  <1> QED
    BY <1>1, <1>3, <1>4, <1>11, <1>12 DEF k

\* Every step keeps the answers, and gives a key at most one.
LEMMA AnswersKept ==
    ASSUME Steady, TypeOK, LimitStays, RecordsInPlace, ProbeInv, OneDecisionPerTask, AnswerInv,
           [Next]_vars, TypeOK'
    PROVE  AnswerInv'
  <1>0. FreshInv /\ OneAnswerPerKey
    BY DEF AnswerInv
  <1>1. ASSUME NEW o \in Fresh, Fresh \subseteq Fresh'
        PROVE  /\ o.decision.command = o.command
               /\ o.decision.quantity = QuantityOf[o.command]
               /\ o.decision.partition = RetryPartition[o.decision.bucket]
               /\ \E n \in 0 .. LastProbe : AnsweredAt(o, n)'
    <2>1. PICK n \in 0 .. LastProbe : AnsweredAt(o, n)
      BY <1>0 DEF FreshInv
    <2>2. AnsweredAt(o, n)'
      BY <1>0, <2>1, AnswerStands
    <2> QED
      BY <1>0, <2>1, <2>2 DEF FreshInv
  <1>2. CASE Fresh' = Fresh
    <2>1. FreshInv'
      BY <1>1, <1>2 DEF FreshInv, LastProbe
    <2>2. OneAnswerPerKey'
      BY <1>0, <1>2 DEF OneAnswerPerKey
    <2> QED
      BY <2>1, <2>2 DEF AnswerInv
  <1>3. ASSUME NEW p \in Partitions, NEW s \in {"reserved", "rejected"},
               NEW r, r = Head(requestTopic[p]),
               requestTopic[p] # <<>>, Unseen(p, r),
               IF s = "reserved" THEN Fits(p, r) ELSE ~Fits(p, r) /\ ~MayProbe(r),
               Fresh' = Fresh \cup {FreshOutcome(p, r, s)}
        PROVE  AnswerInv'
    <2>1. PICK o : o = FreshOutcome(p, r, s)
      OBVIOUS
    <2>2. /\ \A x \in Fresh : KeyOf[x.command] # KeyOf[r.command]
          /\ o.command = r.command
          /\ o.decision.command = o.command
          /\ o.decision.quantity = QuantityOf[o.command]
          /\ o.decision.partition = RetryPartition[o.decision.bucket]
          /\ \E n \in 0 .. LastProbe : AnsweredAt(o, n)'
      BY <1>0, <1>3, <2>1, DecisionAnswers
    <2>3. Fresh' = Fresh \cup {o}
      BY <1>3, <2>1
    <2>4. FreshInv'
      BY <1>1, <2>2, <2>3 DEF FreshInv, LastProbe
    <2>5. OneAnswerPerKey'
      BY <1>0, <2>2, <2>3 DEF OneAnswerPerKey
    <2> QED
      BY <2>4, <2>5 DEF AnswerInv
  <1> QED
    BY <1>2, <1>3, FreshSteps

SaleInv == LimitStays /\ ProbeInv /\ AnswerInv

\* In every reachable state of a steady sale the limit stands, the requests are probes,
\* and a key has one answer at most.
LEMMA SaleKept ==
    ASSUME Steady
    PROVE  Spec => []SaleInv
  <1>1. Init => SaleInv
    <2> SUFFICES ASSUME Init PROVE SaleInv
      OBVIOUS
    <2>1. LimitStays /\ Fresh = {}
      BY DEF Init, LimitStays, Fresh
    <2>2. \A A : <<>> \in Seq(A)
      OBVIOUS
    <2>3. \A p \in Partitions : requestTopic[p] \in Seq(Probes)
      BY <2>2, Zenon DEF Init
    <2>4. outbox \subseteq {r \in Probes : r.attempt = 0}
      BY DEF Init
    <2> QED
      BY <2>1, <2>3, <2>4 DEF SaleInv, ProbeInv, AnswerInv, FreshInv, OneAnswerPerKey
  <1>2. TypeOK /\ TypeOK' /\ RoutingInv /\ OneDecisionPerTask /\ SaleInv /\ [Next]_vars => SaleInv'
    <2> SUFFICES ASSUME TypeOK, TypeOK', RoutingInv, OneDecisionPerTask, SaleInv, [Next]_vars
                 PROVE  SaleInv'
      OBVIOUS
    <2>1. RecordsInPlace /\ LimitStays /\ ProbeInv /\ AnswerInv
      BY DEF RoutingInv, Steady, SaleInv
    <2>2. LimitStays'
      BY <2>1, SteadyStep
    <2>3. ProbeInv'
      BY <2>1, ProbesKept
    <2>4. AnswerInv'
      BY <2>1, AnswersKept
    <2> QED
      BY <2>2, <2>3, <2>4 DEF SaleInv
  <1> QED
    BY <1>1, <1>2, TypeCorrect, RoutingKept, DecidedOnce, PTL DEF Spec

\* A rejection means that every bucket was tried.
LEMMA RejectedAfterEveryBucket ==
    ASSUME Steady, TypeOK, OneDecisionPerTask, SaleInv
    PROVE  RejectedOnlyWhenNoBucketFits
  <1> SUFFICES ASSUME NEW o \in results, NEW b \in Buckets,
                      o.decision.status = "rejected", MaxProbe >= BucketCount
               PROVE  LET r == [command |-> o.decision.command, limit |-> InitialLimit,
                                bucket |-> b, attempt |-> 0]
                      IN  ~Fits(RetryPartition[b], r)
    BY DEF RejectedOnlyWhenNoBucketFits
  <1>1. PICK f \in Fresh : f.decision = o.decision /\ f.command = o.decision.command
    BY DEF OneDecisionPerTask, Fresh
  <1> DEFINE c == o.decision.command
             k == KeyOf[c]
             r == [command |-> c, limit |-> InitialLimit, bucket |-> b, attempt |-> 0]
  <1>2. c \in Commands /\ InitialLimit \in Nat
    BY ParameterAssumption DEF TypeOK, Outcome, Decision
  <1>3. k \in Keys /\ UnitsOfKey(k) = QuantityOf[c]
    BY <1>2, SameUnits
  <1>4. PICK n \in 0 .. LastProbe : AnsweredAt(f, n)
    BY DEF SaleInv, AnswerInv, FreshInv
  <1>5. Tried(k, LastProbe) /\ ~FitsAt(k, LastProbe) /\ LastProbe \in Nat
    BY <1>1, <1>3, <1>4, ProbedBuckets DEF AnsweredAt
  <1>6. PICK m \in 0 .. LastProbe : BucketAt(k, m) = b
    BY <1>3, ProbedBuckets
  <1>7. ~FitsAt(k, m)
    BY <1>5, <1>6 DEF Tried
  <1>8. r \in Request /\ r.limit = InitialLimit /\ r.bucket = b /\ r.command = c
    BY <1>2, ParameterAssumption DEF Request
  <1> HIDE DEF r, k, c
  <1>9. CellFor(RetryPartition[b], r) = CellHere(b)
    BY <1>8, CellHereIs DEF SaleInv
  <1>10. ~Fits(RetryPartition[b], r)
    BY <1>3, <1>6, <1>7, <1>8, <1>9 DEF Fits, FitsAt, Left
  <1> QED
    BY <1>10 DEF r, c

\* In a steady sale with as many probes as buckets nobody is turned away while a bucket
\* could serve the order, in whatever order the requests of the buyers are probed,
\* repeated, skipped and lost; and no bucket can serve it later.
THEOREM TurnedAwayRightly ==
    ASSUME Steady
    PROVE  Spec => []RejectedOnlyWhenNoBucketFits
  <1>1. TypeOK /\ OneDecisionPerTask /\ SaleInv => RejectedOnlyWhenNoBucketFits
    BY RejectedAfterEveryBucket
  <1> QED
    BY <1>1, TypeCorrect, DecidedOnce, SaleKept, PTL

------------------------------------------------------------------------------
(* The path implements SeckillSale *)

\* The answer of a key is that of its fresh outcome, if it has one.
LEMMA KeyAnswerIs ==
    ASSUME NEW k
    PROVE  /\ (\A x \in Fresh : KeyOf[x.command] # k) => KeyAnswer(k) = "open"
           /\ \A o \in Fresh : KeyOf[o.command] = k /\ OneAnswerPerKey =>
                 KeyAnswer(k) = o.decision.status
  <1> DEFINE fresh == {o \in results : ~o.duplicate /\ KeyOf[o.command] = k}
  <1>1. fresh = {o \in Fresh : KeyOf[o.command] = k}
    BY DEF Fresh
  <1>2. KeyAnswer(k) = IF fresh = {} THEN "open" ELSE (CHOOSE o \in fresh : TRUE).decision.status
    BY DEF KeyAnswer
  <1> HIDE DEF fresh
  <1>3. ASSUME NEW o \in Fresh, KeyOf[o.command] = k, OneAnswerPerKey
        PROVE  KeyAnswer(k) = o.decision.status
    <2>1. o \in fresh /\ (CHOOSE x \in fresh : TRUE) \in fresh
      BY <1>1, <1>3
    <2>2. (CHOOSE x \in fresh : TRUE) = o
      BY <1>1, <1>3, <2>1 DEF OneAnswerPerKey
    <2> QED
      BY <1>2, <2>1, <2>2
  <1> QED
    BY <1>1, <1>2, <1>3

\* The answers of the next state.
LEMMA KeyAnswerNext ==
    ASSUME NEW k
    PROVE  /\ (\A x \in Fresh' : KeyOf[x.command] # k) => KeyAnswer(k)' = "open"
           /\ \A o \in Fresh' : KeyOf[o.command] = k /\ OneAnswerPerKey' =>
                 KeyAnswer(k)' = o.decision.status
  <1>1. (/\ (\A x \in Fresh : KeyOf[x.command] # k) => KeyAnswer(k) = "open"
         /\ \A o \in Fresh : KeyOf[o.command] = k /\ OneAnswerPerKey =>
                 KeyAnswer(k) = o.decision.status)'
    BY KeyAnswerIs, PTL
  <1> QED
    BY <1>1

\* A reservation more adds its units, and the reservations still fit into the stock.
LEMMA UnitsGrow ==
    ASSUME TypeOK, TypeOK', StockInv, LimitStays', NoOversell',
           NEW o, o \notin Reservations, Reservations' = Reservations \cup {o}
    PROVE  /\ Units(Reservations)' = Units(Reservations) + o.decision.quantity
           /\ Units(Reservations)' <= Smaller(OnHand, InitialLimit)
  <1>1. Reservations \in SUBSET Outcome /\ Reservations' \in SUBSET Outcome
    BY DEF Reservations, TypeOK
  <1>2. IsFiniteSet(Reservations) /\ IsFiniteSet(Reservations')
    BY FS_AddElement DEF StockInv
  <1>3. PICK A : A = Reservations
    OBVIOUS
  <1>4. A \cup {o} = Reservations'
    BY <1>3
  <1>5. Units(A) = Count(QuantityIn, A)
    BY <1>1, <1>2, <1>3, UnitsAreCounted
  <1>6. Units(A \cup {o}) = Count(QuantityIn, A \cup {o})
    BY <1>1, <1>2, <1>4, UnitsAreCounted
  <1>7. \A x \in A \cup {o} : QuantityIn[x] \in Nat /\ QuantityIn[x] = x.decision.quantity
    BY <1>1, <1>4, RoutingAssumption DEF QuantityIn, Outcome, Decision
  <1>8. Count(QuantityIn, A \cup {o}) = Count(QuantityIn, A) + QuantityIn[o]
    BY <1>2, <1>3, <1>7, CountAdd
  <1>9. Units(Reservations)' = Units(A \cup {o}) /\ Units(Reservations) = Units(A)
    BY <1>3, <1>4
  <1>10. Units(Reservations)' <= Smaller(OnHand, InitialLimit)
    <2>1. InitialLimit \in Nat
      BY ParameterAssumption
    <2>2. Max({InitialLimit}) = InitialLimit
      BY <2>1 DEF Max
    <2>3. servedLimits' = {InitialLimit}
      BY DEF LimitStays
    <2>4. Max(servedLimits)' = InitialLimit
      BY <2>2, <2>3 DEF Max
    <2> QED
      BY <2>4 DEF NoOversell, Smaller
  <1> QED
    BY <1>5, <1>6, <1>7, <1>8, <1>9, <1>10

\* A decision is the one step of the sale for its key; every other step of the path, and
\* every repetition of a decision, leaves the sale as it is.
LEMMA StepOfSale ==
    ASSUME Steady, TypeOK, TypeOK', RecordsInPlace, OneDecisionPerTask, StockInv,
           SaleInv, SaleInv', NoOversell', [Next]_vars
    PROVE  [Sale!Next]_<<[k \in Keys |-> KeyAnswer(k)], Units(Reservations)>>
  <1>1. /\ LimitStays /\ ProbeInv /\ FreshInv /\ OneAnswerPerKey
        /\ LimitStays' /\ OneAnswerPerKey'
    BY DEF SaleInv, AnswerInv
  <1>2. CASE Fresh' = Fresh /\ Reservations' = Reservations
    <2>1. ASSUME NEW k \in Keys PROVE KeyAnswer(k)' = KeyAnswer(k)
      <3>1. CASE \A x \in Fresh : KeyOf[x.command] # k
        BY <1>2, <3>1, KeyAnswerIs, KeyAnswerNext
      <3>2. CASE \E x \in Fresh : KeyOf[x.command] = k
        BY <1>1, <1>2, <3>2, KeyAnswerIs, KeyAnswerNext
      <3> QED
        BY <3>1, <3>2
    <2>2. Units(Reservations)' = Units(Reservations)
      BY <1>2
    <2> QED
      BY <2>1, <2>2
  <1>3. ASSUME NEW p \in Partitions, NEW s \in {"reserved", "rejected"},
               NEW r, r = Head(requestTopic[p]),
               requestTopic[p] # <<>>, Unseen(p, r),
               IF s = "reserved" THEN Fits(p, r) ELSE ~Fits(p, r) /\ ~MayProbe(r),
               Fresh' = Fresh \cup {FreshOutcome(p, r, s)},
               Reservations' = Reservations \cup
                 (IF s = "reserved" THEN {FreshOutcome(p, r, s)} ELSE {})
        PROVE  Sale!Next
    <2>1. PICK o : o = FreshOutcome(p, r, s)
      OBVIOUS
    <2>2. /\ \A x \in Fresh : KeyOf[x.command] # KeyOf[r.command]
          /\ o.command = r.command
          /\ o.decision.quantity = QuantityOf[o.command]
          /\ o.decision.status = s
      BY <1>1, <1>3, <2>1, DecisionAnswers
    <2>3. r.command \in Commands
      BY <1>3, RecordType
    <2>4. PICK k \in Keys : k = KeyOf[o.command]
      BY <2>2, <2>3, SameUnits
    <2>5. o.decision.quantity = UnitsOfKey(k)
      BY <2>2, <2>3, <2>4, SameUnits
    <2>6. Fresh' = Fresh \cup {o} /\ o \notin Fresh
      BY <1>3, <2>1, <2>2
    <2>7. KeyAnswer(k) = "open" /\ KeyAnswer(k)' = s
      BY <1>1, <2>2, <2>4, <2>6, KeyAnswerIs, KeyAnswerNext
    <2>8. ASSUME NEW j \in Keys, j # k PROVE KeyAnswer(j)' = KeyAnswer(j)
      <3>1. CASE \A x \in Fresh : KeyOf[x.command] # j
        <4>1. \A x \in Fresh' : KeyOf[x.command] # j
          BY <2>4, <2>6, <2>8, <3>1
        <4> QED
          BY <3>1, <4>1, KeyAnswerIs, KeyAnswerNext
      <3>2. CASE \E x \in Fresh : KeyOf[x.command] = j
        BY <1>1, <2>6, <3>2, KeyAnswerIs, KeyAnswerNext
      <3> QED
        BY <3>1, <3>2
    <2>9. [j \in Keys |-> KeyAnswer(j)]' = [[j \in Keys |-> KeyAnswer(j)] EXCEPT ![k] = s]
      BY <2>7, <2>8
    <2>10. CASE s = "reserved"
      <3>1. Reservations' = Reservations \cup {o} /\ o \notin Reservations
        BY <1>3, <2>1, <2>6, <2>10 DEF Reservations, Fresh
      <3>2. /\ Units(Reservations)' = Units(Reservations) + UnitsOfKey(k)
            /\ Units(Reservations)' <= Smaller(OnHand, InitialLimit)
        BY <1>1, <2>5, <3>1, UnitsGrow
      <3>3. Sale!Reserve(k)
        BY <2>7, <2>9, <2>10, <3>2 DEF Sale!Reserve
      <3> QED
        BY <3>3 DEF Sale!Next
    <2>11. CASE s = "rejected"
      <3>1. Units(Reservations)' = Units(Reservations)
        BY <1>3, <2>11
      <3>2. Sale!Reject(k)
        BY <2>7, <2>9, <2>11, <3>1 DEF Sale!Reject
      <3> QED
        BY <3>2 DEF Sale!Next
    <2> QED
      BY <2>10, <2>11
  <1> QED
    BY <1>2, <1>3, FreshSteps

\* For any number of buckets, partitions, probes, commands and keys, whatever is lost,
\* sent twice or skipped, a steady sale gives a key one answer that stands, counts a
\* reservation once, and promises no more than the stock.
THEOREM WorkerImplementsSale ==
    ASSUME Steady
    PROVE  Spec => ImplementsSale
  <1>1. Init => Sale!Init
    <2> SUFFICES ASSUME Init PROVE Sale!Init
      OBVIOUS
    <2>1. Fresh = {} /\ Reservations = {}
      BY DEF Init, Fresh, Reservations
    <2>2. \A k \in Keys : KeyAnswer(k) = "open"
      BY <2>1, KeyAnswerIs
    <2>3. Units(Reservations) = 0
      <3>1. {} \in SUBSET Outcome /\ IsFiniteSet({})
        BY FS_EmptySet
      <3>2. Units({}) = 0
        BY <3>1, UnitsAreCounted, CountEmpty
      <3> QED
        BY <2>1, <3>2
    <2> QED
      BY <2>2, <2>3 DEF Sale!Init
  <1>2. PublishPartition = RetryPartition
    BY DEF Steady
  <1>3. Spec => []NoOversell
    BY <1>2, NeverOversold
  <1>4. TypeOK /\ TypeOK' /\ RoutingInv /\ OneDecisionPerTask /\ StockInv /\ SaleInv /\ SaleInv'
          /\ NoOversell' /\ [Next]_vars
          => [Sale!Next]_<<[k \in Keys |-> KeyAnswer(k)], Units(Reservations)>>
    BY <1>2, StepOfSale DEF RoutingInv
  <1> QED
    BY <1>1, <1>3, <1>4, TypeCorrect, RoutingKept, DecidedOnce, StockKept, SaleKept, PTL
    DEF Spec, ImplementsSale, Sale!Spec, Sale!saleVars

==============================================================================
