------------------------- MODULE SeckillRoutingProofs -------------------------
(***************************************************************************)
(* Proofs about SeckillRouting for all carts, any number of commands, any  *)
(* lifetime of an entry, any time a query takes and any order of queries,  *)
(* changes and invalidations.                                              *)
(***************************************************************************)
EXTENDS SeckillRouting, TLAPS

------------------------------------------------------------------------------
(* The inductive invariant *)

\* A SKU that is on sale has a limit, the other ones have none.
LimitInv == \A s \in Skus : sku[s].enabled => sku[s].limit # Null

\* No date lies ahead, and no query takes longer than QueryTime.
ClockInv ==
    /\ \A s \in Skus : sku[s].since <= now
    /\ \A s \in Skus : cache[s] # Null => cache[s].expiresAt <= now + TTL
    /\ \A c \in InFlight : task[c].startedAt <= now /\ now <= task[c].startedAt + QueryTime

\* A query is sent for some SKUs of the cart, and read for the ones it was sent for.
QueryInv ==
    \A c \in InFlight :
        /\ task[c].missing # {} /\ task[c].missing \subseteq SkusOf(c)
        /\ task[c].phase = "read" => task[c].rows \in [task[c].missing -> Rows]

\* What a query has read is the row of the table, or the row has changed since the query
\* was sent.
ReadInv ==
    \A c \in Commands : task[c].phase = "read" =>
        \A s \in task[c].missing :
            task[c].rows[s] = sku[s] \/ sku[s].since >= task[c].startedAt

\* An entry that is not the row of the table any more outlives the change by TTL and the
\* time of one query at most.
EntryInv ==
    \A s \in Skus : cache[s] # Null =>
        cache[s].row = sku[s] \/ cache[s].expiresAt <= sku[s].since + TTL + QueryTime

\* What a mixed cart has found in the cache may be overwritten before it is used, but not
\* by a row that was out of date when the cart came.
MixedInv ==
    \A c \in InFlight : \A s \in SkusOf(c) \ task[c].missing :
        /\ cache[s] = Null => s \in task[c].invalidated
        /\ cache[s] # Null => \/ cache[s].row = sku[s]
                              \/ sku[s].since + TTL + QueryTime >= task[c].startedAt

\* Nothing in the cache or on its way into it is older than the last invalidation that no
\* query was overtaken by.
FloorInv ==
    /\ \A s \in Skus : floor[s] <= sku[s].version
    /\ \A s \in Skus : cache[s] # Null => floor[s] <= cache[s].row.version
    /\ \A c \in Commands : \A s \in Skus : task[c].floor[s] <= floor[s]
    /\ \A c \in Commands : task[c].phase = "read" =>
          \A s \in task[c].missing : floor[s] <= task[c].rows[s].version

IInv ==
    /\ TypeOK /\ LimitInv /\ ClockInv /\ QueryInv /\ ReadInv /\ EntryInv /\ MixedInv /\ FloorInv

------------------------------------------------------------------------------
(* Types *)

\* The first SKU of a cart is one of its SKUs, and the only one of a single line.
LEMMA CartSkus ==
    ASSUME NEW c \in Commands
    PROVE  /\ SkusOf(c) \subseteq Skus
           /\ ItemsOf[c][1] \in SkusOf(c)
           /\ ~Mixed(c) => SkusOf(c) = {ItemsOf[c][1]}
  <1>1. ItemsOf[c] \in Seq(Skus) /\ ItemsOf[c] # <<>>
    BY RoutingAssumption
  <1>2. Len(ItemsOf[c]) \in Nat \ {0}
    BY <1>1
  <1>3. SkusOf(c) = {ItemsOf[c][i] : i \in 1 .. Len(ItemsOf[c])}
    BY <1>1 DEF SkusOf, Range
  <1>4. ~Mixed(c) => 1 .. Len(ItemsOf[c]) = {1}
    <2>1. ASSUME ~Mixed(c) PROVE Len(ItemsOf[c]) = 1
      BY <2>1 DEF Mixed
    <2>2. 1 .. 1 = {1}
      OBVIOUS
    <2> QED BY <2>1, <2>2
  <1> QED BY <1>1, <1>2, <1>3, <1>4

\* The rows of a query that has read nothing yet.
LEMMA NoRows == [s \in {} |-> Null] \in Answers
  <1>1. [s \in {} |-> Null] \in [{} -> Rows]
    OBVIOUS
  <1>2. {} \in SUBSET Skus
    OBVIOUS
  <1> QED BY <1>1, <1>2 DEF Answers

\* A call that has not begun, and one that is over.
LEMMA TaskType ==
    /\ New \in Tasks
    /\ \A k \in Kinds, l \in Limits \cup {Null} : Done([kind |-> k, limit |-> l]) \in Tasks
  <1>1. 0 \in 0 .. MaxTime /\ 0 \in 0 .. MaxUpdates
    BY RoutingAssumption
  <1>2. New \in Tasks
    BY <1>1, NoRows DEF New, Tasks
  <1> QED BY <1>2 DEF Done, Tasks

\* An expiry is in its range, whichever clock it counts from.
LEMMA EntryType ==
    ASSUME TypeOK, QueryInv, NEW c \in Commands, task[c].phase = "read", NEW s \in task[c].missing
    PROVE  EntryAfter(c, s) \in Entries /\ EntryAfter(c, s) # Null
  <1>1. task[c].rows[s] \in Rows
    BY DEF QueryInv, InFlight
  <1>2. task[c].startedAt \in 0 .. MaxTime /\ now \in 0 .. MaxTime
    BY DEF TypeOK, Tasks
  <1>3. task[c].startedAt + TTL \in 0 .. MaxTime + TTL /\ now + TTL \in 0 .. MaxTime + TTL
    BY <1>2, RoutingAssumption
  <1> QED BY <1>1, <1>3, NullAssumption DEF EntryAfter, Entries

\* What a cart is decided to be is a kind with a limit or without.
LEMMA DecisionType ==
    ASSUME NEW c \in Commands, NEW known \in [Skus -> Entries \cup {Null}],
           \A s \in SkusOf(c) : ~Mixed(c) => known[s] # Null
    PROVE  \E k \in Kinds \ {"failed"}, l \in Limits \cup {Null} :
              Decision(c, known) = [kind |-> k, limit |-> l]
  <1>1. CASE Mixed(c)
    <2> DEFINE kind == IF \E s \in SkusOf(c) : known[s] # Null /\ known[s].row.enabled
                       THEN "mixed_refused" ELSE "default"
    <2>1. Decision(c, known) = [kind |-> kind, limit |-> Null]
      BY <1>1 DEF Decision
    <2>2. kind \in Kinds \ {"failed"}
      BY DEF Kinds
    <2> HIDE DEF kind
    <2> QED BY <2>1, <2>2
  <1>2. CASE ~Mixed(c)
    <2>1. known[ItemsOf[c][1]] \in Entries
      BY <1>2, CartSkus
    <2>2. known[ItemsOf[c][1]].row.limit \in Limits \cup {Null}
      BY <2>1 DEF Entries, Rows
    <2>3. \/ Decision(c, known) = [kind |-> "single_seckill", limit |-> known[ItemsOf[c][1]].row.limit]
          \/ Decision(c, known) = [kind |-> "default", limit |-> Null]
      BY <1>2 DEF Decision
    <2> QED BY <2>2, <2>3 DEF Kinds
  <1> QED BY <1>1, <1>2

------------------------------------------------------------------------------
(* What the actions do to a task *)

\* A cart whose SKUs the cache can answer is decided at once; for another one a query is
\* sent for the others.
LEMMA Classified ==
    ASSUME TypeOK, NEW c \in Commands, Classify(c)
    PROVE  /\ task[c].phase = "new"
           /\ UNCHANGED <<now, sku, cache, invalidations, floor>>
           /\ \A d \in Commands \ {c} : task'[d] = task[d]
           /\ task' \in [Commands -> Tasks]
           /\ \/ /\ \A s \in SkusOf(c) : Fresh(s)
                 /\ task'[c] = Done(Decision(c, cache))
                 /\ task'[c].phase = "decided"
              \/ /\ task'[c].phase = "reading"
                 /\ task'[c].missing = {s \in SkusOf(c) : ~Fresh(s)}
                 /\ task'[c].missing # {}
                 /\ task'[c].startedAt = now
                 /\ task'[c].floor = floor
                 /\ task'[c].invalidated = {}
  <1> DEFINE missing == {s \in SkusOf(c) : ~Fresh(s)}
             started == [New EXCEPT !.phase = "reading", !.startedAt = now,
                                    !.missing = missing, !.floor = floor]
  <1>1. /\ task[c].phase = "new"
        /\ UNCHANGED <<now, sku, cache, invalidations, floor>>
        /\ task' = [task EXCEPT ![c] = IF missing # {} THEN started ELSE Done(Decision(c, cache))]
    BY DEF Classify
  <1>2. missing \subseteq Skus
    BY CartSkus
  <1>3. /\ started.phase = "reading" /\ started.startedAt = now /\ started.missing = missing
        /\ started.floor = floor /\ started.invalidated = New.invalidated
    <2> HIDE DEF missing
    <2> QED BY TaskType DEF Tasks
  <1>4. started \in Tasks /\ New.invalidated = {}
    <2>1. started \in Tasks
      <3> HIDE DEF missing
      <3> QED BY <1>2, TaskType DEF TypeOK, Tasks
    <2>2. New.invalidated = {}
      BY DEF New
    <2> QED BY <2>1, <2>2
  <1>5. CASE missing # {}
    BY <1>1, <1>3, <1>4, <1>5 DEF TypeOK
  <1>6. CASE missing = {}
    <2>1. \A s \in SkusOf(c) : Fresh(s)
      BY <1>6
    <2>2. Done(Decision(c, cache)) \in Tasks
      BY <2>1, DecisionType, TaskType DEF TypeOK, Fresh
    <2>3. Done(Decision(c, cache)).phase = "decided"
      BY DEF Done, New
    <2> QED BY <1>1, <1>6, <2>1, <2>2, <2>3 DEF TypeOK
  <1> QED BY <1>5, <1>6

\* The database answers a query.
LEMMA RowsRead ==
    ASSUME TypeOK, NEW c \in Commands, ReadRows(c)
    PROVE  /\ task[c].phase = "reading"
           /\ UNCHANGED <<now, sku, cache, invalidations, floor>>
           /\ \A d \in Commands \ {c} : task'[d] = task[d]
           /\ task' \in [Commands -> Tasks]
           /\ task'[c].phase = "read"
           /\ task'[c].rows \in [task[c].missing -> Rows]
           /\ \A s \in task[c].missing : task'[c].rows[s] = sku[s]
           /\ task'[c].missing = task[c].missing
           /\ task'[c].startedAt = task[c].startedAt
           /\ task'[c].floor = task[c].floor
           /\ task'[c].invalidated = task[c].invalidated
  <1> DEFINE rows == [s \in task[c].missing |-> sku[s]]
  <1>1. task[c] \in Tasks
    BY DEF TypeOK
  <1>2. /\ rows \in Answers /\ rows \in [task[c].missing -> Rows]
        /\ \A s \in task[c].missing : rows[s] = sku[s]
    <2>1. task[c].missing \in SUBSET Skus
      BY <1>1 DEF Tasks
    <2>2. rows \in [task[c].missing -> Rows]
      BY <2>1 DEF TypeOK
    <2> QED BY <2>1, <2>2 DEF Answers
  <1>3. task' = [task EXCEPT ![c] = [task[c] EXCEPT !.phase = "read", !.rows = rows]]
    BY <1>1 DEF ReadRows, TypeOK
  <1>4. [task[c] EXCEPT !.phase = "read", !.rows = rows] \in Tasks
    BY <1>1, <1>2 DEF Tasks
  <1>5. /\ task[c].phase = "reading"
        /\ UNCHANGED <<now, sku, cache, invalidations, floor>>
    BY DEF ReadRows
  <1> DEFINE next == [task[c] EXCEPT !.phase = "read", !.rows = rows]
  <1>6. /\ next.phase = "read" /\ next.rows = rows
        /\ next.missing = task[c].missing /\ next.startedAt = task[c].startedAt
        /\ next.floor = task[c].floor /\ next.invalidated = task[c].invalidated
    <2> HIDE DEF rows
    <2> QED BY <1>1 DEF Tasks
  <1>7. task' \in [Commands -> Tasks] /\ task'[c] = next
        /\ \A d \in Commands \ {c} : task'[d] = task[d]
    <2> HIDE DEF rows
    <2> QED BY <1>3, <1>4 DEF TypeOK
  <1> HIDE DEF next, rows
  <1> QED BY <1>2, <1>5, <1>6, <1>7

\* A call that resumes fills the cache, and its cart is decided.
LEMMA Resumed ==
    ASSUME TypeOK, QueryInv, NEW c \in Commands, Resume(c)
    PROVE  /\ task[c].phase = "read"
           /\ UNCHANGED <<now, sku, invalidations, floor>>
           /\ cache' \in [Skus -> Entries \cup {Null}]
           /\ \A s \in Skus : cache'[s] = IF s \in task[c].missing THEN EntryAfter(c, s) ELSE cache[s]
           /\ \A d \in Commands \ {c} : task'[d] = task[d]
           /\ task' \in [Commands -> Tasks]
           /\ task'[c] = Done(Decision(c, cache'))
           /\ task'[c].phase = "decided"
           /\ ~Mixed(c) => ItemsOf[c][1] \in task[c].missing /\ cache'[ItemsOf[c][1]] # Null
  <1>1. /\ task[c].phase = "read"
        /\ UNCHANGED <<now, sku, invalidations, floor>>
        /\ cache' = [s \in Skus |-> IF s \in task[c].missing THEN EntryAfter(c, s) ELSE cache[s]]
        /\ task' = [task EXCEPT ![c] = Done(Decision(c, cache'))]
    BY DEF Resume
  <1>2. cache' \in [Skus -> Entries \cup {Null}]
    BY <1>1, EntryType DEF TypeOK
  <1>3. task[c].missing # {} /\ task[c].missing \subseteq SkusOf(c)
    BY <1>1 DEF QueryInv, InFlight
  <1>4. ~Mixed(c) => ItemsOf[c][1] \in task[c].missing
    BY <1>3, CartSkus
  <1>5. ~Mixed(c) => cache'[ItemsOf[c][1]] # Null
    BY <1>1, <1>4, CartSkus, EntryType
  <1>6. \A s \in SkusOf(c) : ~Mixed(c) => cache'[s] # Null
    BY <1>5, CartSkus
  <1>7. Done(Decision(c, cache')) \in Tasks
    BY <1>2, <1>6, DecisionType, TaskType
  <1>8. Done(Decision(c, cache')).phase = "decided"
    BY DEF Done, New
  <1> QED BY <1>1, <1>2, <1>4, <1>5, <1>7, <1>8 DEF TypeOK

\* A query that is rejected ends its call.
LEMMA QueryFailed ==
    ASSUME TypeOK, NEW c \in Commands, QueryFails(c)
    PROVE  /\ UNCHANGED <<now, sku, cache, invalidations, floor>>
           /\ \A d \in Commands \ {c} : task'[d] = task[d]
           /\ task' \in [Commands -> Tasks]
           /\ task'[c].phase = "decided" /\ task'[c].kind = "failed"
           /\ task'[c].floor = [s \in Skus |-> 0]
  <1>1. Done([kind |-> "failed", limit |-> Null]) \in Tasks
    BY TaskType DEF Kinds
  <1>2. /\ Done([kind |-> "failed", limit |-> Null]).phase = "decided"
        /\ Done([kind |-> "failed", limit |-> Null]).kind = "failed"
        /\ Done([kind |-> "failed", limit |-> Null]).floor = [s \in Skus |-> 0]
    BY DEF Done, New
  <1> QED BY <1>1, <1>2 DEF QueryFails, TypeOK

\* An invalidation forgets entries; the calls that are under way only note it.
LEMMA Invalidated ==
    ASSUME TypeOK, NEW some \in SUBSET Skus, InvalidateSeckillSkuConfigCache(some)
    PROVE  /\ UNCHANGED <<now, sku>>
           /\ invalidations' \in 0 .. MaxInvalidations
           /\ \A s \in Skus : cache'[s] = IF s \in some THEN Null ELSE cache[s]
           /\ cache' \in [Skus -> Entries \cup {Null}]
           /\ floor' \in [Skus -> 0 .. MaxUpdates]
           /\ \A s \in Skus :
                \/ floor'[s] = floor[s]
                \/ /\ floor'[s] = sku[s].version /\ s \in some
                   /\ \A c \in InFlight : s \notin task[c].missing
           /\ task' \in [Commands -> Tasks]
           /\ \A c \in Commands :
                /\ task'[c].phase = task[c].phase /\ task'[c].startedAt = task[c].startedAt
                /\ task'[c].missing = task[c].missing /\ task'[c].rows = task[c].rows
                /\ task'[c].floor = task[c].floor
                /\ task[c].invalidated \subseteq task'[c].invalidated
                /\ c \in InFlight => some \subseteq task'[c].invalidated
  <1>1. ASSUME NEW c \in Commands
        PROVE  /\ task[c] \in Tasks
               /\ [task[c] EXCEPT !.invalidated = @ \cup some] \in Tasks
               /\ task'[c] = IF c \in InFlight THEN [task[c] EXCEPT !.invalidated = @ \cup some]
                             ELSE task[c]
    BY DEF InvalidateSeckillSkuConfigCache, TypeOK, Tasks
  <1>2. task' \in [Commands -> Tasks]
    BY <1>1 DEF InvalidateSeckillSkuConfigCache
  <1>3. ASSUME NEW c \in Commands
        PROVE  /\ task'[c].phase = task[c].phase /\ task'[c].startedAt = task[c].startedAt
               /\ task'[c].missing = task[c].missing /\ task'[c].rows = task[c].rows
               /\ task'[c].floor = task[c].floor
               /\ task[c].invalidated \subseteq task'[c].invalidated
               /\ c \in InFlight => some \subseteq task'[c].invalidated
    <2>1. CASE c \in InFlight
      <3> DEFINE noted == [task[c] EXCEPT !.invalidated = @ \cup some]
      <3>1. /\ noted.phase = task[c].phase /\ noted.startedAt = task[c].startedAt
            /\ noted.missing = task[c].missing /\ noted.rows = task[c].rows
            /\ noted.floor = task[c].floor /\ noted.invalidated = task[c].invalidated \cup some
        BY <1>1 DEF Tasks
      <3>2. task'[c] = noted
        BY <1>1, <2>1
      <3> HIDE DEF noted
      <3> QED BY <3>1, <3>2
    <2>2. CASE c \notin InFlight
      BY <1>1, <2>2
    <2> QED BY <2>1, <2>2
  <1>4. /\ \A s \in Skus : cache'[s] = IF s \in some THEN Null ELSE cache[s]
        /\ cache' \in [Skus -> Entries \cup {Null}]
    BY DEF InvalidateSeckillSkuConfigCache, WithoutEntries, TypeOK
  <1>5. \A s \in Skus : sku[s].version \in 0 .. MaxUpdates
    BY DEF TypeOK, Rows
  <1>6. /\ floor' \in [Skus -> 0 .. MaxUpdates]
        /\ \A s \in Skus :
             \/ floor'[s] = floor[s]
             \/ /\ floor'[s] = sku[s].version /\ s \in some
                /\ \A c \in InFlight : s \notin task[c].missing
    BY <1>5 DEF InvalidateSeckillSkuConfigCache, TypeOK
  <1> QED BY <1>2, <1>3, <1>4, <1>6, RoutingAssumption DEF InvalidateSeckillSkuConfigCache, TypeOK

\* A change of the table gives the row a new version and the date of the change.
LEMMA Updated ==
    ASSUME TypeOK, NEW s \in Skus, NEW enabled \in BOOLEAN, NEW limit \in Limits,
           UpdateSeckillConfig(s, enabled, limit)
    PROVE  /\ UNCHANGED <<now, cache, task, invalidations, floor>>
           /\ sku' \in [Skus -> Rows]
           /\ \A t \in Skus \ {s} : sku'[t] = sku[t]
           /\ sku'[s].since = now
           /\ sku'[s].version = sku[s].version + 1
  <1> DEFINE row == [enabled |-> enabled, limit |-> IF enabled THEN limit ELSE Null,
                     version |-> sku[s].version + 1, since |-> now]
  <1>1. sku[s].version \in 0 .. MaxUpdates /\ sku[s].version < MaxUpdates
    BY DEF UpdateSeckillConfig, TypeOK, Rows
  <1>2. row \in Rows
    <2>1. sku[s].version + 1 \in 0 .. MaxUpdates
      BY <1>1, RoutingAssumption
    <2> QED BY <2>1 DEF TypeOK, Rows
  <1>3. sku' = [sku EXCEPT ![s] = row]
    BY DEF UpdateSeckillConfig
  <1> QED BY <1>2, <1>3 DEF UpdateSeckillConfig, TypeOK

------------------------------------------------------------------------------
(* Every step keeps the invariant, part by part *)

\* Before the first command the cache is empty and no row has changed.
LEMMA InitInv == Init => IInv
  <1> SUFFICES ASSUME Init PROVE IInv
    OBVIOUS
  <1>1. 0 \in 0 .. MaxTime /\ 0 \in 0 .. MaxUpdates /\ 0 \in 0 .. MaxInvalidations /\ TTL \in Nat
    BY RoutingAssumption
  <1>2. TypeOK
    BY <1>1, TaskType DEF Init, TypeOK
  <1>3. \A c \in Commands : task[c].phase = "new" /\ task[c].floor = [s \in Skus |-> 0]
    BY DEF Init, New
  <1>4. \A s \in Skus : sku[s].since = 0 /\ sku[s].version = 0 /\ cache[s] = Null /\ floor[s] = 0
    BY DEF Init
  <1>5. ClockInv /\ QueryInv /\ ReadInv /\ MixedInv
    BY <1>1, <1>3, <1>4 DEF Init, ClockInv, QueryInv, ReadInv, MixedInv, InFlight
  <1>6. EntryInv /\ FloorInv /\ LimitInv
    BY <1>3, <1>4 DEF Init, EntryInv, FloorInv, LimitInv
  <1> QED BY <1>2, <1>5, <1>6 DEF IInv

\* An administrator switches a SKU on with a limit.
LEMMA LimitStep ==
    ASSUME TypeOK, QueryInv, LimitInv, [Next]_vars
    PROVE  LimitInv'
  <1>1. ASSUME NEW s \in Skus, NEW enabled \in BOOLEAN, NEW limit \in Limits,
               UpdateSeckillConfig(s, enabled, limit)
        PROVE  LimitInv'
    <2>1. /\ \A t \in Skus \ {s} : sku'[t] = sku[t]
          /\ sku'[s].enabled = enabled
          /\ sku'[s].limit = IF enabled THEN limit ELSE Null
      BY <1>1 DEF UpdateSeckillConfig, TypeOK
    <2> QED BY <2>1, NullAssumption DEF LimitInv
  <1>2. ASSUME NEW some \in SUBSET Skus, InvalidateSeckillSkuConfigCache(some) PROVE LimitInv'
    BY <1>2, Invalidated DEF LimitInv
  <1>3. ASSUME NEW c \in Commands, Classify(c) \/ ReadRows(c) \/ Resume(c) \/ QueryFails(c)
        PROVE  LimitInv'
    BY <1>3 DEF Classify, ReadRows, Resume, QueryFails, LimitInv
  <1>4. CASE Tick \/ UNCHANGED vars
    BY <1>4 DEF Tick, vars, LimitInv
  <1> QED BY <1>1, <1>2, <1>3, <1>4 DEF Next

\* Every step keeps the types.
LEMMA TypeStep ==
    ASSUME TypeOK, QueryInv, [Next]_vars
    PROVE  TypeOK'
  <1>1. ASSUME NEW c \in Commands, Classify(c) PROVE TypeOK'
    BY <1>1, Classified DEF TypeOK
  <1>2. ASSUME NEW c \in Commands, ReadRows(c) PROVE TypeOK'
    BY <1>2, RowsRead DEF TypeOK
  <1>3. ASSUME NEW c \in Commands, Resume(c) PROVE TypeOK'
    BY <1>3, Resumed DEF TypeOK
  <1>4. ASSUME NEW c \in Commands, QueryFails(c) PROVE TypeOK'
    BY <1>4, QueryFailed DEF TypeOK
  <1>5. ASSUME NEW s \in Skus, NEW enabled \in BOOLEAN, NEW limit \in Limits,
               UpdateSeckillConfig(s, enabled, limit)
        PROVE  TypeOK'
    BY <1>5, Updated DEF TypeOK
  <1>6. ASSUME NEW some \in SUBSET Skus, InvalidateSeckillSkuConfigCache(some) PROVE TypeOK'
    BY <1>6, Invalidated DEF TypeOK
  <1>7. CASE Tick
    BY <1>7, RoutingAssumption DEF Tick, TypeOK
  <1>8. CASE UNCHANGED vars
    BY <1>8 DEF vars, TypeOK
  <1> QED BY <1>1, <1>2, <1>3, <1>4, <1>5, <1>6, <1>7, <1>8 DEF Next

\* The clock waits for a query that has taken its time.
LEMMA ClockStep ==
    ASSUME TypeOK, QueryInv, ClockInv, [Next]_vars
    PROVE  ClockInv'
  <1>0. now \in Nat /\ TTL \in Nat /\ QueryTime \in Nat
    BY RoutingAssumption DEF TypeOK
  <1>1. ASSUME NEW c \in Commands, Classify(c) PROVE ClockInv'
    BY <1>0, <1>1, Classified DEF ClockInv, InFlight
  <1>2. ASSUME NEW c \in Commands, ReadRows(c) PROVE ClockInv'
    BY <1>2, RowsRead DEF ClockInv, InFlight
  <1>3. ASSUME NEW c \in Commands, Resume(c) PROVE ClockInv'
    <2>1. task[c].startedAt \in Nat /\ task[c].startedAt <= now
      BY <1>3, Resumed DEF ClockInv, InFlight, TypeOK, Tasks
    <2>2. \A s \in task[c].missing : EntryAfter(c, s).expiresAt <= now + TTL
      BY <1>0, <2>1 DEF EntryAfter
    <2>3. \A s \in Skus : cache'[s] # Null => cache'[s].expiresAt <= now + TTL
      BY <1>3, <2>2, Resumed DEF ClockInv
    <2> QED BY <1>3, <2>3, Resumed DEF ClockInv, InFlight
  <1>4. ASSUME NEW c \in Commands, QueryFails(c) PROVE ClockInv'
    BY <1>4, QueryFailed DEF ClockInv, InFlight
  <1>5. ASSUME NEW s \in Skus, NEW enabled \in BOOLEAN, NEW limit \in Limits,
               UpdateSeckillConfig(s, enabled, limit)
        PROVE  ClockInv'
    BY <1>0, <1>5, Updated DEF ClockInv, InFlight
  <1>6. ASSUME NEW some \in SUBSET Skus, InvalidateSeckillSkuConfigCache(some) PROVE ClockInv'
    BY <1>6, Invalidated DEF ClockInv, InFlight
  <1>7. CASE Tick
    <2>1. \A s \in Skus : sku[s].since \in Nat
      BY DEF TypeOK, Rows
    <2>2. \A s \in Skus : cache[s] # Null => cache[s].expiresAt \in Int
      BY RoutingAssumption DEF TypeOK, Entries
    <2>3. \A c \in Commands : task[c].startedAt \in Nat
      BY DEF TypeOK, Tasks
    <2>4. /\ now' = now + 1 /\ UNCHANGED <<sku, cache, task>>
          /\ \A c \in InFlight : now < task[c].startedAt + QueryTime
      BY <1>7 DEF Tick
    <2>5. \A s \in Skus : sku'[s].since <= now'
      BY <1>0, <2>1, <2>4 DEF ClockInv
    <2>6. \A s \in Skus : cache'[s] # Null => cache'[s].expiresAt <= now' + TTL
      BY <1>0, <2>2, <2>4 DEF ClockInv
    <2>7. \A c \in InFlight : task[c].startedAt <= now' /\ now' <= task[c].startedAt + QueryTime
      BY <1>0, <2>3, <2>4 DEF ClockInv, InFlight
    <2> QED BY <2>4, <2>5, <2>6, <2>7 DEF ClockInv, InFlight
  <1>8. CASE UNCHANGED vars
    BY <1>8 DEF vars, ClockInv, InFlight
  <1> QED BY <1>1, <1>2, <1>3, <1>4, <1>5, <1>6, <1>7, <1>8 DEF Next

\* A query is sent for some SKUs of its cart, and answered for them.
LEMMA QueryStep ==
    ASSUME TypeOK, QueryInv, [Next]_vars
    PROVE  QueryInv'
  <1> USE DEF QueryInv, InFlight
  <1>1. ASSUME NEW c \in Commands, Classify(c) PROVE QueryInv'
    BY <1>1, Classified DEF SkusOf
  <1>2. ASSUME NEW c \in Commands, ReadRows(c) PROVE QueryInv'
    BY <1>2, RowsRead DEF SkusOf
  <1>3. ASSUME NEW c \in Commands, Resume(c) PROVE QueryInv'
    BY <1>3, Resumed DEF SkusOf
  <1>4. ASSUME NEW c \in Commands, QueryFails(c) PROVE QueryInv'
    BY <1>4, QueryFailed DEF SkusOf
  <1>5. ASSUME NEW s \in Skus, NEW enabled \in BOOLEAN, NEW limit \in Limits,
               UpdateSeckillConfig(s, enabled, limit)
        PROVE  QueryInv'
    BY <1>5, Updated DEF SkusOf
  <1>6. ASSUME NEW some \in SUBSET Skus, InvalidateSeckillSkuConfigCache(some) PROVE QueryInv'
    BY <1>6, Invalidated DEF SkusOf
  <1>7. CASE Tick \/ UNCHANGED vars
    BY <1>7 DEF Tick, vars, SkusOf
  <1> QED BY <1>1, <1>2, <1>3, <1>4, <1>5, <1>6, <1>7 DEF Next

\* A row that was read is the row of the table until the next change, which is not before
\* the query was sent.
LEMMA ReadStep ==
    ASSUME TypeOK, QueryInv, ClockInv, ReadInv, [Next]_vars
    PROVE  ReadInv'
  <1> USE DEF ReadInv
  <1>1. ASSUME NEW c \in Commands, Classify(c) PROVE ReadInv'
    BY <1>1, Classified
  <1>2. ASSUME NEW c \in Commands, ReadRows(c) PROVE ReadInv'
    BY <1>2, RowsRead
  <1>3. ASSUME NEW c \in Commands, Resume(c) PROVE ReadInv'
    BY <1>3, Resumed
  <1>4. ASSUME NEW c \in Commands, QueryFails(c) PROVE ReadInv'
    BY <1>4, QueryFailed
  <1>5. ASSUME NEW s \in Skus, NEW enabled \in BOOLEAN, NEW limit \in Limits,
               UpdateSeckillConfig(s, enabled, limit)
        PROVE  ReadInv'
    <2> SUFFICES ASSUME NEW c \in Commands, task[c].phase = "read", NEW t \in task[c].missing
                 PROVE  task[c].rows[t] = sku'[t] \/ sku'[t].since >= task[c].startedAt
      BY <1>5, Updated
    <2>1. t \in Skus /\ task[c].startedAt \in Nat /\ now \in Nat
      BY DEF TypeOK, Tasks
    <2>2. task[c].startedAt <= now
      BY DEF ClockInv, InFlight
    <2>3. CASE t = s
      BY <1>5, <2>1, <2>2, <2>3, Updated
    <2>4. CASE t # s
      BY <1>5, <2>1, <2>4, Updated
    <2> QED BY <2>3, <2>4
  <1>6. ASSUME NEW some \in SUBSET Skus, InvalidateSeckillSkuConfigCache(some) PROVE ReadInv'
    BY <1>6, Invalidated
  <1>7. CASE Tick \/ UNCHANGED vars
    BY <1>7 DEF Tick, vars
  <1> QED BY <1>1, <1>2, <1>3, <1>4, <1>5, <1>6, <1>7 DEF Next

\* The numbers of one resume: what it has read is the row of the table, or the change is
\* younger than the entry by the time of the query at most.
LEMMA ResumeTimes ==
    ASSUME TypeOK, QueryInv, ClockInv, ReadInv, NEW c \in Commands, task[c].phase = "read",
           NEW s \in task[c].missing
    PROVE  /\ now <= task[c].startedAt + QueryTime
           /\ EntryAfter(c, s).row = task[c].rows[s]
           /\ task[c].rows[s] = sku[s] \/ now <= sku[s].since + QueryTime
           /\ EntryAfter(c, s).row = sku[s]
              \/ EntryAfter(c, s).expiresAt <= sku[s].since + TTL + QueryTime
  <1>1. /\ s \in Skus /\ now \in Nat /\ TTL \in Nat /\ QueryTime \in Nat
        /\ task[c].startedAt \in Nat
    BY RoutingAssumption DEF TypeOK, Tasks
  <1>2. sku[s].since \in Nat
    BY <1>1 DEF TypeOK, Rows
  <1>3. task[c].startedAt <= now /\ now <= task[c].startedAt + QueryTime
    BY DEF ClockInv, InFlight
  <1>4. task[c].rows[s] = sku[s] \/ sku[s].since >= task[c].startedAt
    BY DEF ReadInv
  <1>5. /\ EntryAfter(c, s).row = task[c].rows[s]
        /\ EntryAfter(c, s).expiresAt = (IF Mixed(c) THEN now ELSE task[c].startedAt) + TTL
    BY DEF EntryAfter
  <1> QED BY <1>1, <1>2, <1>3, <1>4, <1>5

\* An entry outlives a change of its row by no more than its lifetime and a query.
LEMMA EntryStep ==
    ASSUME TypeOK, QueryInv, ClockInv, ReadInv, EntryInv, [Next]_vars
    PROVE  EntryInv'
  <1> USE DEF EntryInv
  <1>1. ASSUME NEW c \in Commands, Classify(c) PROVE EntryInv'
    BY <1>1, Classified
  <1>2. ASSUME NEW c \in Commands, ReadRows(c) PROVE EntryInv'
    BY <1>2, RowsRead
  <1>3. ASSUME NEW c \in Commands, Resume(c) PROVE EntryInv'
    <2> SUFFICES ASSUME NEW s \in Skus, cache'[s] # Null
                 PROVE  cache'[s].row = sku[s] \/ cache'[s].expiresAt <= sku[s].since + TTL + QueryTime
      BY <1>3, Resumed
    <2>1. CASE s \in task[c].missing
      BY <1>3, <2>1, Resumed, ResumeTimes
    <2>2. CASE s \notin task[c].missing
      BY <1>3, <2>2, Resumed
    <2> QED BY <2>1, <2>2
  <1>4. ASSUME NEW c \in Commands, QueryFails(c) PROVE EntryInv'
    BY <1>4, QueryFailed
  <1>5. ASSUME NEW s \in Skus, NEW enabled \in BOOLEAN, NEW limit \in Limits,
               UpdateSeckillConfig(s, enabled, limit)
        PROVE  EntryInv'
    <2> SUFFICES ASSUME NEW t \in Skus, cache[t] # Null
                 PROVE  \/ cache[t].row = sku'[t]
                        \/ cache[t].expiresAt <= sku'[t].since + TTL + QueryTime
      BY <1>5, Updated
    <2>1. CASE t = s
      <3>1. cache[t].expiresAt \in Int /\ now \in Nat /\ TTL \in Nat /\ QueryTime \in Nat
        BY RoutingAssumption DEF TypeOK, Entries
      <3>2. cache[t].expiresAt <= now + TTL /\ sku'[t].since = now
        BY <1>5, <2>1, Updated DEF ClockInv
      <3> QED BY <3>1, <3>2
    <2>2. CASE t # s
      BY <1>5, <2>2, Updated
    <2> QED BY <2>1, <2>2
  <1>6. ASSUME NEW some \in SUBSET Skus, InvalidateSeckillSkuConfigCache(some) PROVE EntryInv'
    BY <1>6, Invalidated
  <1>7. CASE Tick \/ UNCHANGED vars
    BY <1>7 DEF Tick, vars
  <1> QED BY <1>1, <1>2, <1>3, <1>4, <1>5, <1>6, <1>7 DEF Next

\* What is fresh when a cart comes, and what others write into the cache afterwards, was
\* not out of date when the cart came.
LEMMA MixedStep ==
    ASSUME TypeOK, QueryInv, ClockInv, ReadInv, EntryInv, MixedInv, [Next]_vars
    PROVE  MixedInv'
  <1>0. /\ now \in Nat /\ TTL \in Nat /\ QueryTime \in Nat
        /\ \A s \in Skus : sku[s].since \in Nat
        /\ \A s \in Skus : cache[s] # Null => cache[s].expiresAt \in Int
        /\ \A c \in Commands : task[c].startedAt \in Nat
    BY RoutingAssumption DEF TypeOK, Entries, Rows, Tasks
  <1>1. ASSUME NEW c \in Commands, Classify(c) PROVE MixedInv'
    <2> SUFFICES ASSUME NEW d \in Commands, task'[d].phase \in {"reading", "read"},
                        NEW s \in SkusOf(d) \ task'[d].missing
                 PROVE  /\ cache[s] = Null => s \in task'[d].invalidated
                        /\ cache[s] # Null => \/ cache[s].row = sku[s]
                                              \/ sku[s].since + TTL + QueryTime >= task'[d].startedAt
      BY <1>1, Classified DEF MixedInv, InFlight, SkusOf
    <2>1. CASE d = c
      <3>1. task'[c].startedAt = now /\ Fresh(s) /\ s \in Skus
        BY <1>1, <2>1, Classified, CartSkus
      <3> QED BY <1>0, <2>1, <3>1 DEF Fresh, EntryInv
    <2>2. CASE d # c
      BY <1>1, <2>2, Classified DEF MixedInv, InFlight
    <2> QED BY <2>1, <2>2
  <1>2. ASSUME NEW c \in Commands, ReadRows(c) PROVE MixedInv'
    BY <1>2, RowsRead DEF MixedInv, InFlight, SkusOf
  <1>3. ASSUME NEW c \in Commands, Resume(c) PROVE MixedInv'
    <2> SUFFICES ASSUME NEW d \in Commands \ {c}, task[d].phase \in {"reading", "read"},
                        NEW s \in SkusOf(d) \ task[d].missing
                 PROVE  /\ cache'[s] = Null => s \in task[d].invalidated
                        /\ cache'[s] # Null => \/ cache'[s].row = sku[s]
                                               \/ sku[s].since + TTL + QueryTime >= task[d].startedAt
      BY <1>3, Resumed DEF MixedInv, InFlight, SkusOf
    <2>1. s \in Skus
      BY CartSkus
    <2>2. CASE s \in task[c].missing
      <3>1. task[c].phase = "read" /\ cache'[s] = EntryAfter(c, s)
        BY <1>3, <2>1, <2>2, Resumed
      <3>2. cache'[s] # Null
        BY <2>2, <3>1, EntryType
      <3>3. EntryAfter(c, s).row = sku[s] \/ now <= sku[s].since + QueryTime
        BY <2>2, <3>1, ResumeTimes
      <3>4. task[d].startedAt <= now
        BY DEF ClockInv, InFlight
      <3>5. now <= sku[s].since + QueryTime => sku[s].since + TTL + QueryTime >= task[d].startedAt
        BY <1>0, <2>1, <3>4
      <3> QED BY <3>1, <3>2, <3>3, <3>5
    <2>3. CASE s \notin task[c].missing
      BY <1>3, <2>1, <2>3, Resumed DEF MixedInv, InFlight
    <2> QED BY <2>2, <2>3
  <1>4. ASSUME NEW c \in Commands, QueryFails(c) PROVE MixedInv'
    BY <1>4, QueryFailed DEF MixedInv, InFlight, SkusOf
  <1>5. ASSUME NEW s \in Skus, NEW enabled \in BOOLEAN, NEW limit \in Limits,
               UpdateSeckillConfig(s, enabled, limit)
        PROVE  MixedInv'
    <2> SUFFICES ASSUME NEW d \in Commands, task[d].phase \in {"reading", "read"},
                        NEW t \in SkusOf(d) \ task[d].missing
                 PROVE  /\ cache[t] = Null => t \in task[d].invalidated
                        /\ cache[t] # Null => \/ cache[t].row = sku'[t]
                                              \/ sku'[t].since + TTL + QueryTime >= task[d].startedAt
      BY <1>5, Updated DEF MixedInv, InFlight, SkusOf
    <2>1. t \in Skus
      BY CartSkus
    <2>2. CASE t = s
      <3>1. sku'[t].since = now
        BY <1>5, <2>2, Updated
      <3>2. task[d].startedAt <= now
        BY DEF ClockInv, InFlight
      <3>3. cache[t] = Null => t \in task[d].invalidated
        BY DEF MixedInv, InFlight
      <3> QED BY <1>0, <3>1, <3>2, <3>3
    <2>3. CASE t # s
      BY <1>5, <2>1, <2>3, Updated DEF MixedInv, InFlight
    <2> QED BY <2>2, <2>3
  <1>6. ASSUME NEW some \in SUBSET Skus, InvalidateSeckillSkuConfigCache(some) PROVE MixedInv'
    <2> SUFFICES ASSUME NEW d \in Commands, task[d].phase \in {"reading", "read"},
                        NEW s \in SkusOf(d) \ task[d].missing
                 PROVE  /\ cache'[s] = Null => s \in task'[d].invalidated
                        /\ cache'[s] # Null => \/ cache'[s].row = sku[s]
                                               \/ sku[s].since + TTL + QueryTime >= task[d].startedAt
      BY <1>6, Invalidated DEF MixedInv, InFlight, SkusOf
    <2>1. s \in Skus
      BY CartSkus
    <2>2. CASE s \in some
      BY <1>6, <2>1, <2>2, Invalidated DEF InFlight
    <2>3. CASE s \notin some
      BY <1>6, <2>1, <2>3, Invalidated DEF MixedInv, InFlight
    <2> QED BY <2>2, <2>3
  <1>7. CASE Tick \/ UNCHANGED vars
    BY <1>7 DEF Tick, vars, MixedInv, InFlight, SkusOf
  <1> QED BY <1>1, <1>2, <1>3, <1>4, <1>5, <1>6, <1>7 DEF Next

\* An invalidation that raises the floor of a SKU has no query for it to fear.
LEMMA FloorStep ==
    ASSUME TypeOK, QueryInv, FloorInv, [Next]_vars
    PROVE  FloorInv'
  <1>0. /\ \A s \in Skus : floor[s] \in Nat /\ sku[s].version \in Nat
        /\ \A c \in Commands : \A s \in Skus : task[c].floor[s] \in Nat
        /\ \A c \in Commands : task[c].missing \subseteq Skus
    BY DEF TypeOK, Rows, Tasks
  <1>1. ASSUME NEW c \in Commands, Classify(c) PROVE FloorInv'
    <2>1. \A s \in Skus : task'[c].floor[s] <= floor[s]
      <3>1. CASE task'[c].phase = "reading"
        BY <1>0, <1>1, <3>1, Classified
      <3>2. CASE task'[c].phase # "reading"
        <4>1. task'[c] = Done(Decision(c, cache))
          BY <1>1, <3>2, Classified
        <4>2. Done(Decision(c, cache)).floor = [s \in Skus |-> 0]
          BY DEF Done, New
        <4> QED BY <1>0, <4>1, <4>2
      <3> QED BY <3>1, <3>2
    <2> QED BY <1>1, <2>1, Classified DEF FloorInv
  <1>2. ASSUME NEW c \in Commands, ReadRows(c) PROVE FloorInv'
    BY <1>0, <1>2, RowsRead DEF FloorInv
  <1>3. ASSUME NEW c \in Commands, Resume(c) PROVE FloorInv'
    <2>1. \A s \in Skus : task'[c].floor[s] <= floor[s]
      <3>1. task'[c] = Done(Decision(c, cache'))
        BY <1>3, Resumed
      <3>2. Done(Decision(c, cache')).floor = [s \in Skus |-> 0]
        BY DEF Done, New
      <3> QED BY <1>0, <3>1, <3>2
    <2>2. \A s \in task[c].missing : EntryAfter(c, s).row = task[c].rows[s]
      BY DEF EntryAfter
    <2>3. \A s \in Skus : cache'[s] # Null => floor[s] <= cache'[s].row.version
      BY <1>3, <2>2, Resumed DEF FloorInv
    <2> QED BY <1>3, <2>1, <2>3, Resumed DEF FloorInv
  <1>4. ASSUME NEW c \in Commands, QueryFails(c) PROVE FloorInv'
    <2>1. \A s \in Skus : task'[c].floor[s] <= floor[s]
      BY <1>0, <1>4, QueryFailed
    <2> QED BY <1>4, <2>1, QueryFailed DEF FloorInv
  <1>5. ASSUME NEW s \in Skus, NEW enabled \in BOOLEAN, NEW limit \in Limits,
               UpdateSeckillConfig(s, enabled, limit)
        PROVE  FloorInv'
    <2>1. \A t \in Skus : floor[t] <= sku'[t].version
      BY <1>0, <1>5, Updated DEF FloorInv
    <2> QED BY <1>5, <2>1, Updated DEF FloorInv
  <1>6. ASSUME NEW some \in SUBSET Skus, InvalidateSeckillSkuConfigCache(some) PROVE FloorInv'
    <2>1. \A s \in Skus : floor'[s] <= sku[s].version /\ floor[s] <= floor'[s]
      BY <1>0, <1>6, Invalidated DEF FloorInv
    <2>2. \A s \in Skus : cache'[s] # Null => floor'[s] <= cache'[s].row.version
      BY <1>6, Invalidated DEF FloorInv
    <2>3. ASSUME NEW c \in Commands, NEW s \in Skus PROVE task'[c].floor[s] <= floor'[s]
      <3>1. /\ task'[c].floor[s] = task[c].floor[s] /\ task[c].floor[s] <= floor[s]
            /\ floor'[s] \in Nat
        BY <1>6, Invalidated DEF FloorInv
      <3> QED BY <1>0, <2>1, <3>1
    <2>4. ASSUME NEW c \in Commands, task[c].phase = "read", NEW s \in task[c].missing
          PROVE  floor'[s] <= task[c].rows[s].version
      <3>1. floor'[s] = floor[s]
        BY <1>0, <1>6, <2>4, Invalidated DEF InFlight
      <3> QED BY <2>4, <3>1 DEF FloorInv
    <2> QED BY <1>6, <2>1, <2>2, <2>3, <2>4, Invalidated DEF FloorInv
  <1>7. CASE Tick \/ UNCHANGED vars
    BY <1>7 DEF Tick, vars, FloorInv
  <1> QED BY <1>1, <1>2, <1>3, <1>4, <1>5, <1>6, <1>7 DEF Next

\* The parts together.
LEMMA InvariantStep == IInv /\ [Next]_vars => IInv'
  BY TypeStep, LimitStep, ClockStep, QueryStep, ReadStep, EntryStep, MixedStep, FloorStep DEF IInv

\* The inductive invariant holds in every state.
THEOREM Invariant == Spec => []IInv
  BY InitInv, InvariantStep, PTL DEF Spec

------------------------------------------------------------------------------
(* Results *)

\* Every variable keeps its type, whatever is cached, changed and invalidated.
THEOREM TypeCorrect == Spec => []TypeOK
  <1>1. IInv => TypeOK
    BY DEF IInv
  <1> QED BY <1>1, Invariant, PTL

\* A command is decided by the last step of its own call, from the cache as that step
\* leaves it.
LEMMA DecidedBy ==
    ASSUME TypeOK, QueryInv, [Next]_vars, NEW c \in Commands, Decides(c)
    PROVE  /\ Classify(c) \/ Resume(c)
           /\ sku' = sku /\ floor' = floor
           /\ task'[c] = Done(Decision(c, cache'))
           /\ ~Mixed(c) => cache'[ItemsOf[c][1]] # Null
  <1> USE DEF Decides
  <1>1. ASSUME NEW d \in Commands, Classify(d) \/ ReadRows(d) \/ Resume(d) \/ QueryFails(d)
        PROVE  d = c /\ (Classify(c) \/ Resume(c))
    <2>1. d = c
      BY <1>1, Classified, RowsRead, Resumed, QueryFailed
    <2>2. ~ReadRows(c) /\ ~QueryFails(c)
      BY RowsRead, QueryFailed
    <2> QED BY <1>1, <2>1, <2>2
  <1>2. ASSUME NEW s \in Skus, NEW enabled \in BOOLEAN, NEW limit \in Limits,
               UpdateSeckillConfig(s, enabled, limit)
        PROVE  FALSE
    BY <1>2, Updated
  <1>3. ASSUME NEW some \in SUBSET Skus, InvalidateSeckillSkuConfigCache(some) PROVE FALSE
    BY <1>3, Invalidated
  <1>4. ~Tick /\ ~(UNCHANGED vars)
    BY DEF Tick, vars
  <1>5. Classify(c) \/ Resume(c)
    BY <1>1, <1>2, <1>3, <1>4 DEF Next
  <1>6. CASE Classify(c)
    <2>1. \A s \in SkusOf(c) : Fresh(s)
      BY <1>6, Classified
    <2> QED BY <1>6, <2>1, Classified, CartSkus DEF Fresh
  <1>7. CASE Resume(c)
    BY <1>7, Resumed
  <1> QED BY <1>5, <1>6, <1>7

\* Of a SKU that has settled, the cache a decision is taken from holds the row of the
\* table or nothing, and nothing only if it was invalidated while a mixed cart was
\* classified.
LEMMA SettledIsCached ==
    ASSUME IInv, NEW c \in Commands, Classify(c) \/ Resume(c), Decides(c),
           NEW s \in SkusOf(c), Settled(c, s)
    PROVE  /\ cache'[s] # Null => cache'[s].row = sku[s]
           /\ cache'[s] = Null => Mixed(c) /\ s \in task[c].invalidated
  <1> USE DEF IInv
  <1>1. /\ now \in Nat /\ TTL \in Nat /\ QueryTime \in Nat /\ s \in Skus
        /\ sku[s].since \in Nat /\ task[c].startedAt \in Nat
        /\ cache[s] # Null => cache[s].expiresAt \in Int
    BY RoutingAssumption, CartSkus DEF TypeOK, Entries, Rows, Tasks
  <1>2. CASE Classify(c)
    <2>1. cache' = cache /\ Fresh(s) /\ sku[s].since + TTL + QueryTime < now
      BY <1>2, Classified DEF Decides, Settled, StartedAt
    <2> QED BY <1>1, <2>1 DEF Fresh, EntryInv
  <1>3. CASE Resume(c)
    <2>1. task[c].phase = "read" /\ sku[s].since + TTL + QueryTime < task[c].startedAt
      BY <1>3, Resumed DEF Settled, StartedAt
    <2>2. CASE s \in task[c].missing
      <3>1. cache'[s] = EntryAfter(c, s) /\ cache'[s] # Null
        BY <1>1, <1>3, <2>1, <2>2, Resumed, EntryType
      <3>2. EntryAfter(c, s).row = task[c].rows[s]
        BY DEF EntryAfter
      <3>3. task[c].rows[s] = sku[s] \/ sku[s].since >= task[c].startedAt
        BY <2>1, <2>2 DEF ReadInv
      <3> QED BY <1>1, <2>1, <3>1, <3>2, <3>3
    <2>3. CASE s \notin task[c].missing
      <3>1. Mixed(c)
        BY <1>3, <2>3, Resumed, CartSkus
      <3>2. cache'[s] = cache[s]
        BY <1>1, <1>3, <2>3, Resumed
      <3>3. /\ cache[s] = Null => s \in task[c].invalidated
            /\ cache[s] # Null => \/ cache[s].row = sku[s]
                                  \/ sku[s].since + TTL + QueryTime >= task[c].startedAt
        BY <2>1, <2>3 DEF MixedInv, InFlight
      <3> QED BY <1>1, <2>1, <3>1, <3>2, <3>3
    <2> QED BY <2>2, <2>3
  <1> QED BY <1>2, <1>3

\* The configuration in the table decides, once it has been there for the lifetime of an
\* entry and a query, in whatever order queries are answered.
THEOREM SettledDecides == Spec => SettledConfigDecides
  <1> DEFINE Decided == \A c \in Commands : Decides(c) =>
                           IF Mixed(c) THEN MixedFollows(c) ELSE SingleFollows(c)
  <1>1. ASSUME IInv, [Next]_vars, NEW c \in Commands, Decides(c), ~Mixed(c) PROVE SingleFollows(c)
    <2> DEFINE first == ItemsOf[c][1]
               d == Decision(c, cache')
    <2>1. /\ Classify(c) \/ Resume(c)
          /\ task'[c] = Done(d)
          /\ cache'[first] # Null
      BY <1>1, DecidedBy DEF IInv
    <2>2. SUFFICES ASSUME Settled(c, first)
                   PROVE  /\ sku[first].enabled => /\ task'[c].kind = "single_seckill"
                                                   /\ task'[c].limit = sku[first].limit
                          /\ ~sku[first].enabled => task'[c].kind = "default"
      BY DEF SingleFollows
    <2>3. cache'[first].row = sku[first]
      BY <1>1, <2>1, <2>2, CartSkus, SettledIsCached
    <2>4. sku[first] \in Rows /\ (sku[first].enabled => sku[first].limit # Null)
      BY <1>1, CartSkus DEF IInv, TypeOK, LimitInv
    <2>5. d = IF sku[first].enabled THEN [kind |-> "single_seckill", limit |-> sku[first].limit]
              ELSE [kind |-> "default", limit |-> Null]
      BY <1>1, <2>3, <2>4 DEF Decision
    <2>6. Done(d).kind = d.kind /\ Done(d).limit = d.limit
      BY DEF Done, New
    <2> HIDE DEF d
    <2> QED BY <2>1, <2>5, <2>6
  <1>2. ASSUME IInv, [Next]_vars, NEW c \in Commands, Decides(c), Mixed(c) PROVE MixedFollows(c)
    <2> DEFINE d == Decision(c, cache')
    <2>1. /\ Classify(c) \/ Resume(c)
          /\ task'[c] = Done(d)
      BY <1>2, DecidedBy DEF IInv
    <2>2. d.kind = IF \E s \in SkusOf(c) : cache'[s] # Null /\ cache'[s].row.enabled
                   THEN "mixed_refused" ELSE "default"
      BY <1>2 DEF Decision
    <2>3. Done(d).kind = d.kind
      BY DEF Done, New
    <2> HIDE DEF d
    <2>4. ASSUME NEW s \in SkusOf(c) \ task[c].invalidated, Settled(c, s), sku[s].enabled
          PROVE  cache'[s] # Null /\ cache'[s].row.enabled
      BY <1>2, <2>1, <2>4, SettledIsCached
    <2>5. ASSUME \A s \in SkusOf(c) : Settled(c, s) /\ ~sku[s].enabled
          PROVE  \A s \in SkusOf(c) : cache'[s] # Null => ~cache'[s].row.enabled
      BY <1>2, <2>1, <2>5, SettledIsCached
    <2> QED BY <2>1, <2>2, <2>3, <2>4, <2>5 DEF MixedFollows
  <1>3. IInv /\ [Next]_vars => Decided
    BY <1>1, <1>2
  <1> HIDE DEF Decided
  <1>4. IInv /\ [Next]_vars => [Decided]_vars
    BY <1>3
  <1> QED BY <1>4, Invariant, PTL DEF Spec, SettledConfigDecides, Decided

\* After an invalidation that overtook no query for the SKU, no command is decided from
\* what was in the table before it.
THEOREM InvalidationIsHeeded == Spec => InvalidationHeeded
  <1> DEFINE Heeded == \A c \in Commands : Decides(c) =>
                 \A s \in SkusOf(c) : cache'[s] # Null => cache'[s].row.version >= FloorOf(c)[s]
  <1>1. ASSUME IInv, [Next]_vars, NEW c \in Commands, Decides(c), NEW s \in SkusOf(c), cache'[s] # Null
        PROVE  cache'[s].row.version >= FloorOf(c)[s]
    <2>1. TypeOK' /\ FloorInv' /\ s \in Skus
      BY <1>1, InvariantStep, CartSkus DEF IInv
    <2>2. floor' = floor
      BY <1>1, DecidedBy DEF IInv
    <2>3. floor[s] \in Nat /\ task[c].floor[s] \in Nat /\ task[c].floor[s] <= floor[s]
      BY <1>1, <2>1 DEF IInv, TypeOK, Tasks, FloorInv
    <2>4. cache'[s].row.version \in Nat /\ floor[s] <= cache'[s].row.version
      BY <1>1, <2>1, <2>2 DEF TypeOK, Entries, Rows, FloorInv
    <2>5. FloorOf(c)[s] = floor[s] \/ FloorOf(c)[s] = task[c].floor[s]
      BY DEF FloorOf
    <2> QED BY <2>3, <2>4, <2>5
  <1>2. IInv /\ [Next]_vars => Heeded
    BY <1>1
  <1> HIDE DEF Heeded
  <1>3. IInv /\ [Next]_vars => [Heeded]_vars
    BY <1>2
  <1> QED BY <1>3, Invariant, PTL DEF Spec, InvalidationHeeded, Heeded

===============================================================================
