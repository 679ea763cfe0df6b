---------------------------- MODULE SeckillRouting ----------------------------
(***************************************************************************)
(* The choice of a pipeline.  A cart of one seckill SKU goes to the        *)
(* seckill topic, a cart with several lines of which one is a seckill SKU  *)
(* is refused, everything else goes to the default bus.  The choice reads  *)
(* sku.seckill_enabled and sku.seckill_stock_limit through a cache of the  *)
(* process whose entries live for TTL.                                     *)
(*                                                                         *)
(* JavaScript runs one piece of code at a time and other requests go on at *)
(* every await, here the query: a classification is one step when the      *)
(* cache answers, and else three: the query is sent, the database reads    *)
(* the rows, the code resumes with them.                                   *)
(***************************************************************************)
EXTENDS Integers, Sequences, FiniteSets, Functions

CONSTANTS
    Skus,
    Commands,
    ItemsOf,        \* Commands -> Seq(Skus), the lines of the cart
    Limits,         \* the stock limits an administrator sets
    TTL,            \* KAFKA_SECKILL_CONFIG_CACHE_TTL_MS
    QueryTime,      \* bound: how long a query is under way
    MaxTime,        \* bound: the clock
    MaxUpdates,     \* bound: changes of the table
    MaxInvalidations,   \* bound: invalidations of the cache
    Null

ASSUME RoutingAssumption ==
    /\ ItemsOf \in [Commands -> Seq(Skus) \ {<<>>}]
    /\ Limits \subseteq Nat \ {0}
    /\ TTL \in Nat \ {0} /\ QueryTime \in Nat /\ MaxTime \in Nat
    /\ MaxUpdates \in Nat /\ MaxInvalidations \in Nat

VARIABLES
    now,
    sku,            \* Skus -> row of the table
    cache,          \* seckillSkuConfigCache: Skus -> entry, or Null
    task,           \* Commands -> the call of classifyBuyIntentItemsForSeckill
    invalidations,
    floor           \* history: the version an invalidation has made the oldest to serve

vars == <<now, sku, cache, task, invalidations, floor>>

\* "version" and "since" count and date the changes of a row, for the properties only.
Rows == [enabled : BOOLEAN, limit : Limits \cup {Null}, version : 0 .. MaxUpdates, since : 0 .. MaxTime]

Entries == [row : Rows, expiresAt : 0 .. MaxTime + TTL]

ASSUME NullAssumption == Null \notin Limits \cup Entries

Kinds == {"default", "single_seckill", "mixed_refused", "failed"}

\* What a query has read.
Answers == UNION {[missing -> Rows] : missing \in SUBSET Skus}

Tasks == [phase : {"new", "reading", "read", "decided"}, startedAt : 0 .. MaxTime,
          missing : SUBSET Skus, rows : Answers, kind : Kinds \cup {Null},
          limit : Limits \cup {Null}, floor : [Skus -> 0 .. MaxUpdates],
          invalidated : SUBSET Skus]

TypeOK ==
    /\ now \in 0 .. MaxTime
    /\ sku \in [Skus -> Rows]
    /\ cache \in [Skus -> Entries \cup {Null}]
    /\ task \in [Commands -> Tasks]
    /\ invalidations \in 0 .. MaxInvalidations
    /\ floor \in [Skus -> 0 .. MaxUpdates]

New == [phase |-> "new", startedAt |-> 0, missing |-> {}, rows |-> [s \in {} |-> Null], kind |-> Null,
        limit |-> Null, floor |-> [s \in Skus |-> 0], invalidated |-> {}]

Init ==
    /\ now = 0
    /\ sku \in [Skus -> {r \in Rows : /\ r.version = 0 /\ r.since = 0
                                      /\ r.enabled <=> r.limit # Null}]
    /\ cache = [s \in Skus |-> Null]
    /\ task = [c \in Commands |-> New]
    /\ invalidations = 0
    /\ floor = [s \in Skus |-> 0]

------------------------------------------------------------------------------
Mixed(c) == Len(ItemsOf[c]) # 1

SkusOf(c) == Range(ItemsOf[c])

\* Mutation: an entry never expires.
FreshForever(s) == cache[s] # Null

Fresh(s) == cache[s] # Null /\ cache[s].expiresAt > now

\* A query answers for these commands; readSeckillSkuConfig and containsSeckillSku
\* both leave out what the cache can answer.
InFlight == {c \in Commands : task[c].phase \in {"reading", "read"}}

\* What the cache, as it is when the code resumes, makes of the cart.  A SKU whose
\* entry is missing counts as no seckill SKU, and nobody looks at the expiry again.
Decision(c, known) ==
    LET first == ItemsOf[c][1] IN
    IF Mixed(c)
    THEN [kind |-> IF \E s \in SkusOf(c) : known[s] # Null /\ known[s].row.enabled
                   THEN "mixed_refused" ELSE "default",
          limit |-> Null]
    ELSE IF known[first].row.enabled /\ known[first].row.limit # Null
         THEN [kind |-> "single_seckill", limit |-> known[first].row.limit]
         ELSE [kind |-> "default", limit |-> Null]

Done(d) == [New EXCEPT !.phase = "decided", !.kind = d.kind, !.limit = d.limit]

\* classifyBuyIntentItemsForSeckill up to its await: with nothing missing in the
\* cache there is none.
Classify(c) ==
    LET missing == {s \in SkusOf(c) : ~Fresh(s)}
        started == [New EXCEPT !.phase = "reading", !.startedAt = now,
                               !.missing = missing, !.floor = floor] IN
    /\ task[c].phase = "new"
    /\ task' = [task EXCEPT ![c] =
          IF missing # {} THEN started ELSE Done(Decision(c, cache))]
    /\ UNCHANGED <<now, sku, cache, invalidations, floor>>

\* The database executes the query.
ReadRows(c) ==
    /\ task[c].phase = "reading"
    /\ task' = [task EXCEPT ![c].phase = "read", ![c].rows = [s \in task[c].missing |-> sku[s]]]
    /\ UNCHANGED <<now, sku, cache, invalidations, floor>>

\* An entry counts from the clock that was read before the query for a single line,
\* and from the clock after it for a mixed cart.
EntryAfter(c, s) ==
    [row |-> task[c].rows[s], expiresAt |-> (IF Mixed(c) THEN now ELSE task[c].startedAt) + TTL]

\* The rest of readSeckillSkuConfig, or of containsSeckillSku.
Resume(c) ==
    /\ task[c].phase = "read"
    /\ cache' = [s \in Skus |-> IF s \in task[c].missing THEN EntryAfter(c, s) ELSE cache[s]]
    /\ task' = [task EXCEPT ![c] = Done(Decision(c, cache'))]
    /\ UNCHANGED <<now, sku, invalidations, floor>>

\* The query is rejected: the command is not published and the cache is as before.
QueryFails(c) ==
    /\ task[c].phase = "reading"
    /\ task' = [task EXCEPT ![c] = Done([kind |-> "failed", limit |-> Null])]
    /\ UNCHANGED <<now, sku, cache, invalidations, floor>>

\* The update statement of an administrator.  A SKU that is switched off loses its limit.
UpdateSeckillConfig(s, enabled, limit) ==
    /\ sku[s].version < MaxUpdates
    /\ sku' = [sku EXCEPT ![s] = [enabled |-> enabled, limit |-> IF enabled THEN limit ELSE Null,
                                  version |-> @.version + 1, since |-> now]]
    /\ UNCHANGED <<now, cache, task, invalidations, floor>>

\* Mutation: an entry that has not expired is kept.
WithoutExpiredEntries(some) ==
    [s \in Skus |-> IF s \in some /\ ~Fresh(s) THEN Null ELSE cache[s]]

WithoutEntries(some) == [s \in Skus |-> IF s \in some THEN Null ELSE cache[s]]

\* invalidateSeckillSkuConfigCache, with the name of a SKU or without.
InvalidateSeckillSkuConfigCache(some) ==
    /\ invalidations < MaxInvalidations
    /\ invalidations' = invalidations + 1
    /\ cache' = WithoutEntries(some)
    /\ floor' = [s \in Skus |->
          IF s \in some /\ \A c \in InFlight : s \notin task[c].missing
          THEN sku[s].version ELSE floor[s]]
    /\ task' = [c \in Commands |->
          IF c \in InFlight THEN [task[c] EXCEPT !.invalidated = @ \cup some] ELSE task[c]]
    /\ UNCHANGED <<now, sku>>

Tick ==
    /\ now < MaxTime
    /\ \A c \in InFlight : now < task[c].startedAt + QueryTime
    /\ now' = now + 1
    /\ UNCHANGED <<sku, cache, task, invalidations, floor>>

Next ==
    \/ \E c \in Commands : Classify(c) \/ ReadRows(c) \/ Resume(c) \/ QueryFails(c)
    \/ \E s \in Skus, enabled \in BOOLEAN, limit \in Limits : UpdateSeckillConfig(s, enabled, limit)
    \/ \E some \in {{s} : s \in Skus} \cup {Skus} : InvalidateSeckillSkuConfigCache(some)
    \/ Tick

Spec == Init /\ [][Next]_vars

------------------------------------------------------------------------------
(* Properties *)

Decides(c) == task[c].phase # "decided" /\ task'[c].phase = "decided" /\ task'[c].kind # "failed"

StartedAt(c) == IF task[c].phase = "new" THEN now ELSE task[c].startedAt

FloorOf(c) == IF task[c].phase = "new" THEN floor ELSE task[c].floor

\* The row of s has been what it is for longer than an entry can hold another one: the
\* lifetime of an entry, which may begin at the end of the query that read the row.
Settled(c, s) == sku[s].since + TTL + QueryTime < StartedAt(c)

\* What a settled row makes of a single line, and settled rows of a mixed cart.
SingleFollows(c) ==
    LET row == sku[ItemsOf[c][1]] IN
    Settled(c, ItemsOf[c][1]) =>
       /\ row.enabled => task'[c].kind = "single_seckill" /\ task'[c].limit = row.limit
       /\ ~row.enabled => task'[c].kind = "default"

MixedFollows(c) ==
    /\ (\E s \in SkusOf(c) \ task[c].invalidated : Settled(c, s) /\ sku[s].enabled)
          => task'[c].kind = "mixed_refused"
    /\ (\A s \in SkusOf(c) : Settled(c, s) /\ ~sku[s].enabled)
          => task'[c].kind = "default"

\* Whatever is cached, read late, overwritten by a slower query or invalidated
\* meanwhile, a configuration that had been in the table for the lifetime of an entry and
\* the time of a query when the request began decides where it goes: the seckill topic
\* with its limit, or the default bus.  Only a SKU that is invalidated while a mixed cart
\* is classified may be overlooked.
SettledConfigDecides ==
    [][\A c \in Commands : Decides(c) => IF Mixed(c) THEN MixedFollows(c) ELSE SingleFollows(c)]_vars

\* After an invalidation that no query for the SKU was overtaken by, no command that
\* begins later is decided from a row older than the invalidation.  A query that was
\* under way puts the old row back into the cache after it, which is why the exception
\* is there: updateSeckillConfig of the Go ingress has the same one.
InvalidationHeeded ==
    [][\A c \in Commands : Decides(c) =>
         \A s \in SkusOf(c) : cache'[s] # Null => cache'[s].row.version >= FloorOf(c)[s]]_vars
==============================================================================
