----------------------------- MODULE Projections ------------------------------
(***************************************************************************)
(* The projection of the event store into the read models of SKUs,         *)
(* checkout intents and orders.  A batch is one transaction: it takes an   *)
(* advisory lock, reads the checkpoint, reads the next events in the order *)
(* of their global id, applies them and writes the checkpoint.             *)
(*                                                                         *)
(* The ids come from a database sequence.  An append draws its id when the *)
(* insert starts and becomes visible when it commits, so an event may      *)
(* become visible behind a checkpoint that has already passed its id.      *)
(*                                                                         *)
(* What is appended is the history of each checkout as module DemoCheckout *)
(* and the creation of checkout intents leave it; the order among the      *)
(* checkouts is open, as far as the stock allows it.                       *)
(*                                                                         *)
(* The names a specification usually has carry the component's name here,  *)
(* as module ShopProofs reads this module together with Storefront.        *)
(***************************************************************************)
EXTENDS Integers, Sequences, FiniteSets, FiniteSetsExt, SequencesExt

CONSTANTS
    Checkouts,
    Skus,
    OnHand,         \* Skus -> Nat
    History,        \* Checkouts -> sequence of [type, units], what it appends
    Processors,     \* how many loops and requests process batches
    BatchSize,
    MaxInFlight,    \* bound: appends that overlap
    MaxFailures     \* bound: inserts that fail after they drew an id, and batches that
                    \* end without committing

EventTypes == {"CheckoutIntentCreated", "InventoryReservationRequested", "InventoryReserved",
               "InventoryReservationRejected", "InventoryReservationReleased",
               "PaymentRequested", "OrderConfirmed"}

ASSUME HistoryAssumption ==
    /\ OnHand \in [Skus -> Nat]
    /\ History \in [Checkouts -> Seq([type : EventTypes, units : [Skus -> Nat]])]
    /\ {BatchSize, Processors} \subseteq Nat \ {0}
    /\ {MaxInFlight, MaxFailures} \subseteq Nat

\* What the calls that complete a checkout leave (OutcomeEndsHistory of CheckoutProofs):
\* nothing takes the rejection or the confirmation back, and the intent comes first.
OutcomeIsLast ==
    \A c \in Checkouts : \A i, j \in DOMAIN History[c] :
        i < j =>
            /\ History[c][i].type = "InventoryReservationRejected" =>
                   History[c][j].type \notin {"CheckoutIntentCreated", "PaymentRequested", "OrderConfirmed"}
            /\ History[c][i].type = "OrderConfirmed" =>
                   History[c][j].type \notin {"CheckoutIntentCreated", "PaymentRequested",
                                              "InventoryReservationRejected"}

\* Units that the first n events of a checkout move.
UnitsAppended(types, c, s, n) ==
    MapThenSumSet(LAMBDA i : History[c][i].units[s], {i \in 1 .. n : History[c][i].type \in types})

\* A call gives back, or sells, what calls for its checkout have reserved before
\* (NothingReturnedUnreserved of CheckoutProofs).
ReservedBeforeReturned ==
    \A c \in Checkouts : \A s \in Skus : \A n \in 0 .. Len(History[c]) :
        UnitsAppended({"InventoryReservationReleased", "OrderConfirmed"}, c, s, n)
            <= UnitsAppended({"InventoryReserved"}, c, s, n)

VARIABLES
    lastId,     \* of the sequence
    inFlight,   \* inserts that have an id and are not committed
    events,     \* event_store, what other transactions see
    rows,       \* the read models
    checkpoint, \* projection_checkpoint.last_event_id of projection main
    batches,    \* the transactions under way: the events one has read, and (history)
                \* what the store showed when it read them
    late,       \* history variable: events that became visible when the batch that
                \* moved the checkpoint past them had been read
    failures

projectionVars == <<lastId, inFlight, events, rows, checkpoint, batches, late, failures>>

store      == <<lastId, inFlight, events>>
projection == <<rows, checkpoint, batches>>

Event == [id : Nat \ {0}, checkout : Checkouts, type : EventTypes, units : [Skus -> Nat]]

Statuses == {"none", "queued", "reserving", "reserved", "rejected", "pending_payment",
             "confirmed"}

\* The CHECK constraints of sku_inventory_projection.
Consistent(sku) ==
    \A s \in Skus :
        /\ {sku[s].reserved, sku[s].sold, sku[s].available} \subseteq Nat
        /\ sku[s].available = OnHand[s] - sku[s].reserved - sku[s].sold

ProjectionTypeOK ==
    /\ lastId \in Nat
    /\ inFlight \cup events \subseteq Event
    /\ DOMAIN rows.sku = Skus /\ Consistent(rows.sku)
    /\ rows.status \in [Checkouts -> Statuses]
    /\ rows.payment \in [Checkouts -> {"none", "requested", "succeeded"}]
    /\ checkpoint \in 0 .. lastId
    /\ batches \in Seq([read : Seq(events), store : SUBSET events])
    /\ Len(batches) <= Processors
    /\ late \subseteq events
    /\ failures \in 0 .. MaxFailures

ProjectionInit ==
    /\ lastId = 0 /\ inFlight = {} /\ events = {} /\ late = {}
    /\ rows = [sku     |-> [s \in Skus |-> [reserved |-> 0, sold |-> 0, available |-> OnHand[s]]],
               status  |-> [c \in Checkouts |-> "none"],
               payment |-> [c \in Checkouts |-> "none"],
               ok      |-> TRUE]
    /\ checkpoint = 0
    /\ batches = <<>>
    /\ failures = 0

------------------------------------------------------------------------------
(* Appends *)

Of(c) == {e \in events : e.checkout = c}

UnitsIn(type, s, seen) == MapThenSumSet(LAMBDA e : e.units[s], {e \in seen : e.type = type})

\* What a replay of the stream of the SKU finds available.
AvailableAfter(s, seen) ==
    OnHand[s] - UnitsIn("InventoryReserved", s, seen)
              + UnitsIn("InventoryReservationReleased", s, seen)

\* Events of one SKU are appended under consecutive versions, which are unique: of two
\* that overlap, one fails.
SkuEvents == {"InventoryReservationRequested", "InventoryReserved",
              "InventoryReservationRejected", "InventoryReservationReleased"}

SameStream(e, f) ==
    /\ {e.type, f.type} \subseteq SkuEvents
    /\ \E s \in Skus : e.units[s] > 0 /\ f.units[s] > 0

NextOf(c) == History[c][Cardinality(Of(c)) + 1]

\* A checkout is completed only when its projection is there, and reserves or rejects
\* by what its SKU has available.
Enabled(c) ==
    /\ Cardinality(Of(c)) < Len(History[c])
    /\ \A f \in inFlight : f.checkout # c /\ ~SameStream(f, NextOf(c))
    /\ NextOf(c).type # "CheckoutIntentCreated" => rows.status[c] # "none"
    /\ NextOf(c).type = "InventoryReserved" =>
           \A s \in Skus : NextOf(c).units[s] <= AvailableAfter(s, events)
    /\ NextOf(c).type = "InventoryReservationRejected" =>
           \E s \in Skus : NextOf(c).units[s] > AvailableAfter(s, events)

DrawId(c) ==
    /\ Cardinality(inFlight) < MaxInFlight
    /\ Enabled(c)
    /\ lastId' = lastId + 1
    /\ inFlight' = inFlight \cup {[id |-> lastId + 1, checkout |-> c, type |-> NextOf(c).type,
                                   units |-> NextOf(c).units]}
    /\ UNCHANGED <<events, late, failures, projection>>

Commit(e) ==
    /\ inFlight' = inFlight \ {e}
    /\ events' = events \cup {e}
    /\ late' = IF e.id <= checkpoint THEN late \cup {e} ELSE late
    /\ UNCHANGED <<lastId, failures, projection>>

\* The insert fails, or does nothing because its key is taken; the id is gone.
Rollback(e) ==
    /\ failures < MaxFailures
    /\ failures' = failures + 1
    /\ inFlight' = inFlight \ {e}
    /\ UNCHANGED <<lastId, events, late, projection>>

------------------------------------------------------------------------------
(* Projection *)

NoUnits  == [s \in Skus |-> 0]
Minus(u) == [s \in Skus |-> -u[s]]

\* The counters of all SKUs move by reserved and sold.
Moved(sku, reserved, sold) ==
    [s \in Skus |-> [reserved  |-> sku[s].reserved + reserved[s],
                     sold      |-> sku[s].sold + sold[s],
                     available |-> sku[s].available - reserved[s] - sold[s]]]

WithSku(r, reserved, sold) ==
    [r EXCEPT !.sku = Moved(@, reserved, sold),
              !.ok  = @ /\ Consistent(Moved(r.sku, reserved, sold))]

WithStatus(r, c, status) ==
    IF r.status[c] = "none" THEN r ELSE [r EXCEPT !.status[c] = status]

\* Mutation: the status is set whatever it is.
WithProgressAlways(r, c, status) == WithStatus(r, c, status)

\* updateCheckoutStatus: not in ('rejected', 'cancelled', 'confirmed', 'expired').
WithProgress(r, c, status) ==
    IF r.status[c] \in {"rejected", "confirmed"} THEN r ELSE WithStatus(r, c, status)

CheckoutIntentCreated(r, c) == [r EXCEPT !.status[c] = "queued"]

InventoryReserved(r, c, units) == WithProgress(WithSku(r, units, NoUnits), c, "reserved")

InventoryReservationRejected(r, c) == WithStatus(r, c, "rejected")

InventoryReservationReleased(r, units) == WithSku(r, Minus(units), NoUnits)

\* updateOrderPaymentStatus: only of an order that is there.
WithPayment(r, c, payment) == IF r.payment[c] = "none" THEN r ELSE [r EXCEPT !.payment[c] = payment]

PaymentRequested(r, c) == WithPayment(WithStatus(r, c, "pending_payment"), c, "requested")

\* The sold units leave the reservation; what is available stays.
Sold(r, units) == WithSku(r, Minus(units), units)

OrderConfirmed(r, c, units) ==
    [Sold(WithStatus(r, c, "confirmed"), units) EXCEPT !.payment[c] = "succeeded"]

\* applyProjectionEvent
ApplyEvent(r, e) ==
    CASE e.type = "CheckoutIntentCreated"         -> CheckoutIntentCreated(r, e.checkout)
      [] e.type = "InventoryReservationRequested" -> WithProgress(r, e.checkout, "reserving")
      [] e.type = "InventoryReserved"             -> InventoryReserved(r, e.checkout, e.units)
      [] e.type = "InventoryReservationRejected"  -> InventoryReservationRejected(r, e.checkout)
      [] e.type = "InventoryReservationReleased"  -> InventoryReservationReleased(r, e.units)
      [] e.type = "PaymentRequested"              -> PaymentRequested(r, e.checkout)
      [] e.type = "OrderConfirmed"                -> OrderConfirmed(r, e.checkout, e.units)

Applied(es) ==
    LET upTo[n \in 0 .. Len(es)] == IF n = 0 THEN rows ELSE ApplyEvent(upTo[n - 1], es[n])
    IN  upTo[Len(es)]

After(n) == {e \in events : e.id > n}

\* Mutation: an id that is missing is waited for.
NextBatchWithoutGaps ==
    LET next == {e \in After(checkpoint) : \A n \in checkpoint + 1 .. e.id : \E f \in events : f.id = n}
    IN  [i \in 1 .. Min({BatchSize, Cardinality(next)}) |->
            CHOOSE e \in next : Cardinality({f \in next : f.id < e.id}) = i - 1]

\* readEventsAfter: the next events in the order of their ids.
NextBatch ==
    LET next == After(checkpoint)
    IN  [i \in 1 .. Min({BatchSize, Cardinality(next)}) |->
            CHOOSE e \in next : Cardinality({f \in next : f.id < e.id}) = i - 1]

\* Mutation: nobody asks for the lock.
LockIsAlwaysFree == TRUE

\* pg_try_advisory_xact_lock: a processor that does not get it goes away.
LockIsFree == batches = <<>>

BeginBatch ==
    /\ Len(batches) < Processors
    /\ LockIsFree
    /\ batches' = Append(batches, [read |-> NextBatch, store |-> events])
    /\ UNCHANGED <<store, late, rows, checkpoint, failures>>

\* Mutation: the checkpoint moves on by the number of events.
CheckpointByCount(es) == checkpoint + Len(es)

CheckpointAfter(es) == IF es = <<>> THEN checkpoint ELSE es[Len(es)].id

CommitBatch(i) ==
    LET after == Applied(batches[i].read) IN
    /\ after.ok
    /\ rows' = after
    /\ checkpoint' = CheckpointAfter(batches[i].read)
    /\ late' = late \cup {e \in events \ batches[i].store : e.id <= checkpoint'}
    /\ batches' = RemoveAt(batches, i)
    /\ UNCHANGED <<store, failures>>

\* A violated CHECK undoes the whole batch.
BatchFails(i) ==
    /\ ~Applied(batches[i].read).ok
    /\ batches' = RemoveAt(batches, i)
    /\ UNCHANGED <<store, late, rows, checkpoint, failures>>

\* So does the end of the process or of its connection.
Crash(i) ==
    /\ failures < MaxFailures
    /\ failures' = failures + 1
    /\ batches' = RemoveAt(batches, i)
    /\ UNCHANGED <<store, late, rows, checkpoint>>

ProjectionNext ==
    \/ \E c \in Checkouts : DrawId(c)
    \/ \E e \in inFlight : Commit(e) \/ Rollback(e)
    \/ BeginBatch
    \/ \E i \in DOMAIN batches : CommitBatch(i) \/ BatchFails(i) \/ Crash(i)

ProjectionSpec == ProjectionInit /\ [][ProjectionNext]_projectionVars

\* The loop polls for ever and is started again when a batch ends it.  A transaction
\* that is under way keeps the next one from its lock, so nothing else has to be said
\* about its end.
FairProjectionSpec ==
    /\ ProjectionSpec
    /\ WF_projectionVars(BeginBatch \/ \E i \in DOMAIN batches : CommitBatch(i) \/ BatchFails(i))

------------------------------------------------------------------------------
(* Properties *)

Projected == {e \in events : e.id <= checkpoint} \ late

\* Through batches that are cut short, repeated and contended for, every event is
\* applied once: the stock a buyer sees is what a replay of the SKU's events up to
\* the checkpoint gives.  Only an event that became visible late is not in it.
AvailableIsReplay ==
    \A s \in Skus : rows.sku[s].available = AvailableAfter(s, Projected)

\* A checkout that was rejected or confirmed is shown so as soon as that event is
\* projected, whatever else of the checkout is projected before or after it.
StatusIsOutcome ==
    \A e \in Projected :
        /\ e.type = "InventoryReservationRejected" => rows.status[e.checkout] = "rejected"
        /\ e.type = "OrderConfirmed" => /\ rows.status[e.checkout] = "confirmed"
                                        /\ rows.payment[e.checkout] = "succeeded"

\* The CHECK constraints never stop the projection, unless an event was late.
StopsOnlyAfterLateEvent ==
    \A i \in DOMAIN batches : late # {} \/ Applied(batches[i].read).ok

\* The projection catches up with the store and does not fall behind again by itself,
\* unless an event was late.
CatchesUp == <>[](After(checkpoint) = {} \/ late # {})

=============================================================================
