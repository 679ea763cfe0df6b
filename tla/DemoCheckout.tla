----------------------------- MODULE DemoCheckout -----------------------------
(***************************************************************************)
(* Completion of a demo checkout: reserve every item of the cart at its    *)
(* SKU, release what was reserved if one of them is rejected, else request *)
(* the payment and confirm the order.  A call has no transaction around    *)
(* it: it reads SKU streams and appends events one by one, other calls do  *)
(* the same in between, and a call may stop anywhere (the process ends or  *)
(* an append throws) and be made again for the same checkout.              *)
(*                                                                         *)
(* Two things keep the calls apart: an event is appended under the next    *)
(* version of its SKU stream, which is unique, and under an idempotency    *)
(* key made of the checkout and the item, which makes an append that was   *)
(* done before a replay.  There are two implementations.  The one of the   *)
(* Next.js backend goes on with the event it finds under the key; the one  *)
(* of go-backend goes on with the event it meant to append.                *)
(***************************************************************************)
EXTENDS Integers, Sequences, FiniteSets, FiniteSetsExt

CONSTANTS
    Checkouts,
    Skus,
    Items,      \* Checkouts -> sequence of [sku, quantity]
    OnHand,     \* Skus -> Nat, sku_inventory_projection.on_hand
    Backend,    \* Checkouts -> {"ts", "go"}, who is asked to complete it
    Calls,      \* Checkouts -> Nat, bound: how often it is asked
    Null

ASSUME CartAssumption ==
    /\ Items \in [Checkouts -> Seq([sku : Skus, quantity : Nat \ {0}])]
    /\ \A c \in Checkouts : Items[c] # <<>>
    /\ OnHand \in [Skus -> Nat]
    /\ Backend \in [Checkouts -> {"ts", "go"}]
    /\ Calls \in [Checkouts -> Nat]

\* A payment request or an order belongs to no SKU.
ASSUME NullAssumption == Null \notin Skus

VARIABLES
    events,     \* the event store from the reservations on
    call        \* Checkouts -> calls made -> how far a call has got

vars == <<events, call>>

\* A reservation id is minted by a call for an item.
Reservation == [checkout : Checkouts, call : Nat, item : Nat]

Keys == [kind : {"requested", "reserve", "release", "payment", "order"},
         checkout : Checkouts, item : Nat, call : Nat]

Event == [type : {"InventoryReservationRequested", "InventoryReserved",
                  "InventoryReservationRejected", "InventoryReservationReleased",
                  "PaymentRequested", "OrderConfirmed"},
          sku : Skus \cup {Null}, version : Nat,
          reservation : Reservation, quantity : Nat, key : Keys]

Steps == {"read", "request", "reserve", "readRelease", "release", "pay", "confirm",
          "threw", "confirmed", "rejected"}

\* assertInventoryInvariant: no reader ever finds less than nothing available.
TypeOK ==
    /\ events \subseteq Event
    /\ DOMAIN call = Checkouts
    /\ \A c \in Checkouts :
         call[c] \in Seq([step : Steps, item : DOMAIN Items[c], outcomes : Seq(Event),
                          seen : [available : Nat, version : Nat]])

Init ==
    /\ events = {}
    /\ call = [c \in Checkouts |-> <<>>]

------------------------------------------------------------------------------
(* The stream of a SKU *)

Stream(s) == {e \in events : e.sku = s}

Released(s) == {e.reservation : e \in {f \in Stream(s) : f.type = "InventoryReservationReleased"}}

\* Reservations of the SKU that have not been released.
Held(s) == {e \in Stream(s) : e.type = "InventoryReserved" /\ e.reservation \notin Released(s)}

UnitsOf(reserved) == MapThenSumSet(LAMBDA e : e.quantity, reserved)

\* replaySkuInventoryEvents, readSkuAggregateState: the version is the number of
\* events of the stream.  Orders are streams of their own, so nothing is ever sold.
Replay(s) == [available |-> OnHand[s] - UnitsOf(Held(s)), version |-> Cardinality(Stream(s))]

KeyTaken(e)     == \E f \in events : f.key = e.key
Stored(e)       == CHOOSE f \in events : f.key = e.key
\* Mutation: aggregate versions are not unique.
VersionTakenNever(e) == FALSE

VersionTaken(e) == e.sku # Null /\ \E f \in Stream(e.sku) : f.version = e.version

\* insert ... on conflict (idempotency_key) do nothing: the unique version raises an
\* error, unless the taken key has made the insert a no-op.
AppendThrows(e) == ~KeyTaken(e) /\ VersionTaken(e)

Append1(e) ==
    /\ ~AppendThrows(e)
    /\ events' = IF KeyTaken(e) THEN events ELSE events \cup {e}

------------------------------------------------------------------------------
(* A call, the n-th of checkout c *)

Here(c, n)     == call[c][n]
At(c, n, step) == n \in DOMAIN call[c] /\ Here(c, n).step = step
Goto(c, n, r)  == call' = [call EXCEPT ![c][n] = r]

Item(c, n) == Items[c][Here(c, n).item]

MintedBy(c, n, i) == [checkout |-> c, call |-> n, item |-> i]

SkuEvent(c, n, type, kind, version) ==
    [type |-> type, sku |-> Item(c, n).sku, version |-> version,
     reservation |-> MintedBy(c, n, Here(c, n).item), quantity |-> Item(c, n).quantity,
     key |-> [kind |-> kind, checkout |-> c, item |-> Here(c, n).item, call |-> 0]]

\* InventoryReserved or InventoryReservationRejected, from the state that was read.
\* go-backend has appended InventoryReservationRequested in between.
Decision(c, n) ==
    SkuEvent(c, n,
        IF Here(c, n).seen.available < Item(c, n).quantity
        THEN "InventoryReservationRejected" ELSE "InventoryReserved",
        "reserve",
        Here(c, n).seen.version + (IF Backend[c] = "go" THEN 2 ELSE 1))

Requested(c, n) ==
    SkuEvent(c, n, "InventoryReservationRequested", "requested", Here(c, n).seen.version + 1)

\* Mutation: both backends go on with the event they meant to append.
OutcomeMeant(c, e) == e

\* The outcome a call goes on with.
OutcomeOf(c, e) == IF Backend[c] = "ts" /\ KeyTaken(e) THEN Stored(e) ELSE e

\* Mutation: only the outcome of the last item is looked at.
RejectsLast(outcomes) == outcomes[Len(outcomes)].type = "InventoryReservationRejected"

Rejects(outcomes) == \E i \in DOMAIN outcomes : outcomes[i].type = "InventoryReservationRejected"

\* Mutation: stops at the first rejected outcome.
NextReservedBeforeRejected(outcomes, i) ==
    {j \in i .. Len(outcomes) : \A k \in i .. j : outcomes[k].type = "InventoryReserved"}

\* The first outcome from position i on that has to be released, if any.
NextReserved(outcomes, i) ==
    {j \in i .. Len(outcomes) : /\ outcomes[j].type = "InventoryReserved"
                                /\ \A k \in i .. j - 1 : outcomes[k].type # "InventoryReserved"}

ReleaseFrom(r, i) ==
    IF NextReserved(r.outcomes, i) = {} THEN [r EXCEPT !.step = "rejected"]
    ELSE [r EXCEPT !.step = "readRelease",
                   !.item = CHOOSE j \in NextReserved(r.outcomes, i) : TRUE]

CompleteDemoCheckout(c) ==
    /\ Len(call[c]) < Calls[c]
    /\ call' = [call EXCEPT ![c] = Append(@,
                  [step |-> "read", item |-> 1, outcomes |-> <<>>,
                   seen |-> [available |-> 0, version |-> 0]])]
    /\ UNCHANGED events

ReadSku(c, n) ==
    /\ At(c, n, "read")
    /\ Goto(c, n, [Here(c, n) EXCEPT
                     !.step = IF Backend[c] = "go" THEN "request" ELSE "reserve",
                     !.seen = Replay(Item(c, n).sku)])
    /\ UNCHANGED events

RequestReservation(c, n) ==
    /\ At(c, n, "request")
    /\ Append1(Requested(c, n))
    /\ Goto(c, n, [Here(c, n) EXCEPT !.step = "reserve"])

ReserveInventory(c, n) ==
    /\ At(c, n, "reserve")
    /\ Append1(Decision(c, n))
    /\ LET r == [Here(c, n) EXCEPT !.outcomes = Append(@, OutcomeOf(c, Decision(c, n)))] IN
       Goto(c, n, IF r.item < Len(Items[c]) THEN [r EXCEPT !.step = "read", !.item = @ + 1]
                  ELSE IF Rejects(r.outcomes) THEN ReleaseFrom(r, 1)
                  ELSE [r EXCEPT !.step = "pay"])

ReadSkuForRelease(c, n) ==
    /\ At(c, n, "readRelease")
    /\ Goto(c, n, [Here(c, n) EXCEPT
                     !.step = "release",
                     !.seen = Replay(Here(c, n).outcomes[Here(c, n).item].sku)])
    /\ UNCHANGED events

\* InventoryReservationReleased for the outcome at the cursor.
Release(c, n) ==
    LET o == Here(c, n).outcomes[Here(c, n).item] IN
    [o EXCEPT !.type = "InventoryReservationReleased",
              !.version = Here(c, n).seen.version + 1,
              !.key = [kind |-> "release", checkout |-> c,
                       item |-> o.reservation.item, call |-> o.reservation.call]]

ReleaseReservation(c, n) ==
    /\ At(c, n, "release")
    /\ Append1(Release(c, n))
    /\ Goto(c, n, ReleaseFrom(Here(c, n), Here(c, n).item + 1))

\* PaymentRequested and OrderConfirmed start streams of their own.
CheckoutEvent(c, n, type, kind) ==
    [type |-> type, sku |-> Null, version |-> 1, reservation |-> MintedBy(c, n, 0),
     quantity |-> 0, key |-> [kind |-> kind, checkout |-> c, item |-> 0, call |-> 0]]

RequestPayment(c, n) ==
    /\ At(c, n, "pay")
    /\ Append1(CheckoutEvent(c, n, "PaymentRequested", "payment"))
    /\ Goto(c, n, [Here(c, n) EXCEPT !.step = "confirm"])

ConfirmOrder(c, n) ==
    /\ At(c, n, "confirm")
    /\ Append1(CheckoutEvent(c, n, "OrderConfirmed", "order"))
    /\ Goto(c, n, [Here(c, n) EXCEPT !.step = "confirmed"])

\* Somebody else appended to the stream since it was read: the call throws where it
\* stands, and nothing it has appended is taken back.
VersionConflict(c, n) ==
    /\ \/ At(c, n, "request") /\ AppendThrows(Requested(c, n))
       \/ At(c, n, "reserve") /\ AppendThrows(Decision(c, n))
       \/ At(c, n, "release") /\ AppendThrows(Release(c, n))
    /\ Goto(c, n, [Here(c, n) EXCEPT !.step = "threw"])
    /\ UNCHANGED events

Proceed(c, n) ==
    \/ ReadSku(c, n) \/ RequestReservation(c, n) \/ ReserveInventory(c, n)
    \/ ReadSkuForRelease(c, n) \/ ReleaseReservation(c, n)
    \/ RequestPayment(c, n) \/ ConfirmOrder(c, n) \/ VersionConflict(c, n)

\* A call that stops for good simply takes no further step.
Next ==
    \E c \in Checkouts :
        \/ CompleteDemoCheckout(c)
        \/ \E n \in 1 .. Len(call[c]) : Proceed(c, n)

Spec == Init /\ [][Next]_vars

------------------------------------------------------------------------------
(* Properties *)

\* Calls that decide from what they read before others appended still never reserve
\* more of a SKU than is on hand.
NoOversell == \A s \in Skus : UnitsOf(Held(s)) <= OnHand[s]

HeldBy(c, s) == {e \in Held(s) : e.reservation.checkout = c}

Wanted(c, s) ==
    MapThenSumSet(LAMBDA i : Items[c][i].quantity, {i \in DOMAIN Items[c] : Items[c][i].sku = s})

\* An order is confirmed only if every item of its cart is reserved for it, and the
\* reservations are never released afterwards by a late or repeated call.
ConfirmedIsReserved ==
    \A c \in Checkouts :
        (\E e \in events : e.type = "OrderConfirmed" /\ e.key.checkout = c) =>
            \A s \in Skus : UnitsOf(HeldBy(c, s)) = Wanted(c, s)

\* A checkout that was answered rejected holds no stock of any SKU, however many
\* calls were made for it.
RejectedHoldsNothing ==
    \A c \in Checkouts : \A n \in DOMAIN call[c] :
        call[c][n].step = "rejected" => \A s \in Skus : HeldBy(c, s) = {}

\* All calls for a checkout that end give the same answer.
AnswersAgree ==
    \A c \in Checkouts : \A m, n \in DOMAIN call[c] :
        ~(call[c][m].step = "confirmed" /\ call[c][n].step = "rejected")

=============================================================================
