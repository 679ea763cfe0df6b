---------------------------- MODULE MCProjections -----------------------------
(* Instances of Projections for TLC. *)
EXTENDS Projections, TLC

CONSTANTS a, b, s1, s2

OneEach == (s1 :> 1) @@ (s2 :> 1)

Of1(type)  == [type |-> type, units |-> (s1 :> 1) @@ (s2 :> 0)]
Of2(type)  == [type |-> type, units |-> (s1 :> 0) @@ (s2 :> 1)]
Cart(type) == [type |-> type, units |-> (s1 :> 0) @@ (s2 :> 0)]

\* a, completed by the Next.js backend, finds the first SKU of its cart sold out by b,
\* reserves the other and releases it; b, completed by go-backend, buys.
Sale ==
    (a :> <<Cart("CheckoutIntentCreated"), Of2("InventoryReservationRejected"),
            Of1("InventoryReserved"), Of1("InventoryReservationReleased")>>)
 @@ (b :> <<Cart("CheckoutIntentCreated"), Of2("InventoryReservationRequested"),
            Of2("InventoryReserved"), Cart("PaymentRequested"), Of2("OrderConfirmed")>>)

\* The theorems that ask something of the histories speak of this sale.
ASSUME SaleIsOrderly == OutcomeIsLast /\ ReservedBeforeReturned

=============================================================================
