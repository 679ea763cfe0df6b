----------------------------- MODULE SeckillSale -----------------------------
(***************************************************************************)
(* What the seckill path promises the rest of the shop for one SKU: every  *)
(* dedupe key gets one answer that is never taken back, a reservation is   *)
(* counted once, and the units of all reservations fit into the stock.     *)
(* Buckets, partitions, probes and repeated records do not exist here.     *)
(***************************************************************************)
EXTENDS Integers

CONSTANTS Keys, UnitsOf, Stock

VARIABLES answer, sold

saleVars == <<answer, sold>>

Init ==
    /\ answer = [k \in Keys |-> "open"]
    /\ sold = 0

Reserve(k) ==
    /\ answer[k] = "open"
    /\ sold + UnitsOf[k] <= Stock
    /\ answer' = [answer EXCEPT ![k] = "reserved"]
    /\ sold' = sold + UnitsOf[k]

Reject(k) ==
    /\ answer[k] = "open"
    /\ answer' = [answer EXCEPT ![k] = "rejected"]
    /\ UNCHANGED sold

Next == \E k \in Keys : Reserve(k) \/ Reject(k)

Spec == Init /\ [][Next]_saleVars

=============================================================================
