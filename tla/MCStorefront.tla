----------------------------- MODULE MCStorefront -----------------------------
(* Two tabs of one buyer, two units of one product and one of another. *)
EXTENDS Storefront, TLC

CONSTANTS t1, t2, tee, cap

TwoAndOne == (tee :> 2) @@ (cap :> 1)

==============================================================================
