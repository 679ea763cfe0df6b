---------------------------- MODULE MCDemoCheckout ----------------------------
(* Instances of DemoCheckout for TLC. *)
EXTENDS DemoCheckout, TLC

CONSTANTS a, b, c, s1, s2

\* Two carts that want the same SKUs in opposite order, a third wants one of them;
\* there is one unit of each.
Carts == (a :> <<[sku |-> s1, quantity |-> 1], [sku |-> s2, quantity |-> 1]>>)
      @@ (b :> <<[sku |-> s2, quantity |-> 1], [sku |-> s1, quantity |-> 1]>>)
      @@ (c :> <<[sku |-> s1, quantity |-> 1]>>)

OneEach == (s1 :> 1) @@ (s2 :> 1)

\* The Next.js backend is asked twice for a, go-backend once for b and c.
BothBackends == (a :> "ts") @@ (b :> "go") @@ (c :> "go")
FirstTwice   == (a :> 2) @@ (b :> 1) @@ (c :> 1)

=============================================================================
