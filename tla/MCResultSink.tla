----------------------------- MODULE MCResultSink -----------------------------
(***************************************************************************)
(* Instances of ResultSink for TLC.                                        *)
(***************************************************************************)
EXTENDS ResultSink, TLC

CONSTANTS c1, c2, c3, k1

\* c2 is the client's retry of c1; the record of c3, whose buyer gave no
\* idempotency key, was sent twice.
RetriedKeys       == (c1 :> k1) @@ (c2 :> k1) @@ (c3 :> Null)
RetriedDeliveries == (c1 :> 1) @@ (c2 :> 1) @@ (c3 :> 2)

\* c2 is the client's retry of c1.
PairKeys       == (c1 :> k1) @@ (c2 :> k1)
PairDeliveries == (c1 :> 1) @@ (c2 :> 1)

=============================================================================
