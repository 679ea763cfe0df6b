--------------------------- MODULE MCSeckillRouting ---------------------------
(* One SKU bought alone twice, and once together with another one. *)
EXTENDS SeckillRouting, TLC

CONSTANTS s1, s2, c1, c2, c3

TwoAloneOneMixed == (c1 :> <<s1>>) @@ (c2 :> <<s1>>) @@ (c3 :> <<s2, s1>>)

\* The two single lines are for the same SKU.
SameOrders == Permutations({c1, c2})

==============================================================================
