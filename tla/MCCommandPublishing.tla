------------------------- MODULE MCCommandPublishing -------------------------
(* Three seckill requests, so that one is pending while a batch of two or of one *)
(* is under way, and two commands for the default bus.                           *)
EXTENDS CommandPublishing

CONSTANTS r1, r2, r3, d1, d2

==============================================================================
