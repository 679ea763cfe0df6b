--------------------------- MODULE MCStagedCommands ---------------------------
(***************************************************************************)
(* Instances of StagedCommands for TLC.                                    *)
(***************************************************************************)
EXTENDS StagedCommands, TLC

CONSTANTS c1, c2, k1, w1, w2

\* c2 is the client's retry of c1.
RetriedKeys == (c1 :> k1) @@ (c2 :> k1)

=============================================================================
