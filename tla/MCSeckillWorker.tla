--------------------------- MODULE MCSeckillWorker ---------------------------
(***************************************************************************)
(* Instances of SeckillWorker for TLC.                                     *)
(***************************************************************************)
EXTENDS SeckillWorker, TLC

CONSTANTS c1, c2, c3, c4, k1, k2, k3

\* c2 is the client's retry of c1; both keys start at bucket 0.
RetriedKeys       == (c1 :> k1) @@ (c2 :> k1) @@ (c3 :> k2)
RetriedQuantities == (c1 :> 2) @@ (c2 :> 2) @@ (c3 :> 1)
RetriedHash       == (k1 :> 0) @@ (k2 :> 0)

\* Three buyers of one unit; two of them start at bucket 0, one at bucket 1, and
\* c4 is the client's retry of c1.
SpillKeys         == (c1 :> k1) @@ (c2 :> k2) @@ (c3 :> k3) @@ (c4 :> k1)
SpillQuantities   == (c1 :> 1) @@ (c2 :> 1) @@ (c3 :> 1) @@ (c4 :> 1)
SpillHash         == (k1 :> 0) @@ (k2 :> 0) @@ (k3 :> 1)

\* Default partitioner at both ends: a bucket stays on the partition its key
\* hashes to.  The buckets of sku_hot_001 do so by 3, 3, 0, 2 of 4 partitions.
HashPartition == (0 :> 1) @@ (1 :> 0)
\* go-backend publishes on the partition numbered like the bucket.
ManualPartition == (0 :> 0) @@ (1 :> 1)

=============================================================================
