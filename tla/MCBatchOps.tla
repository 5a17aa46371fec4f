----------------------------- MODULE MCBatchOps ------------------------------
(* The batches of one DPU set on small instances, see the .cfg files.       *)
EXTENDS BatchOps, TLC

CONSTANTS i1, i2, a, b, c

(* One key on each of two DPUs. *)
Two == (a :> 1) @@ (b :> 2)

(* One key on each of three DPUs. *)
Three == (a :> 0) @@ (b :> 1) @@ (c :> 2)
=============================================================================
