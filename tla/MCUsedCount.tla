----------------------------- MODULE MCUsedCount -----------------------------
(***************************************************************************)
(* A small instance of UsedCount for TLC.                                  *)
(***************************************************************************)
EXTENDS UsedCount, TLC

CONSTANTS k1, k3

(* The keys lie in different buckets, under different mutexes. *)
MCHash == [k \in Keys |-> IF k = k3 THEN 1 ELSE 0]
=============================================================================
