-------------------------- MODULE MCPrimaryIndexDpu --------------------------
(***************************************************************************)
(* Small instances of PrimaryIndexDpu for TLC.                             *)
(***************************************************************************)
EXTENDS PrimaryIndexDpuImpl, TLC

CONSTANTS k1, k2, k3

(* k1 and k2 collide, k3 has the bucket next to theirs. *)
MCHash == [k \in Keys |-> IF k = k3 THEN 1 ELSE 0]
=============================================================================
