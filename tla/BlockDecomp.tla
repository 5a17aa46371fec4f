----------------------------- MODULE BlockDecomp -----------------------------
(***************************************************************************)
(* The block decomposition of util/util.h: how n items (the buckets of an  *)
(* index, the key-value pairs of a batch) are dealt out to size slave      *)
(* tasklets.  The macros are C integer arithmetic on non-negative values;  *)
(* with at most 16 slaves and fewer than 2^17 items no product overflows   *)
(* 32 bits, so natural numbers are exact.                                  *)
(***************************************************************************)
EXTENDS Integers

(* The first item of the rank-th block. *)
BLOCK_LOW(rank, size, n) == (rank * n) \div size

(* The last item of the rank-th block. *)
BLOCK_HIGH(rank, size, n) == BLOCK_LOW(rank + 1, size, n) - 1

(* The number of items of the rank-th block. *)
BLOCK_SIZE(rank, size, n) ==
  BLOCK_LOW(rank + 1, size, n) - BLOCK_LOW(rank, size, n)
=============================================================================
