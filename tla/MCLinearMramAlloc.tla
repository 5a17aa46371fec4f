-------------------------- MODULE MCLinearMramAlloc --------------------------
(* The allocator of overflow nodes with a few requests, see the .cfg file.  *)
EXTENDS LinearMramAlloc, TLC

CONSTANTS t1, t2, t3

=============================================================================
