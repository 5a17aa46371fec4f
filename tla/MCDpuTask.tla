------------------------------ MODULE MCDpuTask ------------------------------
(* The launches of one DPU on small instances, see the .cfg files.          *)
EXTENDS DpuTask, TLC

CONSTANTS i1, i2
=============================================================================
