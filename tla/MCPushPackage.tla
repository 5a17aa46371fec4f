---------------------------- MODULE MCPushPackage ----------------------------
(* Packages of the program's size, with batches at the ends of their range. *)
EXTENDS PushPackage, TLC

MCMaxPushBuf == 1024 * 64 * 8 * 4
MCLengths == {0, 1, 2, 3, 87379, 87380}
=============================================================================
