-------------------------- MODULE MCBlockMramAlloc ---------------------------
(* The block allocator on small regions, see the .cfg files.               *)
EXTENDS BlockMramAlloc, TLC

(* MRAM was zero, or held something that looks like a bitmap_head. *)
ZeroHead   == {NewHead(0)}
FoundSome  == {NewHead(0), [size |-> 2, first |-> 1, full |-> 0],
               [size |-> 0, first |-> 9, full |-> 5]}

(* What holders write: all ones or zeros.                                   *)
Both  == {{}, Bits}
=============================================================================
