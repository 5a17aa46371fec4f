--------------------------- MODULE MCIndexManager ----------------------------
(* Client threads of the host on a small instance, see the .cfg file.       *)
EXTENDS IndexManager, TLC

CONSTANTS i1, i2, t1, t2

(* Both ids fall into one bucket of the manager's hash map. *)
OneBucket == [id \in {i1, i2} |-> 0]

=============================================================================
