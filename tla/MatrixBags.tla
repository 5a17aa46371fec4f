------------------------------ MODULE MatrixBags ------------------------------
(***************************************************************************)
(* What the sparse matrices of util/coo_matrix.c promise when the order of *)
(* their elements is left out: a matrix is a bag of elements.  A sum holds *)
(* the elements of both matrices, a merge those of all of them, and a      *)
(* difference loses nothing but elements of the subtrahend, each at most   *)
(* as often as the subtrahend has it.                                      *)
(***************************************************************************)
EXTENDS Integers, Sequences, Functions

CONSTANTS
  Matrices,   \* the pointers a program keeps
  Elems,      \* elements of a matrix
  Lists,      \* lists of matrices to merge
  Null

VARIABLES
  bag,        \* the bag of every matrix, Null where there is none
  task        \* the operation whose result is not there yet

vars == <<bag, task>>

NoTask == [op |-> "none"]
Empty == [e \in Elems |-> 0]
One(e) == [Empty EXCEPT ![e] = 1]
Plus(x, y) == [e \in Elems |-> x[e] + y[e]]
Within(x, y) == \A e \in Elems : x[e] <= y[e]
Live == {m \in Matrices : bag[m] # Null}

MInit ==
  /\ bag = [m \in Matrices |-> Null]
  /\ task = NoTask

Becomes(m, b) == bag' = [bag EXCEPT ![m] = b]

(* A new, a cleared or a released matrix, or one or two elements more. *)
Reachable(m) ==
  {Empty, Null} \cup
    IF m \notin Live THEN {}
    ELSE {Plus(bag[m], x) : x \in {One(e) : e \in Elems}
                                    \cup {Plus(One(e), One(f)) : e, f \in Elems}}

Change ==
  /\ task = NoTask /\ task' = NoTask
  /\ \E m \in Matrices :
       /\ \A n \in Matrices \ {m} : bag'[n] = bag[n]
       /\ bag'[m] \in Reachable(m)

Ask ==
  /\ task = NoTask /\ task' # NoTask
  /\ \/ task' \in [op : {"add", "sub"}, r : Matrices \ Live, a : Live, b : Live]
     \/ task' \in [op : {"merge"}, r : Matrices \ Live,
                   list : {list \in Lists : Range(list) \subseteq Live \cup {Null}}]
  /\ UNCHANGED bag

Sum == task.op = "add" /\ Becomes(task.r, Plus(bag[task.a], bag[task.b]))

Difference ==
  /\ task.op = "sub"
  /\ LET rest == bag'[task.r] IN
       /\ rest \in [Elems -> Nat]
       /\ Within(rest, bag[task.b]) /\ Within(bag[task.b], Plus(rest, bag[task.a]))
       /\ Becomes(task.r, rest)

(* Matrices that are missing add nothing. *)
Merge ==
  /\ task.op = "merge"
  /\ LET sum[n \in 0..Len(task.list)] ==
           IF n = 0 THEN Empty
           ELSE IF task.list[n] = Null THEN sum[n - 1] ELSE Plus(sum[n - 1], bag[task.list[n]])
     IN  Becomes(task.r, sum[Len(task.list)])

Finish == task' = NoTask /\ (Sum \/ Difference \/ Merge)

MNext == Change \/ Ask \/ Finish
MSpec == MInit /\ [][MNext]_vars
=============================================================================
