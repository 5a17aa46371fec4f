------------------------------- MODULE CooMatrix -------------------------------
(***************************************************************************)
(* The sparse matrices of util/coo_matrix.c: arrays of elements with a     *)
(* capacity, in memory that malloc or the caller provides.  The copies of  *)
(* these operations for 64-bit values (suffix _v) and for MRAM             *)
(* (dpu/sto/coo_matrix_dpu.c) do the same; the type of a matrix, which     *)
(* nobody reads, is left out.                                              *)
(*                                                                         *)
(* An element is a pair <<row, col>>, or <<row, val>> in a _v matrix;      *)
(* data holds the first nnz elements.  One thread works, so operations     *)
(* without a loop are one action; of the others each turn is a step.       *)
(*                                                                         *)
(* Definitions with a suffix, as Equal_ByRow, are faulty variants for the   *)
(* runs that show what a property catches.                                 *)
(***************************************************************************)
EXTENDS Integers, Sequences, FiniteSetsExt, SequencesExt

CONSTANTS
  Matrices,     \* the pointers a program keeps
  Null,
  Elems,        \* elements of a matrix
  Capacities,   \* capacities a program asks for
  Lists,        \* lists of matrices a program merges
  MaxMemory,    \* bound: elements all matrices have room for
  MaxElements   \* bound: elements in all matrices before an insert

ASSUME CooAssumption ==
  /\ Null \notin Matrices
  /\ Null \notin [capacity : Nat, size : Nat, data : Seq(Elems)] \cup [Elems -> Nat]
  /\ Elems \subseteq Int \X Int
  /\ Capacities \subseteq Nat
  /\ Lists \subseteq Seq(Matrices \cup {Null})

VARIABLES
  coo,    \* the matrix behind every pointer: [capacity, size, data]
  call    \* the call that is under way, with its arguments and locals

vars == <<coo, call>>

NoCall == [op |-> "none"]

(* size is what the memory behind the matrix has room for. *)
Matrix(capacity) == [capacity |-> capacity, size |-> capacity, data |-> <<>>]

Live == {m \in Matrices : coo[m] # Null}
Nnz(m) == Len(coo[m].data)

Init ==
  /\ coo = [m \in Matrices |-> Null]
  /\ call = NoCall

Idle == call = NoCall
Becomes(m, matrix) == coo' = [coo EXCEPT ![m] = matrix]

(* Bound on the memory of all matrices, were m given n elements. *)
Affordable(m, n) ==
  n + MapThenSumSet(LAMBDA x : coo[x].size, Live \ {m}) <= MaxMemory

Few == MapThenSumSet(Nnz, Live) <= MaxElements

-----------------------------------------------------------------------------
(* Operations without a loop                                               *)

Create(m, capacity) ==
  /\ Idle /\ m \notin Live /\ Affordable(m, capacity)
  /\ Becomes(m, Matrix(capacity))
  /\ UNCHANGED call

(* The caller puts a matrix into memory of its own, which has room for it; *)
(* minus_nnz and plus_nnz, which the DPU clears, are never used.           *)
Initialise(m, capacity) ==
  /\ Idle /\ m \in Live /\ capacity <= coo[m].size
  /\ Becomes(m, [coo[m] EXCEPT !.capacity = capacity, !.data = <<>>])
  /\ UNCHANGED call

(* A matrix that is large enough keeps its memory and its capacity. *)
Resized_Always(matrix, capacity) == [matrix EXCEPT !.capacity = capacity]
Resized(matrix, capacity) ==
  IF matrix.capacity < capacity THEN Matrix(capacity) ELSE matrix

Reset(m, capacity) ==
  /\ Idle /\ m \in Live /\ Affordable(m, capacity)
  /\ Becomes(m, [Resized(coo[m], capacity) EXCEPT !.data = <<>>])
  /\ UNCHANGED call

Clear(m) ==
  /\ Idle /\ m \in Live
  /\ Becomes(m, [coo[m] EXCEPT !.data = <<>>])
  /\ UNCHANGED call

(* free of the C library *)
Free(m) == Idle /\ m \in Live /\ Becomes(m, Null) /\ UNCHANGED call

Room(matrix, n) == Len(matrix.data) + n <= matrix.capacity

(* coo_matrix_insert; add and sub do not look at what it returns. *)
Inserted(matrix, e) ==
  IF Room(matrix, 1) THEN [matrix EXCEPT !.data = Append(@, e)] ELSE matrix

Insert(m, e) ==
  /\ Idle /\ m \in Live /\ Few
  /\ Becomes(m, Inserted(coo[m], e))
  /\ UNCHANGED call

(* All of the elements or, without room for them, none. *)
InsertElems(m, elems) ==
  /\ Idle /\ m \in Live /\ Few
  /\ Room(coo[m], Len(elems))
  /\ Becomes(m, [coo[m] EXCEPT !.data = @ \o elems])
  /\ UNCHANGED call

Return == call' = NoCall

-----------------------------------------------------------------------------
(* coo_matrix_add                                                          *)

(* An element of A goes first only if it is smaller. *)
Smaller_ByRow(e, f) == e[1] < f[1]
Smaller(e, f) == e[1] < f[1] \/ (e[1] = f[1] /\ e[2] < f[2])

A == coo[call.a].data
B == coo[call.b].data

AddCapacity(a, b) == coo[b].capacity + coo[a].capacity

BeginAdd(r, a, b) ==
  /\ Idle /\ r \notin Live /\ {a, b} \subseteq Live
  /\ Affordable(r, AddCapacity(a, b))
  /\ Becomes(r, Matrix(AddCapacity(a, b)))
  /\ call' = [op |-> "add", r |-> r, a |-> a, b |-> b, i |-> 0, j |-> 0]

(* The loops that copy the rest are these steps with one side at its end.  *)
AddFromA ==
  /\ call.op = "add"
  /\ call.i < Len(A)
  /\ call.j < Len(B) => Smaller(A[call.i + 1], B[call.j + 1])
  /\ Becomes(call.r, Inserted(coo[call.r], A[call.i + 1]))
  /\ call' = [call EXCEPT !.i = @ + 1]

AddFromB ==
  /\ call.op = "add"
  /\ call.j < Len(B)
  /\ call.i < Len(A) => ~Smaller(A[call.i + 1], B[call.j + 1])
  /\ Becomes(call.r, Inserted(coo[call.r], B[call.j + 1]))
  /\ call' = [call EXCEPT !.j = @ + 1]

Added ==
  /\ call.op = "add" /\ call.i = Len(A) /\ call.j = Len(B)
  /\ Return /\ UNCHANGED coo

-----------------------------------------------------------------------------
(* coo_matrix_sub: B without A                                             *)

BeginSub(r, a, b) ==
  /\ Idle /\ r \notin Live /\ {a, b} \subseteq Live
  /\ Affordable(r, coo[b].capacity)
  /\ Becomes(r, Matrix(coo[b].capacity))
  /\ call' = [op |-> "sub", r |-> r, a |-> a, b |-> b, i |-> 0, j |-> 0]

Equal_ByRow == A[call.i + 1][1] = B[call.j + 1][1]
Equal == A[call.i + 1] = B[call.j + 1]

SubSkip ==
  /\ call.op = "sub" /\ call.j < Len(B)
  /\ call.i < Len(A) /\ Equal
  /\ call' = [call EXCEPT !.i = @ + 1, !.j = @ + 1]
  /\ UNCHANGED coo

SubKeep ==
  /\ call.op = "sub" /\ call.j < Len(B)
  /\ ~(call.i < Len(A) /\ Equal)
  /\ Becomes(call.r, Inserted(coo[call.r], B[call.j + 1]))
  /\ call' = [call EXCEPT !.j = @ + 1]

Subtracted ==
  /\ call.op = "sub" /\ call.j = Len(B)
  /\ Return /\ UNCHANGED coo

-----------------------------------------------------------------------------
(* coo_matrix_merge                                                        *)

Content(m) == IF m = Null THEN <<>> ELSE coo[m].data

(* Bound: what the matrices of the list have together. *)
Total(list) == FoldLeft(LAMBDA sum, m : sum + Len(Content(m)), 0, list)

(* An empty list gives NULL; the type is read from the first matrix, which *)
(* is not NULL therefore.  ends collects the values of capacity: where the *)
(* elements of each matrix will end.                                       *)
BeginMerge(r, list) ==
  /\ Idle /\ r \notin Live
  /\ list # <<>> /\ list[1] # Null /\ \A k \in DOMAIN list : list[k] \in Live \cup {Null}
  /\ Affordable(r, Total(list))
  /\ call' = [op |-> "count", r |-> r, list |-> list, i |-> 0, ends |-> <<0>>]
  /\ UNCHANGED coo

MergeCount ==
  /\ call.op = "count" /\ call.i < Len(call.list)
  /\ call' = [call EXCEPT !.i = @ + 1,
                !.ends = Append(@, @[call.i + 1] + Len(Content(call.list[call.i + 1])))]
  /\ UNCHANGED coo

MergeCreate ==
  /\ call.op = "count" /\ call.i = Len(call.list)
  /\ Becomes(call.r, Matrix(call.ends[call.i + 1]))
  /\ call' = [call EXCEPT !.op = "merge", !.i = 0]

(* memcpy, which asks for no capacity *)
MergeCopy ==
  /\ call.op = "merge" /\ call.i < Len(call.list)
  /\ Becomes(call.r, [coo[call.r] EXCEPT !.data = @ \o Content(call.list[call.i + 1])])
  /\ call' = [call EXCEPT !.i = @ + 1]

Merged ==
  /\ call.op = "merge" /\ call.i = Len(call.list)
  /\ Return /\ UNCHANGED coo

-----------------------------------------------------------------------------
(* coo_matrix_disorder, coo_matrix_disorder_v1: as many swaps as there are  *)
(* elements, at random places or of each element with one at random        *)

BeginDisorder(op, m) ==
  /\ Idle /\ m \in Live /\ op \in {"disorder", "disorder_v1"}
  /\ call' = [op |-> op, m |-> m, i |-> 0]
  /\ UNCHANGED coo

Swapped(data, m, n) == [data EXCEPT ![m] = data[n], ![n] = data[m]]

Swap ==
  /\ call.op \in {"disorder", "disorder_v1"} /\ call.i < Nnz(call.m)
  /\ \E m, n \in 1..Nnz(call.m) :
       /\ call.op = "disorder_v1" => m = call.i + 1
       /\ Becomes(call.m, [coo[call.m] EXCEPT !.data = Swapped(@, m, n)])
  /\ call' = [call EXCEPT !.i = @ + 1]

Disordered ==
  /\ call.op \in {"disorder", "disorder_v1"} /\ call.i = Nnz(call.m)
  /\ Return /\ UNCHANGED coo

-----------------------------------------------------------------------------
(* An iterator, as the dumps use it; out is what has been printed.         *)

BeginDump(m) ==
  /\ Idle /\ m \in Live
  /\ call' = [op |-> "dump", m |-> m, index |-> 0, out |-> <<>>]
  /\ UNCHANGED coo

AtEnd == call.index >= Nnz(call.m)

NextElem ==
  /\ call.op = "dump" /\ ~AtEnd
  /\ call' = [call EXCEPT !.index = @ + 1, !.out = Append(@, coo[call.m].data[call.index + 1])]
  /\ UNCHANGED coo

Dumped == call.op = "dump" /\ AtEnd /\ Return /\ UNCHANGED coo

-----------------------------------------------------------------------------
Operation ==
  \E m \in Matrices :
    \/ \E c \in Capacities : Create(m, c) \/ Initialise(m, c) \/ Reset(m, c)
    \/ Clear(m) \/ Free(m) \/ BeginDump(m)
    \/ \E e \in Elems : Insert(m, e)
    \/ \E e, f \in Elems : InsertElems(m, <<e, f>>)
    \/ \E op \in {"disorder", "disorder_v1"} : BeginDisorder(op, m)
    \/ \E a, b \in Matrices : BeginAdd(m, a, b) \/ BeginSub(m, a, b)
    \/ \E list \in Lists : BeginMerge(m, list)

Turn ==
  \/ AddFromA \/ AddFromB \/ Added
  \/ SubSkip \/ SubKeep \/ Subtracted
  \/ MergeCount \/ MergeCreate \/ MergeCopy \/ Merged
  \/ Swap \/ Disordered
  \/ NextElem \/ Dumped

Next == Operation \/ Turn

Spec == Init /\ [][Next]_vars

-----------------------------------------------------------------------------
(* Properties                                                              *)

(* The matrices and the locals of the calls keep to their types. *)
TypeOK ==
  /\ coo \in [Matrices -> {Null} \cup [capacity : Nat, size : Nat, data : Seq(Elems)]]
  /\ \/ call = NoCall
     \/ call \in [op : {"add", "sub"}, r : Live, a : Live, b : Live, i : Nat, j : Nat]
     \/ call \in [op : {"count", "merge"}, r : Matrices, list : Lists, i : Nat, ends : Seq(Nat)]
     \/ call \in [op : {"disorder", "disorder_v1"}, m : Live, i : Nat]
     \/ call \in [op : {"dump"}, m : Live, index : Nat, out : Seq(Elems)]

(* The elements of every matrix lie in its memory, however its capacity     *)
(* and its memory came apart by reset and init.                            *)
InMemory ==
  \A m \in Live : Nnz(m) <= coo[m].capacity /\ coo[m].capacity <= coo[m].size

(* Every turn of add and of sub has put its element into the result: the    *)
(* capacity computed before the loop is enough for all of them, since no   *)
(* loop looks at what insert returns.                                      *)
NothingDropped ==
  /\ call.op \in {"add", "sub"} => call.r \notin {call.a, call.b}
  /\ call.op = "add" =>
       /\ call.i <= Len(A) /\ call.j <= Len(B)
       /\ Nnz(call.r) = call.i + call.j
       /\ coo[call.r].capacity = AddCapacity(call.a, call.b)
  /\ call.op = "sub" =>
       /\ call.i <= Len(A) /\ call.j <= Len(B)
       /\ Nnz(call.r) + call.i = call.j
       /\ coo[call.r].capacity = coo[call.b].capacity

(* The lengths of the matrices of a list, and what they sum up to. *)
Lengths == [k \in DOMAIN call.list |-> Len(Content(call.list[k]))]
RunningSums(sums, len) ==
  /\ sums # <<>> /\ sums[1] = 0
  /\ \A k \in DOMAIN sums :
       /\ sums[k] <= sums[Len(sums)]
       /\ k > 1 => sums[k] = sums[k - 1] + len[k - 1]

(* Neither does the copying of merge look at a capacity: the one it has     *)
(* counted before is where the elements of the last matrix end.            *)
MergeFits ==
  /\ call.op \in {"count", "merge"} =>
       /\ call.i <= Len(call.list)
       /\ \A k \in DOMAIN call.list : call.list[k] \in (Live \ {call.r}) \cup {Null}
       /\ RunningSums(call.ends, Lengths)
  /\ call.op = "count" => call.r \notin Live /\ Len(call.ends) = call.i + 1
  /\ call.op = "merge" =>
       /\ call.r \in Live /\ Len(call.ends) = Len(call.list) + 1
       /\ Nnz(call.r) = call.ends[call.i + 1]
       /\ coo[call.r].capacity = call.ends[Len(call.ends)]

(* Invariant of the proofs: types, memory and the progress of the loops.   *)
IndInv == TypeOK /\ InMemory /\ NothingDropped /\ MergeFits

InOrder(e, f) == e[1] < f[1] \/ (e[1] = f[1] /\ e[2] <= f[2])
Sorted(data) == \A k \in 1..(Len(data) - 1) : InOrder(data[k], data[k + 1])
Times(e, data) == Cardinality({k \in DOMAIN data : data[k] = e})

(* The sum of sorted matrices is sorted. *)
SumSorted ==
  call.op = "add" /\ Sorted(A) /\ Sorted(B) => Sorted(coo[call.r].data)

(* The difference of a sorted matrix and a sorted part of it is exact; only *)
(* then, for an element of A that B lacks stops the loop from skipping.    *)
DifferenceExact ==
  call.op = "sub" /\ call.j = Len(B) /\ Sorted(A) /\ Sorted(B)
    /\ (\A e \in Elems : Times(e, A) <= Times(e, B)) =>
  /\ call.i = Len(A)
  /\ Sorted(coo[call.r].data)
  /\ \A e \in Elems : Times(e, coo[call.r].data) + Times(e, A) = Times(e, B)

(* A merge is its matrices one behind the other; an iterator gives all      *)
(* elements in their order.                                                *)
MergeInOrder ==
  call.op = "merge" /\ call.i = Len(call.list) =>
  coo[call.r].data = FlattenSeq([k \in DOMAIN call.list |-> Content(call.list[k])])
DumpWhole == call.op = "dump" /\ AtEnd => call.out = coo[call.m].data

(* Calls end with what their callers rely on: the order of add, sub and     *)
(* merge, and every element in a dump.                                     *)
CallsRight == SumSorted /\ DifferenceExact /\ MergeInOrder /\ DumpWhole

(* Every operation acts on bags of elements as its name says; a result is   *)
(* there when its call returns.                                            *)
BagOf(data) == [e \in Elems |-> Times(e, data)]
Pending == call.op \in {"add", "sub", "count", "merge"}
BagAt(m) ==
  IF m \notin Live \/ (Pending /\ m = call.r) THEN Null ELSE BagOf(coo[m].data)
AllBags == [m \in Matrices |-> BagAt(m)]
Task ==
  CASE call.op \in {"add", "sub"} -> [op |-> call.op, r |-> call.r, a |-> call.a, b |-> call.b]
    [] call.op \in {"count", "merge"} -> [op |-> "merge", r |-> call.r, list |-> call.list]
    [] OTHER -> NoCall
Bags == INSTANCE MatrixBags WITH bag <- AllBags, task <- Task
ImplementsBags == Bags!MSpec
=============================================================================
