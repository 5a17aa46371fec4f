---------------------------- MODULE CooMatrixProofs ----------------------------
(***************************************************************************)
(* Proofs about the sparse matrices, for any number of matrices, elements  *)
(* and capacities.  (Least and UpTo, induction over numbers, come from     *)
(* BlockDecompProofs.)                                                     *)
(***************************************************************************)
EXTENDS CooMatrix, BlockDecompProofs, SequenceTheorems, TLAPS

MatrixSet == [capacity : Nat, size : Nat, data : Seq(Elems)]

(* The elements of a matrix lie in its memory. *)
Fits(x) == Len(x.data) <= x.capacity /\ x.capacity <= x.size

LEMMA NullIsNoMatrix == \A x \in MatrixSet : x # Null
BY CooAssumption DEF MatrixSet

LEMMA NewMatrix ==
  ASSUME NEW c \in Nat
  PROVE  Matrix(c) \in MatrixSet /\ Fits(Matrix(c)) /\ Len(Matrix(c).data) = 0
BY DEF Matrix, MatrixSet, Fits

LEMMA OfLive ==
  ASSUME IndInv, NEW m \in Live
  PROVE  m \in Matrices /\ coo[m] \in MatrixSet /\ Fits(coo[m]) /\ Nnz(m) \in Nat
<1>1. m \in Matrices /\ coo[m] \in MatrixSet
  BY DEF IndInv, TypeOK, Live, MatrixSet
<1>2. Fits(coo[m])
  BY DEF IndInv, InMemory, Fits, Nnz
<1>3. Nnz(m) \in Nat
  BY <1>1, LenProperties DEF MatrixSet, Nnz
<1> QED BY <1>1, <1>2, <1>3

(* One pointer is given another matrix, or none. *)
LEMMA Replaced ==
  ASSUME IndInv, NEW m \in Matrices, NEW x \in MatrixSet \cup {Null},
         x # Null => Fits(x), Becomes(m, x)
  PROVE  /\ coo' \in [Matrices -> {Null} \cup MatrixSet]
         /\ InMemory'
         /\ coo'[m] = x /\ \A n \in Matrices \ {m} : coo'[n] = coo[n]
         /\ \A n \in Matrices \ {m} : n \in Live' <=> n \in Live
         /\ m \in Live' <=> x # Null
<1>1. coo \in [Matrices -> {Null} \cup MatrixSet]
  BY DEF IndInv, TypeOK, MatrixSet
<1>2. coo' = [coo EXCEPT ![m] = x]
  BY DEF Becomes
<1>3. /\ coo' \in [Matrices -> {Null} \cup MatrixSet]
      /\ coo'[m] = x /\ \A n \in Matrices \ {m} : coo'[n] = coo[n]
  BY <1>1, <1>2
<1>4. /\ \A n \in Matrices \ {m} : n \in Live' <=> n \in Live
      /\ m \in Live' <=> x # Null
  BY <1>3 DEF Live
<1>5. InMemory'
  <2> SUFFICES ASSUME NEW n \in Live'
               PROVE  Len(coo'[n].data) <= coo'[n].capacity /\ coo'[n].capacity <= coo'[n].size
    BY DEF InMemory, Nnz
  <2>1. n \in Matrices
    BY DEF Live
  <2> QED BY <1>3, <1>4, <2>1 DEF IndInv, InMemory, Nnz, Fits
<1> QED BY <1>3, <1>4, <1>5

LEMMA InitInv == Init => IndInv
<1> SUFFICES ASSUME Init PROVE IndInv
  OBVIOUS
<1>1. \A m \in Matrices : coo[m] = Null
  BY DEF Init
<1>2. TypeOK
  BY DEF Init, TypeOK
<1>3. call.op = "none"
  BY DEF Init, NoCall
<1> QED BY <1>1, <1>2, <1>3 DEF IndInv, InMemory, NothingDropped, MergeFits, Live

-----------------------------------------------------------------------------
(* Operations without a loop.                                              *)

LEMMA SimpleInv ==
  ASSUME IndInv, NEW m \in Matrices, NEW x \in MatrixSet \cup {Null},
         x # Null => Fits(x), Becomes(m, x), Idle, UNCHANGED call
  PROVE  IndInv'
<1>1. call' = NoCall /\ call'.op = "none"
  BY DEF Idle, NoCall
<1>2. coo' \in [Matrices -> {Null} \cup MatrixSet] /\ InMemory'
  BY Replaced
<1>3. TypeOK'
  BY <1>1, <1>2 DEF TypeOK, MatrixSet
<1> QED BY <1>1, <1>2, <1>3 DEF IndInv, NothingDropped, MergeFits

(* A matrix loses its elements, and may be given another capacity. *)
LEMMA Emptied ==
  ASSUME NEW x \in MatrixSet, x.capacity <= x.size, NEW c \in Nat, c <= x.size
  PROVE  /\ [x EXCEPT !.data = <<>>] \in MatrixSet /\ Fits([x EXCEPT !.data = <<>>])
         /\ [x EXCEPT !.capacity = c, !.data = <<>>] \in MatrixSet
         /\ Fits([x EXCEPT !.capacity = c, !.data = <<>>])
<1>1. <<>> \in Seq(Elems) /\ Len(<<>>) = 0
  BY EmptySeq
<1> DEFINE y == [x EXCEPT !.data = <<>>]
           z == [x EXCEPT !.capacity = c, !.data = <<>>]
<1>2. y \in MatrixSet /\ y.data = <<>> /\ y.capacity = x.capacity /\ y.size = x.size
  BY <1>1 DEF MatrixSet
<1>3. z \in MatrixSet /\ z.data = <<>> /\ z.capacity = c /\ z.size = x.size
  BY <1>1 DEF MatrixSet
<1>4. x.capacity \in Nat /\ x.size \in Nat
  BY DEF MatrixSet
<1>5. Fits(y)
  BY <1>1, <1>2, <1>4 DEF Fits
<1>6. Fits(z)
  BY <1>1, <1>3 DEF Fits
<1> QED BY <1>2, <1>3, <1>5, <1>6

(* A matrix keeps its elements in its memory when one is inserted. *)
LEMMA InsertFits ==
  ASSUME NEW x \in MatrixSet, Fits(x), NEW e \in Elems
  PROVE  Inserted(x, e) \in MatrixSet /\ Fits(Inserted(x, e))
<1>1. /\ Append(x.data, e) \in Seq(Elems)
      /\ Len(Append(x.data, e)) = Len(x.data) + 1
  BY AppendProperties DEF MatrixSet
<1>2. CASE Room(x, 1)
  <2>1. Inserted(x, e) = [x EXCEPT !.data = Append(x.data, e)]
    BY <1>2 DEF Inserted
  <2> QED BY <1>1, <1>2, <2>1 DEF Room, Fits, MatrixSet
<1>3. CASE ~Room(x, 1)
  BY <1>3 DEF Inserted
<1> QED BY <1>2, <1>3

LEMMA OperationInv ==
  ASSUME IndInv, NEW m \in Matrices,
         \/ \E c \in Capacities : Create(m, c) \/ Initialise(m, c) \/ Reset(m, c)
         \/ Clear(m) \/ Free(m)
         \/ \E e \in Elems : Insert(m, e)
         \/ \E e, f \in Elems : InsertElems(m, <<e, f>>)
  PROVE  IndInv'
<1> USE NullIsNoMatrix
<1>1. ASSUME NEW c \in Capacities, Create(m, c) \/ Initialise(m, c) \/ Reset(m, c) PROVE IndInv'
  <2>1. c \in Nat
    BY CooAssumption
  <2>2. CASE Create(m, c)
    BY <2>1, <2>2, NewMatrix, SimpleInv DEF Create
  <2>3. CASE Initialise(m, c)
    <3>1. coo[m] \in MatrixSet /\ Fits(coo[m]) /\ c <= coo[m].size
      BY <2>3, OfLive DEF Initialise
    <3> DEFINE x == [coo[m] EXCEPT !.capacity = c, !.data = <<>>]
    <3>2. x \in MatrixSet /\ Fits(x)
      BY <2>1, <3>1, Emptied DEF Fits
    <3> QED BY <2>3, <3>2, SimpleInv DEF Initialise
  <2>4. CASE Reset(m, c)
    <3>1. coo[m] \in MatrixSet /\ Fits(coo[m])
      BY <2>4, OfLive DEF Reset
    <3>2. Resized(coo[m], c) \in MatrixSet /\ Resized(coo[m], c).capacity <= Resized(coo[m], c).size
      BY <2>1, <3>1, NewMatrix DEF Resized, Fits
    <3> DEFINE x == [Resized(coo[m], c) EXCEPT !.data = <<>>]
    <3>3. x \in MatrixSet /\ Fits(x)
      BY <2>1, <3>2, Emptied, 0 \in Nat, Resized(coo[m], c).size \in Nat DEF MatrixSet
    <3> QED BY <2>4, <3>3, SimpleInv DEF Reset
  <2> QED BY <1>1, <2>2, <2>3, <2>4
<1>2. CASE Clear(m)
  <2>1. coo[m] \in MatrixSet /\ Fits(coo[m])
    BY <1>2, OfLive DEF Clear
  <2> DEFINE x == [coo[m] EXCEPT !.data = <<>>]
  <2>2. x \in MatrixSet /\ Fits(x)
    BY <2>1, Emptied, coo[m].capacity \in Nat DEF MatrixSet, Fits
  <2> QED BY <1>2, <2>2, SimpleInv DEF Clear
<1>3. CASE Free(m)
  BY <1>3, SimpleInv DEF Free
<1>4. ASSUME NEW e \in Elems, Insert(m, e) PROVE IndInv'
  <2>1. coo[m] \in MatrixSet /\ Fits(coo[m])
    BY <1>4, OfLive DEF Insert
  <2>2. Inserted(coo[m], e) \in MatrixSet /\ Fits(Inserted(coo[m], e))
    BY <2>1, InsertFits
  <2> QED BY <1>4, <2>2, SimpleInv DEF Insert
<1>5. ASSUME NEW e \in Elems, NEW f \in Elems, InsertElems(m, <<e, f>>) PROVE IndInv'
  <2>1. coo[m] \in MatrixSet /\ Fits(coo[m]) /\ Room(coo[m], Len(<<e, f>>))
    BY <1>5, OfLive DEF InsertElems
  <2> DEFINE x == [coo[m] EXCEPT !.data = coo[m].data \o <<e, f>>]
  <2>2. <<e, f>> \in Seq(Elems) /\ Len(<<e, f>>) = 2
    OBVIOUS
  <2>3. /\ coo[m].data \o <<e, f>> \in Seq(Elems)
        /\ Len(coo[m].data \o <<e, f>>) = Len(coo[m].data) + 2
    BY <2>1, <2>2, ConcatProperties DEF MatrixSet
  <2>4. x \in MatrixSet /\ Fits(x)
    BY <2>1, <2>2, <2>3 DEF MatrixSet, Fits, Room
  <2> QED BY <1>5, <2>4, SimpleInv DEF InsertElems
<1> QED BY <1>1, <1>2, <1>3, <1>4, <1>5

-----------------------------------------------------------------------------
(* The loops of add and sub.                                               *)

SumCalls == [op : {"add", "sub"}, r : Live, a : Live, b : Live, i : Nat, j : Nat]

LEMMA Moved ==
  ASSUME NEW c \in SumCalls, NEW i \in Nat, NEW j \in Nat
  PROVE  [c EXCEPT !.i = i, !.j = j] \in SumCalls
BY DEF SumCalls

LEMMA SumLocals ==
  ASSUME IndInv, call.op \in {"add", "sub"}
  PROVE  /\ call \in SumCalls
         /\ call.r \in Live \ {call.a, call.b}
         /\ call.a \in Live /\ call.b \in Live
         /\ call.i \in Nat /\ call.j \in Nat
         /\ A \in Seq(Elems) /\ B \in Seq(Elems)
<1>1. call \in SumCalls
  BY DEF IndInv, TypeOK, SumCalls, NoCall
<1>2. call.r \in Live /\ call.a \in Live /\ call.b \in Live /\ call.i \in Nat /\ call.j \in Nat
  BY <1>1 DEF SumCalls
<1>3. call.r \notin {call.a, call.b}
  BY DEF IndInv, NothingDropped
<1>4. A \in Seq(Elems) /\ B \in Seq(Elems)
  BY <1>2, OfLive DEF A, B, MatrixSet
<1> QED BY <1>1, <1>2, <1>3, <1>4

LEMMA BeginSumInv ==
  ASSUME IndInv, NEW r \in Matrices, NEW a \in Matrices, NEW b \in Matrices,
         BeginAdd(r, a, b) \/ BeginSub(r, a, b)
  PROVE  IndInv'
<1> DEFINE c == IF BeginAdd(r, a, b) THEN AddCapacity(a, b) ELSE coo[b].capacity
           op == IF BeginAdd(r, a, b) THEN "add" ELSE "sub"
<1>1. /\ r \notin Live /\ a \in Live /\ b \in Live
      /\ Becomes(r, Matrix(c))
      /\ call' = [op |-> op, r |-> r, a |-> a, b |-> b, i |-> 0, j |-> 0]
  BY DEF BeginAdd, BeginSub
<1>2. c \in Nat
  BY <1>1, OfLive DEF AddCapacity, MatrixSet
<1>3. Matrix(c) \in MatrixSet /\ Fits(Matrix(c)) /\ Len(Matrix(c).data) = 0
      /\ Matrix(c).capacity = c
  BY <1>2, NewMatrix DEF Matrix
<1>4. /\ coo' \in [Matrices -> {Null} \cup MatrixSet]
      /\ InMemory'
      /\ coo'[r] = Matrix(c) /\ coo'[a] = coo[a] /\ coo'[b] = coo[b]
      /\ r \in Live' /\ a \in Live' /\ b \in Live' /\ r # a /\ r # b
  BY <1>1, <1>3, Replaced, NullIsNoMatrix
<1>5. /\ call'.op = op /\ call'.r = r /\ call'.a = a /\ call'.b = b
      /\ call'.i = 0 /\ call'.j = 0 /\ op \in {"add", "sub"}
  BY <1>1
<1>6. TypeOK'
  BY <1>1, <1>4, <1>5 DEF TypeOK, MatrixSet
<1>7. Nnz(r)' = 0 /\ Len(A)' \in Nat /\ Len(B)' \in Nat
  <2>1. Nnz(a) \in Nat /\ Nnz(b) \in Nat
    BY <1>1, OfLive
  <2> QED BY <1>3, <1>4, <1>5, <2>1 DEF Nnz, A, B
<1>8. call'.op = "add" => coo'[r].capacity = AddCapacity(a, b)'
  BY <1>3, <1>4, <1>5 DEF AddCapacity
<1>9. call'.op = "sub" => coo'[r].capacity = coo'[b].capacity
  BY <1>3, <1>4, <1>5 DEF AddCapacity
<1>10. NothingDropped'
  BY <1>4, <1>5, <1>7, <1>8, <1>9 DEF NothingDropped
<1>11. MergeFits'
  BY <1>5 DEF MergeFits
<1> QED BY <1>4, <1>6, <1>10, <1>11 DEF IndInv

(* A turn that puts element e into the result finds room for it. *)
LEMMA PutInv ==
  ASSUME IndInv, NEW e \in Elems, NEW i \in Nat, NEW j \in Nat,
         call.op \in {"add", "sub"},
         Becomes(call.r, Inserted(coo[call.r], e)),
         call' = [call EXCEPT !.i = i, !.j = j],
         i <= Len(A), j <= Len(B),
         \/ call.op = "add" /\ i + j = call.i + call.j + 1
         \/ call.op = "sub" /\ i = call.i /\ j = call.j + 1
  PROVE  /\ IndInv'
         /\ coo'[call.r].data = Append(coo[call.r].data, e)
         /\ A' = A /\ B' = B
<1> DEFINE r == call.r
           a == call.a
           b == call.b
<1>1. /\ call \in SumCalls /\ r \in Live /\ a \in Live /\ b \in Live /\ r # a /\ r # b
      /\ call.i \in Nat /\ call.j \in Nat
  BY SumLocals
<1>2. /\ coo[r] \in MatrixSet /\ Fits(coo[r]) /\ coo[a] \in MatrixSet /\ coo[b] \in MatrixSet
      /\ Fits(coo[a]) /\ Fits(coo[b])
      /\ Nnz(r) \in Nat /\ Len(A) \in Nat /\ Len(B) \in Nat
      /\ r \in Matrices /\ a \in Matrices /\ b \in Matrices
  BY <1>1, OfLive DEF Nnz, A, B
<1>3. Nnz(r) + 1 <= coo[r].capacity
  <2>1. Len(A) <= coo[a].capacity /\ Len(B) <= coo[b].capacity
    BY <1>2 DEF Fits, A, B
  <2>2. coo[a].capacity \in Nat /\ coo[b].capacity \in Nat
    BY <1>2 DEF MatrixSet
  <2>3. CASE call.op = "add"
    <3>1. Nnz(r) = call.i + call.j /\ coo[r].capacity = coo[b].capacity + coo[a].capacity
      BY <2>3 DEF IndInv, NothingDropped, AddCapacity
    <3> QED BY <1>1, <1>2, <2>1, <2>2, <2>3, <3>1, SMTT(30)
  <2>4. CASE call.op = "sub"
    <3>1. Nnz(r) + call.i = call.j /\ coo[r].capacity = coo[b].capacity
      BY <2>4 DEF IndInv, NothingDropped
    <3> QED BY <1>1, <1>2, <2>1, <2>2, <2>4, <3>1
  <2> QED BY <2>3, <2>4
<1>4. /\ Inserted(coo[r], e) = [coo[r] EXCEPT !.data = Append(coo[r].data, e)]
      /\ Inserted(coo[r], e).capacity = coo[r].capacity
      /\ Inserted(coo[r], e).data = Append(coo[r].data, e)
      /\ Len(Append(coo[r].data, e)) = Nnz(r) + 1
  BY <1>2, <1>3, AppendProperties, SMTT(30) DEF Inserted, Room, Nnz, MatrixSet
<1>5. Inserted(coo[r], e) \in MatrixSet /\ Fits(Inserted(coo[r], e))
  BY <1>2, InsertFits
<1>6. /\ coo' \in [Matrices -> {Null} \cup MatrixSet]
      /\ InMemory'
      /\ coo'[r] = Inserted(coo[r], e) /\ coo'[a] = coo[a] /\ coo'[b] = coo[b]
      /\ r \in Live' /\ a \in Live' /\ b \in Live'
  BY <1>1, <1>2, <1>5, Replaced, NullIsNoMatrix
<1>7. /\ call'.op = call.op /\ call'.r = r /\ call'.a = a /\ call'.b = b
      /\ call'.i = i /\ call'.j = j
      /\ call' \in [op : {"add", "sub"}, r : Live', a : Live', b : Live', i : Nat, j : Nat]
  BY <1>1, <1>6 DEF SumCalls
<1>8. TypeOK'
  BY <1>6, <1>7 DEF TypeOK, MatrixSet
<1>9. A' = A /\ B' = B /\ Nnz(r)' = Nnz(r) + 1
  BY <1>4, <1>6, <1>7 DEF A, B, Nnz
<1>10. NothingDropped'
  <2>1. CASE call.op = "add"
    <3>1. Nnz(r) = call.i + call.j /\ coo[r].capacity = AddCapacity(a, b)
      BY <2>1 DEF IndInv, NothingDropped
    <3>2. Nnz(r)' = i + j
      BY <1>1, <1>2, <1>9, <2>1, <3>1
    <3>3. coo'[r].capacity = AddCapacity(a, b)'
      BY <1>4, <1>6, <3>1 DEF AddCapacity
    <3> QED BY <1>1, <1>7, <1>9, <2>1, <3>2, <3>3 DEF NothingDropped
  <2>2. CASE call.op = "sub"
    <3>1. Nnz(r) + call.i = call.j /\ coo[r].capacity = coo[b].capacity
      BY <2>2 DEF IndInv, NothingDropped
    <3>2. Nnz(r)' + i = j
      BY <1>1, <1>2, <1>9, <2>2, <3>1
    <3>3. coo'[r].capacity = coo'[b].capacity
      BY <1>4, <1>6, <3>1
    <3> QED BY <1>1, <1>7, <1>9, <2>2, <3>2, <3>3 DEF NothingDropped
  <2> QED BY <2>1, <2>2
<1>11. MergeFits'
  BY <1>7 DEF MergeFits
<1> QED BY <1>4, <1>6, <1>8, <1>9, <1>10, <1>11 DEF IndInv

LEMMA SumTurnInv ==
  ASSUME IndInv, AddFromA \/ AddFromB \/ SubSkip \/ SubKeep
  PROVE  IndInv'
<1>1. /\ call \in SumCalls /\ call.i \in Nat /\ call.j \in Nat
      /\ A \in Seq(Elems) /\ B \in Seq(Elems) /\ Len(A) \in Nat /\ Len(B) \in Nat
      /\ call.op \in {"add", "sub"}
  <2>1. call.op \in {"add", "sub"}
    BY DEF AddFromA, AddFromB, SubSkip, SubKeep
  <2> QED BY <2>1, SumLocals, LenProperties
<1>2. call.i <= Len(A) /\ call.j <= Len(B)
  BY <1>1 DEF IndInv, NothingDropped
<1>3. CASE AddFromA
  <2>1. A[call.i + 1] \in Elems /\ call.i + 1 <= Len(A)
    BY <1>1, <1>3, ElementOfSeq DEF AddFromA
  <2>2. call' = [call EXCEPT !.i = call.i + 1, !.j = call.j]
    BY <1>1, <1>3 DEF AddFromA, SumCalls
  <2>3. call.op = "add" /\ Becomes(call.r, Inserted(coo[call.r], A[call.i + 1]))
    BY <1>3 DEF AddFromA
  <2>4. call.i + 1 \in Nat /\ (call.i + 1) + (call.j) = call.i + call.j + 1
    BY <1>1
  <2> QED BY <1>1, <1>2, <2>1, <2>2, <2>3, <2>4, PutInv
<1>4. CASE AddFromB
  <2>1. B[call.j + 1] \in Elems /\ call.j + 1 <= Len(B)
    BY <1>1, <1>4, ElementOfSeq DEF AddFromB
  <2>2. call' = [call EXCEPT !.i = call.i, !.j = call.j + 1]
    BY <1>1, <1>4 DEF AddFromB, SumCalls
  <2>3. call.op = "add" /\ Becomes(call.r, Inserted(coo[call.r], B[call.j + 1]))
    BY <1>4 DEF AddFromB
  <2>4. call.j + 1 \in Nat /\ (call.i) + (call.j + 1) = call.i + call.j + 1
    BY <1>1
  <2> QED BY <1>1, <1>2, <2>1, <2>2, <2>3, <2>4, PutInv
<1>5. CASE SubKeep
  <2>1. B[call.j + 1] \in Elems /\ call.j + 1 <= Len(B)
    BY <1>1, <1>5, ElementOfSeq DEF SubKeep
  <2>2. call' = [call EXCEPT !.i = call.i, !.j = call.j + 1]
    BY <1>1, <1>5 DEF SubKeep, SumCalls
  <2>3. call.op = "sub" /\ Becomes(call.r, Inserted(coo[call.r], B[call.j + 1]))
    BY <1>5 DEF SubKeep
  <2>4. call.j + 1 \in Nat /\ (call.i) + (call.j + 1) = call.i + call.j + 1
    BY <1>1
  <2> QED BY <1>1, <1>2, <2>1, <2>2, <2>3, <2>4, PutInv
<1>6. CASE SubSkip
  <2>1. /\ call' = [call EXCEPT !.i = call.i + 1, !.j = call.j + 1]
        /\ coo' = coo /\ call.op = "sub" /\ call.i < Len(A) /\ call.j < Len(B)
    BY <1>6 DEF SubSkip
  <2>2. /\ call'.op = "sub" /\ call'.r = call.r /\ call'.a = call.a /\ call'.b = call.b
        /\ call'.i = call.i + 1 /\ call'.j = call.j + 1
    BY <1>1, <2>1 DEF SumCalls
  <2>8. call' \in SumCalls
    <3>1. call.i + 1 \in Nat /\ call.j + 1 \in Nat
      BY <1>1
    <3> QED BY <1>1, <2>1, <3>1, Moved
  <2>3. TypeOK' /\ InMemory'
    BY <2>1, <2>8 DEF IndInv, TypeOK, InMemory, Live, Nnz, SumCalls
  <2>4. A' = A /\ B' = B /\ Nnz(call.r)' = Nnz(call.r)
    BY <2>1, <2>2 DEF A, B, Nnz
  <2>5. Nnz(call.r) \in Nat /\ call.r \notin {call.a, call.b}
    BY <1>1, SumLocals, OfLive
  <2>6. NothingDropped'
    BY <1>1, <2>1, <2>2, <2>4, <2>5 DEF IndInv, NothingDropped
  <2>7. MergeFits'
    BY <2>2 DEF MergeFits
  <2> QED BY <2>3, <2>6, <2>7 DEF IndInv
<1> QED BY <1>3, <1>4, <1>5, <1>6

-----------------------------------------------------------------------------
(* The two loops of merge.                                                 *)

MergeCalls == [op : {"count", "merge"}, r : Matrices, list : Lists, i : Nat, ends : Seq(Nat)]

LEMMA MergeLocals ==
  ASSUME IndInv, call.op \in {"count", "merge"}
  PROVE  /\ call \in MergeCalls
         /\ call.r \in Matrices /\ call.i \in Nat /\ call.i <= Len(call.list)
         /\ call.list \in Seq(Matrices \cup {Null}) /\ call.list \in Lists
         /\ Len(call.list) \in Nat /\ DOMAIN call.list = 1..Len(call.list)
         /\ call.ends \in Seq(Nat) /\ Len(call.ends) \in Nat \ {0}
         /\ DOMAIN call.ends = 1..Len(call.ends)
         /\ \A k \in 1..Len(call.list) :
              /\ call.list[k] \in (Live \ {call.r}) \cup {Null}
              /\ Content(call.list[k]) \in Seq(Elems)
              /\ Len(Content(call.list[k])) \in Nat
<1>1. call \in MergeCalls
  BY DEF IndInv, TypeOK, MergeCalls, NoCall
<1>2. /\ call.r \in Matrices /\ call.i \in Nat /\ call.list \in Lists /\ call.ends \in Seq(Nat)
      /\ call.i <= Len(call.list)
  BY <1>1 DEF MergeCalls, IndInv, MergeFits
<1>3. call.list \in Seq(Matrices \cup {Null})
  BY <1>2, CooAssumption
<1>4. Len(call.list) \in Nat /\ DOMAIN call.list = 1..Len(call.list)
  BY <1>3, LenProperties
<1>5. /\ Len(call.ends) \in Nat \ {0} /\ DOMAIN call.ends = 1..Len(call.ends)
  <2>1. call.ends # <<>>
    BY DEF IndInv, MergeFits, RunningSums
  <2> QED BY <1>2, <2>1, EmptySeq, LenProperties
<1>6. ASSUME NEW k \in 1..Len(call.list)
      PROVE  /\ call.list[k] \in (Live \ {call.r}) \cup {Null}
             /\ Content(call.list[k]) \in Seq(Elems)
             /\ Len(Content(call.list[k])) \in Nat
  <2>1. call.list[k] \in (Live \ {call.r}) \cup {Null}
    BY <1>4 DEF IndInv, MergeFits
  <2>2. Content(call.list[k]) \in Seq(Elems)
    <3>1. CASE call.list[k] = Null
      BY <3>1, EmptySeq DEF Content
    <3>2. CASE call.list[k] # Null
      <4>1. coo[call.list[k]] \in MatrixSet
        BY <2>1, <3>2, OfLive
      <4> QED BY <3>2, <4>1 DEF Content, MatrixSet
    <3> QED BY <3>1, <3>2
  <2> QED BY <2>1, <2>2, LenProperties
<1> QED BY <1>1, <1>2, <1>3, <1>4, <1>5, <1>6

LEMMA BeginMergeInv ==
  ASSUME IndInv, NEW r \in Matrices, NEW list \in Lists, BeginMerge(r, list)
  PROVE  IndInv'
<1>1. /\ r \notin Live /\ coo' = coo
      /\ \A k \in DOMAIN list : list[k] \in Live \cup {Null}
      /\ call' = [op |-> "count", r |-> r, list |-> list, i |-> 0, ends |-> <<0>>]
  BY DEF BeginMerge
<1>2. /\ call'.op = "count" /\ call'.r = r /\ call'.list = list /\ call'.i = 0
      /\ call'.ends = <<0>>
  BY <1>1
<1>3. <<0>> \in Seq(Nat) /\ Len(<<0>>) = 1 /\ DOMAIN <<0>> = {1} /\ <<0>>[1] = 0 /\ <<0>> # <<>>
  OBVIOUS
<1>4. call' \in MergeCalls
  BY <1>1, <1>3 DEF MergeCalls
<1>5. TypeOK' /\ InMemory'
  BY <1>1, <1>4 DEF IndInv, TypeOK, InMemory, Live, Nnz, MergeCalls
<1>6. NothingDropped'
  BY <1>2 DEF NothingDropped
<1>9. RunningSums(<<0>>, Lengths')
  BY <1>3 DEF RunningSums
<1>7. Len(list) \in Nat /\ Live' = Live
  <2>1. list \in Seq(Matrices \cup {Null})
    BY CooAssumption
  <2> QED BY <1>1, <2>1, LenProperties DEF Live
<1>8. MergeFits'
  BY <1>1, <1>2, <1>3, <1>7, <1>9 DEF MergeFits
<1> QED BY <1>5, <1>6, <1>8 DEF IndInv

(* The running sums of lengths, with one length more. *)
LEMMA OneMoreSum ==
  ASSUME NEW i \in Nat, NEW ends \in Seq(Nat), Len(ends) = i + 1,
         NEW len, len[i + 1] \in Nat, RunningSums(ends, len),
         NEW longer, longer = Append(ends, ends[i + 1] + len[i + 1])
  PROVE  longer \in Seq(Nat) /\ Len(longer) = i + 2 /\ RunningSums(longer, len)
<1>1. ends[i + 1] \in Nat /\ ends[i + 1] + len[i + 1] \in Nat
  BY ElementOfSeq
<1>2. /\ longer \in Seq(Nat) /\ longer # <<>> /\ Len(longer) = i + 2
      /\ \A k \in 1..(i + 1) : longer[k] = ends[k]
      /\ longer[i + 2] = ends[i + 1] + len[i + 1]
  <2>1. /\ longer \in Seq(Nat) /\ longer # <<>> /\ Len(longer) = Len(ends) + 1
        /\ \A k \in 1..Len(ends) : longer[k] = ends[k]
        /\ longer[Len(ends) + 1] = ends[i + 1] + len[i + 1]
    BY <1>1, AppendProperties
  <2>2. (i + 1) + 1 = i + 2
    OBVIOUS
  <2> QED BY <2>1, <2>2
<1>3. DOMAIN longer = 1..(i + 2) /\ DOMAIN ends = 1..(i + 1)
  BY <1>2, LenProperties
<1>4. longer[1] = 0
  BY <1>2, 1 \in 1..(i + 1) DEF RunningSums
<1>5. ASSUME NEW k \in 1..(i + 2)
      PROVE  /\ longer[k] <= longer[i + 2]
             /\ k > 1 => longer[k] = longer[k - 1] + len[k - 1]
  <2>1. CASE k = i + 2
    <3>1. k - 1 = i + 1 /\ i + 1 \in 1..(i + 1)
      BY <2>1
    <3>2. longer[i + 1] = ends[i + 1]
      BY <1>2, <3>1
    <3>3. longer[i + 2] \in Nat
      BY <1>1, <1>2
    <3> QED BY <1>2, <2>1, <3>1, <3>2, <3>3
  <2>2. CASE k # i + 2
    <3>1. k \in 1..(i + 1) /\ (k > 1 => k - 1 \in 1..(i + 1))
      BY <2>2
    <3>2. ends[k] <= ends[i + 1] /\ ends[k] \in Nat /\ longer[k] = ends[k]
      BY <1>2, <1>3, <3>1, ElementOfSeq DEF RunningSums
    <3>3. longer[k] <= longer[i + 2]
      BY <1>1, <1>2, <3>2
    <3>4. k > 1 => longer[k - 1] = ends[k - 1] /\ ends[k] = ends[k - 1] + len[k - 1]
      BY <1>2, <1>3, <3>1 DEF RunningSums
    <3> QED BY <3>2, <3>3, <3>4
  <2> QED BY <2>1, <2>2
<1> QED BY <1>2, <1>3, <1>4, <1>5 DEF RunningSums

LEMMA Ends ==
  ASSUME IndInv, call.op \in {"count", "merge"}
  PROVE  /\ Lengths \in [1..Len(call.list) -> Nat]
         /\ RunningSums(call.ends, Lengths)
<1>1. /\ DOMAIN call.list = 1..Len(call.list)
      /\ \A k \in 1..Len(call.list) : Len(Content(call.list[k])) \in Nat
  BY MergeLocals
<1>2. Lengths \in [1..Len(call.list) -> Nat]
  BY <1>1 DEF Lengths
<1> QED BY <1>2 DEF IndInv, MergeFits

(* One more matrix is counted. *)
LEMMA MergeCountInv ==
  ASSUME IndInv, MergeCount
  PROVE  IndInv'
<1>1. /\ call.op = "count" /\ call.i < Len(call.list) /\ coo' = coo
      /\ call' = [call EXCEPT !.i = call.i + 1, !.ends = call'.ends]
      /\ call'.ends = Append(call.ends, call.ends[call.i + 1] + Len(Content(call.list[call.i + 1])))
  <2>1. call \in MergeCalls
    BY MergeLocals DEF MergeCount
  <2> QED BY <2>1 DEF MergeCount, MergeCalls
<1>2. /\ call \in MergeCalls /\ call.i \in Nat /\ Len(call.list) \in Nat
      /\ call.ends \in Seq(Nat) /\ DOMAIN call.list = 1..Len(call.list)
      /\ Len(call.ends) = call.i + 1 /\ call.r \notin Live
  BY <1>1, MergeLocals DEF IndInv, MergeFits
<1>3. /\ call.i + 1 \in 1..Len(call.list) /\ Lengths[call.i + 1] \in Nat
      /\ call'.ends = Append(call.ends, call.ends[call.i + 1] + Lengths[call.i + 1])
  <2>1. call.i + 1 \in 1..Len(call.list)
    BY <1>1, <1>2
  <2>2. Lengths[call.i + 1] = Len(Content(call.list[call.i + 1]))
    BY <1>2, <2>1 DEF Lengths
  <2> QED BY <1>1, <2>1, <2>2, Ends
<1>4. /\ call'.ends \in Seq(Nat) /\ Len(call'.ends) = call.i + 2
      /\ RunningSums(call'.ends, Lengths)
  <2>1. RunningSums(call.ends, Lengths)
    BY <1>1, Ends
  <2> QED BY <1>2, <1>3, <2>1, OneMoreSum
<1>5. /\ call'.op = "count" /\ call'.r = call.r /\ call'.list = call.list
      /\ call'.i = call.i + 1 /\ call' \in MergeCalls
  <2>1. call.i + 1 \in Nat
    BY <1>2
  <2> QED BY <1>1, <1>2, <1>4, <2>1 DEF MergeCalls
<1>6. TypeOK' /\ InMemory'
  BY <1>1, <1>5 DEF IndInv, TypeOK, InMemory, Live, Nnz, MergeCalls
<1>7. NothingDropped'
  BY <1>5 DEF NothingDropped
<1>8. Live' = Live /\ Lengths' = Lengths
  BY <1>1, <1>5 DEF Live, Lengths, Content
<1>9. MergeFits'
  <2>1. \A k \in DOMAIN call.list : call.list[k] \in (Live \ {call.r}) \cup {Null}
    BY <1>1 DEF IndInv, MergeFits
  <2>2. call'.i <= Len(call'.list) /\ Len(call'.ends) = call'.i + 1
    BY <1>1, <1>2, <1>4, <1>5
  <2> QED BY <1>2, <1>4, <1>5, <1>8, <2>1, <2>2 DEF MergeFits
<1> QED BY <1>6, <1>7, <1>9 DEF IndInv

LEMMA MergeCreateInv ==
  ASSUME IndInv, MergeCreate
  PROVE  IndInv'
<1> DEFINE r == call.r
           c == call.ends[call.i + 1]
<1>1. /\ call.op = "count" /\ call.i = Len(call.list)
      /\ Becomes(r, Matrix(c)) /\ call' = [call EXCEPT !.op = "merge", !.i = 0]
  BY DEF MergeCreate
<1>2. /\ call \in MergeCalls /\ call.i \in Nat /\ r \in Matrices
      /\ call.ends \in Seq(Nat) /\ DOMAIN call.list = 1..Len(call.list)
      /\ Len(call.ends) = call.i + 1 /\ r \notin Live
      /\ RunningSums(call.ends, Lengths) /\ DOMAIN call.ends = 1..Len(call.ends)
  BY <1>1, MergeLocals, Ends DEF IndInv, MergeFits
<1>3. c \in Nat
  BY <1>2, ElementOfSeq
<1>4. Matrix(c) \in MatrixSet /\ Fits(Matrix(c)) /\ Len(Matrix(c).data) = 0
      /\ Matrix(c).capacity = c
  BY <1>3, NewMatrix DEF Matrix
<1>5. /\ coo' \in [Matrices -> {Null} \cup MatrixSet]
      /\ InMemory'
      /\ coo'[r] = Matrix(c) /\ \A n \in Matrices \ {r} : coo'[n] = coo[n]
      /\ r \in Live' /\ \A n \in Matrices \ {r} : n \in Live' <=> n \in Live
  BY <1>1, <1>2, <1>4, Replaced, NullIsNoMatrix
<1>6. /\ call'.op = "merge" /\ call'.r = r /\ call'.list = call.list
      /\ call'.i = 0 /\ call'.ends = call.ends /\ call' \in MergeCalls
  BY <1>1, <1>2 DEF MergeCalls
<1>7. TypeOK'
  BY <1>5, <1>6 DEF TypeOK, MatrixSet, MergeCalls
<1>8. NothingDropped'
  BY <1>6 DEF NothingDropped
<1>9. \A k \in DOMAIN call.list : call.list[k] \in (Live \ {r}) \cup {Null}
  BY <1>1 DEF IndInv, MergeFits
<1>10. \A k \in DOMAIN call.list :
          /\ call.list[k] \in (Live' \ {r}) \cup {Null}
          /\ Content(call.list[k])' = Content(call.list[k])
  <2>1. Live \subseteq Matrices
    BY DEF Live
  <2> QED BY <1>5, <1>6, <1>9, <2>1 DEF Content
<1>11. Lengths' = Lengths
  BY <1>6, <1>10 DEF Lengths, Content
<1>12. Nnz(r)' = 0 /\ call.ends[1] = 0
  BY <1>2, <1>4, <1>5, <1>6 DEF Nnz, RunningSums
<1>13. MergeFits'
  <2>1. call'.i <= Len(call'.list) /\ Len(call'.ends) = Len(call'.list) + 1 /\ call'.i + 1 = 1
    BY <1>1, <1>2, <1>6
  <2>2. coo'[r].capacity = call.ends[Len(call.ends)]
    BY <1>2, <1>4, <1>5
  <2> QED BY <1>2, <1>5, <1>6, <1>10, <1>11, <1>12, <2>1, <2>2 DEF MergeFits
<1> QED BY <1>5, <1>7, <1>8, <1>13 DEF IndInv

(* The elements that are copied end where they were counted to end. *)
LEMMA MergeCopyInv ==
  ASSUME IndInv, MergeCopy
  PROVE  IndInv'
<1> DEFINE r == call.r
           more == Content(call.list[call.i + 1])
           x == [coo[r] EXCEPT !.data = coo[r].data \o more]
<1>1. /\ call.op = "merge" /\ call.i < Len(call.list)
      /\ Becomes(r, x) /\ call' = [call EXCEPT !.i = call.i + 1]
  BY DEF MergeCopy
<1>2. /\ call \in MergeCalls /\ call.i \in Nat /\ r \in Matrices /\ Len(call.list) \in Nat
      /\ call.ends \in Seq(Nat) /\ DOMAIN call.list = 1..Len(call.list)
      /\ DOMAIN call.ends = 1..Len(call.ends) /\ RunningSums(call.ends, Lengths)
      /\ Len(call.ends) = Len(call.list) + 1 /\ r \in Live
      /\ Nnz(r) = call.ends[call.i + 1] /\ coo[r].capacity = call.ends[Len(call.ends)]
  BY <1>1, MergeLocals, Ends DEF IndInv, MergeFits
<1>3. coo[r] \in MatrixSet /\ Fits(coo[r]) /\ Nnz(r) \in Nat
  BY <1>2, OfLive
<1>4. call.i + 1 \in 1..Len(call.list) /\ more \in Seq(Elems) /\ Len(more) \in Nat
      /\ Lengths[call.i + 1] = Len(more)
  <2>1. call.i + 1 \in 1..Len(call.list)
    BY <1>1, <1>2
  <2>2. more \in Seq(Elems) /\ Len(more) \in Nat
    BY <1>1, <2>1, MergeLocals
  <2>3. Lengths[call.i + 1] = Len(more)
    BY <1>2, <2>1 DEF Lengths
  <2> QED BY <2>1, <2>2, <2>3
<1>5. call.ends[call.i + 2] = Nnz(r) + Len(more)
      /\ call.ends[call.i + 2] <= call.ends[Len(call.ends)]
  <2>1. call.i < Len(call.list) /\ DOMAIN call.ends = 1..(Len(call.list) + 1)
    BY <1>1, <1>2
  <2>2. call.i \in Nat /\ Len(call.list) \in Nat
    BY <1>2
  <2>3. /\ call.i + 2 \in DOMAIN call.ends /\ call.i + 2 > 1
        /\ (call.i + 2) - 1 = call.i + 1
    BY <2>1, <2>2
  <2> QED BY <1>2, <1>4, <2>3 DEF RunningSums
<1>6. /\ coo[r].data \o more \in Seq(Elems)
      /\ Len(coo[r].data \o more) = Nnz(r) + Len(more)
  BY <1>3, <1>4, ConcatProperties DEF MatrixSet, Nnz
<1>7. /\ x \in MatrixSet /\ x.data = coo[r].data \o more
      /\ x.capacity = coo[r].capacity /\ x.size = coo[r].size
  <2> HIDE DEF more
  <2> QED BY <1>3, <1>6 DEF MatrixSet
<1>8. Len(x.data) = call.ends[call.i + 2] /\ Fits(x)
  <2>1. Len(x.data) = call.ends[call.i + 2]
    BY <1>5, <1>6, <1>7
  <2> HIDE DEF x
  <2> QED BY <1>2, <1>3, <1>5, <1>7, <2>1 DEF Fits
<1>9. /\ coo' \in [Matrices -> {Null} \cup MatrixSet]
      /\ InMemory'
      /\ coo'[r] = x /\ \A n \in Matrices \ {r} : coo'[n] = coo[n]
      /\ r \in Live' /\ \A n \in Matrices \ {r} : n \in Live' <=> n \in Live
  <2> HIDE DEF x
  <2> QED BY <1>1, <1>2, <1>7, <1>8, Replaced, NullIsNoMatrix
<1>10. /\ call'.op = "merge" /\ call'.r = r /\ call'.list = call.list
       /\ call'.i = call.i + 1 /\ call'.ends = call.ends /\ call' \in MergeCalls
  <2>1. call.i + 1 \in Nat
    BY <1>2
  <2> QED BY <1>1, <1>2, <2>1 DEF MergeCalls
<1>11. TypeOK'
  BY <1>9, <1>10 DEF TypeOK, MatrixSet, MergeCalls
<1>12. NothingDropped'
  BY <1>10 DEF NothingDropped
<1>13. \A k \in DOMAIN call.list : call.list[k] \in (Live \ {r}) \cup {Null}
  BY <1>1 DEF IndInv, MergeFits
<1>14. \A k \in DOMAIN call.list :
          /\ call.list[k] \in (Live' \ {r}) \cup {Null}
          /\ Content(call.list[k])' = Content(call.list[k])
  <2>1. Live \subseteq Matrices
    BY DEF Live
  <2> HIDE DEF x
  <2> QED BY <1>9, <1>10, <1>13, <2>1 DEF Content
<1>15. Lengths' = Lengths
  BY <1>10, <1>14 DEF Lengths, Content
<1>16. MergeFits'
  <2>1. call'.i <= Len(call'.list) /\ Len(call'.ends) = Len(call'.list) + 1
        /\ call'.i + 1 = call.i + 2
    BY <1>1, <1>2, <1>10
  <2>2. coo'[r].capacity = call.ends[Len(call.ends)]
    BY <1>2, <1>7, <1>9
  <2>3. Nnz(r)' = call.ends[call.i + 2]
    BY <1>8, <1>9, <1>10 DEF Nnz
  <2> QED BY <1>2, <1>9, <1>10, <1>14, <1>15, <2>1, <2>2, <2>3 DEF MergeFits
<1> QED BY <1>9, <1>11, <1>12, <1>16 DEF IndInv

-----------------------------------------------------------------------------
(* Disorder and the iterators.                                             *)

LEMMA BeginLoopInv ==
  ASSUME IndInv, NEW m \in Matrices,
         BeginDump(m) \/ \E op \in {"disorder", "disorder_v1"} : BeginDisorder(op, m)
  PROVE  IndInv'
<1>1. m \in Live /\ coo' = coo
  BY DEF BeginDump, BeginDisorder
<1>2. /\ call'.op \notin {"add", "sub", "count", "merge"}
      /\ \/ call' \in [op : {"disorder", "disorder_v1"}, m : Live, i : Nat]
         \/ call' \in [op : {"dump"}, m : Live, index : Nat, out : Seq(Elems)]
  <2>1. <<>> \in Seq(Elems)
    BY EmptySeq
  <2>2. CASE BeginDump(m)
    BY <1>1, <2>1, <2>2 DEF BeginDump
  <2>3. CASE \E op \in {"disorder", "disorder_v1"} : BeginDisorder(op, m)
    BY <1>1, <2>3 DEF BeginDisorder
  <2> QED BY <2>2, <2>3
<1>3. TypeOK' /\ InMemory'
  BY <1>1, <1>2 DEF IndInv, TypeOK, InMemory, Live, Nnz
<1> QED BY <1>2, <1>3 DEF IndInv, NothingDropped, MergeFits

LEMMA SwapInv ==
  ASSUME IndInv, Swap
  PROVE  IndInv'
<1>1. PICK m \in 1..Nnz(call.m), n \in 1..Nnz(call.m) :
        /\ Becomes(call.m, [coo[call.m] EXCEPT !.data = Swapped(coo[call.m].data, m, n)])
        /\ call' = [call EXCEPT !.i = call.i + 1]
        /\ call.op \in {"disorder", "disorder_v1"}
  BY DEF Swap
<1>2. call \in [op : {"disorder", "disorder_v1"}, m : Live, i : Nat]
  BY <1>1 DEF IndInv, TypeOK, NoCall
<1> DEFINE data == coo[call.m].data
           x == [coo[call.m] EXCEPT !.data = Swapped(data, m, n)]
<1>3. call.m \in Live /\ call.m \in Matrices /\ coo[call.m] \in MatrixSet /\ Fits(coo[call.m])
  BY <1>2, OfLive
<1>4. data \in Seq(Elems) /\ Len(data) = Nnz(call.m)
  BY <1>3 DEF MatrixSet, Nnz
<1>5. Swapped(data, m, n) \in Seq(Elems) /\ Len(Swapped(data, m, n)) = Len(data)
  <2>1. data[m] \in Elems /\ data[n] \in Elems
    BY <1>4, ElementOfSeq
  <2> DEFINE once == [data EXCEPT ![m] = data[n]]
  <2>2. once \in Seq(Elems) /\ Len(once) = Len(data)
    BY <1>4, <2>1, ExceptSeq
  <2>3. Swapped(data, m, n) = [once EXCEPT ![n] = data[m]]
    BY DEF Swapped
  <2> HIDE DEF once, data
  <2> QED BY <1>4, <2>1, <2>2, <2>3, ExceptSeq
<1>6. x \in MatrixSet /\ Fits(x)
  <2>1. x \in MatrixSet /\ x.data = Swapped(data, m, n)
        /\ x.capacity = coo[call.m].capacity /\ x.size = coo[call.m].size
    BY <1>3, <1>5 DEF MatrixSet
  <2> QED BY <1>3, <1>5, <2>1 DEF Fits
<1>7. /\ coo' \in [Matrices -> {Null} \cup MatrixSet] /\ InMemory'
      /\ call.m \in Live'
  <2>1. Becomes(call.m, x)
    BY <1>1
  <2> HIDE DEF x
  <2> QED BY <1>3, <1>6, <2>1, Replaced, NullIsNoMatrix
<1>8. call' \in [op : {"disorder", "disorder_v1"}, m : Live', i : Nat]
  <2>1. call.i + 1 \in Nat
    BY <1>2
  <2> QED BY <1>1, <1>2, <1>7, <2>1
<1>9. TypeOK'
  BY <1>7, <1>8 DEF TypeOK, MatrixSet
<1>10. call'.op \notin {"add", "sub", "count", "merge"}
  BY <1>8
<1> QED BY <1>7, <1>9, <1>10 DEF IndInv, NothingDropped, MergeFits

LEMMA NextElemInv ==
  ASSUME IndInv, NextElem
  PROVE  IndInv'
<1> DEFINE e == coo[call.m].data[call.index + 1]
<1>1. /\ call.op = "dump" /\ call.index < Nnz(call.m) /\ coo' = coo
      /\ call' = [call EXCEPT !.index = call.index + 1, !.out = Append(call.out, e)]
      /\ call \in [op : {"dump"}, m : Live, index : Nat, out : Seq(Elems)]
  <2>1. call.op = "dump" /\ ~AtEnd
    BY DEF NextElem
  <2>2. call \in [op : {"dump"}, m : Live, index : Nat, out : Seq(Elems)]
    BY <2>1 DEF IndInv, TypeOK, NoCall
  <2>3. Nnz(call.m) \in Nat
    BY <2>2, OfLive
  <2> QED BY <2>1, <2>2, <2>3 DEF NextElem, AtEnd
<1>2. coo[call.m].data \in Seq(Elems) /\ Len(coo[call.m].data) = Nnz(call.m) /\ Nnz(call.m) \in Nat
  BY <1>1, OfLive DEF MatrixSet, Nnz
<1>3. e \in Elems
  BY <1>1, <1>2, ElementOfSeq
<1>4. Append(call.out, e) \in Seq(Elems) /\ call.index + 1 \in Nat
  <2> HIDE DEF e
  <2> QED BY <1>1, <1>3, AppendProperties
<1>5. call' \in [op : {"dump"}, m : Live, index : Nat, out : Seq(Elems)]
  <2> HIDE DEF e
  <2> QED BY <1>1, <1>4
<1>6. TypeOK' /\ InMemory'
  BY <1>1, <1>5 DEF IndInv, TypeOK, InMemory, Live, Nnz
<1>7. call'.op = "dump"
  BY <1>5
<1> QED BY <1>6, <1>7 DEF IndInv, NothingDropped, MergeFits

LEMMA ReturnInv ==
  ASSUME IndInv, Added \/ Subtracted \/ Merged \/ Disordered \/ Dumped
  PROVE  IndInv'
<1>1. call' = NoCall /\ call'.op = "none" /\ coo' = coo
  BY DEF Added, Subtracted, Merged, Disordered, Dumped, Return, NoCall
<1>2. TypeOK' /\ InMemory'
  BY <1>1 DEF IndInv, TypeOK, InMemory, Live, Nnz
<1> QED BY <1>1, <1>2 DEF IndInv, NothingDropped, MergeFits

-----------------------------------------------------------------------------
(* Results.                                                                *)

LEMMA Step == IndInv /\ [Next]_vars => IndInv'
<1> SUFFICES ASSUME IndInv, [Next]_vars PROVE IndInv'
  OBVIOUS
<1>1. CASE Operation
  BY <1>1, OperationInv, BeginLoopInv, BeginSumInv, BeginMergeInv DEF Operation
<1>2. CASE Turn
  BY <1>2, SumTurnInv, MergeCountInv, MergeCreateInv, MergeCopyInv, SwapInv,
     NextElemInv, ReturnInv DEF Turn
<1>3. CASE UNCHANGED vars
  BY <1>3 DEF vars, IndInv, TypeOK, InMemory, NothingDropped, MergeFits, Live, Nnz,
              A, B, AddCapacity, Lengths, Content
<1> QED BY <1>1, <1>2, <1>3 DEF Next

(* The matrices stay inside their memory and the loops of add, sub and      *)
(* merge find room for every element, for any matrices and capacities.      *)
THEOREM Invariance == Spec => []IndInv
BY InitInv, Step, PTL DEF Spec

(* No operation writes an element behind the memory of its matrix.          *)
THEOREM ElementsInMemory == Spec => []InMemory
<1>1. IndInv => InMemory
  BY DEF IndInv
<1> QED BY Invariance, <1>1, PTL

-----------------------------------------------------------------------------
(* The order of sums.                                                      *)

(* No element of A or B that is still to come precedes element e.           *)
Behind(e) ==
  /\ call.i < Len(A) => InOrder(e, A[call.i + 1])
  /\ call.j < Len(B) => InOrder(e, B[call.j + 1])

(* Why the sum of sorted matrices is sorted at every turn. *)
SumInv ==
  call.op = "add" /\ Sorted(A) /\ Sorted(B) =>
    LET R == coo[call.r].data IN
      Sorted(R) /\ (R # <<>> => Behind(R[Len(R)]))

LEMMA SortedAppend ==
  ASSUME NEW data \in Seq(Elems), NEW e \in Elems, Sorted(data),
         data # <<>> => InOrder(data[Len(data)], e)
  PROVE  Sorted(Append(data, e))
<1>1. /\ Len(data) \in Nat /\ Len(Append(data, e)) = Len(data) + 1
      /\ \A k \in 1..Len(data) : Append(data, e)[k] = data[k]
      /\ Append(data, e)[Len(data) + 1] = e
  BY AppendProperties, LenProperties
<1>2. ASSUME NEW k \in 1..((Len(data) + 1) - 1)
      PROVE  InOrder(Append(data, e)[k], Append(data, e)[k + 1])
  <2>1. k \in 1..Len(data) /\ data # <<>>
    BY <1>1, EmptySeq
  <2>2. CASE k = Len(data)
    BY <1>1, <2>1, <2>2
  <2>3. CASE k # Len(data)
    <3>1. k \in 1..(Len(data) - 1) /\ k + 1 \in 1..Len(data)
      BY <1>1, <2>1, <2>3
    <3> QED BY <1>1, <2>1, <3>1 DEF Sorted
  <2> QED BY <2>2, <2>3
<1> QED BY <1>1, <1>2 DEF Sorted

LEMMA OrderTotal ==
  ASSUME NEW e \in Elems, NEW f \in Elems
  PROVE  /\ Smaller(e, f) => InOrder(e, f)
         /\ ~Smaller(e, f) => InOrder(f, e)
<1>1. e \in Int \X Int /\ f \in Int \X Int
  BY CooAssumption
<1>2. e[1] \in Int /\ e[2] \in Int /\ f[1] \in Int /\ f[2] \in Int
  BY <1>1
<1> QED BY <1>2 DEF Smaller, InOrder

(* The element a turn takes from A or B is not behind those to come.        *)
LEMMA TakenInOrder ==
  ASSUME IndInv, Sorted(A), Sorted(B), NEW e, NEW i, NEW j,
         \/ AddFromA /\ e = A[call.i + 1] /\ i = call.i + 1 /\ j = call.j
         \/ AddFromB /\ e = B[call.j + 1] /\ i = call.i /\ j = call.j + 1
  PROVE  /\ e \in Elems
         /\ i < Len(A) => InOrder(e, A[i + 1])
         /\ j < Len(B) => InOrder(e, B[j + 1])
<1>1. /\ call.i \in Nat /\ call.j \in Nat /\ A \in Seq(Elems) /\ B \in Seq(Elems)
      /\ Len(A) \in Nat /\ Len(B) \in Nat
  <2>1. call.op = "add"
    BY DEF AddFromA, AddFromB
  <2> QED BY <2>1, SumLocals, LenProperties
<1>2. CASE AddFromA /\ e = A[call.i + 1] /\ i = call.i + 1 /\ j = call.j
  <2>1. call.i + 1 \in 1..Len(A) /\ e \in Elems
    BY <1>1, <1>2, ElementOfSeq DEF AddFromA
  <2>2. i < Len(A) => InOrder(e, A[i + 1])
    BY <1>1, <1>2, <2>1, call.i + 1 < Len(A) => call.i + 1 \in 1..(Len(A) - 1) DEF Sorted
  <2>3. ASSUME j < Len(B) PROVE InOrder(e, B[j + 1])
    <3>1. B[j + 1] \in Elems /\ Smaller(e, B[j + 1])
      BY <1>1, <1>2, <2>3, ElementOfSeq DEF AddFromA
    <3> QED BY <2>1, <3>1, OrderTotal
  <2> QED BY <2>1, <2>2, <2>3
<1>3. CASE AddFromB /\ e = B[call.j + 1] /\ i = call.i /\ j = call.j + 1
  <2>1. call.j + 1 \in 1..Len(B) /\ e \in Elems
    BY <1>1, <1>3, ElementOfSeq DEF AddFromB
  <2>2. j < Len(B) => InOrder(e, B[j + 1])
    BY <1>1, <1>3, <2>1, call.j + 1 < Len(B) => call.j + 1 \in 1..(Len(B) - 1) DEF Sorted
  <2>3. ASSUME i < Len(A) PROVE InOrder(e, A[i + 1])
    <3>1. A[i + 1] \in Elems /\ ~Smaller(A[i + 1], e)
      BY <1>1, <1>3, <2>3, ElementOfSeq DEF AddFromB
    <3> QED BY <2>1, <3>1, OrderTotal
  <2> QED BY <2>1, <2>2, <2>3
<1> QED BY <1>2, <1>3

LEMMA BeginAddSorted ==
  ASSUME IndInv, NEW r \in Matrices, NEW a \in Matrices, NEW b \in Matrices,
         BeginAdd(r, a, b)
  PROVE  SumInv'
<1>1. /\ r \in Live' /\ coo'[r] = Matrix(AddCapacity(a, b))
      /\ call'.r = r
  <2>1. coo \in [Matrices -> {Null} \cup MatrixSet]
    BY DEF IndInv, TypeOK, MatrixSet
  <2>2. coo' = [coo EXCEPT ![r] = Matrix(AddCapacity(a, b))]
        /\ call' = [op |-> "add", r |-> r, a |-> a, b |-> b, i |-> 0, j |-> 0]
    BY DEF BeginAdd, Becomes
  <2>3. coo'[r] = Matrix(AddCapacity(a, b))
    BY <2>1, <2>2
  <2>4. AddCapacity(a, b) \in Nat
    BY OfLive DEF BeginAdd, AddCapacity, MatrixSet
  <2>5. Matrix(AddCapacity(a, b)) # Null
    BY <2>4, NewMatrix, NullIsNoMatrix
  <2> QED BY <2>2, <2>3, <2>5 DEF Live
<1>2. coo'[r].data = <<>>
  BY <1>1 DEF Matrix
<1>3. Sorted(<<>>)
  BY Len(<<>>) = 0 DEF Sorted
<1> QED BY <1>1, <1>2, <1>3 DEF SumInv

(* What a turn of add does. *)
LEMMA AddTurn ==
  ASSUME IndInv, AddFromA \/ AddFromB
  PROVE  \E e \in Elems, i \in Nat, j \in Nat :
           /\ \/ AddFromA /\ e = A[call.i + 1] /\ i = call.i + 1 /\ j = call.j
              \/ AddFromB /\ e = B[call.j + 1] /\ i = call.i /\ j = call.j + 1
           /\ coo'[call.r].data = Append(coo[call.r].data, e)
           /\ A' = A /\ B' = B
           /\ call'.r = call.r /\ call'.i = i /\ call'.j = j
<1>1. /\ call \in SumCalls /\ call.i \in Nat /\ call.j \in Nat /\ call.op = "add"
      /\ A \in Seq(Elems) /\ B \in Seq(Elems) /\ Len(A) \in Nat /\ Len(B) \in Nat
      /\ call.i <= Len(A) /\ call.j <= Len(B)
  <2>1. call.op = "add"
    BY DEF AddFromA, AddFromB
  <2> QED BY <2>1, SumLocals, LenProperties DEF IndInv, NothingDropped
<1>0. /\ call.i \in Nat /\ call.j \in Nat /\ Len(A) \in Nat /\ Len(B) \in Nat
      /\ call.i <= Len(A) /\ call.j <= Len(B)
  BY <1>1
<1>2. PICK e, i, j :
        \/ AddFromA /\ e = A[call.i + 1] /\ i = call.i + 1 /\ j = call.j
        \/ AddFromB /\ e = B[call.j + 1] /\ i = call.i /\ j = call.j + 1
  OBVIOUS
<1>3. /\ Becomes(call.r, Inserted(coo[call.r], e))
      /\ call' = [call EXCEPT !.i = i, !.j = j]
      /\ e \in Elems /\ i \in Nat /\ j \in Nat /\ i <= Len(A) /\ j <= Len(B)
      /\ i + j = call.i + call.j + 1
  <2>1. CASE AddFromA /\ e = A[call.i + 1] /\ i = call.i + 1 /\ j = call.j
    <3>1. e \in Elems
      BY <1>1, <2>1, ElementOfSeq DEF AddFromA
    <3>2. Becomes(call.r, Inserted(coo[call.r], e)) /\ call' = [call EXCEPT !.i = call.i + 1]
      BY <2>1 DEF AddFromA
    <3>3. [call EXCEPT !.i = call.i + 1] = [call EXCEPT !.i = i, !.j = j]
      BY <1>1, <2>1 DEF SumCalls
    <3>4. call.i < Len(A)
      BY <2>1 DEF AddFromA
    <3>5. i = call.i + 1 /\ j = call.j
      BY <2>1
    <3>6. /\ i \in Nat /\ j \in Nat /\ i <= Len(A) /\ j <= Len(B)
          /\ i + j = call.i + call.j + 1
      BY <1>0, <3>4, <3>5
    <3> QED BY <3>1, <3>2, <3>3, <3>6
  <2>2. CASE AddFromB /\ e = B[call.j + 1] /\ i = call.i /\ j = call.j + 1
    <3>1. e \in Elems
      BY <1>1, <2>2, ElementOfSeq DEF AddFromB
    <3>2. Becomes(call.r, Inserted(coo[call.r], e)) /\ call' = [call EXCEPT !.j = call.j + 1]
      BY <2>2 DEF AddFromB
    <3>3. [call EXCEPT !.j = call.j + 1] = [call EXCEPT !.i = i, !.j = j]
      BY <1>1, <2>2 DEF SumCalls
    <3>4. call.j < Len(B)
      BY <2>2 DEF AddFromB
    <3>5. i = call.i /\ j = call.j + 1
      BY <2>2
    <3>6. /\ i \in Nat /\ j \in Nat /\ i <= Len(A) /\ j <= Len(B)
          /\ i + j = call.i + call.j + 1
      BY <1>0, <3>4, <3>5
    <3> QED BY <3>1, <3>2, <3>3, <3>6
  <2> QED BY <1>2, <2>1, <2>2
<1>4. coo'[call.r].data = Append(coo[call.r].data, e) /\ A' = A /\ B' = B
  BY <1>1, <1>3, PutInv
<1>5. call'.r = call.r /\ call'.i = i /\ call'.j = j
  BY <1>1, <1>3 DEF SumCalls
<1> QED BY <1>2, <1>3, <1>4, <1>5

LEMMA AddTurnSorted ==
  ASSUME IndInv, SumInv, AddFromA \/ AddFromB
  PROVE  SumInv'
<1>1. PICK e \in Elems, i \in Nat, j \in Nat :
        /\ \/ AddFromA /\ e = A[call.i + 1] /\ i = call.i + 1 /\ j = call.j
           \/ AddFromB /\ e = B[call.j + 1] /\ i = call.i /\ j = call.j + 1
        /\ coo'[call.r].data = Append(coo[call.r].data, e)
        /\ A' = A /\ B' = B
        /\ call'.r = call.r /\ call'.i = i /\ call'.j = j
  BY AddTurn
<1>2. SUFFICES ASSUME Sorted(A), Sorted(B)
               PROVE  SumInv'
  BY <1>1 DEF SumInv
<1> DEFINE R == coo[call.r].data
<1>3. /\ call.op = "add" /\ R \in Seq(Elems)
  <2>1. call.op = "add"
    BY DEF AddFromA, AddFromB
  <2> QED BY <2>1, SumLocals, OfLive DEF MatrixSet
<1>4. /\ i < Len(A) => InOrder(e, A[i + 1])
      /\ j < Len(B) => InOrder(e, B[j + 1])
  BY <1>1, <1>2, TakenInOrder
<1>5. R # <<>> => InOrder(R[Len(R)], e)
  BY <1>1, <1>2, <1>3 DEF SumInv, Behind, AddFromA, AddFromB
<1>6. Sorted(Append(R, e)) /\ Append(R, e)[Len(Append(R, e))] = e
  <2>1. Sorted(R)
    BY <1>2, <1>3 DEF SumInv
  <2> HIDE DEF R
  <2> QED BY <1>3, <1>5, <2>1, SortedAppend, AppendProperties, LenProperties
<1>7. Behind(e)'
  BY <1>1, <1>4 DEF Behind
<1> QED BY <1>1, <1>6, <1>7 DEF SumInv

LEMMA SumStep == IndInv /\ SumInv /\ [Next]_vars => SumInv'
<1> SUFFICES ASSUME IndInv, SumInv, [Next]_vars
             PROVE  SumInv'
  OBVIOUS
<1>1. CASE UNCHANGED vars
  BY <1>1 DEF vars, SumInv, Behind, A, B
<1>2. ASSUME NEW r \in Matrices, NEW a \in Matrices, NEW b \in Matrices, BeginAdd(r, a, b)
      PROVE  SumInv'
  BY <1>2, BeginAddSorted
<1>3. CASE AddFromA \/ AddFromB
  BY <1>3, AddTurnSorted
<1>4. CASE Operation /\ ~\E r, a, b \in Matrices : BeginAdd(r, a, b)
  <2>1. call'.op # "add"
    <3>1. PICK m \in Matrices :
            \/ \E c \in Capacities : Create(m, c) \/ Initialise(m, c) \/ Reset(m, c)
            \/ Clear(m) \/ Free(m) \/ BeginDump(m)
            \/ \E e \in Elems : Insert(m, e)
            \/ \E e, f \in Elems : InsertElems(m, <<e, f>>)
            \/ \E op \in {"disorder", "disorder_v1"} : BeginDisorder(op, m)
            \/ \E a, b \in Matrices : BeginSub(m, a, b)
            \/ \E list \in Lists : BeginMerge(m, list)
      BY <1>4 DEF Operation
    <3>2. CASE \/ \E c \in Capacities : Create(m, c) \/ Initialise(m, c) \/ Reset(m, c)
               \/ Clear(m) \/ Free(m)
               \/ \E e \in Elems : Insert(m, e)
               \/ \E e, f \in Elems : InsertElems(m, <<e, f>>)
      <4>1. Idle /\ UNCHANGED call
        BY <3>2 DEF Create, Initialise, Reset, Clear, Free, Insert, InsertElems
      <4> QED BY <4>1 DEF Idle, NoCall
    <3>3. CASE \/ BeginDump(m)
               \/ \E op \in {"disorder", "disorder_v1"} : BeginDisorder(op, m)
      BY <3>3 DEF BeginDump, BeginDisorder
    <3>4. CASE \/ \E a, b \in Matrices : BeginSub(m, a, b)
               \/ \E list \in Lists : BeginMerge(m, list)
      BY <3>4 DEF BeginSub, BeginMerge
    <3> QED BY <3>1, <3>2, <3>3, <3>4
  <2> QED BY <2>1 DEF SumInv
<1>5. CASE Turn /\ ~AddFromA /\ ~AddFromB
  <2>1. call'.op # "add"
    <3>1. CASE Added \/ Subtracted \/ Merged \/ Disordered \/ Dumped
      BY <3>1 DEF Added, Subtracted, Merged, Disordered, Dumped, Return, NoCall
    <3>2. CASE SubSkip \/ SubKeep
      <4>1. call \in SumCalls /\ call.op = "sub"
        BY <3>2, SumLocals DEF SubSkip, SubKeep
      <4> QED BY <3>2, <4>1 DEF SubSkip, SubKeep, SumCalls
    <3>3. CASE MergeCount \/ MergeCreate \/ MergeCopy
      <4>1. call \in MergeCalls
        BY <3>3, MergeLocals DEF MergeCount, MergeCreate, MergeCopy
      <4> QED BY <3>3, <4>1 DEF MergeCount, MergeCreate, MergeCopy, MergeCalls
    <3>4. CASE Swap
      <4>1. call \in [op : {"disorder", "disorder_v1"}, m : Live, i : Nat]
        BY <3>4 DEF Swap, IndInv, TypeOK, NoCall
      <4> QED BY <3>4, <4>1 DEF Swap
    <3>5. CASE NextElem
      <4>1. call \in [op : {"dump"}, m : Live, index : Nat, out : Seq(Elems)]
        BY <3>5 DEF NextElem, IndInv, TypeOK, NoCall
      <4> QED BY <3>5, <4>1 DEF NextElem
    <3> QED BY <1>5, <3>1, <3>2, <3>3, <3>4, <3>5 DEF Turn
  <2> QED BY <2>1 DEF SumInv
<1> QED BY <1>1, <1>2, <1>3, <1>4, <1>5 DEF Next

(* The sum of sorted matrices is sorted, at every turn of the loop.        *)
THEOREM SumsSorted == Spec => []SumSorted
<1>1. Init => SumInv
  BY DEF Init, NoCall, SumInv
<1>2. SumInv => SumSorted
  BY DEF SumInv, SumSorted
<1> QED BY InitInv, Step, SumStep, <1>1, <1>2, PTL DEF Spec

-----------------------------------------------------------------------------
(* Counting the elements of a sequence.                                    *)

(* How often e is among the first n elements. *)
Upto(e, data, n) == Cardinality({k \in 1..n : data[k] = e})
Once(e, x) == IF x = e THEN 1 ELSE 0

LEMMA UptoType ==
  ASSUME NEW e, NEW data, NEW n \in Nat
  PROVE  IsFiniteSet({k \in 1..n : data[k] = e}) /\ Upto(e, data, n) \in Nat
<1>1. IsFiniteSet(1..n)
  BY FS_Interval
<1>2. IsFiniteSet({k \in 1..n : data[k] = e})
  BY <1>1, FS_Subset
<1> QED BY <1>2, FS_CardinalityType DEF Upto

LEMMA UptoZero ==
  ASSUME NEW e, NEW data
  PROVE  Upto(e, data, 0) = 0
<1>1. {k \in 1..0 : data[k] = e} = {}
  OBVIOUS
<1> QED BY <1>1, FS_EmptySet DEF Upto

LEMMA UptoNext ==
  ASSUME NEW e, NEW data, NEW n \in Nat
  PROVE  Upto(e, data, n + 1) = Upto(e, data, n) + Once(e, data[n + 1])
<1> DEFINE S == {k \in 1..n : data[k] = e}
           T == {k \in 1..(n + 1) : data[k] = e}
<1>1. IsFiniteSet(S) /\ Cardinality(S) \in Nat
  BY UptoType DEF Upto
<1>2. n + 1 \notin S
  OBVIOUS
<1>3. data[n + 1] = e => T = S \cup {n + 1}
  OBVIOUS
<1>4. data[n + 1] # e => T = S
  OBVIOUS
<1> HIDE DEF S, T
<1>5. data[n + 1] = e => Cardinality(T) = Cardinality(S) + 1
  BY <1>1, <1>2, <1>3, FS_AddElement
<1> QED BY <1>1, <1>4, <1>5 DEF Upto, S, T, Once

(* Counts depend on the elements counted only. *)
LEMMA UptoSame ==
  ASSUME NEW e, NEW data, NEW other, NEW n \in Nat,
         \A k \in 1..n : data[k] = other[k]
  PROVE  Upto(e, data, n) = Upto(e, other, n)
<1>1. {k \in 1..n : data[k] = e} = {k \in 1..n : other[k] = e}
  OBVIOUS
<1> QED BY <1>1 DEF Upto

LEMMA TimesUpto ==
  ASSUME NEW S, NEW data \in Seq(S), NEW e
  PROVE  Times(e, data) = Upto(e, data, Len(data)) /\ Times(e, data) \in Nat
<1>1. DOMAIN data = 1..Len(data) /\ Len(data) \in Nat
  BY LenProperties
<1> QED BY <1>1, UptoType DEF Times, Upto

LEMMA TimesEmpty == \A e : Times(e, <<>>) = 0
<1>1. <<>> \in Seq({}) /\ Len(<<>>) = 0
  OBVIOUS
<1> QED BY <1>1, TimesUpto, UptoZero

LEMMA TimesAppend ==
  ASSUME NEW S, NEW data \in Seq(S), NEW x \in S, NEW e
  PROVE  Times(e, Append(data, x)) = Times(e, data) + Once(e, x)
<1> DEFINE n == Len(data)
           d == Append(data, x)
<1>1. /\ d \in Seq(S) /\ Len(d) = n + 1 /\ n \in Nat /\ d[n + 1] = x
      /\ \A k \in 1..n : d[k] = data[k]
  BY AppendProperties, LenProperties
<1> HIDE DEF n, d
<1>2. Times(e, d) = Upto(e, d, n + 1)
  BY <1>1, TimesUpto
<1>3. Times(e, data) = Upto(e, data, n)
  BY TimesUpto DEF n
<1>4. Upto(e, d, n) = Upto(e, data, n)
  BY <1>1, UptoSame
<1>5. Upto(e, d, n + 1) = Upto(e, d, n) + Once(e, d[n + 1])
  BY <1>1, UptoNext
<1>6. Times(e, d) = Times(e, data) + Once(e, x)
  BY <1>1, <1>2, <1>3, <1>4, <1>5
<1> QED BY <1>6 DEF d

(* What occurs more often than among the first n elements occurs behind. *)
LEMMA OneBehind ==
  ASSUME NEW S, NEW data \in Seq(S), NEW e, NEW n \in 0..Len(data),
         Upto(e, data, n) < Times(e, data)
  PROVE  \E k \in (n + 1)..Len(data) : data[k] = e
<1>1. Len(data) \in Nat /\ n \in Nat
  BY LenProperties
<1> SUFFICES ASSUME \A k \in (n + 1)..Len(data) : data[k] # e PROVE FALSE
  OBVIOUS
<1>2. {k \in 1..n : data[k] = e} = {k \in 1..Len(data) : data[k] = e}
  BY <1>1
<1>3. Upto(e, data, n) = Upto(e, data, Len(data))
  BY <1>2 DEF Upto
<1> QED BY <1>1, <1>3, TimesUpto, UptoType

(* Prefixes hold less. *)
LEMMA UptoWithin ==
  ASSUME NEW S, NEW data \in Seq(S), NEW e, NEW n \in 0..Len(data)
  PROVE  Upto(e, data, n) <= Times(e, data)
<1>1. Len(data) \in Nat /\ n \in Nat
  BY LenProperties
<1>2. {k \in 1..n : data[k] = e} \subseteq {k \in 1..Len(data) : data[k] = e}
  BY <1>1
<1>3. Upto(e, data, n) <= Upto(e, data, Len(data))
  <2>1. PICK X, Y : X = {k \in 1..n : data[k] = e} /\ Y = {k \in 1..Len(data) : data[k] = e}
    OBVIOUS
  <2>2. IsFiniteSet(Y) /\ X \in SUBSET Y
    BY <1>1, <1>2, <2>1, UptoType
  <2>3. Cardinality(X) <= Cardinality(Y)
    BY <2>2, FS_Subset
  <2> QED BY <2>1, <2>3 DEF Upto
<1> QED BY <1>3, TimesUpto

-----------------------------------------------------------------------------
(* The order of a sorted matrix.                                           *)

LEMMA OrderTransitive ==
  ASSUME NEW e \in Elems, NEW f \in Elems, NEW g \in Elems, InOrder(e, f)
  PROVE  /\ InOrder(f, g) => InOrder(e, g)
         /\ Smaller(f, g) => Smaller(e, g)
         /\ InOrder(f, e) => e = f
         /\ e = f \/ Smaller(e, f)
<1>1. e \in Int \X Int /\ f \in Int \X Int /\ g \in Int \X Int
  BY CooAssumption
<1>2. /\ e[1] \in Int /\ e[2] \in Int /\ f[1] \in Int /\ f[2] \in Int
      /\ g[1] \in Int /\ g[2] \in Int
      /\ (e[1] = f[1] /\ e[2] = f[2] => e = f)
  BY <1>1
<1> QED BY <1>2 DEF Smaller, InOrder

LEMMA SmallerOrdered ==
  ASSUME NEW e \in Elems, NEW f \in Elems, NEW g \in Elems, Smaller(e, f)
  PROVE  /\ InOrder(f, g) => Smaller(e, g)
         /\ InOrder(e, f) /\ e # f
<1>1. e \in Int \X Int /\ f \in Int \X Int /\ g \in Int \X Int
  BY CooAssumption
<1>2. /\ e[1] \in Int /\ e[2] \in Int /\ f[1] \in Int /\ f[2] \in Int
      /\ g[1] \in Int /\ g[2] \in Int
  BY <1>1
<1> QED BY <1>2 DEF Smaller, InOrder

LEMMA OrderReflexive == \A e \in Elems : InOrder(e, e)
<1> SUFFICES ASSUME NEW e \in Elems PROVE InOrder(e, e)
  OBVIOUS
<1>1. e \in Int \X Int
  BY CooAssumption
<1> QED BY <1>1 DEF InOrder

(* In a sorted matrix every element precedes those behind it. *)
LEMMA SortedApart ==
  ASSUME NEW data \in Seq(Elems), Sorted(data), NEW i \in 1..Len(data), NEW k \in i..Len(data)
  PROVE  InOrder(data[i], data[k])
<1> PICK n : n = Len(data)
  OBVIOUS
<1>1. n \in Nat /\ \A m \in 1..n : data[m] \in Elems
  BY LenProperties, ElementOfSeq
<1> DEFINE S == {m \in Nat : i + m <= n => InOrder(data[i], data[i + m])}
<1>2. 0 \in S
  BY <1>1, OrderReflexive
<1>3. ASSUME NEW m \in 1..n, m - 1 \in S PROVE m \in S
  <2> SUFFICES ASSUME i + m <= n PROVE InOrder(data[i], data[i + m])
    OBVIOUS
  <2>1. PICK a : a = i + (m - 1)
    OBVIOUS
  <2>2. a \in 1..(n - 1) /\ a + 1 = i + m /\ a + 1 \in 1..n /\ a \in 1..n
    BY <1>1, <2>1
  <2>3. InOrder(data[i], data[a])
    BY <1>3, <2>1, <2>2
  <2>4. InOrder(data[a], data[a + 1])
    BY <2>2 DEF Sorted
  <2>5. InOrder(data[i], data[a + 1])
    BY <1>1, <2>2, <2>3, <2>4, OrderTransitive
  <2> QED BY <2>2, <2>5
<1> HIDE DEF S
<1>4. 0..n \subseteq S
  BY <1>1, <1>2, <1>3, UpTo
<1>5. k - i \in 0..n /\ i + (k - i) = k /\ k <= n
  BY <1>1
<1>6. k - i \in S
  BY <1>4, <1>5
<1>7. \A m \in S : i + m <= n => InOrder(data[i], data[i + m])
  BY DEF S
<1> QED BY <1>5, <1>6, <1>7

-----------------------------------------------------------------------------
(* The calls with a loop.                                                  *)

(* What leads into each loop, and what goes on in it. *)
LEMMA LoopSteps ==
  ASSUME IndInv, [Next]_vars
  PROVE  \/ UNCHANGED vars
         \/ call'.op \notin {"add", "sub", "count", "merge", "dump"}
         \/ \E r, a, b \in Matrices : BeginAdd(r, a, b) \/ BeginSub(r, a, b)
         \/ \E r \in Matrices, list \in Lists : BeginMerge(r, list)
         \/ \E m \in Matrices : BeginDump(m)
         \/ AddFromA \/ AddFromB \/ SubSkip \/ SubKeep
         \/ MergeCount \/ MergeCreate \/ MergeCopy \/ NextElem
<1>1. CASE Operation
  <2>1. PICK m \in Matrices :
          \/ \E c \in Capacities : Create(m, c) \/ Initialise(m, c) \/ Reset(m, c)
          \/ Clear(m) \/ Free(m) \/ BeginDump(m)
          \/ \E e \in Elems : Insert(m, e)
          \/ \E e, f \in Elems : InsertElems(m, <<e, f>>)
          \/ \E op \in {"disorder", "disorder_v1"} : BeginDisorder(op, m)
          \/ \E a, b \in Matrices : BeginAdd(m, a, b) \/ BeginSub(m, a, b)
          \/ \E list \in Lists : BeginMerge(m, list)
    BY <1>1 DEF Operation
  <2>2. CASE \/ \E c \in Capacities : Create(m, c) \/ Initialise(m, c) \/ Reset(m, c)
             \/ Clear(m) \/ Free(m)
             \/ \E e \in Elems : Insert(m, e)
             \/ \E e, f \in Elems : InsertElems(m, <<e, f>>)
    <3>1. Idle /\ UNCHANGED call
      BY <2>2 DEF Create, Initialise, Reset, Clear, Free, Insert, InsertElems
    <3> QED BY <3>1 DEF Idle, NoCall
  <2>3. CASE \E op \in {"disorder", "disorder_v1"} : BeginDisorder(op, m)
    BY <2>3 DEF BeginDisorder
  <2> QED BY <2>1, <2>2, <2>3
<1>2. CASE Turn
  <2>1. CASE Added \/ Subtracted \/ Merged \/ Disordered \/ Dumped
    BY <2>1 DEF Added, Subtracted, Merged, Disordered, Dumped, Return, NoCall
  <2>2. CASE Swap
    <3>1. call \in [op : {"disorder", "disorder_v1"}, m : Live, i : Nat]
      BY <2>2 DEF Swap, IndInv, TypeOK, NoCall
    <3> QED BY <2>2, <3>1 DEF Swap
  <2> QED BY <1>2, <2>1, <2>2 DEF Turn
<1> QED BY <1>1, <1>2 DEF Next

(* What a call of add or sub begins with. *)
LEMMA BeginSum ==
  ASSUME IndInv, NEW r \in Matrices, NEW a \in Matrices, NEW b \in Matrices,
         BeginAdd(r, a, b) \/ BeginSub(r, a, b)
  PROVE  /\ call'.r = r /\ call'.a = a /\ call'.b = b /\ call'.i = 0 /\ call'.j = 0
         /\ call'.op = IF BeginAdd(r, a, b) THEN "add" ELSE "sub"
         /\ coo'[r].data = <<>> /\ coo'[a] = coo[a] /\ coo'[b] = coo[b]
         /\ r \in Live' /\ a \in Live /\ b \in Live /\ r \notin Live
<1> PICK c : c = IF BeginAdd(r, a, b) THEN AddCapacity(a, b) ELSE coo[b].capacity
  OBVIOUS
<1>1. /\ r \notin Live /\ a \in Live /\ b \in Live /\ r # a /\ r # b
      /\ Becomes(r, Matrix(c))
      /\ call' = [op |-> IF BeginAdd(r, a, b) THEN "add" ELSE "sub",
                  r |-> r, a |-> a, b |-> b, i |-> 0, j |-> 0]
  BY DEF BeginAdd, BeginSub
<1>2. c \in Nat
  BY <1>1, OfLive DEF AddCapacity, MatrixSet
<1>3. Matrix(c) \in MatrixSet /\ Fits(Matrix(c)) /\ Matrix(c).data = <<>>
  BY <1>2, NewMatrix DEF Matrix
<1>4. /\ coo'[r] = Matrix(c) /\ coo'[a] = coo[a] /\ coo'[b] = coo[b] /\ r \in Live'
  BY <1>1, <1>3, Replaced, NullIsNoMatrix
<1> QED BY <1>1, <1>3, <1>4

(* What a turn of sub does. *)
LEMMA SubTurn ==
  ASSUME IndInv, SubSkip \/ SubKeep
  PROVE  /\ call.op = "sub" /\ call'.op = "sub" /\ call'.r = call.r
         /\ A' = A /\ B' = B /\ call'.j = call.j + 1
         /\ call.i \in 0..Len(A) /\ call.j \in 0..(Len(B) - 1) /\ Len(A) \in Nat /\ Len(B) \in Nat
         /\ A \in Seq(Elems) /\ B \in Seq(Elems) /\ coo[call.r].data \in Seq(Elems)
         /\ B[call.j + 1] \in Elems
         /\ SubSkip => /\ call.i < Len(A) /\ call'.i = call.i + 1 /\ A[call.i + 1] = B[call.j + 1]
                       /\ coo'[call.r].data = coo[call.r].data
         /\ SubKeep => /\ call'.i = call.i
                       /\ call.i < Len(A) => A[call.i + 1] # B[call.j + 1]
                       /\ coo'[call.r].data = Append(coo[call.r].data, B[call.j + 1])
<1>1. /\ call \in SumCalls /\ call.i \in Nat /\ call.j \in Nat /\ call.op = "sub"
      /\ A \in Seq(Elems) /\ B \in Seq(Elems) /\ Len(A) \in Nat /\ Len(B) \in Nat
      /\ call.i <= Len(A) /\ call.j < Len(B) /\ coo[call.r].data \in Seq(Elems)
  <2>1. call.op = "sub" /\ call.j < Len(B)
    BY DEF SubSkip, SubKeep
  <2> QED BY <2>1, SumLocals, LenProperties, OfLive DEF IndInv, NothingDropped, MatrixSet
<1>2. call.i \in 0..Len(A) /\ call.j \in 0..(Len(B) - 1) /\ call.j + 1 \in 1..Len(B)
      /\ call.j + 1 \in Nat /\ call.j + 1 <= Len(B)
  <2>1. /\ call.i \in Nat /\ call.j \in Nat /\ Len(A) \in Nat /\ Len(B) \in Nat
        /\ call.i <= Len(A) /\ call.j < Len(B)
    BY <1>1
  <2> QED BY <2>1
<1>3. B[call.j + 1] \in Elems
  BY <1>1, <1>2, ElementOfSeq
<1>4. CASE SubSkip
  <2>1. /\ call' = [call EXCEPT !.i = call.i + 1, !.j = call.j + 1]
        /\ coo' = coo /\ call.i < Len(A) /\ A[call.i + 1] = B[call.j + 1]
    BY <1>4 DEF SubSkip, Equal
  <2>2. /\ call'.op = "sub" /\ call'.r = call.r /\ call'.a = call.a /\ call'.b = call.b
        /\ call'.i = call.i + 1 /\ call'.j = call.j + 1
    BY <1>1, <2>1 DEF SumCalls
  <2>3. A' = A /\ B' = B
    BY <2>1, <2>2 DEF A, B
  <2>4. ~SubKeep
    BY <1>4 DEF SubSkip, SubKeep
  <2> QED BY <1>1, <1>2, <1>3, <2>1, <2>2, <2>3, <2>4
<1>5. CASE SubKeep
  <2>1. /\ call' = [call EXCEPT !.j = call.j + 1]
        /\ Becomes(call.r, Inserted(coo[call.r], B[call.j + 1]))
        /\ call.i < Len(A) => A[call.i + 1] # B[call.j + 1]
    BY <1>5 DEF SubKeep, Equal
  <2>2. /\ call'.op = "sub" /\ call'.r = call.r /\ call'.i = call.i /\ call'.j = call.j + 1
        /\ call' = [call EXCEPT !.i = call.i, !.j = call.j + 1]
    BY <1>1, <2>1 DEF SumCalls
  <2>3. coo'[call.r].data = Append(coo[call.r].data, B[call.j + 1]) /\ A' = A /\ B' = B
    BY <1>1, <1>2, <1>3, <2>1, <2>2, PutInv
  <2>4. ~SubSkip
    BY <1>5 DEF SubSkip, SubKeep
  <2> QED BY <1>1, <1>2, <1>3, <2>1, <2>2, <2>3, <2>4
<1> QED BY <1>4, <1>5

-----------------------------------------------------------------------------
(* What add and sub have counted.                                          *)

(* Every element taken from A or B is in the result of add; of those taken  *)
(* from B by sub, all but the elements of A that were met.                 *)
Counted ==
  /\ call.op = "add" =>
       \A e \in Elems :
         Times(e, coo[call.r].data) = Upto(e, A, call.i) + Upto(e, B, call.j)
  /\ call.op = "sub" =>
       \A e \in Elems :
         Times(e, coo[call.r].data) + Upto(e, A, call.i) = Upto(e, B, call.j)

LEMMA BeginCounted ==
  ASSUME IndInv, NEW r \in Matrices, NEW a \in Matrices, NEW b \in Matrices,
         BeginAdd(r, a, b) \/ BeginSub(r, a, b)
  PROVE  Counted'
<1>1. call'.r = r /\ call'.i = 0 /\ call'.j = 0 /\ coo'[r].data = <<>>
  BY BeginSum
<1>2. \A e : Times(e, <<>>) = 0 /\ Upto(e, A', 0) = 0 /\ Upto(e, B', 0) = 0
  BY TimesEmpty, UptoZero
<1> QED BY <1>1, <1>2 DEF Counted

LEMMA AddCounted ==
  ASSUME IndInv, Counted, AddFromA \/ AddFromB
  PROVE  Counted'
<1>1. PICK x \in Elems, i \in Nat, j \in Nat :
        /\ \/ AddFromA /\ x = A[call.i + 1] /\ i = call.i + 1 /\ j = call.j
           \/ AddFromB /\ x = B[call.j + 1] /\ i = call.i /\ j = call.j + 1
        /\ coo'[call.r].data = Append(coo[call.r].data, x)
        /\ A' = A /\ B' = B
        /\ call'.r = call.r /\ call'.i = i /\ call'.j = j
  BY AddTurn
<1>2. call.op = "add"
  BY DEF AddFromA, AddFromB
<1>3. /\ call \in SumCalls /\ call.i \in Nat /\ call.j \in Nat
      /\ coo[call.r].data \in Seq(Elems)
  BY <1>2, SumLocals, OfLive DEF MatrixSet
<1>4. call'.op = "add"
  BY <1>2, <1>3 DEF AddFromA, AddFromB, SumCalls
<1>5. ASSUME NEW e \in Elems
      PROVE  Times(e, Append(coo[call.r].data, x)) = Upto(e, A, i) + Upto(e, B, j)
  <2> PICK ai, bj, o, n : ai = Upto(e, A, call.i) /\ bj = Upto(e, B, call.j) /\ o = Once(e, x)
                          /\ n = Times(e, coo[call.r].data)
    OBVIOUS
  <2>1. n = ai + bj /\ ai \in Nat /\ bj \in Nat /\ o \in Nat
    BY <1>2, <1>3, UptoType DEF Counted, Once
  <2>2. Times(e, Append(coo[call.r].data, x)) = n + o
    BY <1>3, TimesAppend
  <2>3. CASE x = A[call.i + 1] /\ i = call.i + 1 /\ j = call.j
    <3>1. Upto(e, A, i) = ai + o
      BY <1>3, <2>3, UptoNext
    <3> QED BY <2>1, <2>2, <2>3, <3>1
  <2>4. CASE x = B[call.j + 1] /\ i = call.i /\ j = call.j + 1
    <3>1. Upto(e, B, j) = bj + o
      BY <1>3, <2>4, UptoNext
    <3> QED BY <2>1, <2>2, <2>4, <3>1
  <2> QED BY <1>1, <2>3, <2>4
<1> QED BY <1>1, <1>4, <1>5 DEF Counted

LEMMA SubCounted ==
  ASSUME IndInv, Counted, SubSkip \/ SubKeep
  PROVE  Counted'
<1> PICK i, j, x : i = call.i /\ j = call.j /\ x = B[call.j + 1]
  OBVIOUS
<1>1. /\ call.op = "sub" /\ call'.op = "sub" /\ call'.r = call.r
      /\ A' = A /\ B' = B /\ call'.j = j + 1 /\ i \in Nat /\ j \in Nat
      /\ coo[call.r].data \in Seq(Elems) /\ x \in Elems
  BY SubTurn
<1>2. ASSUME NEW e \in Elems
      PROVE  Times(e, coo'[call.r].data) + Upto(e, A, call'.i) = Upto(e, B, j + 1)
  <2> PICK ai, bj, o, n : ai = Upto(e, A, i) /\ bj = Upto(e, B, j) /\ o = Once(e, x)
                          /\ n = Times(e, coo[call.r].data)
    OBVIOUS
  <2>1. n + ai = bj /\ ai \in Nat /\ bj \in Nat /\ o \in Nat /\ n \in Nat
    BY <1>1, UptoType, TimesUpto DEF Counted, Once
  <2>2. Upto(e, B, j + 1) = bj + o
    BY <1>1, UptoNext
  <2>3. CASE SubSkip
    <3>0. A[i + 1] = x /\ i \in Nat
      BY <1>1, <2>3, SubTurn
    <3>1. Upto(e, A, i + 1) = Upto(e, A, i) + Once(e, x)
      BY <3>0, UptoNext
    <3>2. call'.i = i + 1 /\ coo'[call.r].data = coo[call.r].data
      BY <2>3, SubTurn
    <3> QED BY <2>1, <2>2, <3>1, <3>2
  <2>4. CASE SubKeep
    <3>1. call'.i = i /\ coo'[call.r].data = Append(coo[call.r].data, x)
      BY <2>4, SubTurn
    <3>2. Times(e, Append(coo[call.r].data, x)) = n + o
      BY <1>1, TimesAppend
    <3> QED BY <2>1, <2>2, <3>1, <3>2
  <2> QED BY <2>3, <2>4
<1> QED BY <1>1, <1>2 DEF Counted

-----------------------------------------------------------------------------
(* The order of differences.                                               *)

(* A is a part of B, and both are sorted. *)
SortedPart ==
  /\ Sorted(A) /\ Sorted(B)
  /\ \A e \in Elems : Times(e, A) <= Times(e, B)

(* Why no element of A is passed over: what was kept is smaller than the    *)
(* element of A that is waited for.                                        *)
DifferenceInv ==
  call.op = "sub" /\ SortedPart =>
    LET R == coo[call.r].data IN
      /\ Sorted(R)
      /\ R # <<>> /\ call.j < Len(B) => InOrder(R[Len(R)], B[call.j + 1])
      /\ call.i < Len(A) => \A k \in 1..Len(R) : Smaller(R[k], A[call.i + 1])

(* The element of A that is waited for is still to come in B. *)
LEMMA WaitedFor ==
  ASSUME IndInv, Counted, DifferenceInv, SortedPart, call.op = "sub", call.i < Len(A)
  PROVE  /\ call.j < Len(B)
         /\ B[call.j + 1] \in Elems /\ A[call.i + 1] \in Elems
         /\ InOrder(B[call.j + 1], A[call.i + 1])
<1> PICK i, j, e, R, n : i = call.i /\ j = call.j /\ e = A[i + 1] /\ R = coo[call.r].data /\ n = Len(R)
  OBVIOUS
<1>1. /\ i \in Nat /\ j \in Nat /\ A \in Seq(Elems) /\ B \in Seq(Elems) /\ R \in Seq(Elems)
      /\ Len(A) \in Nat /\ Len(B) \in Nat /\ i < Len(A) /\ j <= Len(B) /\ n \in Nat
  BY SumLocals, OfLive, LenProperties DEF IndInv, NothingDropped, MatrixSet
<1>2. i \in 0..Len(A) /\ i + 1 \in 0..Len(A) /\ i + 1 \in 1..Len(A) /\ j \in 0..Len(B)
  <2>1. i \in Nat /\ Len(A) \in Nat /\ i < Len(A) /\ j \in Nat /\ Len(B) \in Nat /\ j <= Len(B)
    BY <1>1
  <2> QED BY <2>1
<1>3. e \in Elems
  BY <1>1, <1>2, ElementOfSeq
<1>4. Times(e, R) = 0
  <2>1. \A k \in 1..n : R[k] # e
    <3> SUFFICES ASSUME NEW k \in 1..n PROVE R[k] # e
      OBVIOUS
      <3>1. R[k] \in Elems /\ Smaller(R[k], e)
        BY <1>1, ElementOfSeq DEF DifferenceInv
      <3> QED BY <1>3, <3>1, SmallerOrdered
  <2>2. {k \in 1..n : R[k] = e} = {}
    BY <2>1
  <2>3. Upto(e, R, n) = 0
    BY <2>2, FS_EmptySet DEF Upto
  <2> QED BY <1>1, <2>3, TimesUpto
<1>5. Upto(e, A, i) = Upto(e, B, j)
  <2>1. Times(e, R) + Upto(e, A, i) = Upto(e, B, j)
    BY <1>3 DEF Counted
  <2>2. PICK x, y, z : x = Times(e, R) /\ y = Upto(e, A, i) /\ z = Upto(e, B, j)
    OBVIOUS
  <2>3. y \in Nat /\ z \in Nat
    BY <1>1, <2>2, UptoType
  <2> QED BY <1>4, <2>1, <2>2, <2>3
<1>6. Upto(e, A, i + 1) = Upto(e, A, i) + 1
  <2>1. Once(e, A[i + 1]) = 1
    BY DEF Once
  <2>2. Upto(e, A, i + 1) = Upto(e, A, i) + Once(e, A[i + 1])
    BY <1>1, UptoNext
  <2> QED BY <2>1, <2>2
<1>7. Upto(e, B, j) < Times(e, B)
  <2> PICK x, y, z, u, v : x = Upto(e, A, i) /\ y = Upto(e, B, j) /\ z = Upto(e, A, i + 1)
                     /\ u = Times(e, A) /\ v = Times(e, B)
    OBVIOUS
  <2>1. x \in Nat /\ y \in Nat /\ x = y /\ z = x + 1
    BY <1>1, <1>5, <1>6, UptoType
  <2>2. z <= u
    BY <1>1, <1>2, UptoWithin
  <2>3. u <= v /\ u \in Nat /\ v \in Nat
    BY <1>1, <1>3, TimesUpto DEF SortedPart
  <2> QED BY <2>1, <2>2, <2>3
<1>8. PICK k \in (j + 1)..Len(B) : B[k] = e
  BY <1>1, <1>2, <1>7, OneBehind
<1>9. j + 1 \in 1..Len(B) /\ k \in (j + 1)..Len(B) /\ j < Len(B)
  BY <1>1, <1>8
<1>10. InOrder(B[j + 1], B[k])
  BY <1>1, <1>9, SortedApart DEF SortedPart
<1> QED BY <1>1, <1>3, <1>8, <1>9, <1>10, ElementOfSeq

LEMMA BeginDifference ==
  ASSUME IndInv, NEW r \in Matrices, NEW a \in Matrices, NEW b \in Matrices,
         BeginAdd(r, a, b) \/ BeginSub(r, a, b)
  PROVE  DifferenceInv'
<1>1. call'.r = r /\ coo'[r].data = <<>>
  BY BeginSum
<1>2. Sorted(<<>>) /\ Len(<<>>) = 0
  BY Len(<<>>) = 0 DEF Sorted
<1> QED BY <1>1, <1>2 DEF DifferenceInv

LEMMA SkipDifference ==
  ASSUME IndInv, DifferenceInv, SubSkip
  PROVE  DifferenceInv'
<1> PICK i, j, R, n : i = call.i /\ j = call.j /\ R = coo[call.r].data /\ n = Len(R)
  OBVIOUS
<1>1. /\ call.op = "sub" /\ A' = A /\ B' = B /\ call'.r = call.r /\ call'.i = i + 1
      /\ call'.j = j + 1 /\ coo'[call.r].data = R /\ A[i + 1] = B[j + 1]
      /\ A \in Seq(Elems) /\ B \in Seq(Elems) /\ R \in Seq(Elems)
  BY SubTurn
<1>2. /\ i \in Nat /\ j \in Nat /\ Len(A) \in Nat /\ Len(B) \in Nat /\ i < Len(A) /\ j < Len(B)
      /\ n \in Nat
  <2>1. /\ i \in 0..Len(A) /\ j \in 0..(Len(B) - 1) /\ Len(A) \in Nat /\ Len(B) \in Nat
        /\ i < Len(A)
    BY SubTurn
  <2> QED BY <1>1, <2>1, LenProperties
<1>3. i + 1 \in 1..Len(A) /\ j + 1 \in 1..Len(B)
  BY <1>2
<1>4. A[i + 1] \in Elems /\ B[j + 1] \in Elems
  BY <1>1, <1>3, ElementOfSeq
<1> SUFFICES ASSUME SortedPart
             PROVE  /\ Sorted(R)
                    /\ R # <<>> /\ j + 1 < Len(B) => InOrder(R[n], B[(j + 1) + 1])
                    /\ i + 1 < Len(A) => \A k \in 1..n : Smaller(R[k], A[(i + 1) + 1])
  BY <1>1 DEF DifferenceInv, SortedPart
<1>5. /\ Sorted(R) /\ (R # <<>> => InOrder(R[n], B[j + 1]))
      /\ \A k \in 1..n : Smaller(R[k], A[i + 1])
  BY <1>1, <1>2 DEF DifferenceInv
<1>6. ASSUME R # <<>>, j + 1 < Len(B) PROVE InOrder(R[n], B[(j + 1) + 1])
  <2>1. n \in 1..n
    BY <1>1, <1>2, <1>6, EmptySeq
  <2>2. R[n] \in Elems
    BY <1>1, <2>1, ElementOfSeq
  <2>3. (j + 1) + 1 \in 1..Len(B) /\ j + 1 \in 1..(Len(B) - 1)
    BY <1>2, <1>6
  <2>4. B[(j + 1) + 1] \in Elems /\ InOrder(B[j + 1], B[(j + 1) + 1])
    BY <1>1, <2>3, ElementOfSeq DEF SortedPart, Sorted
  <2>5. InOrder(R[n], B[j + 1])
    BY <1>5, <1>6
  <2> QED BY <1>4, <2>2, <2>4, <2>5, OrderTransitive
<1>7. ASSUME i + 1 < Len(A), NEW k \in 1..n PROVE Smaller(R[k], A[(i + 1) + 1])
  <2>1. R[k] \in Elems /\ Smaller(R[k], A[i + 1])
    BY <1>1, <1>5, ElementOfSeq
  <2>2. (i + 1) + 1 \in 1..Len(A) /\ i + 1 \in 1..(Len(A) - 1)
    BY <1>2, <1>7
  <2>3. A[(i + 1) + 1] \in Elems /\ InOrder(A[i + 1], A[(i + 1) + 1])
    BY <1>1, <2>2, ElementOfSeq DEF SortedPart, Sorted
  <2> QED BY <1>4, <2>1, <2>3, SmallerOrdered
<1> QED BY <1>5, <1>6, <1>7

LEMMA KeepDifference ==
  ASSUME IndInv, Counted, DifferenceInv, SubKeep
  PROVE  DifferenceInv'
<1> PICK i, j, R, n, x, D : i = call.i /\ j = call.j /\ R = coo[call.r].data /\ n = Len(R)
                            /\ x = B[j + 1] /\ D = Append(R, x)
  OBVIOUS
<1>1. /\ call.op = "sub" /\ A' = A /\ B' = B /\ call'.r = call.r /\ call'.i = i
      /\ call'.j = j + 1 /\ coo'[call.r].data = D /\ (i < Len(A) => A[i + 1] # x)
      /\ A \in Seq(Elems) /\ B \in Seq(Elems) /\ R \in Seq(Elems) /\ x \in Elems
  BY SubTurn
<1>2. /\ i \in Nat /\ j \in Nat /\ Len(A) \in Nat /\ Len(B) \in Nat /\ j < Len(B) /\ n \in Nat
  <2>1. /\ i \in 0..Len(A) /\ j \in 0..(Len(B) - 1) /\ Len(A) \in Nat /\ Len(B) \in Nat
    BY SubTurn
  <2> QED BY <1>1, <2>1, LenProperties
<1>3. /\ D \in Seq(Elems) /\ D # <<>> /\ Len(D) = n + 1 /\ D[n + 1] = x
      /\ \A k \in 1..n : D[k] = R[k]
  BY <1>1, <1>2, AppendProperties, SMTT(30)
<1> SUFFICES ASSUME SortedPart
             PROVE  /\ Sorted(D)
                    /\ j + 1 < Len(B) => InOrder(D[n + 1], B[(j + 1) + 1])
                    /\ i < Len(A) => \A k \in 1..(n + 1) : Smaller(D[k], A[i + 1])
  BY <1>1, <1>3 DEF DifferenceInv, SortedPart
<1>4. /\ Sorted(R) /\ (R # <<>> => InOrder(R[n], x))
      /\ (i < Len(A) => \A k \in 1..n : Smaller(R[k], A[i + 1]))
  BY <1>1, <1>2 DEF DifferenceInv
<1>5. Sorted(D)
  BY <1>1, <1>4, SortedAppend
<1>6. ASSUME j + 1 < Len(B) PROVE InOrder(x, B[(j + 1) + 1])
  <2>1. j + 1 \in 1..(Len(B) - 1)
    BY <1>2, <1>6
  <2> QED BY <2>1 DEF SortedPart, Sorted
<1>7. ASSUME i < Len(A), NEW k \in 1..(n + 1) PROVE Smaller(D[k], A[i + 1])
  <2>1. CASE k \in 1..n
    BY <1>3, <1>4, <1>7, <2>1
  <2>2. CASE k \notin 1..n
    <3>1. k = n + 1
      BY <1>2, <2>2
    <3>2. A[i + 1] \in Elems /\ InOrder(x, A[i + 1]) /\ A[i + 1] # x
      BY <1>1, <1>7, WaitedFor
    <3> QED BY <1>1, <1>3, <3>1, <3>2, OrderTransitive, SMTT(30)
  <2> QED BY <2>1, <2>2
<1> QED BY <1>3, <1>5, <1>6, <1>7

(* How often every element is in what add and sub have filled in, and the   *)
(* order of a difference, at every turn.                                   *)
LEMMA CountedStep ==
  IndInv /\ Counted /\ DifferenceInv /\ [Next]_vars => Counted' /\ DifferenceInv'
<1> SUFFICES ASSUME IndInv, Counted, DifferenceInv, [Next]_vars
             PROVE  Counted' /\ DifferenceInv'
  OBVIOUS
<1>1. CASE UNCHANGED vars
  BY <1>1 DEF vars, Counted, DifferenceInv, SortedPart, A, B
<1>2. CASE call'.op \notin {"add", "sub"}
  BY <1>2 DEF Counted, DifferenceInv
<1>3. ASSUME NEW r \in Matrices, NEW a \in Matrices, NEW b \in Matrices,
             BeginAdd(r, a, b) \/ BeginSub(r, a, b)
      PROVE  Counted' /\ DifferenceInv'
  BY <1>3, BeginCounted, BeginDifference
<1>4. CASE AddFromA \/ AddFromB
  <2>1. call.op = "add"
    BY <1>4 DEF AddFromA, AddFromB
  <2>2. call'.op = "add"
    <3>1. call \in SumCalls
      BY <2>1, SumLocals
    <3> QED BY <1>4, <2>1, <3>1 DEF AddFromA, AddFromB, SumCalls
  <2> QED BY <1>4, <2>2, AddCounted DEF DifferenceInv
<1>5. CASE SubSkip \/ SubKeep
  BY <1>5, SubCounted, SkipDifference, KeepDifference
<1>6. CASE MergeCount \/ MergeCreate \/ MergeCopy \/ NextElem
  <2>1. CASE MergeCount \/ MergeCreate \/ MergeCopy
    <3>1. call \in MergeCalls
      BY <2>1, MergeLocals DEF MergeCount, MergeCreate, MergeCopy
    <3>2. call'.op \notin {"add", "sub"}
      BY <2>1, <3>1 DEF MergeCount, MergeCreate, MergeCopy, MergeCalls
    <3> QED BY <1>2, <3>2
  <2>2. CASE NextElem
    <3>1. call \in [op : {"dump"}, m : Live, index : Nat, out : Seq(Elems)]
      BY <2>2 DEF NextElem, IndInv, TypeOK, NoCall
    <3>2. call'.op \notin {"add", "sub"}
      BY <2>2, <3>1 DEF NextElem
    <3> QED BY <1>2, <3>2
  <2> QED BY <1>6, <2>1, <2>2
<1>7. CASE \E r \in Matrices, list \in Lists : BeginMerge(r, list)
  <2>1. call'.op = "count"
    BY <1>7 DEF BeginMerge
  <2> QED BY <1>2, <2>1
<1>8. CASE \E m \in Matrices : BeginDump(m)
  <2>1. call'.op = "dump"
    BY <1>8 DEF BeginDump
  <2> QED BY <1>2, <2>1
<1> QED BY <1>1, <1>2, <1>3, <1>4, <1>5, <1>6, <1>7, <1>8, LoopSteps

LEMMA DifferencesRight ==
  ASSUME IndInv, Counted, DifferenceInv
  PROVE  DifferenceExact
<1> SUFFICES ASSUME call.op = "sub", call.j = Len(B), SortedPart
             PROVE  /\ call.i = Len(A)
                    /\ Sorted(coo[call.r].data)
                    /\ \A e \in Elems : Times(e, coo[call.r].data) + Times(e, A) = Times(e, B)
  BY DEF DifferenceExact, SortedPart
<1>1. /\ call.i \in Nat /\ A \in Seq(Elems) /\ B \in Seq(Elems)
      /\ Len(A) \in Nat /\ Len(B) \in Nat /\ call.i <= Len(A)
  BY SumLocals, LenProperties DEF IndInv, NothingDropped
<1>2. call.i = Len(A)
  <2>1. ~(call.i < Len(A))
    BY <1>1, WaitedFor
  <2>2. call.i \in Nat /\ Len(A) \in Nat /\ call.i <= Len(A)
    BY <1>1
  <2> QED BY <2>1, <2>2
<1>3. \A e \in Elems : Times(e, coo[call.r].data) + Times(e, A) = Times(e, B)
  BY <1>1, <1>2, TimesUpto DEF Counted
<1> QED BY <1>2, <1>3 DEF DifferenceInv

-----------------------------------------------------------------------------
(* Merges and dumps.                                                       *)

(* FlattenSeq is defined by recursion over the sequences joined so far. *)
LEMMA FlattenWalk ==
  ASSUME NEW seqs, Len(seqs) \in Nat \ {0}
  PROVE  \E f : /\ f[1] = seqs[1]
                /\ \A n \in 2..Len(seqs) : f[n] = f[n - 1] \o seqs[n]
                /\ FlattenSeq(seqs) = f[Len(seqs)]
<1> PICK len : len = Len(seqs)
  OBVIOUS
<1> DEFINE Round(f, n) == IF n = 1 THEN seqs[n] ELSE f[n - 1] \o seqs[n]
           Walk(f, m) == f = [n \in 1..m |-> Round(f, n)]
           Bad == {m \in Nat : ~\E f : Walk(f, m)}
<1>1. FlattenSeq(seqs) = (CHOOSE f : Walk(f, len))[len]
  BY DEF FlattenSeq
<1>2. \E f : Walk(f, 0)
  <2> DEFINE f == [n \in 1..0 |-> <<>>]
  <2> HIDE DEF Round
  <2>1. Walk(f, 0)
    OBVIOUS
  <2> QED BY <2>1
<1>3. ASSUME NEW m \in Nat, NEW f, Walk(f, m)
      PROVE  \E g : Walk(g, m + 1)
  <2> DEFINE g == [n \in 1..(m + 1) |-> Round(f, n)]
  <2>1. ASSUME NEW n \in 1..m PROVE g[n] = f[n]
    <3> HIDE DEF Round
    <3>1. g[n] = Round(f, n) /\ f[n] = Round(f, n)
      BY <1>3
    <3> QED BY <3>1
  <2> HIDE DEF g
  <2>2. ASSUME NEW n \in 1..(m + 1) PROVE Round(g, n) = Round(f, n)
    <3>1. CASE n = 1
      BY <3>1
    <3>2. CASE n # 1
      <4>1. n - 1 \in 1..m
        BY <3>2
      <4>2. g[n - 1] = f[n - 1]
        BY <2>1, <4>1
      <4> QED BY <3>2, <4>2
    <3> QED BY <3>1, <3>2
  <2>3. Walk(g, m + 1)
    <3> HIDE DEF Round
    <3> QED BY <2>2 DEF g
  <2> QED BY <2>3
<1> HIDE DEF Walk
<1>4. Bad = {}
  <2> SUFFICES ASSUME Bad # {} PROVE FALSE
    OBVIOUS
  <2>1. PICK m \in Bad : \A k \in Bad : m <= k
    BY Least
  <2>2. m # 0 /\ m \in Nat
    BY <1>2, <2>1
  <2>3. PICK k : k = m - 1
    OBVIOUS
  <2>4. k \in Nat /\ k + 1 = m /\ ~(m <= k)
    BY <2>2, <2>3
  <2>5. PICK f : Walk(f, k)
    BY <2>1, <2>4
  <2>6. \E g : Walk(g, k + 1)
    BY <1>3, <2>4, <2>5
  <2> QED BY <2>1, <2>4, <2>6
<1>5. PICK f : f = (CHOOSE g : Walk(g, len))
  OBVIOUS
<1>6. Walk(f, len)
  <2>1. \E g : Walk(g, len)
    BY <1>4
  <2> QED BY <1>5, <2>1
<1>7. ASSUME NEW n \in 1..len PROVE f[n] = Round(f, n)
  <2> HIDE DEF Round
  <2> QED BY <1>6 DEF Walk
<1>8. f[1] = seqs[1]
  <2>1. 1 \in 1..len /\ Round(f, 1) = seqs[1]
    OBVIOUS
  <2> HIDE DEF Round
  <2> QED BY <1>7, <2>1
<1>9. ASSUME NEW n \in 2..len PROVE f[n] = f[n - 1] \o seqs[n]
  <2>1. n \in 1..len /\ n # 1
    OBVIOUS
  <2>2. Round(f, n) = f[n - 1] \o seqs[n]
    BY <2>1
  <2> HIDE DEF Round
  <2> QED BY <1>7, <2>1, <2>2
<1> QED BY <1>1, <1>5, <1>8, <1>9

(* f[n] are the first n parts, one behind the other. *)
Joins(f, parts, n) ==
  f[0] = <<>> /\ \A k \in 1..n : f[k] = f[k - 1] \o parts[k]

LEMMA FlattenJoins ==
  ASSUME NEW parts, Len(parts) \in Nat \ {0}, parts[1] \in Seq(Elems)
  PROVE  \E f : Joins(f, parts, Len(parts)) /\ FlattenSeq(parts) = f[Len(parts)]
<1> PICK n : n = Len(parts)
  OBVIOUS
<1>1. PICK g : /\ g[1] = parts[1]
               /\ \A k \in 2..n : g[k] = g[k - 1] \o parts[k]
               /\ FlattenSeq(parts) = g[n]
  BY FlattenWalk
<1> DEFINE f == [k \in 0..n |-> IF k = 0 THEN <<>> ELSE g[k]]
<1>2. f[0] = <<>> /\ \A k \in 1..n : f[k] = g[k]
  OBVIOUS
<1> HIDE DEF f
<1>3. ASSUME NEW k \in 1..n PROVE f[k] = f[k - 1] \o parts[k]
  <2>1. CASE k = 1
    <3>1. <<>> \o parts[1] = parts[1]
      BY ConcatEmptySeq
    <3>2. f[1] = parts[1] /\ 1 - 1 = 0
      BY <1>1, <1>2
    <3> QED BY <1>2, <2>1, <3>1, <3>2
  <2>2. CASE k # 1
    <3>1. k \in 2..n /\ k - 1 \in 1..n
      BY <2>2
    <3>2. f[k] = g[k] /\ f[k - 1] = g[k - 1]
      BY <1>2, <3>1
    <3> QED BY <1>1, <3>1, <3>2
  <2> QED BY <2>1, <2>2
<1>4. Joins(f, parts, n)
  BY <1>2, <1>3 DEF Joins
<1>5. n \in 1..n
  OBVIOUS
<1>6. f[n] = FlattenSeq(parts)
  BY <1>1, <1>2, <1>5
<1> QED BY <1>4, <1>6

(* What the matrices of a list hold. *)
Parts == [k \in DOMAIN call.list |-> Content(call.list[k])]

(* The first call.i parts have been joined; a dump has given the first     *)
(* call.index elements.                                                    *)
JoinedInv ==
  /\ call.op = "merge" =>
       \A f : Joins(f, Parts, call.i) => coo[call.r].data = f[call.i]
  /\ call.op = "dump" =>
       /\ call.index <= Nnz(call.m) /\ Len(call.out) = call.index
       /\ \A k \in 1..call.index : call.out[k] = coo[call.m].data[k]

(* While the loops of merge write their result, its parts stay. *)
LEMMA PartsStay ==
  ASSUME IndInv, call.op \in {"count", "merge"}, UNCHANGED <<call.r, call.list>>,
         NEW x \in MatrixSet, Fits(x), Becomes(call.r, x)
  PROVE  Parts' = Parts /\ coo'[call.r] = x
<1>1. /\ call.r \in Matrices /\ DOMAIN call.list = 1..Len(call.list)
      /\ \A k \in 1..Len(call.list) : call.list[k] \in (Live \ {call.r}) \cup {Null}
  BY MergeLocals
<1>2. /\ coo'[call.r] = x /\ \A n \in Matrices \ {call.r} : coo'[n] = coo[n]
  BY <1>1, Replaced, NullIsNoMatrix
<1>3. Live \subseteq Matrices
  BY DEF Live
<1>4. ASSUME NEW k \in 1..Len(call.list)
      PROVE  (IF call.list[k] = Null THEN <<>> ELSE coo'[call.list[k]].data) = Content(call.list[k])
  BY <1>1, <1>2, <1>3 DEF Content
<1>5. Parts' = [k \in DOMAIN call.list |-> IF call.list[k] = Null THEN <<>> ELSE coo'[call.list[k]].data]
  BY DEF Parts, Content
<1> QED BY <1>1, <1>2, <1>4, <1>5 DEF Parts

LEMMA CreateJoined ==
  ASSUME IndInv, MergeCreate
  PROVE  JoinedInv'
<1> PICK c : c = call.ends[call.i + 1]
  OBVIOUS
<1>1. /\ call.op = "count" /\ call.i = Len(call.list)
      /\ Becomes(call.r, Matrix(c)) /\ call' = [call EXCEPT !.op = "merge", !.i = 0]
      /\ call \in MergeCalls
  BY MergeLocals DEF MergeCreate
<1>2. c \in Nat
  <2>1. Len(call.ends) = call.i + 1 /\ call.ends \in Seq(Nat) /\ call.i \in Nat
    BY <1>1, MergeLocals DEF IndInv, MergeFits
  <2> QED BY <2>1, ElementOfSeq
<1>3. Matrix(c) \in MatrixSet /\ Fits(Matrix(c)) /\ Matrix(c).data = <<>>
  BY <1>2, NewMatrix DEF Matrix
<1>4. call'.op = "merge" /\ call'.i = 0 /\ call'.r = call.r /\ call'.list = call.list
  BY <1>1 DEF MergeCalls
<1>5. coo'[call.r].data = <<>>
  BY <1>1, <1>3, <1>4, PartsStay
<1> QED BY <1>4, <1>5 DEF JoinedInv, Joins

LEMMA CopyJoined ==
  ASSUME IndInv, JoinedInv, MergeCopy
  PROVE  JoinedInv'
<1> PICK i, R, more, x : i = call.i /\ R = coo[call.r].data /\ more = Content(call.list[i + 1])
                         /\ x = [coo[call.r] EXCEPT !.data = coo[call.r].data \o more]
  OBVIOUS
<1>1. /\ call.op = "merge" /\ i < Len(call.list) /\ call \in MergeCalls /\ i \in Nat
      /\ Becomes(call.r, x) /\ call' = [call EXCEPT !.i = i + 1]
      /\ Len(call.list) \in Nat /\ DOMAIN call.list = 1..Len(call.list)
  BY MergeLocals DEF MergeCopy
<1>2. call'.op = "merge" /\ call'.i = i + 1 /\ call'.r = call.r /\ call'.list = call.list
  BY <1>1 DEF MergeCalls
<1>3. Parts[i + 1] = more
  BY <1>1, i + 1 \in 1..Len(call.list) DEF Parts
<1>4. coo'[call.r] = x /\ x.data = R \o more /\ Parts' = Parts
  <2>2. /\ call.r \in Matrices /\ coo \in [Matrices -> {Null} \cup MatrixSet] /\ call.r \in Live
    BY <1>1, MergeLocals DEF IndInv, TypeOK, MergeFits, MatrixSet
  <2>3. coo[call.r] \in MatrixSet
    BY <2>2, OfLive
  <2>4. x.data = R \o more
    BY <2>3 DEF MatrixSet
  <2>5. coo'[call.r] = x /\ \A n \in Matrices \ {call.r} : coo'[n] = coo[n]
    BY <1>1, <2>2 DEF Becomes
  <2>6. /\ \A k \in 1..Len(call.list) : call.list[k] \in (Live \ {call.r}) \cup {Null}
        /\ Live \subseteq Matrices
    BY <1>1, MergeLocals DEF Live
  <2>7. ASSUME NEW k \in 1..Len(call.list)
        PROVE  (IF call.list[k] = Null THEN <<>> ELSE coo'[call.list[k]].data) = Content(call.list[k])
    BY <2>5, <2>6 DEF Content
  <2>8. Parts' = [k \in DOMAIN call.list |-> IF call.list[k] = Null THEN <<>> ELSE coo'[call.list[k]].data]
    BY <1>2 DEF Parts, Content
  <2>9. Parts' = Parts
    BY <1>1, <2>7, <2>8 DEF Parts
  <2> QED BY <2>4, <2>5, <2>9
<1>5. ASSUME NEW f, Joins(f, Parts, i + 1) PROVE R \o more = f[i + 1]
  <2>0. /\ f[0] = <<>> /\ \A k \in 1..(i + 1) : f[k] = f[k - 1] \o Parts[k]
        /\ \A k \in 1..i : k \in 1..(i + 1)
        /\ i + 1 \in 1..(i + 1)
    <3>1. i \in Nat
      BY <1>1
    <3>2. f[0] = <<>> /\ \A k \in 1..(i + 1) : f[k] = f[k - 1] \o Parts[k]
      BY <1>5 DEF Joins
    <3>3. (\A k \in 1..i : k \in 1..(i + 1)) /\ i + 1 \in 1..(i + 1)
      BY <3>1
    <3> QED BY <3>2, <3>3
  <2>1. Joins(f, Parts, i)
    BY <2>0 DEF Joins
  <2>2. R = f[i]
    BY <1>1, <2>1 DEF JoinedInv
  <2>3. f[i + 1] = f[(i + 1) - 1] \o Parts[i + 1]
    BY <2>0
  <2>4. (i + 1) - 1 = i
    BY <1>1
  <2> QED BY <1>3, <2>2, <2>3, <2>4
<1> QED BY <1>2, <1>4, <1>5, ZenonT(30) DEF JoinedInv

LEMMA NextElemJoined ==
  ASSUME IndInv, JoinedInv, NextElem
  PROVE  JoinedInv'
<1> PICK i, data, e : i = call.index /\ data = coo[call.m].data /\ e = data[i + 1]
  OBVIOUS
<1>1. /\ call.op = "dump" /\ ~(i >= Nnz(call.m)) /\ coo' = coo
      /\ call' = [call EXCEPT !.index = i + 1, !.out = Append(call.out, e)]
  BY DEF NextElem, AtEnd
<1>2. call \in [op : {"dump"}, m : Live, index : Nat, out : Seq(Elems)]
  BY <1>1 DEF IndInv, TypeOK, NoCall
<1>3. Nnz(call.m) \in Nat /\ i \in Nat /\ call.out \in Seq(Elems) /\ data \in Seq(Elems)
      /\ Len(data) = Nnz(call.m)
  BY <1>2, OfLive DEF MatrixSet, Nnz
<1>4. i + 1 <= Nnz(call.m) /\ i + 1 \in 1..Len(data)
  BY <1>1, <1>3
<1>5. e \in Elems
  BY <1>3, <1>4, ElementOfSeq
<1>6. /\ call'.op = "dump" /\ call'.m = call.m /\ call'.index = i + 1
      /\ call'.out = Append(call.out, e) /\ Nnz(call.m)' = Nnz(call.m)
  BY <1>1, <1>2 DEF Nnz
<1>7. Len(call.out) = i /\ \A k \in 1..i : call.out[k] = data[k]
  BY <1>1 DEF JoinedInv
<1>8. /\ Len(Append(call.out, e)) = i + 1
      /\ \A k \in 1..i : Append(call.out, e)[k] = call.out[k]
      /\ Append(call.out, e)[i + 1] = e
  BY <1>3, <1>5, <1>7, AppendProperties
<1>9. \A k \in 1..(i + 1) : Append(call.out, e)[k] = data[k]
  BY <1>3, <1>7, <1>8, SMTT(30)
<1> QED BY <1>1, <1>4, <1>6, <1>8, <1>9, SMTT(30) DEF JoinedInv, Nnz

LEMMA JoinedStep ==
  IndInv /\ JoinedInv /\ [Next]_vars => JoinedInv'
<1> SUFFICES ASSUME IndInv, JoinedInv, [Next]_vars
             PROVE  JoinedInv'
  OBVIOUS
<1>1. CASE UNCHANGED vars
  BY <1>1 DEF vars, JoinedInv, Parts, Content, Nnz
<1>2. CASE call'.op \notin {"merge", "dump"}
  BY <1>2 DEF JoinedInv
<1>3. CASE MergeCreate
  BY <1>3, CreateJoined
<1>4. CASE MergeCopy
  BY <1>4, CopyJoined
<1>5. CASE NextElem
  BY <1>5, NextElemJoined
<1>6. ASSUME NEW m \in Matrices, BeginDump(m) PROVE JoinedInv'
  <2>1. /\ call'.op = "dump" /\ call'.m = m /\ call'.index = 0 /\ call'.out = <<>> /\ coo' = coo
        /\ m \in Live
    BY <1>6 DEF BeginDump
  <2>2. Nnz(m) \in Nat /\ Nnz(m)' = Nnz(m) /\ Len(<<>>) = 0
    BY <2>1, OfLive DEF Nnz
  <2>3. 0 <= Nnz(m)
    BY <2>2
  <2> QED BY <2>1, <2>2, <2>3 DEF JoinedInv, Nnz
<1>7. CASE \/ \E r, a, b \in Matrices : BeginAdd(r, a, b) \/ BeginSub(r, a, b)
           \/ \E r \in Matrices, list \in Lists : BeginMerge(r, list)
  <2>1. call'.op \in {"add", "sub", "count"}
    BY <1>7 DEF BeginAdd, BeginSub, BeginMerge
  <2> QED BY <1>2, <2>1
<1>8. CASE AddFromA \/ AddFromB \/ SubSkip \/ SubKeep
  <2>1. call \in SumCalls
    BY <1>8, SumLocals DEF AddFromA, AddFromB, SubSkip, SubKeep
  <2>2. call'.op \in {"add", "sub"}
    BY <1>8, <2>1 DEF AddFromA, AddFromB, SubSkip, SubKeep, SumCalls
  <2> QED BY <1>2, <2>2
<1>9. CASE MergeCount
  <2>1. call \in MergeCalls /\ call.op = "count"
    BY <1>9, MergeLocals DEF MergeCount
  <2>2. call'.op = "count"
    BY <1>9, <2>1 DEF MergeCount, MergeCalls
  <2> QED BY <1>2, <2>2
<1> QED BY <1>1, <1>2, <1>3, <1>4, <1>5, <1>6, <1>7, <1>8, <1>9, LoopSteps

LEMMA MergesRight ==
  ASSUME IndInv, JoinedInv
  PROVE  MergeInOrder /\ DumpWhole
<1>1. ASSUME call.op = "merge", call.i = Len(call.list)
      PROVE  coo[call.r].data = FlattenSeq(Parts)
  <2> PICK n : n = Len(call.list)
    OBVIOUS
  <2>1. /\ n \in Nat /\ DOMAIN call.list = 1..n
        /\ \A k \in 1..n : Content(call.list[k]) \in Seq(Elems)
    BY <1>1, MergeLocals
  <2>2. Parts \in Seq(Seq(Elems)) /\ Len(Parts) = n
    BY <2>1 DEF Parts
  <2>3. CASE n = 0
    <3>1. Parts = <<>> /\ FlattenSeq(Parts) = Parts
      BY <2>2, <2>3, EmptySeq DEF FlattenSeq
    <3>2. Joins([k \in {0} |-> <<>>], Parts, 0)
      BY DEF Joins
    <3>3. coo[call.r].data = [k \in {0} |-> <<>>][0]
      BY <1>1, <2>3, <3>2 DEF JoinedInv
    <3> QED BY <3>1, <3>3
  <2>4. CASE n # 0
    <3>1. Len(Parts) \in Nat \ {0} /\ Parts[1] \in Seq(Elems)
      BY <2>1, <2>2, <2>4, ElementOfSeq
    <3>2. PICK f : Joins(f, Parts, n) /\ FlattenSeq(Parts) = f[n]
      BY <2>2, <3>1, FlattenJoins
    <3> QED BY <1>1, <3>2 DEF JoinedInv
  <2> QED BY <2>3, <2>4
<1>2. ASSUME call.op = "dump", AtEnd
      PROVE  call.out = coo[call.m].data
  <2> PICK n, data : n = Nnz(call.m) /\ data = coo[call.m].data
    OBVIOUS
  <2>1. call \in [op : {"dump"}, m : Live, index : Nat, out : Seq(Elems)]
    BY <1>2 DEF IndInv, TypeOK, NoCall
  <2>2. n \in Nat /\ data \in Seq(Elems) /\ Len(data) = n /\ call.out \in Seq(Elems)
    BY <2>1, OfLive DEF MatrixSet, Nnz
  <2>3. /\ call.index <= n /\ call.index >= n /\ call.index \in Nat /\ Len(call.out) = call.index
        /\ \A k \in 1..call.index : call.out[k] = data[k]
    BY <1>2, <2>1 DEF JoinedInv, AtEnd
  <2>4. call.index = n
    BY <2>2, <2>3
  <2> QED BY <2>2, <2>3, <2>4, SeqEqual
<1> QED BY <1>1, <1>2 DEF MergeInOrder, DumpWhole, Parts

(* Sums and differences, merges and dumps: every call ends with what its    *)
(* callers rely on, as add, sub, merge and the iterator of coo_matrix.c     *)
(* promise it.                                                             *)
THEOREM CallsAreRight == Spec => []CallsRight
<1> DEFINE Inv == IndInv /\ SumInv /\ Counted /\ DifferenceInv /\ JoinedInv
<1>1. Init => Inv
  <2>1. ASSUME Init PROVE call.op = "none"
    BY <2>1 DEF Init, NoCall
  <2> QED BY <2>1, InitInv DEF SumInv, Counted, DifferenceInv, JoinedInv
<1>2. Inv /\ [Next]_vars => Inv'
  BY Step, SumStep, CountedStep, JoinedStep
<1>3. Inv => CallsRight
  <2> SUFFICES ASSUME Inv
               PROVE  CallsRight
    OBVIOUS
  <2>1. SumSorted
    BY DEF SumInv, SumSorted
  <2> QED BY <2>1, DifferencesRight, MergesRight DEF CallsRight
<1> QED BY <1>1, <1>2, <1>3, PTL DEF Spec

-----------------------------------------------------------------------------
(* The bag of a matrix.                                                    *)

LEMMA BagType ==
  ASSUME NEW data \in Seq(Elems)
  PROVE  BagOf(data) \in [Elems -> Nat] /\ BagOf(data) # Null
<1>1. \A e \in Elems : Times(e, data) \in Nat
  BY TimesUpto, UptoType, LenProperties
<1> QED BY <1>1, CooAssumption DEF BagOf

LEMMA BagEmpty == BagOf(<<>>) = Bags!Empty
BY TimesEmpty DEF BagOf, Bags!Empty

LEMMA BagAppend ==
  ASSUME NEW data \in Seq(Elems), NEW e \in Elems
  PROVE  BagOf(Append(data, e)) = Bags!Plus(BagOf(data), Bags!One(e))
<1>1. \A f \in Elems : Bags!One(e)[f] = Once(f, e)
  BY DEF Bags!One, Bags!Empty, Once
<1>2. \A f \in Elems : Times(f, Append(data, e)) = Times(f, data) + Once(f, e)
  BY TimesAppend
<1> QED BY <1>1, <1>2 DEF BagOf, Bags!Plus

LEMMA PlusAssociates ==
  ASSUME NEW x \in [Elems -> Nat], NEW y \in [Elems -> Nat], NEW z \in [Elems -> Nat]
  PROVE  /\ Bags!Plus(Bags!Plus(x, y), z) = Bags!Plus(x, Bags!Plus(y, z))
         /\ Bags!Plus(x, y) \in [Elems -> Nat]
<1>1. \A e \in Elems : (x[e] + y[e]) + z[e] = x[e] + (y[e] + z[e]) /\ x[e] + y[e] \in Nat
  OBVIOUS
<1> QED BY <1>1 DEF Bags!Plus

LEMMA OneType == \A e \in Elems : Bags!One(e) \in [Elems -> Nat]
BY DEF Bags!One, Bags!Empty

LEMMA AppendTwo ==
  ASSUME NEW data \in Seq(Elems), NEW e \in Elems, NEW f \in Elems
  PROVE  /\ data \o <<e, f>> = Append(Append(data, e), f)
         /\ Append(data, e) \in Seq(Elems)
<1> PICK two, s, t : two = <<e, f>> /\ s = data \o two /\ t = Append(Append(data, e), f)
  OBVIOUS
<1> PICK n : n = Len(data)
  OBVIOUS
<1>1. two \in Seq(Elems) /\ Len(two) = 2 /\ two[1] = e /\ two[2] = f
  OBVIOUS
<1>2. /\ n \in Nat /\ s \in Seq(Elems) /\ Len(s) = n + 2
      /\ \A k \in 1..(n + 2) : s[k] = IF k <= n THEN data[k] ELSE two[k - n]
  BY <1>1, ConcatProperties, LenProperties
<1>3. /\ Append(data, e) \in Seq(Elems) /\ t \in Seq(Elems) /\ Len(t) = n + 2
      /\ t[n + 2] = f /\ t[n + 1] = e /\ \A k \in 1..n : t[k] = data[k]
  <2>1. /\ Append(data, e) \in Seq(Elems) /\ Len(Append(data, e)) = n + 1
        /\ Append(data, e)[n + 1] = e /\ \A k \in 1..n : Append(data, e)[k] = data[k]
    BY AppendProperties, <1>2
  <2>2. /\ t \in Seq(Elems) /\ Len(t) = (n + 1) + 1 /\ t[(n + 1) + 1] = f
        /\ \A k \in 1..(n + 1) : t[k] = Append(data, e)[k]
    BY <2>1, AppendProperties
  <2>3. (n + 1) + 1 = n + 2 /\ n + 1 \in 1..(n + 1) /\ \A k \in 1..n : k \in 1..(n + 1)
    BY <1>2
  <2> QED BY <2>1, <2>2, <2>3
<1>4. ASSUME NEW k \in 1..(n + 2) PROVE s[k] = t[k]
  <2>1. CASE k \in 1..n
    BY <1>2, <1>3, <2>1
  <2>2. CASE k = n + 1
    <3>1. ~(k <= n) /\ k - n = 1
      BY <1>2, <2>2
    <3> QED BY <1>1, <1>2, <1>3, <2>2, <3>1
  <2>3. CASE k = n + 2
    <3>1. ~(k <= n) /\ k - n = 2
      BY <1>2, <2>3
    <3> QED BY <1>1, <1>2, <1>3, <2>3, <3>1
  <2> QED BY <1>2, <2>1, <2>2, <2>3
<1>5. s = t
  BY <1>2, <1>3, <1>4, SeqEqual
<1> QED BY <1>3, <1>5

LEMMA BagAppendTwo ==
  ASSUME NEW data \in Seq(Elems), NEW e \in Elems, NEW f \in Elems
  PROVE  BagOf(data \o <<e, f>>) = Bags!Plus(BagOf(data), Bags!Plus(Bags!One(e), Bags!One(f)))
<1> DEFINE x == BagOf(data)
           y == Bags!One(e)
           z == Bags!One(f)
<1>1. BagOf(Append(data, e)) = Bags!Plus(x, y)
  BY BagAppend
<1>2. BagOf(Append(Append(data, e), f)) = Bags!Plus(BagOf(Append(data, e)), z)
  BY AppendTwo, BagAppend
<1>3. x \in [Elems -> Nat] /\ y \in [Elems -> Nat] /\ z \in [Elems -> Nat]
  BY BagType, OneType
<1> HIDE DEF x, y, z
<1>4. Bags!Plus(Bags!Plus(x, y), z) = Bags!Plus(x, Bags!Plus(y, z))
  BY <1>3, PlusAssociates, ZenonT(30)
<1>5. BagOf(Append(Append(data, e), f)) = Bags!Plus(x, Bags!Plus(y, z))
  BY <1>1, <1>2, <1>4
<1>6. BagOf(data \o <<e, f>>) = Bags!Plus(x, Bags!Plus(y, z))
  BY <1>5, AppendTwo
<1> QED BY <1>6 DEF x, y, z

LEMMA Exchanged ==
  ASSUME NEW W, IsFiniteSet(W), NEW x \in W, NEW y, y \notin W
  PROVE  Cardinality((W \ {x}) \cup {y}) = Cardinality(W)
<1>1. Cardinality(W) \in Nat
  BY FS_CardinalityType
<1>2. Cardinality(W \ {x}) = Cardinality(W) - 1 /\ IsFiniteSet(W \ {x})
  BY FS_RemoveElement
<1>3. y \notin W \ {x}
  OBVIOUS
<1>4. Cardinality((W \ {x}) \cup {y}) = Cardinality(W \ {x}) + 1
  BY <1>2, <1>3, FS_AddElement
<1> QED BY <1>1, <1>2, <1>4

(* Two elements that change places are as often there as before. *)
LEMMA SwapTimes ==
  ASSUME NEW data \in Seq(Elems), NEW m \in 1..Len(data), NEW n \in 1..Len(data), NEW e
  PROVE  Times(e, Swapped(data, m, n)) = Times(e, data)
<1> PICK len, d, s : len = Len(data) /\ d = data /\ s = Swapped(data, m, n)
  OBVIOUS
<1>1. /\ len \in Nat /\ DOMAIN d = 1..len /\ DOMAIN s = 1..len
      /\ m \in 1..len /\ n \in 1..len
      /\ s[m] = d[n] /\ s[n] = d[m] /\ \A k \in 1..len : k \notin {m, n} => s[k] = d[k]
  <2>1. len \in Nat /\ d \in [1..len -> Elems] /\ m \in 1..len /\ n \in 1..len
    BY LenProperties
  <2>2. s = [d EXCEPT ![m] = d[n], ![n] = d[m]]
    BY DEF Swapped
  <2> QED BY <2>1, <2>2
<1>2. PICK W, V : W = {k \in 1..len : d[k] = e} /\ V = {k \in 1..len : s[k] = e}
  OBVIOUS
<1>3. Times(e, data) = Cardinality(W) /\ Times(e, Swapped(data, m, n)) = Cardinality(V)
  BY <1>1, <1>2 DEF Times
<1>4. IsFiniteSet(W)
  <2>1. IsFiniteSet(1..len) /\ W \in SUBSET (1..len)
    BY <1>1, <1>2, FS_Interval
  <2> QED BY <2>1, FS_Subset
<1>5. CASE d[m] = d[n] \/ (d[m] # e /\ d[n] # e)
  <2>1. V = W
    BY <1>1, <1>2, <1>5
  <2> QED BY <1>3, <2>1
<1>6. CASE d[m] = e /\ d[n] # e
  <2>1. m \in W /\ n \notin W /\ V = (W \ {m}) \cup {n}
    BY <1>1, <1>2, <1>6
  <2> QED BY <1>3, <1>4, <2>1, Exchanged
<1>7. CASE d[n] = e /\ d[m] # e
  <2>1. n \in W /\ m \notin W /\ V = (W \ {n}) \cup {m}
    BY <1>1, <1>2, <1>7
  <2> QED BY <1>3, <1>4, <2>1, Exchanged
<1> QED BY <1>5, <1>6, <1>7

(* Of two sequences, one behind the other. *)
LEMMA TimesConcat ==
  ASSUME NEW s \in Seq(Elems), NEW t \in Seq(Elems), NEW e
  PROVE  Times(e, s \o t) = Times(e, s) + Times(e, t)
<1> PICK m, n, d : m = Len(s) /\ n = Len(t) /\ d = s \o t
  OBVIOUS
<1>1. /\ m \in Nat /\ n \in Nat /\ d \in Seq(Elems) /\ Len(d) = m + n
      /\ \A k \in 1..m : d[k] = s[k]
      /\ \A k \in 1..n : d[m + k] = t[k]
  <2>1. /\ m \in Nat /\ n \in Nat /\ d \in Seq(Elems) /\ Len(d) = m + n
        /\ \A k \in 1..(m + n) : d[k] = IF k <= m THEN s[k] ELSE t[k - m]
    BY ConcatProperties, LenProperties
  <2>2. ASSUME NEW k \in 1..n PROVE d[m + k] = t[k]
    <3>1. m + k \in 1..(m + n) /\ ~(m + k <= m) /\ (m + k) - m = k
      BY <2>1
    <3> QED BY <2>1, <3>1
  <2>3. \A k \in 1..m : k \in 1..(m + n) /\ k <= m
    BY <2>1
  <2> QED BY <2>1, <2>2, <2>3
<1> DEFINE S == {k \in Nat : k <= n => Upto(e, d, m + k) = Upto(e, s, m) + Upto(e, t, k)}
<1>2. 0 \in S
  <2>1. Upto(e, d, m) = Upto(e, s, m) /\ Upto(e, t, 0) = 0 /\ Upto(e, s, m) \in Nat
    BY <1>1, UptoSame, UptoZero, UptoType, ZenonT(30)
  <2>2. m + 0 = m
    BY <1>1
  <2> QED BY <2>1, <2>2
<1>3. ASSUME NEW k \in 1..n, k - 1 \in S PROVE k \in S
  <2> PICK j : j = k - 1
    OBVIOUS
  <2>1. /\ j \in Nat /\ j + 1 = k /\ j <= n /\ m + j \in Nat /\ (m + j) + 1 = m + k
    BY <1>1
  <2>2. Upto(e, d, m + j) = Upto(e, s, m) + Upto(e, t, j)
    BY <1>3, <2>1
  <2>3. Upto(e, d, (m + j) + 1) = Upto(e, d, m + j) + Once(e, d[(m + j) + 1])
    BY <2>1, UptoNext
  <2>4. Upto(e, t, j + 1) = Upto(e, t, j) + Once(e, t[j + 1])
    BY <2>1, UptoNext, SMTT(30)
  <2>5. d[m + k] = t[k]
    BY <1>1
  <2> PICK p, q, r, o : p = Upto(e, s, m) /\ q = Upto(e, t, j) /\ o = Once(e, t[k])
                        /\ r = Upto(e, d, m + j)
    OBVIOUS
  <2>6. p \in Nat /\ q \in Nat /\ o \in Nat
    BY <1>1, <2>1, UptoType DEF Once
  <2>7. Upto(e, d, m + k) = r + o /\ Upto(e, t, k) = q + o /\ r = p + q
    BY <2>1, <2>2, <2>3, <2>4, <2>5
  <2>8. Upto(e, d, m + k) = p + Upto(e, t, k)
    BY <2>6, <2>7
  <2> QED BY <2>8
<1> HIDE DEF S
<1>4. 0..n \subseteq S
  BY <1>1, <1>2, <1>3, UpTo
<1>5. \A k \in S : k <= n => Upto(e, d, m + k) = Upto(e, s, m) + Upto(e, t, k)
  BY DEF S
<1>6. Upto(e, d, m + n) = Upto(e, s, m) + Upto(e, t, n)
  <2>1. n \in 0..n /\ n <= n
    BY <1>1
  <2> QED BY <1>4, <1>5, <2>1
<1> QED BY <1>1, <1>6, TimesUpto

LEMMA BagConcat ==
  ASSUME NEW s \in Seq(Elems), NEW t \in Seq(Elems)
  PROVE  BagOf(s \o t) = Bags!Plus(BagOf(s), BagOf(t))
BY TimesConcat DEF BagOf, Bags!Plus

-----------------------------------------------------------------------------
(* What a step does to the bags.                                           *)

Mapped == Bags!MNext \/ UNCHANGED <<AllBags, Task>>

(* An operation without a loop changes one bag. *)
LEMMA OneBag ==
  ASSUME IndInv, NEW m \in Matrices, NEW x \in MatrixSet \cup {Null}, Becomes(m, x),
         call.op \notin {"add", "sub", "count", "merge"},
         call'.op \notin {"add", "sub", "count", "merge"}
  PROVE  /\ Task = Bags!NoTask /\ Task' = Bags!NoTask
         /\ \A n \in Matrices \ {m} : AllBags'[n] = AllBags[n]
         /\ AllBags'[m] = IF x = Null THEN Null ELSE BagOf(x.data)
         /\ AllBags[m] = IF coo[m] = Null THEN Null ELSE BagOf(coo[m].data)
         /\ AllBags'[m] = AllBags[m] => UNCHANGED AllBags
         /\ DOMAIN AllBags = Matrices /\ DOMAIN AllBags' = Matrices
<1>1. Task = Bags!NoTask /\ Task' = Bags!NoTask /\ ~Pending /\ ~Pending'
  BY DEF Task, Pending, Bags!NoTask, NoCall
<1>2. coo \in [Matrices -> {Null} \cup MatrixSet] /\ coo' = [coo EXCEPT ![m] = x]
  BY DEF IndInv, TypeOK, MatrixSet, Becomes
<1>3. \A n \in Matrices : coo'[n] = IF n = m THEN x ELSE coo[n]
  BY <1>2
<1>4. \A n \in Matrices : AllBags[n] = IF coo[n] = Null THEN Null ELSE BagOf(coo[n].data)
  BY <1>1 DEF AllBags, BagAt, Live
<1>5. \A n \in Matrices : AllBags'[n] = IF coo'[n] = Null THEN Null ELSE BagOf(coo'[n].data)
  BY <1>1 DEF AllBags, BagAt, Live, BagOf
<1>6. \A n \in Matrices \ {m} : AllBags'[n] = AllBags[n]
  BY <1>3, <1>4, <1>5
<1>7. AllBags = [n \in Matrices |-> AllBags[n]] /\ AllBags' = [n \in Matrices |-> AllBags'[n]]
  BY DEF AllBags
<1>8. AllBags'[m] = AllBags[m] => UNCHANGED AllBags
  <2> SUFFICES ASSUME AllBags'[m] = AllBags[m] PROVE AllBags' = AllBags
    OBVIOUS
  <2>1. \A n \in Matrices : AllBags'[n] = AllBags[n]
    BY <1>6
  <2> QED BY <1>7, <2>1
<1> QED BY <1>1, <1>3, <1>4, <1>5, <1>6, <1>7, <1>8

LEMMA Changed ==
  ASSUME IndInv, NEW m \in Matrices, NEW x \in MatrixSet \cup {Null}, Becomes(m, x),
         Idle, UNCHANGED call,
         NEW b, b = IF x = Null THEN Null ELSE BagOf(x.data),
         b \in Bags!Reachable(m) \/ b = AllBags[m]
  PROVE  Mapped
<1>1. call.op = "none" /\ call'.op = "none"
  BY DEF Idle, NoCall
<1>2. /\ Task = Bags!NoTask /\ Task' = Bags!NoTask
      /\ \A n \in Matrices \ {m} : AllBags'[n] = AllBags[n]
      /\ AllBags'[m] = b
      /\ AllBags'[m] = AllBags[m] => UNCHANGED AllBags
  BY <1>1, OneBag
<1>3. CASE b \in Bags!Reachable(m)
  BY <1>2, <1>3 DEF Mapped, Bags!MNext, Bags!Change
<1>4. CASE b = AllBags[m]
  <2>1. UNCHANGED <<AllBags, Task>>
    BY <1>2, <1>4
  <2> QED BY <2>1 DEF Mapped
<1> QED BY <1>3, <1>4

(* Which bags an operation without a loop makes of that of a matrix. *)
LEMMA InReach ==
  ASSUME IndInv, Idle, NEW m \in Matrices
  PROVE  /\ Bags!Empty \in Bags!Reachable(m) /\ Null \in Bags!Reachable(m)
         /\ m \in Live =>
              /\ coo[m].data \in Seq(Elems) /\ AllBags[m] = BagOf(coo[m].data)
              /\ \A e \in Elems : Bags!Plus(BagOf(coo[m].data), Bags!One(e)) \in Bags!Reachable(m)
              /\ \A e, f \in Elems :
                   Bags!Plus(BagOf(coo[m].data), Bags!Plus(Bags!One(e), Bags!One(f)))
                     \in Bags!Reachable(m)
<1>1. Bags!Empty \in Bags!Reachable(m) /\ Null \in Bags!Reachable(m)
  BY DEF Bags!Reachable
<1>2. ASSUME m \in Live
      PROVE  coo[m].data \in Seq(Elems) /\ AllBags[m] = BagOf(coo[m].data) /\ m \in Bags!Live
  <2>1. coo[m].data \in Seq(Elems) /\ coo[m] # Null
    BY <1>2, OfLive DEF MatrixSet, Live
  <2>2. ~Pending
    BY DEF Idle, NoCall, Pending
  <2>3. AllBags[m] = BagOf(coo[m].data)
    BY <1>2, <2>2 DEF AllBags, BagAt
  <2>4. AllBags[m] # Null
    BY <2>1, <2>3, BagType
  <2> QED BY <2>1, <2>3, <2>4 DEF Bags!Live
<1>3. ASSUME m \in Live, NEW x \in {Bags!One(e) : e \in Elems}
                \cup {Bags!Plus(Bags!One(e), Bags!One(f)) : e, f \in Elems}
      PROVE  Bags!Plus(AllBags[m], x) \in Bags!Reachable(m)
  BY <1>2, <1>3 DEF Bags!Reachable
<1> QED BY <1>1, <1>2, <1>3

LEMMA OperationMapped ==
  ASSUME IndInv, NEW m \in Matrices,
         \/ \E c \in Capacities : Create(m, c) \/ Initialise(m, c) \/ Reset(m, c)
         \/ Clear(m) \/ Free(m)
         \/ \E e \in Elems : Insert(m, e)
         \/ \E e, f \in Elems : InsertElems(m, <<e, f>>)
  PROVE  Mapped
<1>1. Idle /\ UNCHANGED call
  BY DEF Create, Initialise, Reset, Clear, Free, Insert, InsertElems
<1>2. ASSUME NEW x \in MatrixSet, x.data = <<>>, Becomes(m, x)
      PROVE  Mapped
  <2>1. x # Null /\ BagOf(x.data) = Bags!Empty
    BY <1>2, NullIsNoMatrix, BagEmpty
  <2> QED BY <1>1, <1>2, <2>1, Changed, InReach
<1>3. ASSUME NEW c \in Capacities, Create(m, c) \/ Initialise(m, c) \/ Reset(m, c) PROVE Mapped
  <2>1. c \in Nat
    BY CooAssumption
  <2>2. CASE Create(m, c)
    BY <1>2, <2>1, <2>2, NewMatrix DEF Create, Matrix
  <2>3. CASE Initialise(m, c)
    <3>1. coo[m] \in MatrixSet /\ Fits(coo[m]) /\ c <= coo[m].size /\ coo[m].capacity <= coo[m].size
      BY <2>3, OfLive DEF Initialise, Fits
    <3> DEFINE x == [coo[m] EXCEPT !.capacity = c, !.data = <<>>]
    <3>2. x \in MatrixSet
      BY <2>1, <3>1, Emptied
    <3>3. x.data = <<>>
      BY <3>1 DEF MatrixSet
    <3> QED BY <1>2, <2>3, <3>2, <3>3 DEF Initialise
  <2>4. CASE Reset(m, c)
    <3>1. coo[m] \in MatrixSet /\ Fits(coo[m])
      BY <2>4, OfLive DEF Reset
    <3>2. Resized(coo[m], c) \in MatrixSet
      BY <2>1, <3>1, NewMatrix DEF Resized
    <3> DEFINE x == [Resized(coo[m], c) EXCEPT !.data = <<>>]
    <3>3. x \in MatrixSet /\ x.data = <<>>
      BY <3>2, EmptySeq DEF MatrixSet
    <3> QED BY <1>2, <2>4, <3>3 DEF Reset
  <2> QED BY <1>3, <2>2, <2>3, <2>4
<1>4. CASE Clear(m)
  <2>1. coo[m] \in MatrixSet
    BY <1>4, OfLive DEF Clear
  <2> DEFINE x == [coo[m] EXCEPT !.data = <<>>]
  <2>2. x \in MatrixSet /\ x.data = <<>>
    BY <2>1, EmptySeq DEF MatrixSet
  <2> QED BY <1>2, <1>4, <2>2 DEF Clear
<1>5. CASE Free(m)
  BY <1>1, <1>5, Changed, InReach DEF Free
<1>6. ASSUME NEW e \in Elems, Insert(m, e) PROVE Mapped
  <2>1. /\ m \in Live /\ coo[m] \in MatrixSet /\ Fits(coo[m])
        /\ Becomes(m, Inserted(coo[m], e))
    BY <1>6, OfLive DEF Insert
  <2>2. PICK x : x = Inserted(coo[m], e)
    OBVIOUS
  <2>3. x \in MatrixSet /\ x # Null
    BY <2>1, <2>2, InsertFits, NullIsNoMatrix
  <2>4. CASE Room(coo[m], 1)
    <3>1. x.data = Append(coo[m].data, e) /\ coo[m].data \in Seq(Elems)
      BY <2>1, <2>2, <2>4 DEF Inserted, MatrixSet
    <3>2. BagOf(x.data) = Bags!Plus(BagOf(coo[m].data), Bags!One(e))
      BY <3>1, BagAppend
    <3>3. BagOf(x.data) \in Bags!Reachable(m)
      BY <1>1, <2>1, <3>2, InReach
    <3> QED BY <1>1, <2>1, <2>2, <2>3, <3>3, Changed
  <2>5. CASE ~Room(coo[m], 1)
    <3>1. x = coo[m]
      BY <2>2, <2>5 DEF Inserted
    <3>2. BagOf(x.data) = AllBags[m]
      BY <1>1, <2>1, <3>1, InReach
    <3> QED BY <1>1, <2>1, <2>2, <2>3, <3>2, Changed
  <2> QED BY <2>4, <2>5
<1>7. ASSUME NEW e \in Elems, NEW f \in Elems, InsertElems(m, <<e, f>>) PROVE Mapped
  <2>1. m \in Live /\ coo[m] \in MatrixSet /\ coo[m].data \in Seq(Elems)
    BY <1>7, OfLive DEF InsertElems, MatrixSet
  <2>2. PICK x : x = [coo[m] EXCEPT !.data = coo[m].data \o <<e, f>>]
    OBVIOUS
  <2>3. coo[m].data \o <<e, f>> \in Seq(Elems) /\ Becomes(m, x)
    BY <1>7, <2>1, <2>2, ConcatProperties, <<e, f>> \in Seq(Elems) DEF InsertElems
  <2>4. x \in MatrixSet /\ x # Null /\ x.data = coo[m].data \o <<e, f>>
    <3>1. x \in MatrixSet /\ x.data = coo[m].data \o <<e, f>>
      BY <2>1, <2>2, <2>3 DEF MatrixSet
    <3> QED BY <3>1, NullIsNoMatrix
  <2>5. BagOf(x.data) = Bags!Plus(BagOf(coo[m].data), Bags!Plus(Bags!One(e), Bags!One(f)))
    BY <2>1, <2>4, BagAppendTwo
  <2>6. BagOf(x.data) \in Bags!Reachable(m)
    BY <1>1, <2>1, <2>5, InReach
  <2> QED BY <1>1, <2>3, <2>4, <2>6, Changed
<1> QED BY <1>3, <1>4, <1>5, <1>6, <1>7

-----------------------------------------------------------------------------
(* Calls whose result is awaited.                                          *)

(* What add, sub and merge begin with: no bag changes, although the matrix *)
(* of the result may be there already.                                     *)
LEMMA Asked ==
  ASSUME IndInv, Idle, NEW r \in Matrices \ Live, Pending', call'.r = r,
         NEW x \in MatrixSet, Becomes(r, x) \/ UNCHANGED coo
  PROVE  /\ UNCHANGED AllBags /\ Task = Bags!NoTask
         /\ r \notin Bags!Live /\ \A m \in Live : m \in Bags!Live
<1>1. /\ Task = Bags!NoTask /\ ~Pending
  BY DEF Task, Idle, Pending, Bags!NoTask, NoCall
<1>2. /\ coo \in [Matrices -> {Null} \cup MatrixSet]
      /\ \A n \in Matrices \ {r} : coo'[n] = coo[n]
  BY DEF IndInv, TypeOK, MatrixSet, Becomes
<1>3. \A n \in Matrices : AllBags[n] = IF coo[n] = Null THEN Null ELSE BagOf(coo[n].data)
  BY <1>1 DEF AllBags, BagAt, Live
<1>4. \A n \in Matrices : AllBags'[n] = IF coo'[n] = Null \/ n = r THEN Null ELSE BagOf(coo'[n].data)
  BY DEF AllBags, BagAt, Live, BagOf
<1>5. coo[r] = Null
  BY DEF Live
<1>6. \A n \in Matrices : AllBags'[n] = AllBags[n]
  BY <1>2, <1>3, <1>4, <1>5
<1>7. AllBags = [n \in Matrices |-> AllBags[n]] /\ AllBags' = [n \in Matrices |-> AllBags'[n]]
  BY DEF AllBags
<1>8. AllBags' = AllBags
  BY <1>6, <1>7
<1>9. ASSUME NEW m \in Live PROVE m \in Bags!Live
  <2>1. m \in Matrices /\ coo[m] # Null /\ coo[m].data \in Seq(Elems)
    BY OfLive DEF Live, MatrixSet
  <2>2. AllBags[m] = BagOf(coo[m].data) /\ AllBags[m] # Null
    BY <1>3, <2>1, BagType
  <2> QED BY <2>1, <2>2 DEF Bags!Live
<1>10. AllBags[r] = Null
  BY <1>3, <1>5
<1> QED BY <1>1, <1>8, <1>9, <1>10 DEF Bags!Live

LEMMA AskMapped ==
  ASSUME IndInv, NEW r \in Matrices, NEW a \in Matrices, NEW b \in Matrices,
         BeginAdd(r, a, b) \/ BeginSub(r, a, b)
  PROVE  Mapped
<1>1. PICK c, op : /\ Idle /\ r \notin Live /\ a \in Live /\ b \in Live /\ Becomes(r, Matrix(c))
                   /\ op \in {"add", "sub"}
                   /\ call' = [op |-> op, r |-> r, a |-> a, b |-> b, i |-> 0, j |-> 0]
                   /\ c = AddCapacity(a, b) \/ c = coo[b].capacity
  BY DEF BeginAdd, BeginSub
<1>2. Matrix(c) \in MatrixSet
  <2>1. c \in Nat
    BY <1>1, OfLive DEF AddCapacity, MatrixSet
  <2> QED BY <2>1, NewMatrix
<1>3. Pending' /\ call'.r = r
  BY <1>1 DEF Pending
<1>4. /\ UNCHANGED AllBags /\ Task = Bags!NoTask
      /\ r \notin Bags!Live /\ a \in Bags!Live /\ b \in Bags!Live
  BY <1>1, <1>2, <1>3, Asked
<1>5. Task' = [op |-> op, r |-> r, a |-> a, b |-> b]
  BY <1>1 DEF Task
<1>6. /\ Task' \in [op : {"add", "sub"}, r : Matrices \ Bags!Live, a : Bags!Live, b : Bags!Live]
  BY <1>1, <1>4, <1>5
<1>7. Task' # Bags!NoTask
  <2>1. Task'.op \in {"add", "sub"} /\ Bags!NoTask.op = "none"
    BY <1>1, <1>5 DEF Bags!NoTask
  <2> QED BY <2>1
<1>8. Bags!Ask
  BY <1>4, <1>6, <1>7 DEF Bags!Ask
<1> QED BY <1>8 DEF Mapped, Bags!MNext

LEMMA AskMergeMapped ==
  ASSUME IndInv, NEW r \in Matrices, NEW list \in Lists, BeginMerge(r, list)
  PROVE  Mapped
<1>1. /\ Idle /\ r \notin Live /\ UNCHANGED coo
      /\ call' = [op |-> "count", r |-> r, list |-> list, i |-> 0, ends |-> <<0>>]
      /\ \A k \in DOMAIN list : list[k] \in Live \cup {Null}
  BY DEF BeginMerge
<1>2. Pending' /\ call'.r = r
  BY <1>1 DEF Pending
<1>3. Matrix(0) \in MatrixSet
  BY NewMatrix
<1>4. /\ UNCHANGED AllBags /\ Task = Bags!NoTask
      /\ r \notin Bags!Live /\ \A m \in Live : m \in Bags!Live
  BY <1>1, <1>2, <1>3, Asked
<1>5. Task' = [op |-> "merge", r |-> r, list |-> list]
  BY <1>1 DEF Task
<1>6. Range(list) \subseteq Bags!Live \cup {Null}
  BY <1>1, <1>4 DEF Range
<1>7. /\ Task' \in [op : {"merge"}, r : Matrices \ Bags!Live,
                    list : {l \in Lists : Range(l) \subseteq Bags!Live \cup {Null}}]
  BY <1>4, <1>5, <1>6
<1>8. Task' # Bags!NoTask
  <2>1. Task'.op = "merge" /\ Bags!NoTask.op = "none"
    BY <1>5 DEF Bags!NoTask
  <2> QED BY <2>1
<1>9. Bags!Ask
  BY <1>4, <1>7, <1>8 DEF Bags!Ask, Bags!Range, Range
<1> QED BY <1>9 DEF Mapped, Bags!MNext

(* Until the call returns, nobody sees the result. *)
LEMMA Held ==
  ASSUME IndInv, Pending, Pending', call'.r = call.r, NEW x,
         Becomes(call.r, x) \/ UNCHANGED coo, UNCHANGED Task
  PROVE  Mapped
<1>1. coo \in [Matrices -> {Null} \cup MatrixSet]
  BY DEF IndInv, TypeOK, MatrixSet
<1>2. \A n \in Matrices : n # call.r => coo'[n] = coo[n]
  BY <1>1 DEF Becomes
<1>3. \A n \in Matrices :
        AllBags[n] = IF coo[n] = Null \/ n = call.r THEN Null ELSE BagOf(coo[n].data)
  BY DEF AllBags, BagAt, Live
<1>4. \A n \in Matrices :
        AllBags'[n] = IF coo'[n] = Null \/ n = call.r THEN Null ELSE BagOf(coo'[n].data)
  BY DEF AllBags, BagAt, Live, BagOf
<1>5. \A n \in Matrices : AllBags'[n] = AllBags[n]
  BY <1>2, <1>3, <1>4
<1>6. AllBags = [n \in Matrices |-> AllBags[n]] /\ AllBags' = [n \in Matrices |-> AllBags'[n]]
  BY DEF AllBags
<1> QED BY <1>5, <1>6 DEF Mapped

LEMMA TurnMapped ==
  ASSUME IndInv, AddFromA \/ AddFromB \/ SubSkip \/ SubKeep
  PROVE  Mapped
<1>1. call.op \in {"add", "sub"} /\ call \in SumCalls
  BY SumLocals DEF AddFromA, AddFromB, SubSkip, SubKeep
<1>2. \E x : Becomes(call.r, x) \/ UNCHANGED coo
  BY DEF AddFromA, AddFromB, SubSkip, SubKeep
<1>4. /\ call'.op = call.op /\ call'.r = call.r /\ call'.a = call.a /\ call'.b = call.b
  BY <1>1 DEF AddFromA, AddFromB, SubSkip, SubKeep, SumCalls
<1>5. UNCHANGED Task /\ Pending /\ Pending'
  BY <1>1, <1>4 DEF Task, Pending
<1> QED BY <1>2, <1>4, <1>5, Held

LEMMA MergeTurnMapped ==
  ASSUME IndInv, MergeCount \/ MergeCreate \/ MergeCopy
  PROVE  Mapped
<1>1. call.op \in {"count", "merge"} /\ call \in MergeCalls
  BY MergeLocals DEF MergeCount, MergeCreate, MergeCopy
<1>2. \E x : Becomes(call.r, x) \/ UNCHANGED coo
  BY DEF MergeCount, MergeCreate, MergeCopy
<1>3. /\ call'.op \in {"count", "merge"} /\ call'.r = call.r /\ call'.list = call.list
  BY <1>1 DEF MergeCalls, MergeCount, MergeCreate, MergeCopy
<1>4. UNCHANGED Task /\ Pending /\ Pending'
  BY <1>1, <1>3 DEF Task, Pending
<1> QED BY <1>2, <1>3, <1>4, Held

(* What a return hands over. *)
LEMMA Returned ==
  ASSUME IndInv, Pending, call.r \in Live, Return, UNCHANGED coo
  PROVE  /\ Task' = Bags!NoTask
         /\ AllBags' = [AllBags EXCEPT ![call.r] = BagOf(coo[call.r].data)]
         /\ \A m \in Live \ {call.r} : AllBags[m] = BagOf(coo[m].data)
<1>1. call'.op = "none" /\ Task' = Bags!NoTask /\ ~Pending'
  BY DEF Return, Task, Pending, Bags!NoTask, NoCall
<1>2. call.r \in Matrices /\ coo[call.r] # Null
  BY DEF Live
<1>3. \A n \in Matrices :
        AllBags[n] = IF coo[n] = Null \/ n = call.r THEN Null ELSE BagOf(coo[n].data)
  BY DEF AllBags, BagAt, Live
<1>4. \A n \in Matrices : AllBags'[n] = IF coo[n] = Null THEN Null ELSE BagOf(coo[n].data)
  BY <1>1 DEF AllBags, BagAt, Live, BagOf
<1>5. \A n \in Matrices :
        AllBags'[n] = IF n = call.r THEN BagOf(coo[call.r].data) ELSE AllBags[n]
  BY <1>2, <1>3, <1>4
<1>6. AllBags = [n \in Matrices |-> AllBags[n]] /\ AllBags' = [n \in Matrices |-> AllBags'[n]]
  BY DEF AllBags
<1>7. AllBags' = [AllBags EXCEPT ![call.r] = BagOf(coo[call.r].data)]
  BY <1>2, <1>5, <1>6
<1> QED BY <1>1, <1>3, <1>7 DEF Live

LEMMA AddedMapped ==
  ASSUME IndInv, Counted, Added
  PROVE  Mapped
<1>1. /\ call.op = "add" /\ call.i = Len(A) /\ call.j = Len(B) /\ Return /\ UNCHANGED coo
      /\ call.r \in Live \ {call.a, call.b} /\ call.a \in Live /\ call.b \in Live
      /\ A \in Seq(Elems) /\ B \in Seq(Elems)
  BY SumLocals DEF Added
<1>2. /\ Task' = Bags!NoTask
      /\ AllBags' = [AllBags EXCEPT ![call.r] = BagOf(coo[call.r].data)]
      /\ AllBags[call.a] = BagOf(A) /\ AllBags[call.b] = BagOf(B)
  BY <1>1, Returned DEF Pending, A, B
<1>3. \A e \in Elems : Times(e, coo[call.r].data) = Times(e, A) + Times(e, B)
  BY <1>1, TimesUpto DEF Counted
<1>4. BagOf(coo[call.r].data) = Bags!Plus(BagOf(A), BagOf(B))
  BY <1>3 DEF BagOf, Bags!Plus
<1>5. Task.op = "add" /\ Task.r = call.r /\ Task.a = call.a /\ Task.b = call.b
  BY <1>1 DEF Task
<1>6. Bags!Sum
  BY <1>2, <1>4, <1>5 DEF Bags!Sum, Bags!Becomes
<1> QED BY <1>2, <1>6 DEF Mapped, Bags!MNext, Bags!Finish

LEMMA SubtractedMapped ==
  ASSUME IndInv, Counted, Subtracted
  PROVE  Mapped
<1>1. /\ call.op = "sub" /\ call.j = Len(B) /\ Return /\ UNCHANGED coo
      /\ call.r \in Live \ {call.a, call.b} /\ call.a \in Live /\ call.b \in Live
      /\ A \in Seq(Elems) /\ B \in Seq(Elems) /\ coo[call.r].data \in Seq(Elems)
      /\ call.i \in 0..Len(A)
  <2>1. call.op = "sub" /\ call.j = Len(B) /\ Return /\ UNCHANGED coo
    BY DEF Subtracted
  <2>2. /\ call.r \in Live \ {call.a, call.b} /\ call.a \in Live /\ call.b \in Live
        /\ A \in Seq(Elems) /\ B \in Seq(Elems) /\ call.i \in Nat
    BY <2>1, SumLocals
  <2>3. coo[call.r].data \in Seq(Elems)
    BY <2>2, OfLive DEF MatrixSet
  <2>4. call.i <= Len(A)
    BY <2>1 DEF IndInv, NothingDropped
  <2> QED BY <2>1, <2>2, <2>3, <2>4, LenProperties
<1>2. /\ Task' = Bags!NoTask
      /\ AllBags' = [AllBags EXCEPT ![call.r] = BagOf(coo[call.r].data)]
      /\ AllBags[call.a] = BagOf(A) /\ AllBags[call.b] = BagOf(B)
  BY <1>1, Returned DEF Pending, A, B
<1>3. PICK rest : rest = BagOf(coo[call.r].data)
  OBVIOUS
<1>4. rest \in [Elems -> Nat]
  BY <1>1, <1>3, BagType
<1>5. ASSUME NEW e \in Elems
      PROVE  rest[e] <= BagOf(B)[e] /\ BagOf(B)[e] <= rest[e] + BagOf(A)[e]
  <2>1. PICK n, m, b, a : /\ n = Times(e, coo[call.r].data) /\ m = Upto(e, A, call.i)
                          /\ b = Times(e, B) /\ a = Times(e, A)
    OBVIOUS
  <2>2. n + m = b
    BY <1>1, <2>1, TimesUpto DEF Counted
  <2>3. n \in Nat /\ b \in Nat /\ a \in Nat
    BY <1>1, <2>1, TimesUpto
  <2>4. m \in Nat /\ m <= a
    <3>1. A \in Seq(Elems) /\ call.i \in 0..Len(A) /\ call.i \in Nat
      BY <1>1, LenProperties
    <3>2. Upto(e, A, call.i) <= Times(e, A) /\ Upto(e, A, call.i) \in Nat
      BY <3>1, UptoWithin, UptoType
    <3> QED BY <2>1, <3>2
  <2>5. n <= b /\ b <= n + a
    BY <2>2, <2>3, <2>4
  <2> QED BY <1>3, <2>1, <2>5 DEF BagOf
<1>6. Bags!Within(rest, BagOf(B)) /\ Bags!Within(BagOf(B), Bags!Plus(rest, BagOf(A)))
  BY <1>5 DEF Bags!Within, Bags!Plus
<1>7. Task.op = "sub" /\ Task.r = call.r /\ Task.a = call.a /\ Task.b = call.b
  BY <1>1 DEF Task
<1>8. AllBags'[call.r] = rest
  <2>1. call.r \in Matrices /\ DOMAIN AllBags = Matrices
    BY <1>1 DEF Live, AllBags
  <2> QED BY <1>2, <1>3, <2>1
<1>9. Bags!Difference
  BY <1>2, <1>3, <1>4, <1>6, <1>7, <1>8 DEF Bags!Difference, Bags!Becomes
<1> QED BY <1>2, <1>9 DEF Mapped, Bags!MNext, Bags!Finish

-----------------------------------------------------------------------------
(* The bag of a merge.                                                     *)

(* One more matrix of the list. *)
Taken(g, list, bags, n) ==
  IF n = 0 THEN Bags!Empty
  ELSE IF list[n] = Null THEN g[n - 1] ELSE Bags!Plus(g[n - 1], bags[list[n]])

(* What the recursion of Merge computes. *)
Tally(list, bags, len) == CHOOSE g : g = [n \in 0..len |-> Taken(g, list, bags, n)]

LEMMA TallyWalk ==
  ASSUME NEW list, NEW bags, NEW len \in Nat
  PROVE  \A n \in 0..len :
           Tally(list, bags, len)[n] = Taken(Tally(list, bags, len), list, bags, n)
<1> PICK f : f = Tally(list, bags, len)
  OBVIOUS
<1> DEFINE Walk(g, m) == g = [n \in 0..m |-> Taken(g, list, bags, n)]
           Bad == {m \in Nat : ~\E g : Walk(g, m)}
<1>2. \E g : Walk(g, 0)
  <2> DEFINE g == [n \in 0..0 |-> Bags!Empty]
  <2>1. \A n \in 0..0 : Taken(g, list, bags, n) = Bags!Empty
    BY DEF Taken
  <2>2. Walk(g, 0)
    BY <2>1
  <2> QED BY <2>2
<1>3. ASSUME NEW m \in Nat, NEW g, Walk(g, m)
      PROVE  \E h : Walk(h, m + 1)
  <2> DEFINE h == [n \in 0..(m + 1) |-> Taken(g, list, bags, n)]
  <2>1. ASSUME NEW n \in 0..m PROVE h[n] = g[n]
    <3>1. h[n] = Taken(g, list, bags, n) /\ g[n] = Taken(g, list, bags, n)
      BY <1>3
    <3> QED BY <3>1
  <2> HIDE DEF h
  <2>2. ASSUME NEW n \in 0..(m + 1) PROVE Taken(h, list, bags, n) = Taken(g, list, bags, n)
    <3>1. CASE n = 0
      BY <3>1 DEF Taken
    <3>2. CASE n # 0
      <4>1. n - 1 \in 0..m
        BY <3>2
      <4>2. h[n - 1] = g[n - 1]
        BY <2>1, <4>1
      <4> QED BY <3>2, <4>2 DEF Taken
    <3> QED BY <3>1, <3>2
  <2>3. Walk(h, m + 1)
    BY <2>2 DEF h
  <2> QED BY <2>3
<1> HIDE DEF Walk
<1>4. Bad = {}
  <2> SUFFICES ASSUME Bad # {} PROVE FALSE
    OBVIOUS
  <2>1. PICK m \in Bad : \A k \in Bad : m <= k
    BY Least
  <2>2. m # 0 /\ m \in Nat
    BY <1>2, <2>1
  <2>3. PICK k : k = m - 1
    OBVIOUS
  <2>4. k \in Nat /\ k + 1 = m /\ ~(m <= k)
    BY <2>2, <2>3
  <2>5. PICK g : Walk(g, k)
    BY <2>1, <2>4
  <2>6. \E h : Walk(h, k + 1)
    BY <1>3, <2>4, <2>5
  <2> QED BY <2>1, <2>4, <2>6
<1>5. Walk(f, len)
  <2>1. \E g : Walk(g, len)
    BY <1>4
  <2>2. f = (CHOOSE g : Walk(g, len))
    BY DEF Walk, Tally
  <2> QED BY <2>1, <2>2
<1> QED BY <1>5 DEF Walk

LEMMA JoinsExist ==
  ASSUME NEW parts \in Seq(Seq(Elems))
  PROVE  \E f : Joins(f, parts, Len(parts))
<1>1. Len(parts) \in Nat
  BY LenProperties
<1>2. CASE Len(parts) = 0
  <2>1. Joins([k \in {0} |-> <<>>], parts, 0)
    BY DEF Joins
  <2> QED BY <1>2, <2>1
<1>3. CASE Len(parts) # 0
  <2>1. Len(parts) \in Nat \ {0} /\ parts[1] \in Seq(Elems)
    BY <1>1, <1>3, ElementOfSeq
  <2> QED BY <2>1, FlattenJoins
<1> QED BY <1>2, <1>3

(* The bag of joined parts is the sum of their bags. *)
LEMMA TallyBags ==
  ASSUME NEW parts \in Seq(Seq(Elems)), NEW n, n = Len(parts),
         NEW list, NEW bags,
         \A k \in 1..n : list[k] = Null => parts[k] = <<>>,
         \A k \in 1..n : list[k] # Null => bags[list[k]] = BagOf(parts[k]),
         NEW f, Joins(f, parts, n)
  PROVE  BagOf(f[n]) = Tally(list, bags, n)[n]
<1> PICK g : g = Tally(list, bags, n)
  OBVIOUS
<1>0. \A k \in 0..n : g[k] = Taken(g, list, bags, k)
  BY TallyWalk, LenProperties
<1>1. n \in Nat /\ \A k \in 1..n : parts[k] \in Seq(Elems)
  BY LenProperties, ElementOfSeq
<1> DEFINE S == {k \in Nat : k <= n => f[k] \in Seq(Elems) /\ BagOf(f[k]) = g[k]}
<1>2. 0 \in S
  <2>1. f[0] = <<>> /\ g[0] = Bags!Empty
    BY <1>0, <1>1 DEF Joins, Taken
  <2> QED BY <2>1, BagEmpty, EmptySeq
<1>3. ASSUME NEW k \in 1..n, k - 1 \in S PROVE k \in S
  <2>1. f[k - 1] \in Seq(Elems) /\ BagOf(f[k - 1]) = g[k - 1] /\ k \in Nat /\ k \in 0..n /\ k # 0
    BY <1>1, <1>3
  <2>2. f[k] = f[k - 1] \o parts[k] /\ parts[k] \in Seq(Elems)
    BY <1>1 DEF Joins
  <2>3. f[k] \in Seq(Elems)
    BY <2>1, <2>2, ConcatProperties
  <2>4. g[k] = IF list[k] = Null THEN g[k - 1] ELSE Bags!Plus(g[k - 1], bags[list[k]])
    BY <1>0, <2>1 DEF Taken
  <2>5. CASE list[k] = Null
    <3>1. f[k] = f[k - 1]
      BY <2>1, <2>2, <2>5, ConcatEmptySeq
    <3> QED BY <2>1, <2>3, <2>4, <2>5, <3>1
  <2>6. CASE list[k] # Null
    <3>1. BagOf(f[k]) = Bags!Plus(BagOf(f[k - 1]), BagOf(parts[k]))
      BY <2>1, <2>2, BagConcat
    <3>2. bags[list[k]] = BagOf(parts[k])
      BY <2>6
    <3> QED BY <2>1, <2>3, <2>4, <2>6, <3>1, <3>2
  <2> QED BY <2>5, <2>6
<1> HIDE DEF S
<1>4. 0..n \subseteq S
  BY <1>1, <1>2, <1>3, UpTo
<1>5. \A k \in S : k <= n => BagOf(f[k]) = g[k]
  BY DEF S
<1>6. n \in 0..n /\ n <= n
  BY <1>1
<1> QED BY <1>4, <1>5, <1>6

LEMMA MergedMapped ==
  ASSUME IndInv, JoinedInv, Merged
  PROVE  Mapped
<1>1. PICK n, list, r : n = Len(call.list) /\ list = call.list /\ r = call.r
  OBVIOUS
<1>2. /\ call.op = "merge" /\ call.i = n /\ Return /\ UNCHANGED coo
      /\ n \in Nat /\ DOMAIN list = 1..n /\ r \in Live
      /\ \A k \in 1..n : list[k] \in (Live \ {r}) \cup {Null} /\ Content(list[k]) \in Seq(Elems)
  <2>1. call.op = "merge" /\ call.i = n /\ Return /\ UNCHANGED coo
    BY <1>1 DEF Merged
  <2>2. r \in Live
    BY <1>1, <2>1 DEF IndInv, MergeFits
  <2> QED BY <1>1, <2>1, <2>2, MergeLocals
<1>3. Parts \in Seq(Seq(Elems)) /\ Len(Parts) = n /\ \A k \in 1..n : Parts[k] = Content(list[k])
  <2>1. Parts = [k \in 1..n |-> Content(list[k])]
    BY <1>1, <1>2 DEF Parts
  <2> QED BY <1>2, <2>1
<1>4. /\ Task' = Bags!NoTask
      /\ AllBags' = [AllBags EXCEPT ![r] = BagOf(coo[r].data)]
      /\ \A m \in Live \ {r} : AllBags[m] = BagOf(coo[m].data)
  BY <1>1, <1>2, Returned DEF Pending
<1>5. PICK f : Joins(f, Parts, n)
  BY <1>3, JoinsExist
<1>6. coo[r].data = f[n]
  BY <1>1, <1>2, <1>5 DEF JoinedInv
<1>7. /\ \A k \in 1..n : list[k] = Null => Parts[k] = <<>>
      /\ \A k \in 1..n : list[k] # Null => AllBags[list[k]] = BagOf(Parts[k])
  BY <1>2, <1>3, <1>4 DEF Content
<1>8. BagOf(f[n]) = Tally(list, AllBags, n)[n]
  BY <1>3, <1>5, <1>7, TallyBags
<1>9. Task.op = "merge" /\ Task.r = r /\ Task.list = list
  BY <1>1, <1>2 DEF Task
<1>10. Bags!Merge
  <2>1. AllBags' = [AllBags EXCEPT ![r] = Tally(list, AllBags, n)[n]]
    BY <1>4, <1>6, <1>8
  <2> QED BY <1>1, <1>9, <2>1 DEF Bags!Merge, Bags!Becomes, Tally, Taken
<1> QED BY <1>4, <1>10 DEF Mapped, Bags!MNext, Bags!Finish

-----------------------------------------------------------------------------
(* Calls that change no bag.                                               *)

LEMMA QuietMapped ==
  ASSUME UNCHANGED coo, call.op \notin {"add", "sub", "count", "merge"},
         call'.op \notin {"add", "sub", "count", "merge"}
  PROVE  Mapped
<1>1. UNCHANGED Task /\ ~Pending /\ ~Pending'
  BY DEF Task, Pending
<1>2. UNCHANGED AllBags
  BY <1>1 DEF AllBags, BagAt, Live, BagOf
<1> QED BY <1>1, <1>2 DEF Mapped

LEMMA SwapMapped ==
  ASSUME IndInv, Swap
  PROVE  Mapped
<1>1. PICK p, i, d : p = call.m /\ i = call.i /\ d = coo[call.m].data
  OBVIOUS
<1>2. /\ call \in [op : {"disorder", "disorder_v1"}, m : Live, i : Nat]
      /\ call' = [call EXCEPT !.i = i + 1]
  BY <1>1 DEF Swap, IndInv, TypeOK, NoCall
<1>3. p \in Live /\ p \in Matrices /\ coo[p] \in MatrixSet /\ d \in Seq(Elems) /\ Len(d) = Nnz(p)
      /\ Fits(coo[p])
  BY <1>1, <1>2, OfLive DEF MatrixSet, Nnz
<1>4. PICK m \in 1..Len(d), n \in 1..Len(d) :
        Becomes(p, [coo[p] EXCEPT !.data = Swapped(d, m, n)])
  BY <1>1, <1>3 DEF Swap
<1>5. PICK x : x = [coo[p] EXCEPT !.data = Swapped(d, m, n)]
  OBVIOUS
<1>6. Swapped(d, m, n) \in Seq(Elems)
  <2>1. d \in [1..Len(d) -> Elems] /\ Len(d) \in Nat
    BY <1>3, LenProperties
  <2>2. Swapped(d, m, n) \in [1..Len(d) -> Elems]
    BY <2>1 DEF Swapped
  <2> QED BY <2>1, <2>2, IsASeq
<1>7. x \in MatrixSet /\ x.data = Swapped(d, m, n)
  BY <1>3, <1>5, <1>6 DEF MatrixSet
<1>8. BagOf(x.data) = BagOf(d)
  BY <1>3, <1>7, SwapTimes DEF BagOf
<1>9. /\ call.op \notin {"add", "sub", "count", "merge"}
      /\ call'.op \notin {"add", "sub", "count", "merge"}
      /\ x # Null /\ coo[p] # Null
  BY <1>2, <1>3, <1>7, NullIsNoMatrix
<1>10. /\ Task = Bags!NoTask /\ Task' = Bags!NoTask
       /\ AllBags'[p] = IF x = Null THEN Null ELSE BagOf(x.data)
       /\ AllBags[p] = IF coo[p] = Null THEN Null ELSE BagOf(coo[p].data)
       /\ AllBags'[p] = AllBags[p] => UNCHANGED AllBags
  BY <1>3, <1>4, <1>5, <1>7, <1>9, OneBag
<1>11. UNCHANGED <<AllBags, Task>>
  BY <1>1, <1>8, <1>9, <1>10
<1> QED BY <1>11 DEF Mapped

LEMMA QuietStep ==
  ASSUME IndInv,
         \/ \E m \in Matrices : BeginDump(m)
         \/ \E m \in Matrices, op \in {"disorder", "disorder_v1"} : BeginDisorder(op, m)
         \/ NextElem \/ Dumped \/ Disordered
  PROVE  Mapped
<1>1. CASE \/ \E m \in Matrices : BeginDump(m)
           \/ \E m \in Matrices, op \in {"disorder", "disorder_v1"} : BeginDisorder(op, m)
  BY <1>1, QuietMapped DEF BeginDump, BeginDisorder, Idle, NoCall
<1>2. CASE NextElem
  <2>1. call \in [op : {"dump"}, m : Live, index : Nat, out : Seq(Elems)]
    BY <1>2 DEF NextElem, IndInv, TypeOK, NoCall
  <2>2. call.op = "dump" /\ call'.op = "dump" /\ UNCHANGED coo
    BY <1>2, <2>1 DEF NextElem
  <2> QED BY <2>2, QuietMapped
<1>3. CASE Dumped \/ Disordered
  BY <1>3, QuietMapped DEF Dumped, Disordered, Return, NoCall
<1> QED BY <1>1, <1>2, <1>3

(* Every operation acts on bags of elements as its name says: the steps of *)
(* the matrices are steps of MatrixBags, or change no bag.                 *)
THEOREM Refinement == Spec => ImplementsBags
<1> DEFINE Inv == IndInv /\ Counted /\ DifferenceInv /\ JoinedInv
<1>1. Init => Inv /\ Bags!MInit
  <2> SUFFICES ASSUME Init PROVE Inv /\ Bags!MInit
    OBVIOUS
  <2>1. call.op = "none" /\ \A m \in Matrices : coo[m] = Null
    BY DEF Init, NoCall
  <2>2. \A m \in Matrices : BagAt(m) = Null
    BY <2>1 DEF BagAt, Live
  <2>3. Bags!MInit
    BY <2>1, <2>2 DEF Bags!MInit, Bags!NoTask, AllBags, Task, NoCall
  <2> QED BY <2>1, <2>3, InitInv DEF Counted, DifferenceInv, JoinedInv
<1>2. Inv /\ [Next]_vars => Inv'
  BY Step, CountedStep, JoinedStep
<1>3. Inv /\ [Next]_vars => [Bags!MNext]_(Bags!vars)
  <2> SUFFICES ASSUME Inv, [Next]_vars PROVE Mapped
    BY DEF Mapped, Bags!vars
  <2>1. CASE UNCHANGED vars
    <3>1. UNCHANGED <<AllBags, Task>>
      BY <2>1 DEF vars, AllBags, BagAt, Live, BagOf, Pending, Task
    <3> QED BY <3>1 DEF Mapped
  <2>2. CASE Operation
    BY <2>2, OperationMapped, AskMapped, AskMergeMapped, QuietStep DEF Operation
  <2>3. CASE Turn
    BY <2>3, TurnMapped, AddedMapped, SubtractedMapped, MergeTurnMapped, MergedMapped,
       SwapMapped, QuietStep DEF Turn
  <2> QED BY <2>1, <2>2, <2>3 DEF Next
<1> QED BY <1>1, <1>2, <1>3, PTL DEF Spec, ImplementsBags, Bags!MSpec
=============================================================================
