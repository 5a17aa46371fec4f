----------------------- MODULE PrimaryIndexDpuProofs ------------------------
(***************************************************************************)
(* What holds of PrimaryIndexDpu for every number of slaves, indexes,      *)
(* buckets, nodes and mutexes, every set of keys and every hash function.  *)
(***************************************************************************)
EXTENDS PrimaryIndexDpuImpl, UsedCount, Sequences, BlockDecompProofs, FiniteSetTheorems, TLAPS

-----------------------------------------------------------------------------
(* Arithmetic of the address space.                                        *)

LEMMA BucketType == ASSUME NEW k \in Keys PROVE Bucket(k) \in Buckets
BY SizeAssumption, DataAssumption DEF Bucket, Buckets

(* The head of a bucket of slot s lies below the heads of slot r > s. *)
LEMMA HeadBelow ==
  ASSUME NEW s \in Slots, NEW b \in Buckets, NEW r \in Nat, s < r
  PROVE  BucketHead(s, b) \in Nat /\ 1 <= BucketHead(s, b) /\ BucketHead(s, b) <= r * NrBuckets
<1> USE SizeAssumption DEF Slots, Buckets
<1>1. (s + 1) * NrBuckets <= r * NrBuckets
  BY MulMono
<1>2. (s + 1) * NrBuckets = s * NrBuckets + NrBuckets
  OBVIOUS
<1>3. s * NrBuckets \in Nat /\ r * NrBuckets \in Nat
  OBVIOUS
<1> QED BY <1>1, <1>2, <1>3 DEF BucketHead

LEMMA Layout ==
  /\ FirstNode \in Nat /\ LastNode \in Nat /\ 1 <= FirstNode
  /\ FirstNode - 1 <= LastNode
  /\ FirstNode - 1 = MaxIndexes * NrBuckets
<1>1. MaxIndexes * NrBuckets \in Nat
  BY SizeAssumption
<1> QED BY <1>1, SizeAssumption DEF FirstNode, LastNode

LEMMA SlaveNotZero == \A t \in Slaves : t # 0
BY SizeAssumption DEF Slaves

LEMMA HeadType ==
  ASSUME NEW s \in Slots, NEW b \in Buckets
  PROVE  BucketHead(s, b) \in Heads /\ BucketHead(s, b) \in Addrs
BY HeadBelow, Layout, SizeAssumption DEF Heads, Addrs, Slots

(* The blocks of the slaves cover the bucket array of a slot and stay in it. *)
LEMMA BlockInSlot ==
  ASSUME NEW s \in Slots, NEW t \in Slaves
  PROVE  /\ BucketHead(s, BLOCK_LOW(Rank(t), NrSlaves, NrBuckets)) \in Int
         /\ s * NrBuckets < BucketHead(s, BLOCK_LOW(Rank(t), NrSlaves, NrBuckets))
         /\ BucketHead(s, BLOCK_HIGH(Rank(t), NrSlaves, NrBuckets)) \in Int
         /\ BucketHead(s, BLOCK_HIGH(Rank(t), NrSlaves, NrBuckets)) < FirstNode
<1> DEFINE low == BLOCK_LOW(Rank(t), NrSlaves, NrBuckets)
           high == BLOCK_HIGH(Rank(t), NrSlaves, NrBuckets)
<1>1. low \in Nat /\ high \in Int /\ high < NrBuckets
  <2>1. Rank(t) \in 0..(NrSlaves - 1)
    BY SizeAssumption DEF Rank, Slaves
  <2> QED BY <2>1, BlocksBounds, SizeAssumption
<1>2. NrBuckets - 1 \in Buckets /\ s * NrBuckets \in Nat
  BY SizeAssumption DEF Buckets, Slots
<1>3. BucketHead(s, NrBuckets - 1) \in Heads
  BY <1>2, HeadType
<1> HIDE DEF low, high
<1>4. BucketHead(s, low) \in Int /\ s * NrBuckets < BucketHead(s, low)
  BY <1>1, <1>2 DEF BucketHead
<1>5. BucketHead(s, high) \in Int /\ BucketHead(s, high) < FirstNode
  BY <1>1, <1>2, <1>3, Layout, SizeAssumption DEF BucketHead, Heads
<1> QED BY <1>4, <1>5 DEF low, high

LEMMA BlocksCoverSlot ==
  ASSUME NEW s \in Slots, NEW b \in Buckets
  PROVE  \E t \in Slaves :
           BucketHead(s, b) \in BucketHead(s, BLOCK_LOW(Rank(t), NrSlaves, NrBuckets))
                        ..BucketHead(s, BLOCK_HIGH(Rank(t), NrSlaves, NrBuckets))
<1>1. PICK r \in 0..(NrSlaves - 1) :
        b \in BLOCK_LOW(r, NrSlaves, NrBuckets)..BLOCK_HIGH(r, NrSlaves, NrBuckets)
  BY BlocksCover, SizeAssumption DEF Buckets
<1>2. r + 1 \in Slaves /\ Rank(r + 1) = r
  BY SizeAssumption DEF Slaves, Rank
<1>3. /\ BLOCK_LOW(r, NrSlaves, NrBuckets) \in Int
      /\ BLOCK_HIGH(r, NrSlaves, NrBuckets) \in Int
  BY BlocksBounds, SizeAssumption
<1>4. BucketHead(s, b) \in BucketHead(s, BLOCK_LOW(r, NrSlaves, NrBuckets))
                    ..BucketHead(s, BLOCK_HIGH(r, NrSlaves, NrBuckets))
  <2>1. s * NrBuckets \in Nat /\ b \in Nat
    BY SizeAssumption DEF Slots, Buckets
  <2> QED BY <1>1, <1>3, <2>1 DEF BucketHead
<1> QED BY <1>2, <1>4

(* Where a slave's block starts and where the next one does. *)
LEMMA BlockEnds ==
  ASSUME NEW t \in Slaves
  PROVE  /\ BLOCK_LOW(Rank(t), NrSlaves, NrBuckets) \in Nat
         /\ BLOCK_LOW(Rank(t) + 1, NrSlaves, NrBuckets) \in Nat
<1>1. Rank(t) \in Nat /\ Rank(t) + 1 \in Nat
  BY SizeAssumption DEF Rank, Slaves
<1>2. Rank(t) * NrBuckets \in Nat /\ (Rank(t) + 1) * NrBuckets \in Nat
  BY <1>1, SizeAssumption
<1>3. /\ (Rank(t) * NrBuckets) \div NrSlaves \in Nat
      /\ ((Rank(t) + 1) * NrBuckets) \div NrSlaves \in Nat
  BY <1>2, Division, SizeAssumption
<1> QED BY <1>3 DEF BLOCK_LOW

LEMMA FirstBeforeLast ==
  ASSUME NEW s \in Slots, NEW t \in Slaves, Count(t) > 0
  PROVE  BucketHead(s, BLOCK_LOW(Rank(t), NrSlaves, NrBuckets))
           <= BucketHead(s, BLOCK_HIGH(Rank(t), NrSlaves, NrBuckets))
<1> DEFINE low == BLOCK_LOW(Rank(t), NrSlaves, NrBuckets)
           next == BLOCK_LOW(Rank(t) + 1, NrSlaves, NrBuckets)
<1>1. low \in Nat /\ next \in Int
  BY BlockEnds
<1>2. next - low > 0
  BY DEF Count, BLOCK_SIZE
<1>3. s * NrBuckets \in Nat
  BY SizeAssumption DEF Slots
<1> HIDE DEF low, next
<1>4. s * NrBuckets + low + 1 <= s * NrBuckets + (next - 1) + 1
  BY <1>1, <1>2, <1>3
<1> QED BY <1>4 DEF BucketHead, low, next, BLOCK_HIGH

LEMMA CoveringCounts ==
  ASSUME NEW s \in Slots, NEW t \in Slaves, NEW x \in Int,
         x \in BucketHead(s, BLOCK_LOW(Rank(t), NrSlaves, NrBuckets))
              ..BucketHead(s, BLOCK_HIGH(Rank(t), NrSlaves, NrBuckets))
  PROVE  Count(t) > 0
<1> DEFINE low == BLOCK_LOW(Rank(t), NrSlaves, NrBuckets)
           next == BLOCK_LOW(Rank(t) + 1, NrSlaves, NrBuckets)
<1>1. low \in Nat /\ next \in Int
  BY BlockEnds
<1>2. s * NrBuckets \in Nat
  BY SizeAssumption DEF Slots
<1>3. x \in BucketHead(s, low)..BucketHead(s, next - 1)
  BY DEF BLOCK_HIGH
<1> HIDE DEF low, next
<1>4. next - low > 0
  BY <1>1, <1>2, <1>3 DEF BucketHead
<1> QED BY <1>4 DEF Count, BLOCK_SIZE, low, next

-----------------------------------------------------------------------------
(* Typing.                                                                 *)

LEMMA EntryType ==
  /\ Junk \in Entry /\ EmptyEntry \in Entry
  /\ \A e \in Entry, x \in 0..LastNode :
        [e EXCEPT !.next = x] \in Entry /\ [e EXCEPT !.key = NoKey] \in Entry
  /\ \A k \in Keys, v \in Nat, x \in 0..LastNode :
        [key |-> k, val |-> v, next |-> x] \in Entry
BY Layout DEF Entry, Junk, EmptyEntry, Null

LEMMA InitType == Init => TypeOK
<1> SUFFICES ASSUME Init PROVE TypeOK
  OBVIOUS
<1>1. 0 \in 0..(UsedModulus - 1) /\ 0 \in 0..MaxIndexes
  BY SizeAssumption
<1>2. FirstNode \in FirstNode..(LastNode + 1)
  BY Layout
<1> QED BY <1>1, <1>2, EntryType, Layout DEF Init, TypeOK, NoAnswer, Null, Entry, Labels

LEMMA MyHeadType ==
  ASSUME TypeOK, NEW t \in Slaves, key[t] \in Keys, pid # NoSlot
  PROVE  /\ Bucket(key[t]) \in Buckets /\ pid \in Slots
         /\ MyHead(t) \in Heads /\ MyHead(t) \in Addrs /\ MyHead(t) # Null
         /\ MyMutex(t) \in Mutexes
<1>1. Bucket(key[t]) \in Buckets /\ pid \in Slots
  BY BucketType DEF TypeOK
<1>2. MyHead(t) \in Heads /\ MyHead(t) \in Addrs
  BY <1>1, HeadType DEF MyHead
<1>3. MyMutex(t) \in Mutexes
  BY <1>1, SizeAssumption DEF MyMutex, MutexOf, Mutexes, Buckets
<1> QED BY <1>1, <1>2, <1>3, Layout DEF Heads, Null

(* The steps, one by one. *)
LEMMA StepCases ==
  ASSUME NEW t \in Slaves, Step(t)
  PROVE  \/ InitBucket(t) \/ Lock(t) \/ Unlock(t) \/ UsedLoad(t) \/ UsedStore(t)
         \/ InsertRead(t) \/ InsertPut(t) \/ InsertAlloc(t) \/ InsertLink(t)
         \/ InsertNode(t) \/ DeleteRead(t) \/ DeletePull(t) \/ DeleteHead(t)
         \/ DeleteWalk(t) \/ DeleteUnlink(t) \/ LookupRead(t) \/ LookupWalk(t)
         \/ LookupFetch(t) \/ UpdatePeek(t) \/ UpdatePatch(t)
BY DEF Step, Insert, Delete, Lookup, Update

LEMMA StepType ==
  ASSUME TypeOK, LaunchInv, NEW t \in Slaves, Step(t)
  PROVE  TypeOK'
<1> USE DEF Goto, ForgetLocals, index, locals, vars, Null, Labels
<1>l. Launched(t)
  BY DEF LaunchInv
<1>a. buf \in [Slaves -> Entry] /\ last \in [Slaves -> Entry]
  BY DEF TypeOK
<1>b. ptr \in [Slaves -> 0..LastNode] /\ tail \in [Slaves -> 0..LastNode]
  BY DEF TypeOK
<1>c. mem \in [Addrs -> Entry]
  BY DEF TypeOK
<1>d. key[t] \in Keys \cup {NoKey} /\ val[t] \in Vals \cup {0}
  BY DEF TypeOK
<1>1. CASE InitBucket(t)
  <2>1. /\ pid \in Slots
        /\ LastOfBlock(t) \in Int /\ LastOfBlock(t) < FirstNode
    BY <1>l, <1>1, BlockInSlot DEF InitBucket, Launched, TypeOK, LastOfBlock
  <2>2. ptr[t] < LastOfBlock(t) => ptr[t] + 1 \in 0..LastNode
    BY <2>1, Layout DEF TypeOK
  <2>3. mem' \in [Addrs -> Entry]
    BY <1>1, EntryType DEF InitBucket, TypeOK
  <2>4. ptr' \in [Slaves -> 0..LastNode]
    <3>1. \E x \in 0..LastNode : ptr' = [ptr EXCEPT ![t] = x]
      BY <1>1, <2>2, Layout DEF InitBucket
    <3> QED BY <3>1 DEF TypeOK
  <2> QED BY <1>1, <2>3, <2>4 DEF InitBucket, TypeOK, Labels
<1>2. CASE Lock(t)
  BY <1>2 DEF Lock, TypeOK
<1>3. CASE Unlock(t)
  <2>1. CASE ~Returned(t)
    <3>1. key' \in [Slaves -> Keys \cup {NoKey}] /\ val' \in [Slaves -> Vals \cup {0}]
      BY <1>3, <2>1 DEF Unlock, TypeOK
    <3>2. buf' \in [Slaves -> Entry] /\ last' \in [Slaves -> Entry]
      BY <1>3, <2>1, <1>a, EntryType DEF Unlock
    <3>3. ptr' \in [Slaves -> 0..LastNode] /\ tail' \in [Slaves -> 0..LastNode]
      BY <1>3, <2>1, <1>b, Layout DEF Unlock
    <3>4. tmp' \in [Slaves -> 0..(UsedModulus - 1)]
      BY <1>3, <2>1, SizeAssumption DEF Unlock, TypeOK
    <3>5. mutex' \in [Mutexes -> Slaves \cup {0}] /\ pc' \in [Slaves -> Labels]
      BY <1>3, <2>1 DEF Unlock, TypeOK
    <3> QED BY <1>3, <2>1, <3>1, <3>2, <3>3, <3>4, <3>5 DEF Unlock, TypeOK
  <2>2. CASE Returned(t)
    BY <1>3, <2>2 DEF Unlock, TypeOK
  <2> QED BY <2>1, <2>2
<1>4. CASE UsedLoad(t)
  BY <1>l, <1>4 DEF UsedLoad, TypeOK, Launched, Critical
<1>5. CASE UsedStore(t)
  <2>1. Counted(t) \in 0..(UsedModulus - 1)
    BY SizeAssumption DEF Counted, TypeOK
  <2>2. ptr' \in [Slaves -> 0..LastNode]
    BY <1>5, <1>b, Layout DEF UsedStore
  <2> QED BY <1>5, <2>1, <2>2 DEF UsedStore, TypeOK
<1>6. CASE InsertRead(t)
  BY <1>l, <1>6, MyHeadType DEF InsertRead, TypeOK, Launched, Critical
<1>7. CASE InsertPut(t)
  <2>1. [key |-> key[t], val |-> val[t], next |-> Null] \in Entry
    <3>1. key[t] \in Keys /\ val[t] \in Nat
      BY <1>l, <1>7, <1>d, DataAssumption DEF InsertPut, Launched, Critical
    <3> QED BY <3>1, EntryType, Layout
  <2>2. mem' \in [Addrs -> Entry]
    BY <1>7, <2>1 DEF InsertPut, TypeOK
  <2> QED BY <1>7, <2>2 DEF InsertPut, TypeOK
<1>8. CASE InsertAlloc(t)
  <2>1. tail' \in [Slaves -> 0..LastNode]
    BY <1>8 DEF InsertAlloc, TypeOK, Successor, Entry
  <2>2. \E x \in 0..LastNode : buf' = [buf EXCEPT ![t] = [@ EXCEPT !.next = x]]
    BY <1>8, Layout DEF InsertAlloc, TypeOK, RoomLeft
  <2>3. buf' \in [Slaves -> Entry]
    <3>1. PICK x \in 0..LastNode : buf' = [buf EXCEPT ![t] = [@ EXCEPT !.next = x]]
      BY <2>2
    <3>2. [buf[t] EXCEPT !.next = x] \in Entry
      BY <1>a, EntryType
    <3> QED BY <1>a, <3>1, <3>2
  <2>4. avail' \in FirstNode..(LastNode + 1)
    BY <1>8, Layout DEF InsertAlloc, TypeOK, RoomLeft
  <2>5. home' \in [Nodes -> Heads \cup {Null}]
    <3>1. ptr[t] \in Heads
      BY <1>l, <1>8, MyHeadType DEF InsertAlloc, Launched, Critical
    <3> QED BY <1>8, <3>1 DEF InsertAlloc, TypeOK
  <2> QED BY <1>8, <2>1, <2>3, <2>4, <2>5 DEF InsertAlloc, TypeOK
<1>9. CASE InsertLink(t)
  BY <1>9 DEF InsertLink, TypeOK, Entry
<1>10. CASE InsertNode(t)
  BY <1>l, <1>10, EntryType, DataAssumption DEF InsertNode, NewNode, TypeOK, Launched, Critical
<1>11. CASE DeleteRead(t)
  <2>1. mem[ptr[t]] \in Entry /\ [mem[ptr[t]] EXCEPT !.key = NoKey] \in Entry
    BY <1>l, <1>11, MyHeadType, EntryType, Layout DEF DeleteRead, TypeOK, Launched, Critical
  <2>2. \E e \in Entry : buf' = [buf EXCEPT ![t] = e]
    BY <1>11, <2>1 DEF DeleteRead
  <2>3. buf' \in [Slaves -> Entry]
    BY <2>2 DEF TypeOK
  <2>4. pc' \in [Slaves -> Labels]
    BY <1>11 DEF DeleteRead, TypeOK
  <2> QED BY <1>11, <2>3, <2>4 DEF DeleteRead, TypeOK
<1>12. CASE DeletePull(t)
  <2>1. buf[t].next \in Addrs
    BY <1>l, <1>12, <1>a DEF DeletePull, Launched, Entry, Addrs
  <2>2. buf' \in [Slaves -> Entry]
    BY <1>12, <1>a, <1>c, <2>1 DEF DeletePull
  <2> QED BY <1>12, <2>2 DEF DeletePull, TypeOK
<1>13. CASE DeleteHead(t)
  BY <1>13 DEF DeleteHead, TypeOK
<1>14. CASE DeleteWalk(t)
  <2>1. buf[t].next \in 0..LastNode
    BY DEF TypeOK, Entry
  <2>2. CASE buf[t].next = Null
    BY <1>14, <2>2 DEF DeleteWalk, TypeOK
  <2>3. CASE buf[t].next # Null
    <3>1. mem[buf[t].next] \in Entry
      BY <2>1, <2>3 DEF TypeOK, Addrs
    <3>2. buf' \in [Slaves -> Entry] /\ last' \in [Slaves -> Entry]
      BY <1>14, <2>3, <3>1 DEF DeleteWalk, TypeOK
    <3>3. ptr' \in [Slaves -> 0..LastNode] /\ pc' \in [Slaves -> Labels]
      BY <1>14, <2>1, <2>3 DEF DeleteWalk, TypeOK
    <3> QED BY <1>14, <3>2, <3>3 DEF DeleteWalk, TypeOK
  <2> QED BY <2>2, <2>3
<1>15. CASE DeleteUnlink(t)
  <2>1. [last[t] EXCEPT !.next = buf[t].next] \in Entry
    BY EntryType, SMTT(30) DEF TypeOK, Entry
  <2> QED BY <1>15, <2>1 DEF DeleteUnlink, TypeOK
<1>16. CASE LookupRead(t)
  BY <1>l, <1>16, MyHeadType DEF LookupRead, TypeOK, Launched, Critical
<1>17. CASE LookupWalk(t)
  <2>1. buf[t].next \in 0..LastNode
    BY DEF TypeOK, Entry
  <2>2. buf[t].next # Null => mem[buf[t].next] \in Entry
    BY <2>1 DEF TypeOK, Addrs
  <2>3. buf' = buf \/ \E e \in Entry : buf' = [buf EXCEPT ![t] = e]
    BY <1>17, <2>2 DEF LookupWalk, Missed
  <2>4. buf' \in [Slaves -> Entry]
    BY <2>3 DEF TypeOK
  <2>5. MyHead(t) \in 0..LastNode
    BY <1>l, <1>17, MyHeadType, Layout DEF LookupWalk, Launched, Critical, Addrs
  <2>6. ptr' \in [Slaves -> 0..LastNode] /\ pc' \in [Slaves -> Labels]
    BY <1>17, <2>1, <2>5, Layout DEF LookupWalk, Missed, TypeOK
  <2> QED BY <1>17, <2>4, <2>6 DEF LookupWalk, TypeOK
<1>18. CASE LookupFetch(t)
  <2>1. (IF ptr[t] = Null THEN 0 ELSE mem[ptr[t]].val) \in Nat
    BY DEF TypeOK, Entry, Addrs
  <2> QED BY <1>18, <2>1, EntryType, SizeAssumption, Layout DEF LookupFetch, TypeOK
<1>19. CASE UpdatePeek(t)
  <2>1. mem[ptr[t]] \in Entry /\ mem[ptr[t]].key \in Keys
    BY <1>l, <1>c, <1>19 DEF UpdatePeek, Launched
  <2> QED BY <1>19, <2>1 DEF UpdatePeek, TypeOK
<1>20. CASE UpdatePatch(t)
  <2>1. [buf[t] EXCEPT !.val = val[t]] \in Entry
    BY <1>a, <1>d, DataAssumption DEF Entry
  <2> QED BY <1>20, <2>1 DEF UpdatePatch, Patched, TypeOK
<1> QED
  BY StepCases, <1>1, <1>2, <1>3, <1>4, <1>5, <1>6, <1>7, <1>8, <1>9, <1>10, <1>11,
     <1>12, <1>13, <1>14, <1>15, <1>16, <1>17, <1>18, <1>19, <1>20

LEMMA CallType ==
  ASSUME TypeOK, NEW t \in Slaves, NEW k \in Keys, NEW v \in Vals \cup {0}, Call(t, k, v)
  PROVE  TypeOK'
<1>1. BucketHead(pid, Bucket(k)) \in 0..LastNode
  BY BucketType, HeadType DEF Call, TypeOK, Addrs
<1>2. ptr' \in [Slaves -> 0..LastNode]
  BY <1>1 DEF Call, TypeOK
<1> QED BY <1>2 DEF Call, TypeOK, Goto, Labels, index

LEMMA CallUpdateType ==
  ASSUME TypeOK, NEW t \in Slaves, NEW a \in Addrs, NEW v \in Vals, CallUpdate(t, a, v)
  PROVE  TypeOK'
<1>1. ptr' \in [Slaves -> 0..LastNode] /\ val' \in [Slaves -> Vals \cup {0}]
  BY DEF CallUpdate, TypeOK, Addrs
<1> QED BY <1>1 DEF CallUpdate, TypeOK, Goto, Labels, index

LEMMA BeginType ==
  ASSUME TypeOK, NEW id \in Ids,
         BeginCreate(id) \/ \E type \in Operations : BeginOp(type, id)
  PROVE  TypeOK'
<1>1. answer' \in [Slaves -> [key : Keys \cup {NoKey}, val : Nat]]
  <2>1. answer' = NoAnswer
    BY DEF BeginCreate, BeginOp
  <2> QED BY <2>1 DEF NoAnswer
<1>2. CASE BeginCreate(id)
  <2>1. CASE num >= MaxIndexes
    <3>1. pid' = NoSlot /\ UNCHANGED <<num, indexId, used, pc, ptr>>
      BY <1>2, <2>1, SizeAssumption DEF BeginCreate, TypeOK
    <3> QED BY <1>1, <1>2, <3>1 DEF BeginCreate, TypeOK
  <2>2. CASE num < MaxIndexes
    <3>1. num \in Slots /\ num + 1 \in 0..MaxIndexes /\ 0 \in 0..(UsedModulus - 1)
      BY <2>2, SizeAssumption DEF TypeOK, Slots
    <3>2. \A t \in Slaves : Count(t) > 0 => First(t) \in 0..LastNode
      <4> SUFFICES ASSUME NEW t \in Slaves, Count(t) > 0 PROVE First(t) \in 0..LastNode
        OBVIOUS
      <4>1. /\ First(t) \in Int /\ num * NrBuckets < First(t)
            /\ BucketHead(num, BLOCK_HIGH(Rank(t), NrSlaves, NrBuckets)) < FirstNode
            /\ BucketHead(num, BLOCK_HIGH(Rank(t), NrSlaves, NrBuckets)) \in Int
        BY <3>1, BlockInSlot DEF First
      <4>2. First(t) <= BucketHead(num, BLOCK_HIGH(Rank(t), NrSlaves, NrBuckets))
        BY <3>1, FirstBeforeLast DEF First
      <4>3. num * NrBuckets \in Nat
        BY <3>1, SizeAssumption DEF Slots
      <4> QED BY <4>1, <4>2, <4>3, Layout
    <3>3. pid' = num /\ num' = num + 1 /\ pc' \in [Slaves -> Labels]
      BY <1>2, <2>2, SizeAssumption DEF BeginCreate, TypeOK, Labels
    <3>4. ptr' \in [Slaves -> 0..LastNode]
      BY <1>2, <2>2, <3>2, Layout, SizeAssumption DEF BeginCreate, TypeOK, Null
    <3>5. indexId' \in [Slots -> Ids \cup {NoId}] /\ used' \in [Slots -> 0..(UsedModulus - 1)]
      BY <1>2, <2>2, <3>1, SizeAssumption DEF BeginCreate, TypeOK
    <3> QED BY <1>1, <1>2, <3>1, <3>3, <3>4, <3>5 DEF BeginCreate, TypeOK
  <2> QED BY <2>1, <2>2, SizeAssumption DEF TypeOK
<1>3. ASSUME NEW type \in Operations, BeginOp(type, id)
      PROVE  TypeOK'
  BY <1>1, <1>3 DEF BeginOp, TypeOK, locals, IsFirst, SlotsOf, NoSlot
<1> QED BY <1>2, <1>3

-----------------------------------------------------------------------------
(* What a step of slave t leaves alone.                                    *)

SameSlave(u) ==
  /\ pc'[u] = pc[u] /\ key'[u] = key[u] /\ val'[u] = val[u] /\ buf'[u] = buf[u]
  /\ last'[u] = last[u] /\ ptr'[u] = ptr[u] /\ tail'[u] = tail[u]

LEMMA StepFrame ==
  ASSUME TypeOK, NEW t \in Slaves, Step(t)
  PROVE  /\ UNCHANGED index
         /\ \A u \in Slaves : u # t => SameSlave(u)
         /\ pc[t] # "lock" /\ pc[t] # "unlock" => mutex' = mutex
         /\ pc[t] # "alloc" => home' = home /\ avail' = avail
<1> USE DEF Goto, ForgetLocals, locals, TypeOK, SameSlave
<1>1. CASE InitBucket(t)
  BY <1>1 DEF InitBucket
<1>2. CASE Lock(t)
  BY <1>2 DEF Lock
<1>3. CASE Unlock(t)
  BY <1>3 DEF Unlock
<1>4. CASE UsedLoad(t)
  BY <1>4 DEF UsedLoad
<1>5. CASE UsedStore(t)
  BY <1>5 DEF UsedStore
<1>6. CASE InsertRead(t)
  BY <1>6 DEF InsertRead
<1>7. CASE InsertPut(t)
  BY <1>7 DEF InsertPut
<1>8. CASE InsertAlloc(t)
  BY <1>8 DEF InsertAlloc
<1>9. CASE InsertLink(t)
  BY <1>9 DEF InsertLink
<1>10. CASE InsertNode(t)
  BY <1>10 DEF InsertNode
<1>11. CASE DeleteRead(t)
  BY <1>11 DEF DeleteRead
<1>12. CASE DeletePull(t)
  BY <1>12 DEF DeletePull
<1>13. CASE DeleteHead(t)
  BY <1>13 DEF DeleteHead
<1>14. CASE DeleteWalk(t)
  BY <1>14 DEF DeleteWalk
<1>15. CASE DeleteUnlink(t)
  BY <1>15 DEF DeleteUnlink
<1>16. CASE LookupRead(t)
  BY <1>16 DEF LookupRead
<1>17. CASE LookupWalk(t)
  BY <1>17 DEF LookupWalk, Missed
<1>18. CASE LookupFetch(t)
  BY <1>18 DEF LookupFetch
<1>19. CASE UpdatePeek(t)
  BY <1>19 DEF UpdatePeek
<1>20. CASE UpdatePatch(t)
  BY <1>20 DEF UpdatePatch
<1> QED
  BY StepCases, <1>1, <1>2, <1>3, <1>4, <1>5, <1>6, <1>7, <1>8, <1>9, <1>10, <1>11,
     <1>12, <1>13, <1>14, <1>15, <1>16, <1>17, <1>18, <1>19, <1>20

LEMMA CallFrame ==
  ASSUME TypeOK, NEW t \in Slaves, NEW k \in Keys, NEW v \in Vals \cup {0}, Call(t, k, v)
  PROVE  /\ UNCHANGED <<index, mutex, mem, home, avail>>
         /\ \A u \in Slaves : u # t => SameSlave(u)
BY DEF Call, Goto, SameSlave, TypeOK

LEMMA CallUpdateFrame ==
  ASSUME TypeOK, NEW t \in Slaves, NEW a \in Addrs, NEW v \in Vals, CallUpdate(t, a, v)
  PROVE  /\ UNCHANGED <<index, mutex, mem, home, avail>>
         /\ \A u \in Slaves : u # t => SameSlave(u)
BY DEF CallUpdate, Goto, SameSlave, TypeOK

-----------------------------------------------------------------------------
(* The launch and the operations of the slaves agree.                      *)

LEMMA LaunchInit == Init => LaunchInv
BY DEF Init, LaunchInv, Launched, Critical

(* While updates run, an address whose entry has a key keeps one. *)
KeysStay ==
  opType = "update" =>
    \A a \in Addrs : mem[a].key \in Keys => mem'[a].key \in Keys

LEMMA StepKeysStay ==
  ASSUME TypeOK, LaunchInv, NEW t \in Slaves, Step(t)
  PROVE  KeysStay
<1> SUFFICES ASSUME opType = "update", NEW a \in Addrs, mem[a].key \in Keys
             PROVE  mem'[a].key \in Keys
  BY DEF KeysStay
<1>1. Launched(t)
  BY DEF LaunchInv
<1>2. CASE UpdatePatch(t)
  <2>1. buf[t].key \in Keys /\ buf[t] \in Entry
    BY <1>1, <1>2 DEF UpdatePatch, Launched, Critical, TypeOK
  <2>2. [buf[t] EXCEPT !.val = val[t]].key = buf[t].key
    BY <2>1 DEF Entry
  <2> QED BY <1>2, <2>1, <2>2 DEF UpdatePatch, Patched, TypeOK
<1>3. CASE ~UpdatePatch(t)
  <2>1. mem' = mem
    BY <1>1, <1>3, StepCases DEF Launched, Adding, Finding, InitBucket, Lock, Unlock,
       UsedLoad, UsedStore, InsertRead, InsertPut, InsertAlloc, InsertLink, InsertNode,
       DeleteRead, DeletePull, DeleteHead, DeleteWalk, DeleteUnlink, LookupRead,
       LookupWalk, LookupFetch, UpdatePeek
  <2> QED BY <2>1
<1> QED BY <1>2, <1>3

LEMMA LaunchedFrame ==
  ASSUME NEW u \in Slaves, Launched(u), UNCHANGED index, SameSlave(u), KeysStay
  PROVE  Launched(u)'
BY DEF Launched, SameSlave, index, MyHead, LastOfBlock, KeysStay, Critical

LEMMA StepLaunched ==
  ASSUME TypeOK, LaunchInv, NEW t \in Slaves, Step(t)
  PROVE  Launched(t)'
<1>1. /\ Launched(t) /\ UNCHANGED <<pid, opType, num>>
      /\ pid # NoSlot => pid \in Slots
  BY StepFrame DEF LaunchInv, index, TypeOK
<1>2. /\ pc \in [Slaves -> Labels] /\ key \in [Slaves -> Keys \cup {NoKey}]
      /\ ptr \in [Slaves -> 0..LastNode] /\ buf \in [Slaves -> Entry]
      /\ val \in [Slaves -> Vals \cup {0}] /\ tail \in [Slaves -> 0..LastNode]
  BY DEF TypeOK
<1> USE <1>1, <1>2 DEF Goto, locals, Launched, Critical, MyHead, Operations, Adding, Finding
<1>3. CASE InitBucket(t)
  <2>1. /\ LastOfBlock(t) \in Int
        /\ BucketHead(pid, BLOCK_LOW(Rank(t), NrSlaves, NrBuckets)) \in Int
    BY <1>3, BlockInSlot DEF InitBucket, LastOfBlock
  <2>2. LastOfBlock(t)' = LastOfBlock(t)
    BY DEF LastOfBlock
  <2> QED BY <1>3, <2>1, <2>2 DEF InitBucket
<1>4. CASE Lock(t)
  BY <1>4 DEF Lock
<1>5. CASE Unlock(t)
  BY <1>5 DEF Unlock, ForgetLocals, Returned
<1>6. CASE UsedLoad(t)
  BY <1>6 DEF UsedLoad
<1>7. CASE UsedStore(t)
  BY <1>7 DEF UsedStore
<1>8. CASE InsertRead(t)
  BY <1>8 DEF InsertRead
<1>9. CASE InsertPut(t)
  BY <1>9 DEF InsertPut
<1>10. CASE InsertAlloc(t)
  BY <1>10 DEF InsertAlloc
<1>11. CASE InsertLink(t)
  BY <1>11 DEF InsertLink
<1>12. CASE InsertNode(t)
  BY <1>12 DEF InsertNode
<1>13. CASE DeleteRead(t)
  <2>1. mem[ptr[t]] \in Entry
    BY <1>13, MyHeadType DEF DeleteRead, TypeOK
  <2>2. [mem[ptr[t]] EXCEPT !.key = NoKey].next = mem[ptr[t]].next
    BY <2>1 DEF Entry
  <2> QED BY <1>13, <2>2 DEF DeleteRead
<1>14. CASE DeletePull(t)
  BY <1>14 DEF DeletePull
<1>15. CASE DeleteHead(t)
  BY <1>15 DEF DeleteHead
<1>16. CASE DeleteWalk(t)
  BY <1>16 DEF DeleteWalk
<1>17. CASE DeleteUnlink(t)
  BY <1>17 DEF DeleteUnlink
<1>18. CASE LookupRead(t)
  BY <1>18 DEF LookupRead
<1>19. CASE LookupWalk(t)
  BY <1>19 DEF LookupWalk, Missed
<1>20. CASE LookupFetch(t)
  BY <1>20 DEF LookupFetch, ForgetLocals
<1>21. CASE UpdatePeek(t)
  BY <1>21 DEF UpdatePeek
<1>22. CASE UpdatePatch(t)
  BY <1>22 DEF UpdatePatch
<1> QED
  BY StepCases, <1>3, <1>4, <1>5, <1>6, <1>7, <1>8, <1>9, <1>10, <1>11, <1>12, <1>13,
     <1>14, <1>15, <1>16, <1>17, <1>18, <1>19, <1>20, <1>21, <1>22

LEMMA CallLaunched ==
  ASSUME TypeOK, LaunchInv, NEW t \in Slaves, NEW k \in Keys, NEW v \in Vals \cup {0},
         Call(t, k, v)
  PROVE  Launched(t)'
BY DEF Call, Goto, LaunchInv, Launched, TypeOK, MyHead, Critical, index, Operations

LEMMA CallUpdateLaunched ==
  ASSUME TypeOK, LaunchInv, NEW t \in Slaves, NEW a \in Addrs, NEW v \in Vals,
         CallUpdate(t, a, v)
  PROVE  Launched(t)'
BY DEF CallUpdate, Goto, LaunchInv, Launched, TypeOK, Critical, Held, index

(* While all slaves are idle, a new launch finds them ready. *)
LEMMA BeginLaunch ==
  ASSUME TypeOK, LaunchInv, NEW id \in Ids,
         BeginCreate(id) \/ \E type \in Operations : BeginOp(type, id)
  PROVE  LaunchInv'
<1>1. AllIdle
  BY DEF BeginCreate, BeginOp
<1>2. CASE BeginCreate(id)
  <2>1. CASE pid' = NoSlot /\ pc' = pc
    BY <1>1, <2>1 DEF LaunchInv, Launched, AllIdle, Critical
  <2>2. CASE num < MaxIndexes /\ pid' = num /\ num' = num + 1
             /\ pc' = [t \in Slaves |-> IF Count(t) > 0 THEN "init" ELSE "idle"]
             /\ ptr' = [t \in Slaves |-> IF Count(t) > 0 THEN First(t) ELSE Null]
    <3>1. num \in Slots /\ num \in Nat
      BY <2>2, SizeAssumption DEF TypeOK, Slots
    <3> SUFFICES ASSUME NEW t \in Slaves PROVE Launched(t)'
      BY <2>2, <3>1 DEF LaunchInv
    <3>2. CASE Count(t) > 0
      <4>1. ptr'[t] = BucketHead(num, BLOCK_LOW(Rank(t), NrSlaves, NrBuckets))
        BY <2>2, <3>2 DEF First
      <4>2. LastOfBlock(t)' = BucketHead(num, BLOCK_HIGH(Rank(t), NrSlaves, NrBuckets))
        BY <2>2 DEF LastOfBlock
      <4>3. ptr'[t] \in BucketHead(num, BLOCK_LOW(Rank(t), NrSlaves, NrBuckets))..LastOfBlock(t)'
        BY <3>1, <3>2, <4>1, <4>2, BlockInSlot, FirstBeforeLast
      <4>4. pc'[t] = "init" /\ opType' = "create" /\ pid' # NoSlot /\ num' = pid' + 1
        BY <1>2, <2>2, <3>1, <3>2 DEF BeginCreate, NoSlot
      <4> QED BY <2>2, <4>3, <4>4 DEF Launched, Critical
    <3>3. CASE ~(Count(t) > 0)
      BY <2>2, <3>3 DEF Launched, Critical
    <3> QED BY <3>2, <3>3
  <2> QED BY <1>2, <2>1, <2>2 DEF BeginCreate
<1>3. ASSUME NEW type \in Operations, BeginOp(type, id)
      PROVE  LaunchInv'
  <2>1. pid' # NoSlot => pid' < num'
    BY <1>3 DEF BeginOp, IsFirst, SlotsOf
  <2> QED BY <1>1, <1>3, <2>1 DEF BeginOp, LaunchInv, Launched, AllIdle, Critical, locals
<1> QED BY <1>2, <1>3

(* Type correctness rests on the agreement of launch and operations: which *)
(* slot pid names, and that nobody follows the null pointer.               *)
LEMMA TypeInductive ==
  TypeOK /\ LaunchInv /\ [Next]_vars => TypeOK' /\ LaunchInv'
<1> SUFFICES ASSUME TypeOK, LaunchInv, [Next]_vars PROVE TypeOK' /\ LaunchInv'
  OBVIOUS
<1>1. CASE Begin
  BY <1>1, BeginType, BeginLaunch DEF Begin
<1>2. ASSUME NEW t \in Slaves, Step(t) PROVE TypeOK' /\ LaunchInv'
  <2>1. \A u \in Slaves : u # t => Launched(u)'
    BY <1>2, StepFrame, StepKeysStay, LaunchedFrame DEF LaunchInv
  <2>2. pid' # NoSlot => pid' < num'
    BY <1>2, StepFrame DEF LaunchInv, index
  <2> QED BY <1>2, <2>1, <2>2, StepType, StepLaunched DEF LaunchInv
<1>3. ASSUME NEW t \in Slaves, NEW k \in Keys, NEW v \in Vals \cup {0}, Call(t, k, v)
      PROVE  TypeOK' /\ LaunchInv'
  <2>1. \A u \in Slaves : u # t => Launched(u)'
    BY <1>3, CallFrame, LaunchedFrame DEF LaunchInv, KeysStay
  <2>2. pid' # NoSlot => pid' < num'
    BY <1>3, CallFrame DEF LaunchInv, index
  <2> QED BY <1>3, <2>1, <2>2, CallType, CallLaunched DEF LaunchInv
<1>4. ASSUME NEW t \in Slaves, NEW a \in Addrs, NEW v \in Vals, CallUpdate(t, a, v)
      PROVE  TypeOK' /\ LaunchInv'
  <2>1. \A u \in Slaves : u # t => Launched(u)'
    BY <1>4, CallUpdateFrame, LaunchedFrame DEF LaunchInv, KeysStay
  <2>2. pid' # NoSlot => pid' < num'
    BY <1>4, CallUpdateFrame DEF LaunchInv, index
  <2> QED BY <1>4, <2>1, <2>2, CallUpdateType, CallUpdateLaunched DEF LaunchInv
<1>5. CASE UNCHANGED vars
  BY <1>5 DEF vars, index, locals, TypeOK, LaunchInv, Launched, MyHead, LastOfBlock
<1> QED BY <1>1, <1>2, <1>3, <1>4, <1>5 DEF Next, Work

(* The state keeps to its types: in particular no slave ever addresses     *)
(* MRAM outside the bucket arrays and the node region.                     *)
THEOREM TypeCorrect == Spec => []TypeOK
<1>1. Init => TypeOK /\ LaunchInv
  BY InitType, LaunchInit
<1> QED BY <1>1, TypeInductive, PTL DEF Spec

-----------------------------------------------------------------------------
(* Mutual exclusion on a bucket.                                           *)

(* But for buckets_mutex_lock and buckets_mutex_unlock, a step stays inside *)
(* or outside the critical section, with the same key.                     *)
LEMMA StepStays ==
  ASSUME TypeOK, NEW t \in Slaves, Step(t), pc[t] # "lock", pc[t] # "unlock"
  PROVE  /\ pc'[t] \in Critical <=> pc[t] \in Critical
         /\ pc[t] \in Critical => key'[t] = key[t]
<1>1. pc \in [Slaves -> Labels] /\ key \in [Slaves -> Keys \cup {NoKey}]
  BY DEF TypeOK
<1> USE <1>1 DEF Goto, locals, Critical
<1>2. CASE InitBucket(t)
  BY <1>2 DEF InitBucket
<1>3. CASE UsedLoad(t) \/ UsedStore(t)
  BY <1>3 DEF UsedLoad, UsedStore
<1>4. CASE InsertRead(t) \/ InsertPut(t) \/ InsertAlloc(t) \/ InsertLink(t) \/ InsertNode(t)
  BY <1>4 DEF InsertRead, InsertPut, InsertAlloc, InsertLink, InsertNode
<1>5. CASE DeleteRead(t) \/ DeletePull(t) \/ DeleteHead(t) \/ DeleteWalk(t) \/ DeleteUnlink(t)
  BY <1>5 DEF DeleteRead, DeletePull, DeleteHead, DeleteWalk, DeleteUnlink
<1>6. CASE LookupRead(t) \/ LookupWalk(t)
  BY <1>6 DEF LookupRead, LookupWalk, Missed
<1>7. CASE LookupFetch(t)
  BY <1>7 DEF LookupFetch
<1>8. CASE UpdatePeek(t) \/ UpdatePatch(t)
  BY <1>8 DEF UpdatePeek, UpdatePatch
<1>9. ~Lock(t) /\ ~Unlock(t)
  BY DEF Lock, Unlock
<1> QED BY StepCases, <1>2, <1>3, <1>4, <1>5, <1>6, <1>7, <1>8, <1>9

LEMMA StepLock ==
  ASSUME TypeOK, LaunchInv, LockInv, NEW t \in Slaves, Step(t)
  PROVE  LockInv'
<1>1. /\ \A u \in Slaves : u # t => SameSlave(u)
      /\ mutex \in [Mutexes -> Slaves \cup {0}]
      /\ pc \in [Slaves -> Labels]
  BY StepFrame DEF TypeOK
<1>2. \A u \in Slaves : u # t => MyMutex(u)' = MyMutex(u)
  BY <1>1 DEF SameSlave, MyMutex
<1>3. pc[t] \in Critical \cup {"lock"} => MyMutex(t) \in Mutexes
  BY MyHeadType DEF LaunchInv, Launched
<1>4. CASE Lock(t)
  <2>1. MyMutex(t)' = MyMutex(t)
    BY <1>4 DEF Lock, locals, MyMutex
  <2>2. /\ mutex[MyMutex(t)] = 0 /\ mutex' = [mutex EXCEPT ![MyMutex(t)] = t]
        /\ pc'[t] \in {"read", "patch"} /\ pc[t] = "lock" /\ MyMutex(t) \in Mutexes
    BY <1>1, <1>3, <1>4 DEF Lock, Goto
  <2>3. \A m \in Mutexes : mutex[m] # t
    BY <2>2 DEF LockInv, Critical
  <2> QED BY <1>1, <1>2, <2>1, <2>2, <2>3, SlaveNotZero DEF LockInv, SameSlave, Critical
<1>5. CASE Unlock(t)
  <2>1. /\ mutex' = [mutex EXCEPT ![MyMutex(t)] = 0] /\ pc'[t] \in {"idle", "fetch"}
        /\ pc[t] = "unlock" /\ MyMutex(t) \in Mutexes
    BY <1>1, <1>3, <1>5 DEF Unlock, Goto, Critical
  <2> QED BY <1>1, <1>2, <2>1, SlaveNotZero DEF LockInv, SameSlave, Critical
<1>6. CASE pc[t] # "lock" /\ pc[t] # "unlock"
  <2>1. /\ mutex' = mutex
        /\ pc'[t] \in Critical <=> pc[t] \in Critical
        /\ pc[t] \in Critical => MyMutex(t)' = MyMutex(t)
    BY <1>6, StepFrame, StepStays DEF MyMutex
  <2> QED BY <1>1, <1>2, <2>1 DEF LockInv, SameSlave
<1>7. pc[t] = "lock" => Lock(t)
  BY StepCases DEF InitBucket, Unlock, UsedLoad, UsedStore, InsertRead, InsertPut,
     InsertAlloc, InsertLink, InsertNode, DeleteRead, DeletePull, DeleteHead, DeleteWalk,
     DeleteUnlink, LookupRead, LookupWalk, LookupFetch, UpdatePeek, UpdatePatch
<1>8. pc[t] = "unlock" => Unlock(t)
  BY StepCases DEF InitBucket, Lock, UsedLoad, UsedStore, InsertRead, InsertPut,
     InsertAlloc, InsertLink, InsertNode, DeleteRead, DeletePull, DeleteHead, DeleteWalk,
     DeleteUnlink, LookupRead, LookupWalk, LookupFetch, UpdatePeek, UpdatePatch
<1> QED BY <1>4, <1>5, <1>6, <1>7, <1>8

LEMMA LockInductive ==
  ASSUME TypeOK, LaunchInv, LockInv, [Next]_vars
  PROVE  LockInv'
<1>1. CASE Begin
  <2>1. AllIdle /\ UNCHANGED mutex
    BY <1>1 DEF Begin, BeginCreate, BeginOp
  <2>2. \A t \in Slaves, m \in Mutexes : mutex'[m] # t
    BY <2>1 DEF AllIdle, LockInv, Critical
  <2>3. \A t \in Slaves : pc'[t] \in {"idle", "init"}
    BY <1>1, <2>1 DEF Begin, BeginCreate, BeginOp, AllIdle
  <2> QED BY <2>2, <2>3 DEF LockInv, Critical
<1>2. ASSUME NEW t \in Slaves, NEW k \in Keys, NEW v \in Vals \cup {0}, Call(t, k, v)
      PROVE  LockInv'
  <2>1. pc[t] = "idle" /\ pc'[t] = "lock" /\ UNCHANGED mutex
    BY <1>2 DEF Call, Goto, TypeOK
  <2>2. \A u \in Slaves : u # t => SameSlave(u)
    BY <1>2, CallFrame
  <2> QED BY <2>1, <2>2 DEF LockInv, Critical, SameSlave, MyMutex
<1>3. ASSUME NEW t \in Slaves, NEW a \in Addrs, NEW v \in Vals, CallUpdate(t, a, v)
      PROVE  LockInv'
  <2>1. pc[t] = "idle" /\ pc'[t] = "peek" /\ UNCHANGED mutex
    BY <1>3 DEF CallUpdate, Goto, TypeOK
  <2>2. \A u \in Slaves : u # t => SameSlave(u)
    BY <1>3, CallUpdateFrame
  <2> QED BY <2>1, <2>2 DEF LockInv, Critical, SameSlave, MyMutex
<1>4. CASE UNCHANGED vars
  BY <1>4 DEF vars, locals, LockInv, MyMutex
<1> QED BY <1>1, <1>2, <1>3, <1>4, StepLock DEF Next, Work

LEMMA LockInit == Init => LockInv
BY SlaveNotZero DEF Init, LockInv, Critical

LEMMA LockExcludes ==
  ASSUME LockInv, NEW t \in Slaves, NEW u \in Slaves, t # u, pid # NoSlot, TypeOK,
         pc[t] \in Critical, pc[u] \in Critical, key[t] \in Keys, key[u] \in Keys
  PROVE  MyHead(t) # MyHead(u)
<1>1. MyMutex(t) # MyMutex(u)
  BY DEF LockInv
<1>2. Bucket(key[t]) # Bucket(key[u])
  BY <1>1 DEF MyMutex
<1>3. pid * NrBuckets \in Int /\ Bucket(key[t]) \in Int /\ Bucket(key[u]) \in Int
  BY MyHeadType, SizeAssumption DEF Slots, Buckets
<1> QED BY <1>2, <1>3 DEF MyHead, BucketHead

(* No two slaves are in the critical section of the same bucket, however    *)
(* few mutexes the buckets are hashed onto.                                *)
THEOREM MutualExclusion == Spec => []BucketExclusive
<1>1. Init => TypeOK /\ LaunchInv /\ LockInv
  BY InitType, LaunchInit, LockInit
<1>2. TypeOK /\ LaunchInv /\ LockInv /\ [Next]_vars => (TypeOK /\ LaunchInv /\ LockInv)'
  BY TypeInductive, LockInductive
<1>3. TypeOK /\ LaunchInv /\ LockInv => BucketExclusive
  BY LockExcludes DEF BucketExclusive, LaunchInv, Launched
<1> QED BY <1>1, <1>2, <1>3, PTL DEF Spec

-----------------------------------------------------------------------------
(* Which heads are live.                                                   *)

LEMMA MyHeadLive ==
  ASSUME TypeOK, LaunchInv, NEW t \in Slaves, pc[t] \in Critical \cup {"lock", "fetch"}
  PROVE  MyHead(t) \in LiveHeads
<1>1. /\ pid \in Slots /\ pid < num /\ num \in Nat /\ Bucket(key[t]) \in Buckets
      /\ MyHead(t) \in Heads
  BY MyHeadType DEF TypeOK, LaunchInv, Launched
<1>2. MyHead(t) <= num * NrBuckets
  BY <1>1, HeadBelow DEF MyHead
<1>3. \A u \in Slaves : pc[u] # "init"
  BY DEF LaunchInv, Launched, Operations
<1> QED BY <1>1, <1>2, <1>3 DEF LiveHeads, Fresh

LEMMA StepLive ==
  ASSUME TypeOK, NEW t \in Slaves, Step(t), pc[t] # "init"
  PROVE  LiveHeads' = LiveHeads
<1>1. pc'[t] # "init"
  BY StepCases DEF TypeOK, InitBucket, Lock, Unlock, UsedLoad, UsedStore, InsertRead,
     InsertPut, InsertAlloc, InsertLink, InsertNode, DeleteRead, DeletePull, DeleteHead,
     DeleteWalk, DeleteUnlink, LookupRead, LookupWalk, Missed, LookupFetch, UpdatePeek,
     UpdatePatch, Goto
<1>2. \A a : Fresh(a)' <=> Fresh(a)
  BY <1>1, StepFrame DEF Fresh, SameSlave, LastOfBlock, index
<1> QED BY <1>2, StepFrame DEF LiveHeads, index

-----------------------------------------------------------------------------
(* Steps that write neither MRAM nor the allocator.                        *)

Quiet(t) ==
  /\ UNCHANGED <<mem, home, avail, index>>
  /\ \A u \in Slaves : u # t => SameSlave(u)
  /\ LiveHeads' = LiveHeads
  /\ pc[t] # "node"

LEMMA QuietShape ==
  ASSUME NEW t \in Slaves, Quiet(t), ChainShape, AllocInv
  PROVE  ChainShape' /\ AllocInv'
<1>1. \A h, x : Follows(h, x)' <=> Follows(h, x)
  BY DEF Quiet, Follows, Hosts
<1>2. ASSUME NEW h \in LiveHeads PROVE HeadShape(h)'
  <2>1. HeadShape(h)
    BY DEF ChainShape
  <2>2. CASE Follows(h, mem[h].next)
    BY <1>1, <2>1, <2>2 DEF HeadShape, Quiet, Hosts
  <2>3. ASSUME NEW u \in Slaves, pc[u] = "node", MyHead(u) = h, ptr[u] = mem[h].next,
               Unwritten(h, ptr[u])
        PROVE  HeadShape(h)'
    BY <2>1, <2>3 DEF HeadShape, Quiet, Hosts, SameSlave, MyHead, Unwritten, index
  <2> QED BY <2>1, <2>2, <2>3 DEF HeadShape
<1>3. ASSUME NEW n \in Nodes PROVE NodeShape(n)'
  BY <1>1 DEF ChainShape, NodeShape, Quiet, Hosts
<1> QED BY <1>2, <1>3 DEF ChainShape, AllocInv, Quiet

LEMMA QuietRegisters ==
  ASSUME NEW t \in Slaves, Quiet(t), NEW u \in Slaves, u # t, Registers(u)
  PROVE  Registers(u)'
<1>1. /\ \A h, x : Follows(h, x)' <=> Follows(h, x)
      /\ \A h, x : Unwritten(h, x)' <=> Unwritten(h, x)
      /\ \A h, x : Hosts(h, x)' <=> Hosts(h, x)
      /\ \A h, x : Belongs(h, x)' <=> Belongs(h, x)
  BY DEF Quiet, Follows, Hosts, Unwritten, Belongs
<1>2. SameSlave(u) /\ MyHead(u)' = MyHead(u) /\ UNCHANGED <<mem, opType, home, pid>>
  BY DEF Quiet, SameSlave, MyHead, index
<1>3. InsertRegisters(u, MyHead(u))'
  BY <1>1, <1>2 DEF Registers, InsertRegisters, SameSlave
<1>4. DeleteRegisters(u, MyHead(u))'
  BY <1>1, <1>2 DEF Registers, DeleteRegisters, SameSlave
<1>5. WalkRegisters(u, MyHead(u))'
  BY <1>1, <1>2 DEF Registers, WalkRegisters, SameSlave
<1>6. UpdateRegisters(u, MyHead(u))'
  BY <1>1, <1>2 DEF Registers, UpdateRegisters, SameSlave, Held
<1> QED BY <1>2, <1>3, <1>4, <1>5, <1>6 DEF Registers, SameSlave

QuietLabels == {"lock", "unlock", "load", "store", "read", "pull", "walk", "fetch",
                "reread", "peek"}

LEMMA StepQuiet ==
  ASSUME TypeOK, NEW t \in Slaves, Step(t), pc[t] \in QuietLabels
  PROVE  Quiet(t)
<1>1. UNCHANGED mem
  BY StepCases DEF QuietLabels, InitBucket, Lock, Unlock, UsedLoad, UsedStore, InsertRead,
     InsertPut, InsertAlloc, InsertLink, InsertNode, DeleteRead, DeletePull, DeleteHead,
     DeleteWalk, DeleteUnlink, LookupRead, LookupWalk, LookupFetch, UpdatePeek, UpdatePatch
<1> QED BY <1>1, StepFrame, StepLive DEF Quiet, QuietLabels

(* The bucket a slave is at work on, as the slave may rely on it. *)
LEMMA OwnHead ==
  ASSUME TypeOK, LaunchInv, LockInv, ChainShape, NEW t \in Slaves,
         pc[t] \in Critical, pc[t] # "node"
  PROVE  /\ MyHead(t) \in Addrs /\ MyHead(t) # Null
         /\ mem[MyHead(t)] \in Entry /\ mem[MyHead(t)].key # JunkKey
         /\ mem[MyHead(t)].key = NoKey => mem[MyHead(t)].next = Null
         /\ mem[MyHead(t)].key # NoKey => Hosts(MyHead(t), mem[MyHead(t)].key)
         /\ Follows(MyHead(t), mem[MyHead(t)].next)
<1> DEFINE h == MyHead(t)
<1>1. h \in Addrs /\ h # Null /\ mem[h] \in Entry
  BY MyHeadType DEF LaunchInv, Launched, TypeOK
<1>2. HeadShape(h)
  BY MyHeadLive DEF ChainShape
<1>3. \A u \in Slaves : pc[u] = "node" => MyHead(u) # h
  BY LockExcludes DEF LaunchInv, Launched, Critical
<1>4. Follows(h, mem[h].next)
  BY <1>2, <1>3 DEF HeadShape
<1>5. mem[h].key # JunkKey
  BY <1>2, DataAssumption DEF HeadShape, Hosts
<1> QED BY <1>1, <1>2, <1>4, <1>5 DEF HeadShape

LEMMA OwnNode ==
  ASSUME TypeOK, ChainShape, NEW h \in Heads, NEW x, Follows(h, x), x # Null
  PROVE  /\ x \in Nodes /\ x \in Addrs /\ mem[x] \in Entry /\ mem[x].key # JunkKey
         /\ Hosts(h, mem[x].key) /\ Follows(h, mem[x].next) /\ mem[x].next < x
<1>1. x \in Nodes /\ home[x] = h /\ Hosts(h, mem[x].key)
  BY DEF Follows
<1>2. h # Null /\ x \in Addrs
  BY <1>1, Layout DEF Heads, Null, Nodes, Addrs
<1>3. mem[x].key # JunkKey /\ mem[x] # Junk
  BY <1>1, DataAssumption DEF Hosts, Junk
<1>4. NodeShape(x)
  BY <1>1 DEF ChainShape
<1> QED BY <1>1, <1>2, <1>3, <1>4 DEF NodeShape, TypeOK

LEMMA OwnRegisters ==
  ASSUME TypeOK, LaunchInv, LockInv, ChainShape, RegisterInv,
         NEW t \in Slaves, Step(t), pc[t] \in QuietLabels
  PROVE  Registers(t)'
<1> DEFINE h == MyHead(t)
<1>1. Launched(t) /\ Registers(t) /\ Quiet(t)
  BY StepQuiet DEF LaunchInv, RegisterInv
<1> USE DEF Finding, Adding
<1>2. /\ \A g, x : Follows(g, x)' <=> Follows(g, x)
      /\ \A g, x : Hosts(g, x)' <=> Hosts(g, x)
      /\ \A g, x : Belongs(g, x)' <=> Belongs(g, x)
      /\ UNCHANGED <<mem, opType, pid, home>>
  BY <1>1 DEF Quiet, Follows, Hosts, Belongs, index
<1>3. /\ pc \in [Slaves -> Labels] /\ key \in [Slaves -> Keys \cup {NoKey}]
      /\ ptr \in [Slaves -> 0..LastNode] /\ buf \in [Slaves -> Entry]
      /\ last \in [Slaves -> Entry] /\ (pc[t] # "peek" => h \in Heads)
  BY <1>1, MyHeadType DEF TypeOK, Launched, QuietLabels, Critical
<1>4. key'[t] = key[t] => MyHead(t)' = h
  BY <1>2 DEF MyHead
<1>5. CASE pc'[t] \in {"idle", "read"}
  BY <1>5 DEF Registers, InsertRegisters, DeleteRegisters, WalkRegisters, UpdateRegisters, Critical
<1>6. CASE Unlock(t) /\ pc'[t] = "fetch"
  <2>1. pc[t] = "unlock" /\ opType \in Finding /\ UNCHANGED <<key, ptr>>
    BY <1>3, <1>6 DEF Unlock, Goto, locals, Returned
  <2> QED BY <1>1, <1>2, <1>4, <1>6, <2>1 DEF Registers, InsertRegisters,
             DeleteRegisters, WalkRegisters, UpdateRegisters, Critical
<1>7. CASE UsedLoad(t) \/ UsedStore(t)
  BY <1>1, <1>2, <1>3, <1>7 DEF UsedLoad, UsedStore, Goto, locals, Launched, Registers,
     InsertRegisters, DeleteRegisters, WalkRegisters, UpdateRegisters, Critical
<1>8. CASE InsertRead(t)
  <2>1. /\ buf'[t] = mem[h] /\ key'[t] = key[t] /\ ptr'[t] = ptr[t]
        /\ \/ pc'[t] = "put" /\ mem[h].key = NoKey
           \/ pc'[t] = "alloc" /\ mem[h].key # NoKey
        /\ mem[h].key # JunkKey
    BY <1>1, <1>3, <1>8, OwnHead DEF InsertRead, Goto, Launched, Critical
  <2> QED BY <1>2, <1>4, <2>1 DEF Registers, InsertRegisters, DeleteRegisters,
             WalkRegisters, UpdateRegisters
<1>9. CASE DeleteRead(t)
  <2>1. ptr[t] = h /\ mem[h] \in Entry /\ mem[h].key # JunkKey /\ key'[t] = key[t]
        /\ ptr'[t] = ptr[t] /\ h \in Addrs
    BY <1>1, <1>9, OwnHead DEF DeleteRead, Launched, Critical
  <2>2. \/ /\ buf'[t] = [mem[h] EXCEPT !.key = NoKey]
           /\ \/ pc'[t] = "head" /\ mem[h].next = Null
              \/ pc'[t] = "pull"
        \/ buf'[t] = mem[h] /\ pc'[t] = "walk"
    BY <1>3, <1>9, <2>1 DEF DeleteRead, Goto
  <2>3. /\ [mem[h] EXCEPT !.key = NoKey].key = NoKey
        /\ [mem[h] EXCEPT !.key = NoKey].next = mem[h].next
    BY <2>1 DEF Entry
  <2>4. Belongs(h, h)
    BY DEF Belongs
  <2> QED BY <1>2, <1>4, <2>1, <2>2, <2>3, <2>4, DataAssumption DEF Registers,
             InsertRegisters, DeleteRegisters, WalkRegisters, UpdateRegisters
<1>10. CASE DeletePull(t)
  <2>1. /\ buf[t] = [mem[h] EXCEPT !.key = NoKey] /\ buf[t].next # Null
        /\ pc[t] = "pull" /\ mem[h] \in Entry /\ Follows(h, mem[h].next)
    BY <1>1, <1>10, OwnHead DEF DeletePull, Registers, DeleteRegisters, Launched, Critical
  <2>2. buf[t].next = mem[h].next
    BY <2>1 DEF Entry
  <2>3. /\ buf'[t] = mem[mem[h].next] /\ pc'[t] = "head" /\ key'[t] = key[t]
    BY <1>3, <1>10, <2>2 DEF DeletePull, Goto
  <2>4. /\ Hosts(h, buf'[t].key) /\ Follows(h, buf'[t].next) /\ buf'[t].key # JunkKey
    BY <1>3, <2>1, <2>2, <2>3, OwnNode
  <2> QED BY <1>2, <1>4, <2>3, <2>4 DEF Registers, InsertRegisters, DeleteRegisters,
             WalkRegisters, UpdateRegisters
<1>11. ASSUME pc[t] = "walk"
       PROVE  /\ Belongs(h, ptr[t]) /\ buf[t] = mem[ptr[t]] /\ buf[t].key # JunkKey
              /\ Follows(h, buf[t].next)
              /\ buf[t].next # Null => /\ Belongs(h, buf[t].next)
                                       /\ mem[buf[t].next].key # JunkKey
  <2>1. Belongs(h, ptr[t]) /\ buf[t] = mem[ptr[t]] /\ buf[t].key # JunkKey
    BY <1>1, <1>11 DEF Registers, WalkRegisters, UpdateRegisters, Critical
  <2>2. Follows(h, buf[t].next)
    <3>1. CASE ptr[t] = h
      BY <1>11, <2>1, <3>1, OwnHead DEF Critical
    <3>2. CASE ptr[t] # h
      BY <1>3, <1>11, <2>1, <3>2, OwnNode DEF Belongs
    <3> QED BY <3>1, <3>2
  <2> QED BY <1>3, <1>11, <2>1, <2>2, OwnNode DEF Belongs
<1>12. CASE DeleteWalk(t)
  <2>1. pc[t] = "walk" /\ opType = "delete" /\ key'[t] = key[t]
    BY <1>12 DEF DeleteWalk
  <2>2. CASE buf[t].next = Null
    BY <1>1, <1>2, <1>3, <1>11, <1>12, <2>1, <2>2 DEF DeleteWalk, Goto, Registers,
       InsertRegisters, DeleteRegisters, WalkRegisters, UpdateRegisters
  <2>3. CASE buf[t].next # Null
    <3>1. /\ last'[t] = buf[t] /\ buf'[t] = mem[buf[t].next]
          /\ \/ pc'[t] = "unlink" /\ ptr'[t] = ptr[t]
             \/ pc'[t] = "walk" /\ ptr'[t] = buf[t].next
      BY <1>3, <1>12, <2>3 DEF DeleteWalk, Goto
    <3> QED BY <1>2, <1>4, <1>11, <2>1, <2>3, <3>1 DEF Registers, InsertRegisters,
               DeleteRegisters, WalkRegisters, UpdateRegisters
  <2> QED BY <2>2, <2>3
<1>13. CASE LookupRead(t)
  <2>1. /\ buf'[t] = mem[h] /\ key'[t] = key[t] /\ ptr'[t] = h /\ pc'[t] = "walk"
        /\ mem[h].key # JunkKey
    BY <1>1, <1>3, <1>13, OwnHead DEF LookupRead, Goto, Launched, Critical
  <2> QED BY <1>2, <1>4, <2>1 DEF Registers, InsertRegisters, DeleteRegisters,
             WalkRegisters, UpdateRegisters, Belongs
<1>14. CASE LookupWalk(t)
  <2>1. pc[t] = "walk" /\ opType \in Finding /\ key'[t] = key[t]
    BY <1>14 DEF LookupWalk
  <2>2. CASE buf[t].key = key[t]
    <3>1. pc'[t] = "unlock" /\ buf'[t] = buf[t] /\ ptr'[t] = ptr[t]
      BY <1>3, <1>14, <2>2 DEF LookupWalk, Goto
    <3> QED BY <1>2, <1>4, <1>11, <2>1, <2>2, <3>1 DEF Registers, InsertRegisters,
               DeleteRegisters, WalkRegisters, UpdateRegisters
  <2>3. CASE buf[t].key # key[t]
    <3>1. \/ pc'[t] = "unlock" /\ ptr'[t] = Null /\ buf'[t] = buf[t]
          \/ pc'[t] = "reread" /\ buf'[t] = buf[t]
          \/ /\ pc'[t] = "walk" /\ buf[t].next # Null /\ buf'[t] = mem[buf[t].next]
             /\ ptr'[t] = buf[t].next
      BY <1>3, <1>14, <2>3 DEF LookupWalk, Missed, Goto
    <3> QED BY <1>2, <1>4, <1>11, <2>1, <3>1 DEF Registers, InsertRegisters,
               DeleteRegisters, WalkRegisters, UpdateRegisters
  <2> QED BY <2>2, <2>3
<1>15. CASE LookupFetch(t)
  BY <1>3, <1>5, <1>15 DEF LookupFetch, Goto
<1>17. CASE Lock(t)
  <2>1. CASE pc'[t] = "read"
    BY <1>5, <2>1
  <2>2. CASE pc'[t] # "read"
    <3>1. /\ pc[t] = "lock" /\ pc'[t] = "patch" /\ opType = "update"
          /\ UNCHANGED <<key, ptr, buf>>
      BY <1>3, <1>17, <2>2 DEF Lock, Goto, locals
    <3>2. buf[t].key = key[t] /\ key[t] \in Keys
      BY <1>1, <3>1 DEF Launched
    <3> QED BY <1>1, <1>2, <1>4, <3>1, <3>2, DataAssumption DEF Registers, InsertRegisters,
               DeleteRegisters, WalkRegisters, UpdateRegisters
  <2> QED BY <2>1, <2>2
<1>18. CASE UpdatePeek(t)
  <2>1. /\ pc[t] = "peek" /\ pc'[t] = "lock" /\ ptr'[t] = ptr[t] /\ ptr[t] \in Addrs
        /\ buf'[t] = mem[ptr[t]] /\ key'[t] = mem[ptr[t]].key /\ Held(ptr[t])
        /\ opType = "update" /\ pid # NoSlot
    BY <1>1, <1>3, <1>18 DEF UpdatePeek, Goto, Launched, Registers, UpdateRegisters
  <2>2. MyHead(t)' = BucketHead(pid, Bucket(mem[ptr[t]].key)) /\ pid \in Slots
    BY <1>2, <2>1 DEF MyHead, TypeOK
  <2>3. Belongs(MyHead(t)', ptr[t])
    BY <2>1, <2>2, Layout DEF Held, Belongs, Follows, Hosts, Addrs, Null
  <2> QED BY <1>2, <2>1, <2>3 DEF Registers, InsertRegisters, DeleteRegisters,
             WalkRegisters, UpdateRegisters, Critical
<1>16. CASE Unlock(t)
  BY <1>3, <1>5, <1>6, <1>16 DEF Unlock, Goto
<1> QED
  BY StepCases, <1>7, <1>8, <1>9, <1>10, <1>12, <1>13, <1>14, <1>15, <1>16, <1>17, <1>18
     DEF QuietLabels, InitBucket, InsertPut, InsertAlloc, InsertLink, InsertNode,
     DeleteHead, DeleteUnlink, UpdatePatch

-----------------------------------------------------------------------------
(* Steps that write the bucket of slave t.                                 *)

(* What lies behind head h: h itself and the nodes allocated for it.       *)
Private(h) == {h} \cup {n \in Nodes : home[n] = h}

(* Another slave may hold the address of an entry of the bucket while t     *)
(* adds to it: no entry that has a key changes it then.                    *)
Writes(t) ==
  /\ pc[t] \in Critical /\ opType \in Adding \cup {"delete"}
  /\ UNCHANGED <<home, avail, index>>
  /\ \A u \in Slaves : u # t => SameSlave(u)
  /\ LiveHeads' = LiveHeads
  /\ \A a \in Addrs \ Private(MyHead(t)) : mem'[a] = mem[a]
  /\ opType # "delete" =>
       \A a \in Addrs : mem[a].key \in Keys => mem'[a].key = mem[a].key

LEMMA WriterElsewhere ==
  ASSUME TypeOK, LaunchInv, NEW t \in Slaves, Writes(t), NEW h \in Heads, h # MyHead(t)
  PROVE  /\ mem'[h] = mem[h]
         /\ \A x : Follows(h, x)' <=> Follows(h, x)
         /\ \A x : Unwritten(h, x)' <=> Unwritten(h, x)
         /\ \A x : Belongs(h, x)' <=> Belongs(h, x)
         /\ \A x : Belongs(h, x) => mem'[x] = mem[x]
<1>1. \A n \in Nodes : n \in Addrs /\ n \notin Heads /\ n # Null
  BY Layout DEF Nodes, Addrs, Heads, Null
<1>2. h \in Addrs /\ h # Null
  BY Layout DEF Heads, Addrs, Null
<1>3. MyHead(t) \in Heads
  BY MyHeadType DEF Writes, LaunchInv, Launched
<1>4. mem'[h] = mem[h]
  BY <1>1, <1>2 DEF Writes, Private
<1>5. \A x \in Nodes : home[x] = h => mem'[x] = mem[x]
  BY <1>1, <1>3 DEF Writes, Private
<1>6. home' = home
  BY DEF Writes
<1> QED BY <1>4, <1>5, <1>6 DEF Follows, Unwritten, Belongs, Hosts

LEMMA WriteShapeElsewhere ==
  ASSUME TypeOK, LaunchInv, ChainShape, NEW t \in Slaves, Writes(t)
  PROVE  /\ \A h \in LiveHeads : h # MyHead(t) => HeadShape(h)'
         /\ \A n \in Nodes : home[n] # MyHead(t) => NodeShape(n)'
<1>1. ASSUME NEW h \in LiveHeads, h # MyHead(t) PROVE HeadShape(h)'
  <2>1. h \in Heads /\ HeadShape(h)
    BY DEF LiveHeads, ChainShape
  <2>2. CASE Follows(h, mem[h].next)
    BY <1>1, <2>1, <2>2, WriterElsewhere DEF HeadShape, Hosts
  <2>3. ASSUME NEW u \in Slaves, pc[u] = "node", MyHead(u) = h, ptr[u] = mem[h].next,
               Unwritten(h, ptr[u])
        PROVE  HeadShape(h)'
    <3>1. SameSlave(u) /\ MyHead(u)' = h
      BY <1>1, <2>3 DEF Writes, SameSlave, MyHead, index
    <3> QED BY <1>1, <2>1, <2>3, <3>1, WriterElsewhere DEF HeadShape, Hosts, SameSlave
  <2> QED BY <2>1, <2>2, <2>3 DEF HeadShape
<1>2. ASSUME NEW n \in Nodes, home[n] # MyHead(t) PROVE NodeShape(n)'
  <2>1. NodeShape(n) /\ home' = home /\ LiveHeads' = LiveHeads
    BY DEF ChainShape, Writes
  <2>2. CASE home[n] = Null
    BY <2>1, <2>2 DEF NodeShape
  <2>3. CASE home[n] # Null
    <3>1. home[n] \in Heads
      BY <2>1, <2>3 DEF NodeShape, LiveHeads
    <3>2. n \in Addrs /\ n # MyHead(t)
      BY Layout, MyHeadType DEF Nodes, Addrs, Heads, Writes, LaunchInv, Launched
    <3>3. mem'[n] = mem[n]
      BY <1>2, <3>2 DEF Writes, Private
    <3> QED BY <1>2, <2>1, <3>1, <3>3, WriterElsewhere DEF NodeShape, Hosts
  <2> QED BY <2>2, <2>3
<1> QED BY <1>1, <1>2

LEMMA WriteRegistersElsewhere ==
  ASSUME TypeOK, LaunchInv, LockInv, RegisterInv, NEW t \in Slaves, Writes(t),
         NEW u \in Slaves, u # t
  PROVE  Registers(u)'
<1> PICK h : h = MyHead(u)
  OBVIOUS
<1>1. SameSlave(u) /\ Registers(u) /\ Launched(u) /\ Launched(t) /\ MyHead(u)' = h
      /\ opType' = opType
  BY DEF Writes, RegisterInv, LaunchInv, MyHead, SameSlave, index
<1>0. UpdateRegisters(u, h)'
  <2>1. opType # "update"
    BY DEF Writes, Adding
  <2>2. pc[u] # "peek"
    BY <1>1, <2>1 DEF Launched
  <2> QED BY <1>1, <2>1, <2>2 DEF UpdateRegisters, SameSlave
<1>2. CASE pc[u] \in Critical
  <2>1. h \in Heads /\ h # MyHead(t)
    BY <1>1, <1>2, LockExcludes, MyHeadType DEF Writes, Launched
  <2>2. /\ mem'[h] = mem[h]
        /\ \A x : Follows(h, x)' <=> Follows(h, x)
        /\ \A x : Unwritten(h, x)' <=> Unwritten(h, x)
        /\ \A x : Belongs(h, x)' <=> Belongs(h, x)
        /\ \A x : Belongs(h, x) => mem'[x] = mem[x]
    BY <2>1, WriterElsewhere
  <2>3. \A k : Hosts(h, k)' <=> Hosts(h, k)
    BY DEF Hosts
  <2>4. InsertRegisters(u, h)'
    BY <1>1, <2>2 DEF Registers, InsertRegisters, SameSlave
  <2>5. DeleteRegisters(u, h)'
    BY <1>1, <2>2, <2>3 DEF Registers, DeleteRegisters, SameSlave, Belongs
  <2>6. WalkRegisters(u, h)'
    BY <1>1, <2>2 DEF Registers, WalkRegisters, SameSlave
  <2> QED BY <1>1, <1>0, <2>4, <2>5, <2>6 DEF Registers, SameSlave
<1>3. CASE pc[u] = "fetch"
  <2>1. /\ opType # "delete" /\ key[u] \in Keys /\ home' = home
        /\ \A a \in Addrs : mem[a].key \in Keys => mem'[a].key = mem[a].key
    BY <1>1, <1>3 DEF Launched, Writes, Finding
  <2>2. h \in Addrs
    BY <1>1, <1>3, MyHeadType DEF Launched
  <2>3. ASSUME ptr[u] # Null, Belongs(h, ptr[u]), mem[ptr[u]].key = key[u]
        PROVE  Belongs(h, ptr[u])' /\ mem'[ptr[u]].key = key[u]
    <3>1. ptr[u] \in Addrs
      BY <2>2, <2>3, Layout DEF Belongs, Follows, Nodes, Addrs
    <3>2. mem'[ptr[u]].key = mem[ptr[u]].key
      BY <2>1, <2>3, <3>1
    <3> QED BY <1>1, <2>1, <2>3, <3>2 DEF Belongs, Follows, Hosts, SameSlave
  <2> QED BY <1>1, <1>0, <1>3, <2>3 DEF Registers, InsertRegisters, DeleteRegisters,
             WalkRegisters, SameSlave, Critical
<1>4. CASE pc[u] \notin Critical \cup {"fetch"}
  <2>1. pc'[u] \notin Critical \cup {"fetch"}
    BY <1>1, <1>4 DEF SameSlave
  <2> QED BY <1>1, <1>0, <2>1 DEF Registers, InsertRegisters, DeleteRegisters, WalkRegisters,
             Critical
<1> QED BY <1>2, <1>3, <1>4

(* What a writer has to show of its own bucket. *)
LEMMA WriterObligations ==
  ASSUME TypeOK, LaunchInv, LockInv, AllocInv, ChainShape, RegisterInv,
         NEW t \in Slaves, Writes(t), Registers(t)', NEW h \in Heads, h = MyHead(t),
         HeadShape(h)', \A n \in Nodes : home[n] = h => NodeShape(n)'
  PROVE  AllocInv' /\ ChainShape' /\ RegisterInv'
<1>1. ChainShape'
  BY WriteShapeElsewhere DEF ChainShape, Writes
<1>2. RegisterInv'
  BY WriteRegistersElsewhere DEF RegisterInv
<1>3. AllocInv'
  <2>1. MyHead(t) # Null /\ \A n \in Nodes : n \in Addrs /\ n # MyHead(t)
    BY MyHeadType, Layout DEF Nodes, Addrs, Heads, Writes, LaunchInv, Launched
  <2>2. \A n \in Nodes : home[n] = Null => mem'[n] = mem[n]
    BY <2>1 DEF Writes, Private
  <2> QED BY <2>2 DEF AllocInv, Writes
<1> QED BY <1>1, <1>2, <1>3

WriterLabels == {"put", "link", "node", "head", "unlink"}

LEMMA StepWrites ==
  ASSUME TypeOK, LaunchInv, NEW t \in Slaves, Step(t), pc[t] \in WriterLabels,
         \A a \in Addrs \ Private(MyHead(t)) : mem'[a] = mem[a],
         opType # "delete" =>
           \A a \in Addrs : mem[a].key \in Keys => mem'[a].key = mem[a].key
  PROVE  Writes(t)
<1>1. pc[t] \in Critical /\ opType \in Adding \cup {"delete"}
  BY DEF LaunchInv, Launched, WriterLabels, Critical
<1> QED BY <1>1, StepFrame, StepLive DEF Writes, WriterLabels

(* An insert into an empty bucket. *)
LEMMA PutKeepsShape ==
  ASSUME TypeOK, LaunchInv, LockInv, AllocInv, ChainShape, RegisterInv,
         NEW t \in Slaves, InsertPut(t)
  PROVE  AllocInv' /\ ChainShape' /\ RegisterInv'
<1> PICK h : h = MyHead(t)
  OBVIOUS
<1> DEFINE e == [key |-> key[t], val |-> val[t], next |-> Null]
<1>1. /\ pc[t] = "put" /\ pc'[t] = "load" /\ ptr[t] = h
      /\ key[t] \in Keys /\ pid # NoSlot
      /\ mem' = [mem EXCEPT ![h] = e] 
      /\ UNCHANGED <<key, buf, home, pid, opType>>
  BY DEF InsertPut, Goto, LaunchInv, Launched, TypeOK, Critical, index, locals
<1>2. h \in Heads /\ h \in Addrs /\ pid \in Slots /\ h # Null /\ MyHead(t)' = h
  BY <1>1, MyHeadType DEF MyHead
<1>3. /\ \A n \in Nodes : n # h /\ n \in Addrs
  BY <1>2, Layout DEF Heads, Nodes, Addrs
<1>4. mem'[h] = e /\ \A a \in Addrs : a # h => mem'[a] = mem[a]
  BY <1>1, <1>2 DEF TypeOK
<1>5. Writes(t)
  <2>1. mem[h].key \notin Keys
    BY <1>1, DataAssumption DEF RegisterInv, Registers, InsertRegisters
  <2> QED BY <1>1, <1>4, <2>1, StepWrites DEF Private, WriterLabels, Step, Insert
<1>6. \A x : Follows(h, x)' <=> Follows(h, x)
  BY <1>1, <1>3, <1>4 DEF Follows, Hosts
<1>7. HeadShape(h)'
  BY <1>1, <1>2, <1>4, DataAssumption DEF HeadShape, Hosts, MyHead, Follows
<1>8. \A n \in Nodes : home[n] = h => NodeShape(n)'
  BY <1>1, <1>3, <1>4, <1>5, <1>6 DEF ChainShape, NodeShape, Hosts, Writes
<1>9. Registers(t)'
  BY <1>1 DEF RegisterInv, Registers, InsertRegisters, DeleteRegisters, WalkRegisters, UpdateRegisters, Critical
<1> QED BY <1>5, <1>7, <1>8, <1>9, <1>2, WriterObligations

(* An insert into an occupied bucket: the head is linked to the new node. *)
LEMMA LinkKeepsShape ==
  ASSUME TypeOK, LaunchInv, LockInv, AllocInv, ChainShape, RegisterInv,
         NEW t \in Slaves, InsertLink(t)
  PROVE  AllocInv' /\ ChainShape' /\ RegisterInv'
<1> PICK h : h = MyHead(t)
  OBVIOUS
<1>1. /\ pc[t] = "link" /\ pc'[t] = "node" /\ ptr[t] = h /\ key[t] \in Keys /\ pid # NoSlot
      /\ mem' = [mem EXCEPT ![h] = buf[t]] /\ ptr'[t] = buf[t].next
      /\ UNCHANGED <<key, buf, tail, home, pid, opType>>
  BY DEF InsertLink, Goto, LaunchInv, Launched, TypeOK, Critical, index
<1>2. h \in Heads /\ h \in Addrs /\ h # Null /\ MyHead(t)' = h
  BY <1>1, MyHeadType DEF MyHead
<1>3. \A n \in Nodes : n # h /\ n \in Addrs
  BY <1>2, Layout DEF Heads, Nodes, Addrs
<1>4. mem'[h] = buf[t] /\ \A a \in Addrs : a # h => mem'[a] = mem[a]
  BY <1>1, <1>2 DEF TypeOK
<1>6. /\ \A x : Follows(h, x)' <=> Follows(h, x)
      /\ \A x : Unwritten(h, x)' <=> Unwritten(h, x)
  BY <1>1, <1>3, <1>4 DEF Follows, Unwritten, Hosts
<1>7. /\ mem[h].key # NoKey /\ tail[t] = mem[h].next
      /\ buf[t] = [mem[h] EXCEPT !.next = buf[t].next]
      /\ buf[t].next # Null => Unwritten(h, buf[t].next) /\ tail[t] < buf[t].next
      /\ buf[t].key # JunkKey
  BY <1>1 DEF RegisterInv, Registers, InsertRegisters, Critical
<1>8. /\ mem[h] \in Entry /\ Hosts(h, mem[h].key) /\ Follows(h, tail[t])
  BY <1>1, <1>7, OwnHead DEF Critical
<1>9. buf[t].key = mem[h].key
  BY <1>7, <1>8 DEF Entry
<1>5. Writes(t)
  BY <1>1, <1>4, <1>9, StepWrites DEF Private, WriterLabels, Step, Insert
<1>10. HeadShape(h)'
  <2>1. Hosts(h, buf[t].key)' /\ mem'[h].key # NoKey
    BY <1>1, <1>4, <1>7, <1>8, <1>9 DEF Hosts
  <2>2. buf[t].next = Null => Follows(h, mem[h].next)'
    BY <1>4 DEF Follows
  <2>3. buf[t].next # Null =>
          /\ pc'[t] = "node" /\ MyHead(t)' = h /\ ptr'[t] = mem'[h].next
          /\ Unwritten(h, ptr[t])'
    BY <1>1, <1>2, <1>4, <1>6, <1>7 DEF Unwritten
  <2> QED BY <1>1, <1>4, <2>1, <2>2, <2>3 DEF HeadShape
<1>11. \A n \in Nodes : home[n] = h => NodeShape(n)'
  BY <1>1, <1>3, <1>4, <1>5, <1>6 DEF ChainShape, NodeShape, Hosts, Writes
<1>12. Registers(t)'
  <2>1. Follows(h, tail[t])' /\ (ptr'[t] # Null => Unwritten(h, ptr[t])')
    BY <1>1, <1>6, <1>7, <1>8 DEF Follows, Unwritten
  <2> QED BY <1>1, <1>2, <1>4, <1>7, <1>9, <2>1 DEF Registers, InsertRegisters,
             DeleteRegisters, WalkRegisters, UpdateRegisters
<1> QED BY <1>2, <1>5, <1>10, <1>11, <1>12, WriterObligations

(* The new node is written. *)
LEMMA NodeKeepsShape ==
  ASSUME TypeOK, LaunchInv, LockInv, AllocInv, ChainShape, RegisterInv,
         NEW t \in Slaves, InsertNode(t)
  PROVE  AllocInv' /\ ChainShape' /\ RegisterInv'
<1> PICK h : h = MyHead(t)
  OBVIOUS
<1>1. /\ pc[t] = "node" /\ pc'[t] = "load" /\ key[t] \in Keys /\ pid # NoSlot
      /\ UNCHANGED <<key, buf, home, pid, opType>>
  BY DEF InsertNode, Goto, LaunchInv, Launched, TypeOK, Critical, index, locals
<1>2. h \in Heads /\ h \in Addrs /\ h # Null /\ MyHead(t)' = h /\ Hosts(h, key[t])
  BY <1>1, MyHeadType DEF MyHead, Hosts
<1>3. /\ ptr[t] = mem[h].next /\ Follows(h, tail[t]) /\ mem[h].key # NoKey
      /\ ptr[t] # Null => Unwritten(h, ptr[t]) /\ tail[t] < ptr[t]
      /\ buf[t].key # JunkKey
  BY <1>1 DEF RegisterInv, Registers, InsertRegisters, Critical
<1>4. \A n \in Nodes : n # h /\ n \in Addrs
  BY <1>2, Layout DEF Heads, Nodes, Addrs
<1>5. /\ \A a \in Addrs : a # ptr[t] => mem'[a] = mem[a]
      /\ ptr[t] # Null => mem'[ptr[t]] = NewNode(t)
  BY <1>3, <1>4 DEF InsertNode, TypeOK, Unwritten
<1>6. Writes(t)
  <2>1. ptr[t] # Null => ptr[t] \in Private(h)
    BY <1>3 DEF Private, Unwritten
  <2>2. \A a \in Addrs : a # Null
    BY DEF Addrs, Null
  <2>3. ptr[t] # Null => mem[ptr[t]].key \notin Keys
    BY <1>3, DataAssumption DEF Unwritten, Junk
  <2> QED BY <1>1, <1>5, <2>1, <2>2, <2>3, StepWrites DEF WriterLabels, Step, Insert
<1>7. mem'[h] = mem[h]
  BY <1>2, <1>3, <1>4, <1>5 DEF Unwritten
<1>8. \A x : Follows(h, x) => Follows(h, x)'
  BY <1>1, <1>2, <1>3, <1>4, <1>5, DataAssumption DEF Follows, Hosts, Unwritten, Junk, NewNode
<1>9. ptr[t] # Null => Follows(h, ptr[t]) ' /\ Hosts(h, mem'[ptr[t]].key)
  <2>1. ptr'[t] = ptr[t]
    BY DEF InsertNode, locals
  <2> QED BY <1>1, <1>2, <1>3, <1>5, <2>1 DEF Follows, Unwritten, NewNode, Hosts
<1>10. HeadShape(h)'
  <2>1. HeadShape(h) /\ ptr'[t] = ptr[t]
    BY <1>1, MyHeadLive DEF ChainShape, InsertNode, locals, Critical
  <2>2. Follows(h, mem[h].next)'
    BY <1>3, <1>7, <1>9, <2>1 DEF Follows
  <2> QED BY <1>7, <2>1, <2>2 DEF HeadShape, Hosts
<1>11. ASSUME NEW n \in Nodes, home[n] = h PROVE NodeShape(n)'
  <2>1. h \in LiveHeads /\ LiveHeads' = LiveHeads
    BY <1>1, <1>6, MyHeadLive DEF Writes, Critical
  <2>2. CASE n = ptr[t]
    <3>1. n # Null
      BY Layout DEF Nodes, Null
    <3>2. /\ mem'[n].next = tail[t] /\ tail[t] < n /\ Hosts(h, mem'[n].key)
          /\ Follows(h, mem[n].next)'
      <4>1. tail' = tail
        BY DEF InsertNode, locals
      <4> QED BY <1>3, <1>5, <1>8, <1>9, <2>2, <3>1, <4>1 DEF NewNode
    <3> QED BY <1>1, <1>11, <2>1, <3>2 DEF NodeShape, Hosts, Follows
  <2>3. CASE n # ptr[t]
    BY <1>1, <1>4, <1>5, <1>8, <1>11, <2>1, <2>3 DEF ChainShape, NodeShape, Hosts
  <2> QED BY <2>2, <2>3
<1>12. Registers(t)'
  BY <1>1, <1>3 DEF Registers, InsertRegisters, DeleteRegisters, WalkRegisters, UpdateRegisters, Critical
<1> QED BY <1>2, <1>6, <1>10, <1>11, <1>12, WriterObligations

(* A delete of the head. *)
LEMMA HeadKeepsShape ==
  ASSUME TypeOK, LaunchInv, LockInv, AllocInv, ChainShape, RegisterInv,
         NEW t \in Slaves, DeleteHead(t)
  PROVE  AllocInv' /\ ChainShape' /\ RegisterInv'
<1> PICK h : h = MyHead(t)
  OBVIOUS
<1>1. /\ pc[t] = "head" /\ pc'[t] = "load" /\ ptr[t] = h /\ key[t] \in Keys /\ pid # NoSlot
      /\ mem' = [mem EXCEPT ![h] = buf[t]]
      /\ UNCHANGED <<key, buf, home, pid, opType>>
  BY DEF DeleteHead, Goto, LaunchInv, Launched, TypeOK, Critical, index, locals
<1>2. h \in Heads /\ h \in Addrs
  BY <1>1, MyHeadType
<1>3. \A n \in Nodes : n # h /\ n \in Addrs
  BY <1>2, Layout DEF Heads, Nodes, Addrs
<1>4. mem'[h] = buf[t] /\ \A a \in Addrs : a # h => mem'[a] = mem[a]
  BY <1>1, <1>2 DEF TypeOK
<1>5. Writes(t)
  <2>1. opType = "delete"
    BY <1>1 DEF LaunchInv, Launched
  <2> QED BY <1>1, <1>4, <2>1, StepWrites DEF Private, WriterLabels, Step, Delete
<1>6. \A x : Follows(h, x)' <=> Follows(h, x)
  BY <1>1, <1>3, <1>4 DEF Follows, Hosts
<1>7. /\ \/ buf[t].key = NoKey /\ buf[t].next = Null
         \/ Hosts(h, buf[t].key) /\ Follows(h, buf[t].next)
      /\ buf[t].key # JunkKey
  BY <1>1 DEF RegisterInv, Registers, DeleteRegisters, Critical
<1>8. HeadShape(h)'
  <2>1. Follows(h, mem[h].next)'
    BY <1>4, <1>6, <1>7 DEF Follows
  <2> QED BY <1>4, <1>7, <2>1, DataAssumption DEF HeadShape, Hosts
<1>9. \A n \in Nodes : home[n] = h => NodeShape(n)'
  BY <1>1, <1>3, <1>4, <1>5, <1>6 DEF ChainShape, NodeShape, Hosts, Writes
<1>10. Registers(t)'
  BY <1>1, <1>7 DEF Registers, InsertRegisters, DeleteRegisters, WalkRegisters, UpdateRegisters, Critical
<1> QED BY <1>2, <1>5, <1>8, <1>9, <1>10, WriterObligations

(* A delete of an overflow node: its predecessor is written back. *)
LEMMA UnlinkKeepsShape ==
  ASSUME TypeOK, LaunchInv, LockInv, AllocInv, ChainShape, RegisterInv,
         NEW t \in Slaves, DeleteUnlink(t)
  PROVE  AllocInv' /\ ChainShape' /\ RegisterInv'
<1> PICK h, p, n : h = MyHead(t) /\ p = ptr[t] /\ n = last[t].next
  OBVIOUS
<1>1. /\ pc[t] = "unlink" /\ pc'[t] = "load" /\ key[t] \in Keys /\ pid # NoSlot
      /\ mem' = [mem EXCEPT ![p] = [last[t] EXCEPT !.next = buf[t].next]]
      /\ UNCHANGED <<key, buf, home, pid, opType>>
  BY DEF DeleteUnlink, Goto, LaunchInv, Launched, TypeOK, Critical, index, locals
<1>2. h \in Heads /\ h \in Addrs /\ h # Null
  BY <1>1, MyHeadType
<1>3. /\ Belongs(h, p) /\ last[t] = mem[p] /\ n # Null /\ Follows(h, n)
      /\ buf[t] = mem[n] /\ buf[t].key # JunkKey
  BY <1>1 DEF RegisterInv, Registers, DeleteRegisters, Critical
<1>4. /\ n \in Nodes /\ Follows(h, mem[n].next) /\ mem[n].next < n /\ mem[n] \in Entry
  BY <1>2, <1>3, OwnNode
<1>5. p \in Addrs /\ p \in Private(h) /\ mem[p] \in Entry
  BY <1>2, <1>3, OwnNode DEF Belongs, Private, Follows, TypeOK
<1>6. /\ mem'[p].key = mem[p].key /\ mem'[p].next = mem[n].next
      /\ \A a \in Addrs : a # p => mem'[a] = mem[a]
  BY <1>1, <1>3, <1>5 DEF TypeOK, Entry
<1>7. Writes(t)
  <2>1. opType = "delete"
    BY <1>1 DEF LaunchInv, Launched
  <2> QED BY <1>1, <1>5, <1>6, <2>1, StepWrites DEF WriterLabels, Step, Delete
<1>8. \A m \in Nodes : m \in Addrs /\ m \notin Heads
  BY Layout DEF Heads, Nodes, Addrs
<1>9. \A x : Follows(h, x)' <=> Follows(h, x)
  BY <1>1, <1>6, <1>8 DEF Follows, Hosts
<1>10. HeadShape(h)'
  <2>1. HeadShape(h) /\ Follows(h, mem[h].next)
    BY <1>1, MyHeadLive, OwnHead DEF ChainShape, Critical
  <2>2. mem'[h].key = mem[h].key
    BY <1>2, <1>6
  <2>3. CASE p = h
    BY <1>3, <1>4, <1>6, <1>9, <2>1, <2>3 DEF HeadShape, Hosts
  <2>4. CASE p # h
    <3>1. mem'[h] = mem[h]
      BY <1>2, <1>6, <2>4
    <3> QED BY <1>9, <2>1, <3>1 DEF HeadShape, Hosts
  <2> QED BY <2>3, <2>4
<1>11. ASSUME NEW m \in Nodes, home[m] = h PROVE NodeShape(m)'
  <2>1. NodeShape(m) /\ LiveHeads' = LiveHeads /\ home' = home
    BY <1>7 DEF ChainShape, Writes
  <2>2. CASE m = p
    <3>1. Follows(h, m) /\ m # Null
      BY <1>2, <1>3, <1>8, <2>2 DEF Belongs
    <3>2. mem[m].next = n /\ n < m /\ Hosts(h, mem[m].key)
      BY <1>2, <1>3, <2>2, <3>1, OwnNode
    <3>3. mem[n].next < m
      BY <1>4, <3>2 DEF Nodes, Entry
    <3>4. Follows(h, mem[m].next)' /\ mem'[m].next < m /\ Hosts(h, mem'[m].key)
      BY <1>4, <1>6, <1>9, <2>2, <3>2, <3>3
    <3> QED BY <1>11, <1>2, <2>1, <3>4 DEF NodeShape, Hosts
  <2>3. CASE m # p
    <3>1. mem'[m] = mem[m]
      BY <1>6, <1>8, <2>3
    <3> QED BY <1>9, <1>11, <2>1, <3>1 DEF NodeShape, Hosts
  <2> QED BY <2>2, <2>3
<1>12. Registers(t)'
  BY <1>1, <1>3 DEF Registers, InsertRegisters, DeleteRegisters, WalkRegisters, UpdateRegisters, Critical
<1> QED BY <1>2, <1>7, <1>10, <1>11, <1>12, WriterObligations

(* An update writes its copy of an entry back: keys and links stay.         *)
LEMMA PatchKeepsShape ==
  ASSUME TypeOK, LaunchInv, LockInv, AllocInv, ChainShape, RegisterInv,
         NEW t \in Slaves, UpdatePatch(t)
  PROVE  AllocInv' /\ ChainShape' /\ RegisterInv'
<1> PICK h, p : h = MyHead(t) /\ p = ptr[t]
  OBVIOUS
<1>1. /\ pc[t] = "patch" /\ pc'[t] = "unlock" /\ opType = "update" /\ pid # NoSlot
      /\ key[t] \in Keys /\ buf[t].key = key[t]
      /\ mem' = [mem EXCEPT ![p] = [buf[t] EXCEPT !.val = val[t]]]
      /\ UNCHANGED <<key, buf, home, avail, pid, opType, num>>
  BY DEF UpdatePatch, Patched, Goto, LaunchInv, Launched, TypeOK, Critical, index, locals
<1>2. Belongs(h, p) /\ mem[p].key = key[t] /\ buf[t].next = mem[p].next
  BY <1>1 DEF RegisterInv, Registers, UpdateRegisters
<1>3. h \in Addrs
  BY <1>1, MyHeadType
<1>4. p \in Addrs
  BY <1>2, <1>3, Layout DEF Belongs, Follows, Nodes, Addrs
<1>5. /\ [buf[t] EXCEPT !.val = val[t]].key = key[t]
      /\ [buf[t] EXCEPT !.val = val[t]].next = mem[p].next
  BY <1>1, <1>2 DEF TypeOK, Entry
<1>6. /\ \A a \in Addrs : mem'[a].key = mem[a].key
      /\ \A a \in Addrs : mem'[a].next = mem[a].next
      /\ \A a \in Addrs : mem'[a] = Junk <=> mem[a] = Junk
  <2>1. key[t] # JunkKey
    BY <1>1, DataAssumption
  <2> QED BY <1>1, <1>2, <1>4, <1>5, <2>1 DEF TypeOK, Junk
<1>7. \A n \in Nodes : n \in Addrs
  BY Layout DEF Nodes, Addrs
<1>8. /\ \A g, x : Follows(g, x)' <=> Follows(g, x)
      /\ \A g, x : Hosts(g, x)' <=> Hosts(g, x)
      /\ \A g, x : Belongs(g, x)' <=> Belongs(g, x)
  <2>1. home' = home /\ \A g, k : Hosts(g, k)' <=> Hosts(g, k)
    BY <1>1 DEF Hosts
  <2>2. ASSUME NEW g, NEW x PROVE Follows(g, x)' <=> Follows(g, x)
    <3>1. x \in Nodes => mem'[x].key = mem[x].key
      BY <1>6, <1>7
    <3> QED BY <2>1, <3>1 DEF Follows
  <2> QED BY <2>1, <2>2 DEF Belongs
<1>9. LiveHeads' = LiveHeads /\ \A u \in Slaves : u # t => SameSlave(u)
  BY <1>1, StepLive, StepFrame DEF Step, Update
<1>10. \A u \in Slaves : pc[u] \in {"idle", "peek", "lock", "patch", "unlock"}
  BY <1>1 DEF LaunchInv, Launched, TypeOK, Labels, Critical, Adding, Finding
<1>11. AllocInv'
  BY <1>1, <1>6, <1>7 DEF AllocInv
<1>12. ASSUME NEW g \in LiveHeads PROVE HeadShape(g)'
  <2>1. g \in Addrs /\ HeadShape(g)
    BY Layout DEF LiveHeads, Heads, Addrs, ChainShape
  <2>2. Follows(g, mem[g].next)
    BY <1>10, <2>1 DEF HeadShape
  <2>3. mem'[g].key = mem[g].key /\ mem'[g].next = mem[g].next
    BY <1>6, <2>1
  <2> QED BY <1>8, <2>1, <2>2, <2>3 DEF HeadShape, Hosts
<1>13. ASSUME NEW n \in Nodes PROVE NodeShape(n)'
  <2>1. /\ mem'[n].key = mem[n].key /\ mem'[n].next = mem[n].next
        /\ mem'[n] = Junk <=> mem[n] = Junk
    BY <1>6, <1>7
  <2>2. home' = home /\ NodeShape(n)
    BY <1>1 DEF ChainShape
  <2> QED BY <1>8, <1>9, <2>1, <2>2 DEF NodeShape, Hosts
<1>14. Registers(t)'
  BY <1>1, DataAssumption DEF Registers, InsertRegisters, DeleteRegisters, WalkRegisters,
     UpdateRegisters, Finding
<1>15. ASSUME NEW u \in Slaves, u # t PROVE Registers(u)'
  <2> PICK g : g = MyHead(u)
    OBVIOUS
  <2>1. /\ SameSlave(u) /\ Registers(u) /\ Launched(u) /\ MyHead(u)' = g
    BY <1>1, <1>9, <1>15 DEF RegisterInv, LaunchInv, SameSlave, MyHead
  <2>2. pc[u] = "peek" => Held(ptr[u])'
    <3> SUFFICES ASSUME pc[u] = "peek" PROVE Held(ptr[u])'
      OBVIOUS
    <3>1. ptr[u] \in Addrs /\ ptr'[u] = ptr[u] /\ Held(ptr[u])
      BY <2>1 DEF Registers, UpdateRegisters, Launched, SameSlave
    <3>2. mem'[ptr[u]].key = mem[ptr[u]].key /\ home' = home /\ pid' = pid
      BY <1>1, <1>6, <3>1
    <3> QED BY <3>1, <3>2 DEF Held
  <2>3. ASSUME pc[u] \in {"lock", "patch"}
        PROVE  /\ Belongs(g, ptr[u])' /\ mem'[ptr[u]].key = key[u]
               /\ buf[u].next = mem'[ptr[u]].next
    <3>1. /\ Belongs(g, ptr[u]) /\ mem[ptr[u]].key = key[u]
          /\ buf[u].next = mem[ptr[u]].next
      BY <1>1, <2>1, <2>3 DEF Registers, UpdateRegisters
    <3>2. g \in Addrs
      BY <2>1, <2>3, MyHeadType DEF Launched, Critical
    <3>3. ptr[u] \in Addrs
      BY <1>7, <3>1, <3>2 DEF Belongs, Follows
    <3>4. mem'[ptr[u]].key = mem[ptr[u]].key /\ mem'[ptr[u]].next = mem[ptr[u]].next
      BY <1>6, <3>3
    <3>5. ptr'[u] = ptr[u]
      BY <2>1 DEF SameSlave
    <3> QED BY <1>8, <3>1, <3>4, <3>5
  <2> QED BY <1>1, <1>10, <2>1, <2>2, <2>3 DEF Registers, InsertRegisters, DeleteRegisters,
             WalkRegisters, UpdateRegisters, SameSlave, Critical, Finding
<1> QED BY <1>9, <1>11, <1>12, <1>13, <1>14, <1>15 DEF ChainShape, RegisterInv
-----------------------------------------------------------------------------
(* The step that takes a node from the allocator.                          *)

LEMMA AllocEffect ==
  ASSUME TypeOK, LaunchInv, LockInv, AllocInv, ChainShape, RegisterInv,
         NEW t \in Slaves, InsertAlloc(t), NEW h, h = MyHead(t)
  PROVE  /\ pc'[t] = "link" /\ UNCHANGED <<mem, key, index>>
         /\ h \in LiveHeads /\ LiveHeads' = LiveHeads /\ h \in Heads /\ MyHead(t)' = h
         /\ mem[h].key # NoKey /\ mem[h] \in Entry /\ mem[h].key # JunkKey
         /\ Follows(h, mem[h].next) /\ tail'[t] = mem[h].next
         /\ buf'[t] = [mem[h] EXCEPT !.next = buf'[t].next]
         /\ \/ home' = home /\ avail' = avail /\ buf'[t].next = Null
            \/ /\ avail \in Nodes /\ avail' = avail + 1 /\ buf'[t].next = avail
               /\ home' = [home EXCEPT ![avail] = h]
<1>1. /\ pc[t] = "alloc" /\ pc'[t] = "link" /\ UNCHANGED <<mem, key, index>>
      /\ ptr[t] = h /\ key[t] \in Keys /\ pid # NoSlot
  BY DEF InsertAlloc, Goto, TypeOK, LaunchInv, Launched, Critical
<1>2. buf[t] = mem[h] /\ mem[h].key # NoKey
  BY <1>1 DEF RegisterInv, Registers, InsertRegisters
<1>3. h \in LiveHeads /\ h \in Heads /\ MyHead(t)' = h
  BY <1>1, MyHeadLive DEF Critical, LiveHeads, MyHead, index
<1>4. LiveHeads' = LiveHeads
  BY <1>1, StepLive DEF Step, Insert
<1>5. mem[h] \in Entry /\ mem[h].key # JunkKey /\ Follows(h, mem[h].next)
  BY <1>1, OwnHead DEF Critical
<1>6. tail'[t] = mem[h].next
  BY <1>2 DEF InsertAlloc, Successor, TypeOK
<1>7. CASE RoomLeft
  <2>1. avail \in Nodes
    BY <1>7 DEF RoomLeft, TypeOK, Nodes
  <2>2. buf'[t] = [mem[h] EXCEPT !.next = avail]
    BY <1>2, <1>7 DEF InsertAlloc, TypeOK
  <2>3. buf'[t].next = avail
    BY <1>5, <2>2 DEF Entry
  <2>4. avail' = avail + 1 /\ home' = [home EXCEPT ![avail] = h]
    BY <1>1, <1>7 DEF InsertAlloc
  <2> QED BY <1>1, <1>2, <1>3, <1>4, <1>5, <1>6, <2>1, <2>2, <2>3, <2>4
<1>8. CASE ~RoomLeft
  <2>1. buf'[t] = [mem[h] EXCEPT !.next = Null]
    BY <1>2, <1>8 DEF InsertAlloc, TypeOK
  <2>2. buf'[t].next = Null
    BY <1>5, <2>1 DEF Entry
  <2> QED BY <1>1, <1>2, <1>3, <1>4, <1>5, <1>6, <1>8, <2>1, <2>2 DEF InsertAlloc
<1> QED BY <1>7, <1>8

LEMMA AllocKeepsShape ==
  ASSUME TypeOK, LaunchInv, LockInv, AllocInv, ChainShape, RegisterInv,
         NEW t \in Slaves, InsertAlloc(t)
  PROVE  AllocInv' /\ ChainShape' /\ RegisterInv'
<1> PICK h : h = MyHead(t)
  OBVIOUS
<1>1. /\ pc'[t] = "link" /\ UNCHANGED <<mem, key, index>>
      /\ h \in LiveHeads /\ LiveHeads' = LiveHeads /\ h \in Heads /\ MyHead(t)' = h
      /\ mem[h].key # NoKey /\ mem[h] \in Entry /\ mem[h].key # JunkKey
      /\ Follows(h, mem[h].next) /\ tail'[t] = mem[h].next
      /\ buf'[t] = [mem[h] EXCEPT !.next = buf'[t].next]
  BY AllocEffect
<1>2. \/ home' = home /\ avail' = avail /\ buf'[t].next = Null
      \/ /\ avail \in Nodes /\ avail' = avail + 1 /\ buf'[t].next = avail
         /\ home' = [home EXCEPT ![avail] = h]
  BY AllocEffect
<1>3. avail \in Nodes => home[avail] = Null /\ mem[avail] = Junk
  BY DEF AllocInv, TypeOK, Nodes
<1>4. h # Null /\ \A g \in Heads : g # Null
  BY <1>1 DEF Heads, Null
<1>5. home \in [Nodes -> Heads \cup {Null}]
  BY DEF TypeOK
<1>6. \A g, k : Hosts(g, k)' <=> Hosts(g, k)
  BY DEF Hosts
<1>7. ~Hosts(h, Junk.key)
  BY DataAssumption DEF Hosts, Junk
<1>8. /\ \A g \in Heads : \A x : Follows(g, x)' <=> Follows(g, x)
      /\ \A g \in Heads : \A x : Unwritten(g, x) => Unwritten(g, x)'
  BY <1>1, <1>2, <1>3, <1>4, <1>5, <1>7 DEF Follows, Hosts, Unwritten
<1>9. \A g \in Heads : \A x : Belongs(g, x)' <=> Belongs(g, x)
  BY <1>8 DEF Belongs
<1>10. \A u \in Slaves : u # t => SameSlave(u)
  BY StepFrame DEF Step, Insert
<1>11. ASSUME NEW n \in Nodes
       PROVE  (home'[n] = Null <=> n >= avail') /\ (home'[n] = Null => mem'[n] = Junk)
  <2>1. n \in Int /\ avail \in Int
    BY Layout DEF Nodes, TypeOK
  <2>2. (home[n] = Null <=> n >= avail) /\ (home[n] = Null => mem[n] = Junk)
    BY DEF AllocInv
  <2>3. CASE home' = home /\ avail' = avail
    BY <1>1, <2>2, <2>3
  <2>4. CASE avail' = avail + 1 /\ home' = [home EXCEPT ![avail] = h]
    <3>1. home'[n] = IF n = avail THEN h ELSE home[n]
      BY <1>5, <2>4
    <3> QED BY <1>1, <1>4, <2>1, <2>2, <2>4, <3>1
  <2> QED BY <1>2, <2>3, <2>4
<1>12. ASSUME NEW g \in LiveHeads PROVE HeadShape(g)'
  <2>1. HeadShape(g) /\ g \in Heads
    BY DEF ChainShape, LiveHeads
  <2>2. CASE Follows(g, mem[g].next)
    BY <1>1, <1>6, <1>8, <2>1, <2>2 DEF HeadShape, Follows
  <2>3. ASSUME NEW u \in Slaves, pc[u] = "node", MyHead(u) = g, ptr[u] = mem[g].next,
               Unwritten(g, ptr[u])
        PROVE  HeadShape(g)'
    <3>1. SameSlave(u) /\ MyHead(u)' = g
      BY <1>1, <1>10, <2>3 DEF InsertAlloc, SameSlave, MyHead, index
    <3> QED BY <1>1, <1>6, <1>8, <2>1, <2>3, <3>1 DEF HeadShape, SameSlave, Unwritten
  <2> QED BY <2>1, <2>2, <2>3 DEF HeadShape
<1>13. ASSUME NEW n \in Nodes PROVE NodeShape(n)'
  <2>1. CASE home'[n] = home[n]
    <3>1. home[n] # Null => home[n] \in Heads
      BY <1>5
    <3> QED BY <1>1, <1>6, <1>8, <2>1, <3>1 DEF ChainShape, NodeShape
  <2>2. CASE home'[n] # home[n]
    <3>1. n = avail /\ home'[n] = h /\ mem'[n] = Junk
      BY <1>1, <1>2, <1>3, <1>5, <2>2
    <3> QED BY <1>1, <3>1 DEF NodeShape, Junk
  <2> QED BY <2>1, <2>2
<1>14. Registers(t)'
  <2>1. buf'[t].key = mem[h].key
    BY <1>1 DEF Entry
  <2>2. buf'[t].next # Null => Unwritten(h, buf[t].next)' /\ mem[h].next < buf'[t].next
    <3> SUFFICES ASSUME buf'[t].next # Null
                 PROVE  Unwritten(h, buf[t].next)' /\ mem[h].next < buf'[t].next
      OBVIOUS
    <3>1. /\ avail \in Nodes /\ buf'[t].next = avail /\ mem'[avail] = Junk
          /\ home'[avail] = h
      BY <1>1, <1>2, <1>3, <1>5
    <3>2. mem[h].next < avail
      BY <1>1, <1>4, <3>1, Layout DEF Follows, AllocInv, Nodes, Null
    <3> QED BY <3>1, <3>2 DEF Unwritten
  <2> QED BY <1>1, <2>1, <2>2 DEF Registers, InsertRegisters, DeleteRegisters, WalkRegisters, UpdateRegisters
<1>15. ASSUME NEW u \in Slaves, u # t PROVE Registers(u)'
  <2> PICK g : g = MyHead(u)
    OBVIOUS
  <2>1. /\ SameSlave(u) /\ Registers(u) /\ MyHead(u)' = g
        /\ UNCHANGED <<mem, opType>>
    BY <1>1, <1>10, <1>15 DEF RegisterInv, SameSlave, MyHead, index
  <2>0. UpdateRegisters(u, g)'
    <3>1. opType # "update" /\ pc[u] # "peek"
      BY DEF InsertAlloc, LaunchInv, Launched, Adding
    <3> QED BY <2>1, <3>1 DEF UpdateRegisters, SameSlave
  <2>2. CASE pc[u] \in Critical \cup {"fetch"}
    <3>1. g \in Heads
      BY <2>2, MyHeadType DEF LaunchInv, Launched
    <3>2. InsertRegisters(u, g)'
      BY <1>8, <2>1, <3>1 DEF Registers, InsertRegisters, SameSlave, Unwritten
    <3>3. DeleteRegisters(u, g)'
      BY <1>6, <1>8, <1>9, <2>1, <3>1 DEF Registers, DeleteRegisters, SameSlave
    <3>4. WalkRegisters(u, g)'
      BY <1>9, <2>1, <3>1 DEF Registers, WalkRegisters, SameSlave
    <3> QED BY <2>0, <2>1, <3>2, <3>3, <3>4 DEF Registers, SameSlave
  <2>3. CASE pc[u] \notin Critical \cup {"fetch"}
    BY <2>0, <2>1, <2>3 DEF Registers, InsertRegisters, DeleteRegisters, WalkRegisters,
       SameSlave, Critical
  <2> QED BY <2>2, <2>3
<1> QED BY <1>1, <1>11, <1>12, <1>13, <1>14, <1>15 DEF AllocInv, ChainShape, RegisterInv
-----------------------------------------------------------------------------
(* Launches: what begins one, and the steps that create an index.          *)

LEMMA InitBucketKeepsShape ==
  ASSUME TypeOK, LaunchInv, AllocInv, ChainShape, NEW t \in Slaves, InitBucket(t)
  PROVE  AllocInv' /\ ChainShape' /\ RegisterInv'
<1> PICK a : a = ptr[t]
  OBVIOUS
<1>1. /\ pc[t] = "init" /\ opType = "create" /\ pid \in Slots /\ num = pid + 1
      /\ a \in BucketHead(pid, BLOCK_LOW(Rank(t), NrSlaves, NrBuckets))..LastOfBlock(t)
  BY DEF InitBucket, LaunchInv, Launched, TypeOK
<1>2. /\ \A u \in Slaves : pc[u] \in {"idle", "init"} /\ pc'[u] \in {"idle", "init"}
      /\ \A u \in Slaves : u # t => SameSlave(u)
      /\ UNCHANGED <<home, avail, index>>
  <2>1. pc \in [Slaves -> Labels]
    BY DEF TypeOK
  <2>2. \A u \in Slaves : pc[u] \in {"idle", "init"}
    BY <1>1, <2>1 DEF LaunchInv, Launched, Critical, Labels, Operations
  <2> QED BY <2>1, <2>2, StepFrame DEF InitBucket, Step
<1>3. a \in Int /\ LastOfBlock(t) \in Int /\ a <= LastOfBlock(t) /\ a < FirstNode
  BY <1>1, BlockInSlot, Layout DEF LastOfBlock
<1>4. \A n \in Nodes : n \in Addrs /\ mem'[n] = mem[n]
  BY <1>3, Layout DEF InitBucket, TypeOK, Nodes, Addrs
<1>5. /\ \A x \in Addrs : x # a => mem'[x] = mem[x]
      /\ a \in Addrs => mem'[a] = EmptyEntry
  BY DEF InitBucket, TypeOK
<1>6. \A h, x : Follows(h, x)' <=> Follows(h, x)
  BY <1>2, <1>4 DEF Follows, Hosts
<1>7. /\ \A u \in Slaves : LastOfBlock(u)' = LastOfBlock(u)
      /\ \/ pc'[t] = "idle" /\ a = LastOfBlock(t)
         \/ pc'[t] = "init" /\ ptr'[t] = a + 1
  BY <1>1, <1>2, <1>3 DEF InitBucket, LastOfBlock, TypeOK, index
<1>8. \A x \in Heads : Fresh(x)' => Fresh(x)
  BY <1>1, <1>2, <1>3, <1>7 DEF Fresh, SameSlave, Heads
<1>9. \A x \in Heads : x # a /\ Fresh(x) => Fresh(x)'
  <2> SUFFICES ASSUME NEW x \in Heads, x # a, NEW u \in Slaves, pc[u] = "init",
                      x \in ptr[u]..LastOfBlock(u)
               PROVE  pc'[u] = "init" /\ x \in ptr'[u]..LastOfBlock(u)'
    BY DEF Fresh
  <2>1. CASE u = t
    BY <1>3, <1>7, <2>1 DEF Heads
  <2>2. CASE u # t
    BY <1>2, <1>7, <2>2 DEF SameSlave
  <2> QED BY <2>1, <2>2
<1>10. LiveHeads \subseteq LiveHeads' /\ LiveHeads' \subseteq LiveHeads \cup {a}
  BY <1>2, <1>8, <1>9 DEF LiveHeads, index
<1>11. ASSUME NEW h \in LiveHeads' PROVE HeadShape(h)'
  <2>1. h \in Addrs
    BY Layout DEF LiveHeads, Heads, Addrs
  <2>2. CASE h = a
    BY <1>5, <2>1, <2>2 DEF HeadShape, EmptyEntry, Follows, Null
  <2>3. CASE h # a
    <3>1. HeadShape(h) /\ mem'[h] = mem[h]
      BY <1>5, <1>10, <2>1, <2>3 DEF ChainShape
    <3>2. Follows(h, mem[h].next)
      BY <1>2, <3>1 DEF HeadShape
    <3> QED BY <1>6, <3>1, <3>2 DEF HeadShape, Hosts, Follows
  <2> QED BY <2>2, <2>3
<1>12. \A n \in Nodes : NodeShape(n)'
  BY <1>2, <1>4, <1>6, <1>10 DEF ChainShape, NodeShape, Hosts
<1>13. RegisterInv'
  BY <1>2 DEF RegisterInv, Registers, InsertRegisters, DeleteRegisters, WalkRegisters, UpdateRegisters, Critical
<1> QED BY <1>2, <1>4, <1>11, <1>12, <1>13 DEF AllocInv, ChainShape

(* A creating launch makes no head live before a slave has initialised it:  *)
(* the blocks of the slaves cover the bucket array.                        *)
LEMMA CreateLive ==
  ASSUME TypeOK, NEW id \in Ids, BeginCreate(id)
  PROVE  LiveHeads' = LiveHeads
<1>1. \A x : ~Fresh(x)
  BY DEF BeginCreate, AllIdle, Fresh
<1>2. CASE num' = num /\ pc' = pc
  BY <1>2 DEF BeginCreate, AllIdle, LiveHeads, Fresh
<1>3. CASE /\ num < MaxIndexes /\ pid' = num /\ num' = num + 1
           /\ pc' = [t \in Slaves |-> IF Count(t) > 0 THEN "init" ELSE "idle"]
           /\ ptr' = [t \in Slaves |-> IF Count(t) > 0 THEN First(t) ELSE Null]
  <2>1. num \in Slots /\ num * NrBuckets \in Nat
    BY <1>3, SizeAssumption DEF TypeOK, Slots
  <2>2. (num + 1) * NrBuckets = num * NrBuckets + NrBuckets /\ NrBuckets \in Nat
    BY <2>1, SizeAssumption DEF Slots
  <2>3. \A t \in Slaves : LastOfBlock(t)' = BucketHead(num, BLOCK_HIGH(Rank(t), NrSlaves, NrBuckets))
    BY <1>3 DEF LastOfBlock
  <2>4. ASSUME NEW x \in Heads, x <= num * NrBuckets PROVE ~Fresh(x)'
    <3> SUFFICES ASSUME NEW t \in Slaves, pc'[t] = "init", x \in ptr'[t]..LastOfBlock(t)'
                 PROVE  FALSE
      BY DEF Fresh
    <3>1. ptr'[t] = First(t)
      BY <1>3
    <3>2. First(t) \in Int /\ num * NrBuckets < First(t)
      BY <2>1, BlockInSlot DEF First
    <3>3. x \in Int /\ LastOfBlock(t)' \in Int
      BY <2>1, <2>3, BlockInSlot DEF Heads
    <3> QED BY <2>1, <2>4, <3>1, <3>2, <3>3
  <2>5. ASSUME NEW x \in Heads, x <= (num + 1) * NrBuckets, ~(x <= num * NrBuckets)
        PROVE  Fresh(x)'
    <3>1. x \in Int
      BY DEF Heads
    <3>2. PICK b : b = x - num * NrBuckets - 1
      OBVIOUS
    <3>3. b \in Buckets /\ BucketHead(num, b) = x
      BY <2>1, <2>2, <2>5, <3>1, <3>2 DEF Buckets, BucketHead
    <3>4. PICK t \in Slaves :
            x \in BucketHead(num, BLOCK_LOW(Rank(t), NrSlaves, NrBuckets))
                 ..BucketHead(num, BLOCK_HIGH(Rank(t), NrSlaves, NrBuckets))
      BY <2>1, <3>3, BlocksCoverSlot
    <3>5. Count(t) > 0
      BY <2>1, <3>1, <3>4, CoveringCounts
    <3>6. pc'[t] = "init" /\ ptr'[t] = BucketHead(num, BLOCK_LOW(Rank(t), NrSlaves, NrBuckets))
      BY <1>3, <3>5 DEF First
    <3> QED BY <2>3, <3>4, <3>6 DEF Fresh
  <2>6. ASSUME NEW x \in Heads PROVE x <= num * NrBuckets => x <= (num + 1) * NrBuckets
    BY <2>1, <2>2 DEF Heads
  <2> QED BY <1>1, <1>3, <2>4, <2>5, <2>6 DEF LiveHeads
<1> QED BY <1>2, <1>3 DEF BeginCreate

LEMMA OpLive ==
  ASSUME NEW id \in Ids, NEW type, BeginOp(type, id)
  PROVE  LiveHeads' = LiveHeads
BY DEF BeginOp, AllIdle, LiveHeads, Fresh

LEMMA BeginKeepsShape ==
  ASSUME TypeOK, AllocInv, ChainShape, Begin
  PROVE  AllocInv' /\ ChainShape' /\ RegisterInv'
<1>1. /\ AllIdle /\ UNCHANGED <<mem, home, avail>>
      /\ \A t \in Slaves : pc'[t] \in {"idle", "init"}
  BY DEF Begin, BeginCreate, BeginOp, AllIdle
<1>2. LiveHeads' = LiveHeads
  BY CreateLive, OpLive DEF Begin
<1>3. \A h, x : Follows(h, x)' <=> Follows(h, x)
  BY <1>1 DEF Follows, Hosts
<1>4. ASSUME NEW h \in LiveHeads PROVE HeadShape(h)'
  <2>1. HeadShape(h) /\ Follows(h, mem[h].next)
    BY <1>1 DEF ChainShape, HeadShape, AllIdle
  <2> QED BY <1>1, <1>3, <2>1 DEF HeadShape, Hosts
<1>5. \A n \in Nodes : NodeShape(n)'
  BY <1>1, <1>2, <1>3 DEF ChainShape, NodeShape, Hosts
<1>6. RegisterInv'
  BY <1>1 DEF RegisterInv, Registers, InsertRegisters, DeleteRegisters, WalkRegisters, UpdateRegisters, Critical
<1> QED BY <1>1, <1>2, <1>4, <1>5, <1>6 DEF AllocInv, ChainShape

LEMMA CallKeepsShape ==
  ASSUME TypeOK, AllocInv, ChainShape, RegisterInv,
         NEW t \in Slaves, NEW k \in Keys, NEW v \in Vals \cup {0}, Call(t, k, v)
  PROVE  AllocInv' /\ ChainShape' /\ RegisterInv'
<1>1. pc[t] = "idle" /\ pc'[t] = "lock"
  BY DEF Call, Goto, TypeOK
<1>2. LiveHeads' = LiveHeads
  BY <1>1, CallFrame DEF LiveHeads, Fresh, LastOfBlock, SameSlave, index
<1>3. Quiet(t)
  BY <1>1, <1>2, CallFrame DEF Quiet
<1>4. Registers(t)'
  <2>1. opType' # "update"
    BY DEF Call, index
  <2> QED BY <1>1, <2>1 DEF Registers, InsertRegisters, DeleteRegisters, WalkRegisters,
             UpdateRegisters, Critical
<1> QED BY <1>3, <1>4, QuietShape, QuietRegisters DEF RegisterInv

LEMMA CallUpdateKeepsShape ==
  ASSUME TypeOK, AllocInv, ChainShape, RegisterInv,
         NEW t \in Slaves, NEW a \in Addrs, NEW v \in Vals, CallUpdate(t, a, v)
  PROVE  AllocInv' /\ ChainShape' /\ RegisterInv'
<1>1. pc[t] = "idle" /\ pc'[t] = "peek" /\ ptr'[t] = a
  BY DEF CallUpdate, Goto, TypeOK
<1>2. LiveHeads' = LiveHeads
  BY <1>1, CallUpdateFrame DEF LiveHeads, Fresh, LastOfBlock, SameSlave, index
<1>3. Quiet(t)
  BY <1>1, <1>2, CallUpdateFrame DEF Quiet
<1>4. Registers(t)'
  <2>1. Held(ptr[t])'
    BY <1>1 DEF CallUpdate, Held, index
  <2> QED BY <1>1, <2>1 DEF Registers, InsertRegisters, DeleteRegisters, WalkRegisters,
             UpdateRegisters, Critical
<1> QED BY <1>3, <1>4, QuietShape, QuietRegisters DEF RegisterInv
-----------------------------------------------------------------------------
(* The invariant is inductive.                                             *)

LEMMA StepCasesByLabel ==
  ASSUME TypeOK, LaunchInv, NEW t \in Slaves, Step(t), pc[t] \notin QuietLabels
  PROVE  \/ InitBucket(t) \/ InsertPut(t) \/ InsertAlloc(t) \/ InsertLink(t)
         \/ InsertNode(t) \/ DeleteHead(t) \/ DeleteUnlink(t) \/ UpdatePatch(t)
BY StepCases DEF QuietLabels, Lock, Unlock, UsedLoad, UsedStore, InsertRead, DeleteRead,
   DeletePull, DeleteWalk, LookupRead, LookupWalk, LookupFetch, UpdatePeek

LEMMA StepKeepsShape ==
  ASSUME TypeOK, LaunchInv, LockInv, AllocInv, ChainShape, RegisterInv,
         NEW t \in Slaves, Step(t)
  PROVE  AllocInv' /\ ChainShape' /\ RegisterInv'
<1>1. CASE pc[t] \in QuietLabels
  BY <1>1, StepQuiet, QuietShape, QuietRegisters, OwnRegisters DEF RegisterInv
<1>2. CASE pc[t] \notin QuietLabels
  BY <1>2, StepCasesByLabel, InitBucketKeepsShape, PutKeepsShape, AllocKeepsShape,
     LinkKeepsShape, NodeKeepsShape, HeadKeepsShape, UnlinkKeepsShape, PatchKeepsShape
<1> QED BY <1>1, <1>2

LEMMA ShapeInit == Init => AllocInv /\ ChainShape /\ RegisterInv
<1> SUFFICES ASSUME Init PROVE AllocInv /\ ChainShape /\ RegisterInv
  OBVIOUS
<1>1. LiveHeads = {}
  <2>1. num * NrBuckets = 0
    BY SizeAssumption DEF Init
  <2> QED BY <2>1 DEF LiveHeads, Heads
<1>2. AllocInv
  <2>1. \A n \in Nodes : n \in Addrs /\ n >= FirstNode
    BY Layout DEF Nodes, Addrs
  <2> QED BY <2>1 DEF AllocInv, Init
<1>3. ChainShape
  BY <1>1 DEF Init, ChainShape, NodeShape
<1>4. RegisterInv
  BY DEF Init, RegisterInv, Registers, InsertRegisters, DeleteRegisters, WalkRegisters, UpdateRegisters, Critical
<1> QED BY <1>2, <1>3, <1>4

LEMMA IndInvInductive == IndInv /\ [Next]_vars => IndInv'
<1> SUFFICES ASSUME TypeOK, LaunchInv, LockInv, AllocInv, ChainShape, RegisterInv, [Next]_vars
             PROVE  IndInv'
  BY DEF IndInv
<1>1. TypeOK' /\ LaunchInv' /\ LockInv'
  BY TypeInductive, LockInductive
<1>2. AllocInv' /\ ChainShape' /\ RegisterInv'
  <2>1. CASE Begin
    BY <2>1, BeginKeepsShape
  <2>2. ASSUME NEW t \in Slaves, Step(t) PROVE AllocInv' /\ ChainShape' /\ RegisterInv'
    BY <2>2, StepKeepsShape
  <2>3. ASSUME NEW t \in Slaves, NEW k \in Keys, NEW v \in Vals \cup {0}, Call(t, k, v)
        PROVE  AllocInv' /\ ChainShape' /\ RegisterInv'
    BY <2>3, CallKeepsShape
  <2>4. ASSUME NEW t \in Slaves, NEW a \in Addrs, NEW v \in Vals, CallUpdate(t, a, v)
        PROVE  AllocInv' /\ ChainShape' /\ RegisterInv'
    BY <2>4, CallUpdateKeepsShape
  <2>5. CASE UNCHANGED vars
    <3> USE <2>5 DEF vars, index, locals
    <3>1. /\ \A h, x : Follows(h, x)' <=> Follows(h, x)
          /\ \A h, x : Unwritten(h, x)' <=> Unwritten(h, x)
          /\ \A h, x : Hosts(h, x)' <=> Hosts(h, x)
      BY DEF Follows, Unwritten, Hosts
    <3>2. LiveHeads' = LiveHeads
      BY DEF LiveHeads, Fresh, LastOfBlock
    <3>3. AllocInv'
      BY DEF AllocInv
    <3>4. ChainShape'
      BY <3>2 DEF ChainShape, HeadShape, NodeShape, Follows, Unwritten, Hosts, MyHead
    <3>5. RegisterInv'
      BY DEF RegisterInv, Registers, InsertRegisters, DeleteRegisters, WalkRegisters, UpdateRegisters,
         MyHead, Follows, Belongs, Unwritten, Hosts, Held
    <3> QED BY <3>3, <3>4, <3>5
  <2> QED BY <2>1, <2>2, <2>3, <2>4, <2>5 DEF Next, Work
<1> QED BY <1>1, <1>2 DEF IndInv

(* The inductive invariant holds of every execution.                       *)
THEOREM Invariance == Spec => []IndInv
<1>1. Init => IndInv
  BY InitType, LaunchInit, LockInit, ShapeInit DEF IndInv
<1> QED BY <1>1, IndInvInductive, PTL DEF Spec

(* Every chain is well formed at every moment, also while slaves insert and *)
(* delete in it: it ends, its entries lie in the bucket of their keys, no   *)
(* two buckets share a node, and none is unwritten but the one its bucket's *)
(* holder is about to write.                                               *)
THEOREM ChainsWellFormed == Spec => []ChainShape
<1>1. IndInv => ChainShape
  BY DEF IndInv
<1> QED BY <1>1, Invariance, PTL

(* No operation of the index decides on MRAM that nobody has written.       *)
THEOREM ReadsInitialised == Spec => []NoUninitialisedRead
<1>1. IndInv => NoUninitialisedRead
  BY DEF IndInv, RegisterInv, Registers, NoUninitialisedRead
<1> QED BY <1>1, Invariance, PTL

-----------------------------------------------------------------------------
(* Linked chains.  N gives every address the one that follows it; C is the  *)
(* chain from h when it is the least set that holds h and is closed under N.*)

IsChain(N, h, C) ==
  /\ C \subseteq Addrs /\ h \in C
  /\ \A a \in C : N[a] # Null => N[a] \in C
  /\ \A S \in SUBSET C :
       h \in S /\ (\A a \in S : N[a] # Null => N[a] \in S) => C \subseteq S

(* An address has one chain. *)
LEMMA ChainUnique ==
  ASSUME NEW N, NEW h, NEW C, NEW D, IsChain(N, h, C), IsChain(N, h, D)
  PROVE  C = D
<1>1. /\ C \cap D \in SUBSET C /\ C \cap D \in SUBSET D /\ h \in C \cap D
      /\ \A a \in C \cap D : N[a] # Null => N[a] \in C \cap D
  BY DEF IsChain
<1>2. C \subseteq C \cap D /\ D \subseteq C \cap D
  BY <1>1 DEF IsChain
<1> QED BY <1>2

(* A chain no entry of which changes its successor stays. *)
LEMMA ChainSame ==
  ASSUME NEW N, NEW M, NEW h, NEW C, IsChain(N, h, C), \A a \in C : M[a] = N[a]
  PROVE  IsChain(M, h, C)
<1>1. ASSUME NEW S \in SUBSET C, h \in S, \A a \in S : M[a] # Null => M[a] \in S
      PROVE  C \subseteq S
  <2>1. \A a \in S : N[a] # Null => N[a] \in S
    BY <1>1
  <2> QED BY <1>1, <2>1 DEF IsChain
<1> QED BY <1>1 DEF IsChain

(* A head without successor is its whole chain. *)
LEMMA ChainOfOne ==
  ASSUME NEW M, NEW h \in Addrs, M[h] = Null
  PROVE  IsChain(M, h, {h})
BY DEF IsChain

(* An address put between the head and what followed it joins the chain. *)
LEMMA ChainInsert ==
  ASSUME NEW N, NEW M, NEW h, NEW C, IsChain(N, h, C), NEW p \in Addrs, p # Null,
         p \notin C, M[h] = p, M[p] = N[h], \A a \in C : a # h => M[a] = N[a]
  PROVE  IsChain(M, h, C \cup {p})
<1>1. h \in C /\ C \subseteq Addrs /\ \A a \in C : N[a] # Null => N[a] \in C
  BY DEF IsChain
<1>2. \A a \in C \cup {p} : M[a] # Null => M[a] \in C \cup {p}
  BY <1>1
<1>3. ASSUME NEW S \in SUBSET (C \cup {p}), h \in S, \A a \in S : M[a] # Null => M[a] \in S
      PROVE  C \cup {p} \subseteq S
  <2>1. p \in S
    BY <1>3
  <2>2. \A a \in S \cap C : N[a] # Null => N[a] \in S \cap C
    BY <1>1, <1>3, <2>1
  <2>3. S \cap C \in SUBSET C /\ h \in S \cap C
    BY <1>1, <1>3
  <2>4. C \subseteq S \cap C
    BY <2>2, <2>3 DEF IsChain
  <2> QED BY <2>1, <2>4
<1> QED BY <1>1, <1>2, <1>3 DEF IsChain

(* An address that is bypassed leaves the chain. *)
LEMMA ChainUnlink ==
  ASSUME NEW N, NEW M, NEW h, NEW C, IsChain(N, h, C), NEW q \in C, NEW x,
         N[q] = x, x # Null, x # h, x # q, N[x] # x, M[q] = N[x],
         \A a \in C : a # q => N[a] # x,
         \A a \in C : a # q /\ a # x => M[a] = N[a]
  PROVE  IsChain(M, h, C \ {x})
<1>1. h \in C /\ C \subseteq Addrs /\ \A a \in C : N[a] # Null => N[a] \in C
  BY DEF IsChain
<1>2. \A a \in C \ {x} : M[a] # Null => M[a] \in C \ {x}
  BY <1>1
<1>3. ASSUME NEW S \in SUBSET (C \ {x}), h \in S, \A a \in S : M[a] # Null => M[a] \in S
      PROVE  C \ {x} \subseteq S
  <2>1. q \in S
    <3> SUFFICES ASSUME q \notin S PROVE FALSE
      OBVIOUS
    <3>1. \A a \in S : N[a] # Null => N[a] \in S
      BY <1>3
    <3>2. C \subseteq S
      BY <1>3, <3>1 DEF IsChain
    <3> QED BY <3>2
  <2>2. \A a \in S \cup {x} : N[a] # Null => N[a] \in S \cup {x}
    BY <1>1, <1>3, <2>1
  <2>3. S \cup {x} \in SUBSET C /\ h \in S \cup {x}
    BY <1>1, <1>3
  <2>4. C \subseteq S \cup {x}
    BY <2>2, <2>3 DEF IsChain
  <2> QED BY <2>4
<1> QED BY <1>1, <1>2, <1>3 DEF IsChain

(* The place in a chain: the head comes first, then addresses fall. *)
Place(h, a) == IF a = h THEN LastNode + 1 ELSE a

Falls(N, h, C) ==
  /\ \A a \in C : N[a] \in Nodes \cup {Null}
  /\ \A a \in C : a # h => a \in Nodes /\ N[a] < a

(* Nothing lies between an entry and its successor. *)
LEMMA ChainOrder ==
  ASSUME NEW N, NEW h \in Heads, NEW C, IsChain(N, h, C), Falls(N, h, C)
  PROVE  \A a, z \in C : Place(h, z) < Place(h, a) => Place(h, z) <= Place(h, N[a])
<1> DEFINE Near(a) == \A z \in C : Place(h, z) < Place(h, a) => Place(h, z) <= Place(h, N[a])
           U == {a \in C : \A c \in C : Place(h, a) <= Place(h, c) => Near(c)}
<1>1. /\ h \in C /\ h # Null /\ h \notin Nodes /\ LastNode \in Nat
      /\ \A a \in C : N[a] # Null => N[a] \in C
      /\ \A n \in Nodes : n \in Nat /\ n <= LastNode /\ n # Null
  BY Layout DEF IsChain, Heads, Nodes, Null
<1>2. /\ \A a \in C : Place(h, a) \in Nat
      /\ \A a \in C : Place(h, N[a]) \in Nat /\ Place(h, N[a]) < Place(h, a)
      /\ \A a, b \in C : Place(h, a) = Place(h, b) => a = b
      /\ \A a \in C : a # h => Place(h, a) < Place(h, h)
      /\ Place(h, h) \in Nat
  <2> PICK L \in Nat : L = LastNode + 1
    BY <1>1
  <2>1. \A a \in C : a = h \/ a \in Nodes
    BY DEF Falls
  <2>2. ASSUME NEW a \in C, a # h
        PROVE  Place(h, a) = a /\ a \in Nat /\ a < L
    BY <1>1, <2>1, <2>2 DEF Place
  <2>3. Place(h, h) = L
    BY DEF Place
  <2>4. ASSUME NEW a \in C
        PROVE  Place(h, N[a]) \in Nat /\ Place(h, N[a]) < Place(h, a)
    <3> PICK y : y = N[a]
      OBVIOUS
    <3>1. y = Null \/ y \in Nodes
      BY DEF Falls
    <3>2. y # h /\ y \in Nat /\ y < L
      BY <1>1, <3>1 DEF Null
    <3>3. Place(h, y) = y
      BY <3>2 DEF Place
    <3>4. a # h => y < a
      BY DEF Falls
    <3>5. CASE a = h
      BY <2>3, <3>2, <3>3, <3>5
    <3>6. CASE a # h
      <4>1. Place(h, a) = a
        BY <2>2, <3>6
      <4> QED BY <3>2, <3>3, <3>4, <3>6, <4>1
    <3> QED BY <3>5, <3>6
  <2>5. ASSUME NEW a \in C, NEW b \in C, Place(h, a) = Place(h, b) PROVE a = b
    <3>1. CASE a = h \/ b = h
      BY <2>2, <2>3, <2>5, <3>1
    <3>2. CASE a # h /\ b # h
      BY <2>2, <2>5, <3>2
    <3> QED BY <3>1, <3>2
  <2>6. Place(h, h) \in Nat /\ \A a \in C : a # h => Place(h, a) < Place(h, h)
    BY <2>2, <2>3
  <2>7. \A a \in C : Place(h, a) \in Nat
    BY <2>2, <2>6
  <2> QED BY <2>4, <2>5, <2>6, <2>7
<1> HIDE DEF Near
<1>3. ASSUME NEW T \in SUBSET C, h \in T, \A a \in T : N[a] # Null => N[a] \in T
      PROVE  C \subseteq T
  BY <1>3 DEF IsChain
<1>4. ASSUME NEW b \in C, \A c \in C : Place(h, b) < Place(h, c) => Near(c)
      PROVE  Near(b)
  <2> DEFINE T == {z \in C : Place(h, z) >= Place(h, b) \/ Place(h, z) <= Place(h, N[b])}
  <2>1. h \in T
    <3>1. Place(h, b) <= Place(h, h)
      BY <1>2
    <3> QED BY <1>1, <1>2, <3>1
  <2>2. ASSUME NEW z \in T, N[z] # Null PROVE N[z] \in T
    <3>1. z \in C /\ N[z] \in C /\ b \in C
      BY <1>1, <2>2
    <3>2. CASE Place(h, z) <= Place(h, N[b])
      BY <1>2, <3>1, <3>2
    <3>3. CASE z = b
      BY <1>2, <3>1, <3>3
    <3>4. CASE Place(h, b) < Place(h, z)
      <4>1. Place(h, b) <= Place(h, N[z])
        BY <1>4, <3>1, <3>4 DEF Near
      <4> QED BY <1>2, <3>1, <4>1
    <3> QED BY <1>2, <2>2, <3>1, <3>2, <3>3, <3>4
  <2>3. C \subseteq T
    BY <1>3, <2>1, <2>2
  <2> QED BY <1>2, <2>3 DEF Near
<1>5. h \in U
  <2>1. ASSUME NEW c \in C, Place(h, h) <= Place(h, c) PROVE Near(c)
    <3>1. c = h
      BY <1>1, <1>2, <2>1
    <3>2. \A d \in C : ~(Place(h, c) < Place(h, d))
      BY <1>1, <1>2, <3>1
    <3> QED BY <1>4, <3>2
  <2> QED BY <1>1, <2>1
<1>6. ASSUME NEW a \in U, N[a] # Null PROVE N[a] \in U
  <2>1. a \in C /\ N[a] \in C /\ Near(a)
    BY <1>1, <1>2, <1>6
  <2>2. \A c \in C : Place(h, N[a]) < Place(h, c) => Place(h, a) <= Place(h, c)
    BY <1>2, <2>1 DEF Near
  <2>3. \A c \in C : Place(h, N[a]) < Place(h, c) => Near(c)
    BY <1>6, <2>2
  <2>4. Near(N[a])
    BY <1>4, <2>1, <2>3
  <2>5. ASSUME NEW c \in C, Place(h, N[a]) <= Place(h, c) PROVE Near(c)
    BY <1>2, <2>1, <2>3, <2>4, <2>5
  <2> QED BY <2>1, <2>5
<1>7. C \subseteq U
  BY <1>3, <1>5, <1>6
<1> QED BY <1>2, <1>7 DEF Near

(* Two entries of a chain have different successors. *)
LEMMA ChainPredecessor ==
  ASSUME NEW N, NEW h \in Heads, NEW C, IsChain(N, h, C), Falls(N, h, C),
         NEW a \in C, NEW b \in C, N[a] = N[b], N[a] # Null
  PROVE  a = b
<1>1. \A y, z \in C : Place(h, z) < Place(h, y) => Place(h, z) <= Place(h, N[y])
  BY ChainOrder
<1>2. /\ h # Null /\ h \notin Nodes /\ LastNode \in Nat
      /\ \A n \in Nodes : n \in Nat /\ n <= LastNode /\ n # Null
  BY Layout DEF Heads, Nodes, Null
<1>3. /\ \A y \in {a, b} : Place(h, y) \in Nat /\ Place(h, N[y]) \in Nat
      /\ \A y \in {a, b} : Place(h, N[y]) < Place(h, y)
      /\ Place(h, a) = Place(h, b) => a = b
  BY <1>2 DEF Place, Falls
<1> QED BY <1>1, <1>3

(* Chain is defined by recursion over the number of steps taken. *)
LEMMA ChainWalk ==
  ASSUME NEW h
  PROVE  \E f : /\ f[0] = {h}
                /\ \A n \in 1..NrNodes :
                     f[n] = f[n - 1] \cup ({Behind(a) : a \in f[n - 1]} \ {Null})
                /\ Chain(h) = f[NrNodes]
<1> DEFINE More(X) == X \cup ({Behind(a) : a \in X} \ {Null})
           Round(f, n) == IF n = 0 THEN {h} ELSE More(f[n - 1])
           Walk(f, m) == f = [n \in 0..m |-> Round(f, n)]
           Bad == {m \in Nat : ~\E f : Walk(f, m)}
<1>1. Chain(h) = (CHOOSE f : Walk(f, NrNodes))[NrNodes]
  BY DEF Chain
<1>2. \E f : Walk(f, 0)
  <2> DEFINE f == [n \in 0..0 |-> {h}]
  <2>1. \A n \in 0..0 : Round(f, n) = {h}
    OBVIOUS
  <2> HIDE DEF Round
  <2>2. Walk(f, 0)
    BY <2>1
  <2> QED BY <2>2
<1>3. ASSUME NEW m \in Nat, NEW f, Walk(f, m)
      PROVE  \E g : Walk(g, m + 1)
  <2> DEFINE g == [n \in 0..(m + 1) |-> Round(f, n)]
  <2>1. ASSUME NEW n \in 0..m PROVE g[n] = f[n]
    <3> HIDE DEF Round
    <3>1. g[n] = Round(f, n) /\ f[n] = Round(f, n)
      BY <1>3
    <3> QED BY <3>1
  <2> HIDE DEF g
  <2>2. ASSUME NEW n \in 0..(m + 1) PROVE Round(g, n) = Round(f, n)
    <3>1. CASE n = 0
      BY <3>1
    <3>2. CASE n # 0
      <4>1. n - 1 \in 0..m
        BY <3>2
      <4>2. g[n - 1] = f[n - 1]
        BY <2>1, <4>1
      <4> HIDE DEF More
      <4> QED BY <3>2, <4>2
    <3> QED BY <3>1, <3>2
  <2>3. Walk(g, m + 1)
    <3> HIDE DEF Round
    <3> QED BY <2>2 DEF g
  <2> QED BY <2>3
<1> HIDE DEF Walk
<1>4. Bad = {}
  <2> SUFFICES ASSUME Bad # {} PROVE FALSE
    OBVIOUS
  <2>1. PICK m \in Bad : \A k \in Bad : m <= k
    BY Least
  <2>2. m # 0 /\ m \in Nat
    BY <1>2, <2>1
  <2>3. PICK k : k = m - 1
    OBVIOUS
  <2>4. k \in Nat /\ k + 1 = m /\ ~(m <= k)
    BY <2>2, <2>3
  <2>5. PICK f : Walk(f, k)
    BY <2>1, <2>4
  <2>6. \E g : Walk(g, k + 1)
    BY <1>3, <2>4, <2>5
  <2> QED BY <2>1, <2>4, <2>6
<1>5. PICK f : f = (CHOOSE g : Walk(g, NrNodes))
  OBVIOUS
<1>6. Walk(f, NrNodes)
  <2>1. \E g : Walk(g, NrNodes)
    BY <1>4, SizeAssumption
  <2> QED BY <1>5, <2>1
<1>7. ASSUME NEW n \in 0..NrNodes PROVE f[n] = Round(f, n)
  <2> HIDE DEF Round
  <2> QED BY <1>6 DEF Walk
<1>8. f[0] = {h}
  <2>1. Round(f, 0) = {h}
    OBVIOUS
  <2>2. 0 \in 0..NrNodes
    BY SizeAssumption
  <2> HIDE DEF Round
  <2> QED BY <1>7, <2>1, <2>2
<1>9. ASSUME NEW n \in 1..NrNodes PROVE f[n] = More(f[n - 1])
  <2>1. n \in 0..NrNodes /\ n # 0
    BY SizeAssumption
  <2> HIDE DEF More
  <2>2. Round(f, n) = More(f[n - 1])
    BY <2>1
  <2> QED BY <1>7, <2>1, <2>2
<1> QED BY <1>1, <1>5, <1>8, <1>9

Nexts == [a \in Addrs |-> Behind(a)]

(* Where every successor is a node at a lower address, NrNodes rounds reach *)
(* the end of the chain.                                                   *)
LEMMA ChainReached ==
  ASSUME NEW h \in Heads, NEW P \in SUBSET Nodes,
         \A a \in P \cup {h} : Behind(a) # Null => Behind(a) \in P,
         \A a \in P : Behind(a) < a
  PROVE  IsChain(Nexts, h, Chain(h)) /\ Chain(h) \subseteq P \cup {h}
<1>1. PICK f : /\ f[0] = {h}
               /\ \A n \in 1..NrNodes :
                    f[n] = f[n - 1] \cup ({Behind(a) : a \in f[n - 1]} \ {Null})
               /\ Chain(h) = f[NrNodes]
  BY ChainWalk
<1>2. /\ NrNodes \in Nat /\ h \in Addrs /\ FirstNode \in Nat
      /\ LastNode = FirstNode + NrNodes - 1
      /\ \A n \in Nodes : n \in Addrs /\ n \in Nat /\ FirstNode <= n /\ n <= LastNode
  BY Layout, SizeAssumption DEF Nodes, Addrs, Heads, FirstNode, LastNode
<1>3. ASSUME NEW n \in 1..NrNodes, NEW x
      PROVE  /\ x \in f[n - 1] => x \in f[n]
             /\ x \in f[n - 1] /\ Behind(x) # Null => Behind(x) \in f[n]
             /\ x \in f[n] => x \in f[n - 1] \/ (x # Null /\ \E a \in f[n - 1] : x = Behind(a))
  BY <1>1
<1> HIDE DEF Null
<1>4. \A n \in 0..NrNodes : h \in f[n] /\ f[n] \subseteq P \cup {h}
  <2> DEFINE S == {n \in 0..NrNodes : h \in f[n] /\ f[n] \subseteq P \cup {h}}
  <2>1. 0 \in S
    BY <1>1, <1>2
  <2>2. ASSUME NEW n \in 1..NrNodes, n - 1 \in S PROVE n \in S
    BY <1>3, <2>2
  <2>3. 0..NrNodes \subseteq S
    <3> HIDE DEF S
    <3> QED BY <1>2, <2>1, <2>2, UpTo
  <2> QED BY <2>3
<1>5. h \in Chain(h) /\ Chain(h) \subseteq P \cup {h}
  <2>1. NrNodes \in 0..NrNodes
    BY <1>2
  <2> QED BY <1>1, <1>4, <2>1
(* An entry whose successor has not been reached lies low.                 *)
<1>6. \A n \in 1..NrNodes : \A a \in f[n] :
        Behind(a) # Null /\ Behind(a) \notin f[n] => a \in P /\ a + n <= LastNode + 1
  <2> DEFINE S == {n \in 0..NrNodes : n > 0 => \A a \in f[n] :
                     Behind(a) # Null /\ Behind(a) \notin f[n] => a \in P /\ a + n <= LastNode + 1}
  <2>1. 0 \in S
    BY <1>2
  <2>2. ASSUME NEW n \in 1..NrNodes, n - 1 \in S PROVE n \in S
    <3> SUFFICES ASSUME NEW a \in f[n], Behind(a) # Null, Behind(a) \notin f[n]
                 PROVE  a \in P /\ a + n <= LastNode + 1
      BY <1>2
    <3>1. a \notin f[n - 1]
      BY <1>3
    <3>2. PICK b \in f[n - 1] : a = Behind(b) /\ a # Null
      BY <1>3, <3>1
    <3>3. n - 1 \in 0..NrNodes
      BY <1>2
    <3>4. b \in P \cup {h} /\ a \in P
      BY <1>4, <3>2, <3>3
    <3>5. CASE n = 1
      BY <1>2, <3>4, <3>5
    <3>6. CASE n > 1
      <4> PICK m : m = n - 1
        OBVIOUS
      <4>1. m > 0 /\ m \in S /\ b \in f[m] /\ Behind(b) # Null /\ Behind(b) \notin f[m]
        BY <2>2, <3>1, <3>2, <3>6
      <4>2. b \in P /\ b + m <= LastNode + 1
        BY <4>1
      <4>3. a < b
        BY <3>2, <4>2
      <4>4. a \in Nat /\ b \in Nat /\ LastNode \in Int /\ m \in Int /\ n = m + 1
        BY <1>2, <3>4, <4>2
      <4> QED BY <3>4, <4>2, <4>3, <4>4
    <3> QED BY <3>5, <3>6
  <2>3. 0..NrNodes \subseteq S
    <3> HIDE DEF S
    <3> QED BY <1>2, <2>1, <2>2, UpTo
  <2> QED BY <2>3
<1>7. ASSUME NEW a \in Chain(h), Behind(a) # Null PROVE Behind(a) \in Chain(h)
  <2> SUFFICES ASSUME Behind(a) \notin Chain(h) PROVE FALSE
    OBVIOUS
  <2>1. Behind(a) \in P /\ Behind(a) \in Nodes
    BY <1>5, <1>7
  <2>2. NrNodes >= 1 /\ NrNodes \in 1..NrNodes
    BY <1>2, <2>1
  <2>3. a \in P /\ a + NrNodes <= LastNode + 1
    BY <1>1, <1>6, <1>7, <2>2
  <2>4. a <= FirstNode /\ Behind(a) < a /\ FirstNode <= Behind(a)
    BY <1>2, <2>1, <2>3
  <2>5. a \in Nat /\ Behind(a) \in Nat
    BY <1>2, <2>1, <2>3
  <2> QED BY <1>2, <2>4, <2>5
<1>8. Chain(h) \subseteq Addrs /\ \A a \in Chain(h) : Nexts[a] = Behind(a)
  BY <1>2, <1>5 DEF Nexts
<1>9. ASSUME NEW T \in SUBSET Chain(h), h \in T, \A a \in T : Nexts[a] # Null => Nexts[a] \in T
      PROVE  Chain(h) \subseteq T
  <2> DEFINE S == {n \in 0..NrNodes : f[n] \subseteq T}
  <2>0. \A a \in T : Behind(a) # Null => Behind(a) \in T
    BY <1>8, <1>9
  <2>1. 0 \in S
    BY <1>1, <1>2, <1>9
  <2>2. ASSUME NEW n \in 1..NrNodes, n - 1 \in S PROVE n \in S
    BY <1>3, <2>0, <2>2
  <2>3. 0..NrNodes \subseteq S
    <3> HIDE DEF S
    <3> QED BY <1>2, <2>1, <2>2, UpTo
  <2>4. NrNodes \in 0..NrNodes
    BY <1>2
  <2> QED BY <1>1, <2>3, <2>4
<1> QED BY <1>5, <1>7, <1>8, <1>9 DEF IsChain

-----------------------------------------------------------------------------
(* What slaves are about to write.                                         *)

LEMMA PendingFrame ==
  ASSUME NEW u \in Slaves, NEW h, h = MyHead(u), Pending(u, h), SameSlave(u), UNCHANGED index,
         RoomLeft' => RoomLeft,
         pc[u] \in {"pull", "head"} => mem'[h] = mem[h],
         pc[u] = "head" /\ mem[h].next # Null => mem'[mem[h].next] = mem[mem[h].next]
  PROVE  Pending(u, MyHead(u))'
<1>1. MyHead(u)' = h /\ opType' = opType
  BY DEF MyHead, SameSlave, index
<1>2. Pending(u, h)'
  BY <1>1 DEF Pending, SameSlave
<1> QED BY <1>1, <1>2

(* No step gives a node back. *)
LEMMA RoomShrinks ==
  ASSUME TypeOK, NEW t \in Slaves, Step(t)
  PROVE  RoomLeft' => RoomLeft
<1>1. avail \in Int /\ LastNode \in Int
  BY Layout DEF TypeOK
<1>2. avail' = avail \/ avail' = avail + 1
  BY StepCases DEF InitBucket, Lock, Unlock, UsedLoad, UsedStore, InsertRead, InsertPut,
     InsertAlloc, InsertLink, InsertNode, DeleteRead, DeletePull, DeleteHead, DeleteWalk,
     DeleteUnlink, LookupRead, LookupWalk, LookupFetch, UpdatePeek, UpdatePatch
<1> QED BY <1>1, <1>2 DEF RoomLeft

(* A slave at work on another bucket than t is not disturbed by t. *)
LEMMA WriterPending ==
  ASSUME TypeOK, LaunchInv, LockInv, ChainShape, NEW t \in Slaves, Step(t), Writes(t),
         NEW u \in Slaves, u # t, Pending(u, MyHead(u))
  PROVE  Pending(u, MyHead(u))'
<1>1. SameSlave(u) /\ UNCHANGED index /\ (RoomLeft' => RoomLeft) /\ Launched(u) /\ Launched(t)
  BY RoomShrinks DEF Writes, LaunchInv
<1>2. ASSUME pc[u] \in {"pull", "head"}
      PROVE  /\ mem'[MyHead(u)] = mem[MyHead(u)]
             /\ mem[MyHead(u)].next # Null =>
                  mem'[mem[MyHead(u)].next] = mem[mem[MyHead(u)].next]
  <2>1. pc[u] \in Critical /\ pc[u] # "node"
    BY <1>2 DEF Critical
  <2>2. MyHead(u) \in Heads /\ MyHead(u) # MyHead(t)
    BY <1>1, <2>1, LockExcludes, MyHeadType DEF Writes, Launched
  <2>3. Follows(MyHead(u), mem[MyHead(u)].next)
    BY <2>1, OwnHead
  <2> QED BY <2>2, <2>3, WriterElsewhere DEF Belongs
<1> QED BY <1>1, <1>2, PendingFrame

(* What a writer has to show of what it wrote. *)
LEMMA WriterStores ==
  ASSUME TypeOK, LaunchInv, LockInv, ChainShape, StoreInv, NEW t \in Slaves, Step(t), Writes(t),
         \A a \in Addrs : mem'[a].key \in Keys => mem'[a].val \in Vals,
         pc'[t] \in {"load", "node"}, pc'[t] = "node" /\ ptr'[t] = Null => ~RoomLeft
  PROVE  StoreInv'
<1>1. \A u \in Slaves : u # t => Pending(u, MyHead(u))'
  BY WriterPending DEF StoreInv
<1>2. Pending(t, MyHead(t))'
  BY RoomShrinks DEF Pending
<1>3. ASSUME NEW h \in Heads \ LiveHeads PROVE mem'[h] = mem[h]
  <2>1. h # MyHead(t) /\ h \notin Nodes /\ h \in Addrs
    BY MyHeadLive, Layout DEF Writes, Heads, Nodes, Addrs
  <2> QED BY <2>1 DEF Writes, Private
<1>4. LiveHeads' = LiveHeads
  BY DEF Writes
<1> QED BY <1>1, <1>2, <1>3, <1>4 DEF StoreInv

(* A slave that writes nothing has only to justify what it will write. *)
LEMMA QuietStores ==
  ASSUME TypeOK, LaunchInv, StoreInv, NEW t \in Slaves, Step(t), Quiet(t), Pending(t, MyHead(t))'
  PROVE  StoreInv'
<1>1. ASSUME NEW u \in Slaves, u # t PROVE Pending(u, MyHead(u))'
  BY <1>1, PendingFrame, RoomShrinks DEF Quiet, StoreInv
<1> QED BY <1>1 DEF Quiet, StoreInv

LEMMA StoreInit == Init => StoreInv
BY DataAssumption, Layout DEF Init, StoreInv, Junk, Pending, Heads, Addrs, Null

(* The read or decision that leads a slave to a write justifies the write. *)
LEMMA OwnPending ==
  ASSUME TypeOK, LaunchInv, LockInv, ChainShape, RegisterInv, StoreInv,
         NEW t \in Slaves, Step(t), pc[t] \in QuietLabels
  PROVE  Pending(t, MyHead(t))'
<1> PICK h : h = MyHead(t)
  OBVIOUS
<1>1. Launched(t) /\ Registers(t) /\ Pending(t, h) /\ UNCHANGED index
  BY StepFrame DEF LaunchInv, RegisterInv, StoreInv
<1>2. pc \in [Slaves -> Labels] /\ buf \in [Slaves -> Entry] /\ opType' = opType
  BY <1>1 DEF TypeOK, index
<1>3. key'[t] = key[t] => MyHead(t)' = h
  BY <1>1 DEF MyHead, index
<1>4. CASE pc'[t] \notin {"lock", "patch", "link", "node", "pull", "head", "unlink"}
  <2>1. /\ pc'[t] # "peek"
        /\ pc'[t] = "fetch" /\ opType = "get_or_insert" => ptr'[t] # Null
    BY <1>2, StepCases DEF QuietLabels, InitBucket, Lock, Unlock, UsedLoad, UsedStore, InsertRead,
       InsertPut, InsertAlloc, InsertLink, InsertNode, DeleteRead, DeletePull, DeleteHead,
       DeleteWalk, DeleteUnlink, LookupRead, LookupWalk, Missed, LookupFetch, UpdatePeek,
       UpdatePatch, Goto, Returned, locals
  <2> QED BY <1>2, <1>4, <2>1 DEF Pending
<1>5. CASE Lock(t) \/ UpdatePeek(t)
  <2>1. /\ val'[t] = val[t] /\ pc'[t] \in {"read", "patch", "lock"} /\ pc[t] \in {"lock", "peek"}
        /\ pc'[t] = "patch" => opType = "update"
    BY <1>2, <1>5 DEF Lock, UpdatePeek, Goto, locals
  <2>2. pc'[t] \in {"patch", "lock"} /\ opType = "update" => val[t] \in Vals
    BY <1>1, <2>1 DEF Pending
  <2> QED BY <1>2, <2>1, <2>2 DEF Pending
<1>6. CASE DeleteRead(t)
  <2>1. ptr[t] = h /\ mem[h] \in Entry /\ key'[t] = key[t] /\ mem' = mem
    BY <1>1, <1>6, OwnHead DEF DeleteRead, Launched, Critical
  <2>2. \/ /\ mem[h].key = key[t] /\ buf'[t] = [mem[h] EXCEPT !.key = NoKey]
           /\ \/ pc'[t] = "head" /\ mem[h].next = Null
              \/ pc'[t] = "pull"
        \/ pc'[t] = "walk"
    BY <1>2, <1>6, <2>1 DEF DeleteRead, Goto
  <2> QED BY <1>3, <2>1, <2>2 DEF Pending
<1>7. CASE DeletePull(t)
  <2>1. /\ buf[t] = [mem[h] EXCEPT !.key = NoKey] /\ buf[t].next # Null
        /\ pc[t] = "pull" /\ mem[h] \in Entry
    BY <1>1, <1>7, OwnHead DEF DeletePull, Registers, DeleteRegisters, Launched, Critical
  <2>2. buf[t].next = mem[h].next /\ mem[h].key = key[t]
    BY <1>1, <2>1 DEF Entry, Pending
  <2>3. buf'[t] = mem[mem[h].next] /\ pc'[t] = "head" /\ key'[t] = key[t] /\ mem' = mem
    BY <1>2, <1>7, <2>2 DEF DeletePull, Goto
  <2> QED BY <1>3, <2>1, <2>2, <2>3 DEF Pending
<1>8. CASE DeleteWalk(t)
  <2>1. /\ pc'[t] = "unlink" => buf'[t].key = key'[t]
        /\ pc'[t] \in {"unlock", "unlink", "walk"}
    BY <1>2, <1>8 DEF DeleteWalk, Goto
  <2> QED BY <2>1 DEF Pending
<1>9. CASE UsedLoad(t) \/ UsedStore(t) \/ Unlock(t) \/ InsertRead(t) \/ LookupRead(t)
           \/ LookupWalk(t) \/ LookupFetch(t)
  <2>1. pc'[t] \notin {"lock", "patch", "link", "node", "pull", "head", "unlink"}
    BY <1>2, <1>9 DEF UsedLoad, UsedStore, Unlock, InsertRead, LookupRead, LookupWalk, Missed,
       LookupFetch, Goto
  <2> QED BY <1>4, <2>1
<1> QED
  BY StepCases, <1>5, <1>6, <1>7, <1>8, <1>9
     DEF QuietLabels, InitBucket, InsertPut, InsertAlloc, InsertLink, InsertNode,
     DeleteHead, DeleteUnlink, UpdatePatch

-----------------------------------------------------------------------------
(* What the steps that write MRAM do.                                      *)

LEMMA PutEffect ==
  ASSUME IndInv, StoreInv, NEW t \in Slaves, InsertPut(t), NEW h, h = MyHead(t)
  PROVE  /\ pc[t] = "put" /\ pc'[t] = "load" /\ Writes(t) /\ h \in Heads /\ h \in LiveHeads
         /\ opType \in Adding /\ key[t] \in Keys /\ val[t] \in Vals /\ key'[t] = key[t]
         /\ mem[h].key = NoKey /\ mem[h].next = Null
         /\ mem'[h] = [key |-> key[t], val |-> val[t], next |-> Null]
         /\ \A a \in Addrs : a # h => mem'[a] = mem[a]
<1> DEFINE e == [key |-> key[t], val |-> val[t], next |-> Null]
<1>0. TypeOK /\ LaunchInv /\ LockInv /\ ChainShape /\ RegisterInv
  BY DEF IndInv
<1>1. /\ pc[t] = "put" /\ pc'[t] = "load" /\ ptr[t] = h /\ opType \in Adding
      /\ key[t] \in Keys /\ val[t] \in Vals /\ pid # NoSlot
      /\ mem' = [mem EXCEPT ![h] = e] /\ key'[t] = key[t]
  BY <1>0 DEF InsertPut, Goto, LaunchInv, Launched, TypeOK, Critical, locals
<1>2. h \in Heads /\ h \in Addrs /\ h \in LiveHeads
  BY <1>0, <1>1, MyHeadType, MyHeadLive DEF Critical
<1>3. mem'[h] = e /\ \A a \in Addrs : a # h => mem'[a] = mem[a]
  BY <1>0, <1>1, <1>2 DEF TypeOK
<1>4. mem[h].key = NoKey /\ mem[h].next = Null
  BY <1>0, <1>1, OwnHead DEF RegisterInv, Registers, InsertRegisters, Critical
<1>5. Writes(t)
  BY <1>0, <1>1, <1>3, <1>4, DataAssumption, StepWrites DEF Private, WriterLabels, Step, Insert
<1> QED BY <1>1, <1>2, <1>3, <1>4, <1>5

(* InsertLink links the node it was given, or the null pointer, behind the *)
(* head; the old successor of the head is kept in tail.                    *)
LEMMA LinkEffect ==
  ASSUME IndInv, StoreInv, NEW t \in Slaves, InsertLink(t), NEW h, h = MyHead(t)
  PROVE  /\ pc[t] = "link" /\ pc'[t] = "node" /\ Writes(t) /\ h \in Heads /\ h \in LiveHeads
         /\ opType \in Adding /\ key[t] \in Keys /\ key'[t] = key[t]
         /\ ptr'[t] = buf[t].next /\ tail'[t] = tail[t] /\ tail[t] = mem[h].next
         /\ mem[h] \in Entry /\ mem[h].key \in Keys
         /\ mem'[h] = [mem[h] EXCEPT !.next = buf[t].next]
         /\ buf[t].next = Null => ~RoomLeft
         /\ \A a \in Addrs : a # h => mem'[a] = mem[a]
<1>0. TypeOK /\ LaunchInv /\ LockInv /\ ChainShape /\ RegisterInv
  BY DEF IndInv
<1>1. /\ pc[t] = "link" /\ pc'[t] = "node" /\ ptr[t] = h /\ key[t] \in Keys /\ pid # NoSlot
      /\ mem' = [mem EXCEPT ![h] = buf[t]] /\ ptr'[t] = buf[t].next /\ opType \in Adding
      /\ UNCHANGED <<key, tail>>
  BY <1>0 DEF InsertLink, Goto, LaunchInv, Launched, TypeOK, Critical
<1>2. h \in Heads /\ h \in Addrs /\ h \in LiveHeads
  BY <1>0, <1>1, MyHeadType, MyHeadLive DEF Critical
<1>3. mem'[h] = buf[t] /\ \A a \in Addrs : a # h => mem'[a] = mem[a]
  BY <1>0, <1>1, <1>2 DEF TypeOK
<1>4. /\ mem[h].key # NoKey /\ tail[t] = mem[h].next
      /\ buf[t] = [mem[h] EXCEPT !.next = buf[t].next]
  BY <1>0, <1>1 DEF RegisterInv, Registers, InsertRegisters
<1>5. mem[h] \in Entry /\ mem[h].key \in Keys
  BY <1>0, <1>1, <1>4, OwnHead DEF Critical, Hosts
<1>6. buf[t].key = mem[h].key
  BY <1>4, <1>5 DEF Entry
<1>7. Writes(t)
  BY <1>0, <1>1, <1>3, <1>6, StepWrites DEF Private, WriterLabels, Step, Insert
<1>8. buf[t].next = Null => ~RoomLeft
  BY <1>1 DEF StoreInv, Pending
<1> QED BY <1>1, <1>2, <1>3, <1>4, <1>5, <1>7, <1>8

(* InsertNode writes the new entry, with the old successor, into the node  *)
(* the head points to; without a node it writes nothing.                   *)
LEMMA NodeEffect ==
  ASSUME IndInv, StoreInv, NEW t \in Slaves, InsertNode(t), NEW h, h = MyHead(t)
  PROVE  /\ pc[t] = "node" /\ pc'[t] = "load" /\ Writes(t) /\ h \in Heads /\ h \in LiveHeads
         /\ opType \in Adding /\ key[t] \in Keys /\ val[t] \in Vals /\ key'[t] = key[t]
         /\ ptr'[t] = ptr[t] /\ ptr[t] = mem[h].next
         /\ ptr[t] = Null => mem' = mem /\ ~RoomLeft
         /\ ptr[t] # Null => Unwritten(h, ptr[t]) /\ mem'[ptr[t]] = NewNode(t)
         /\ \A a \in Addrs : a # ptr[t] => mem'[a] = mem[a]
<1>0. TypeOK /\ LaunchInv /\ LockInv /\ ChainShape /\ RegisterInv
  BY DEF IndInv
<1>1. /\ pc[t] = "node" /\ pc'[t] = "load" /\ key[t] \in Keys /\ val[t] \in Vals /\ pid # NoSlot
      /\ opType \in Adding /\ UNCHANGED <<key, ptr>>
  BY <1>0 DEF InsertNode, Goto, LaunchInv, Launched, TypeOK, Critical, locals
<1>2. h \in Heads /\ h \in LiveHeads
  BY <1>0, <1>1, MyHeadType, MyHeadLive DEF Critical
<1>3. /\ ptr[t] = mem[h].next
      /\ ptr[t] # Null => Unwritten(h, ptr[t])
  BY <1>0, <1>1 DEF RegisterInv, Registers, InsertRegisters
<1>4. \A n \in Nodes : n \in Addrs
  BY Layout DEF Nodes, Addrs
<1>5. /\ \A a \in Addrs : a # ptr[t] => mem'[a] = mem[a]
      /\ ptr[t] # Null => mem'[ptr[t]] = NewNode(t)
  BY <1>0, <1>3, <1>4 DEF InsertNode, TypeOK, Unwritten
<1>6. Writes(t)
  <2>1. ptr[t] # Null => ptr[t] \in Private(h)
    BY <1>3 DEF Private, Unwritten
  <2>2. \A a \in Addrs : a # Null
    BY DEF Addrs, Null
  <2>3. ptr[t] # Null => mem[ptr[t]].key \notin Keys
    BY <1>3, DataAssumption DEF Unwritten, Junk
  <2> QED BY <1>0, <1>1, <1>5, <2>1, <2>2, <2>3, StepWrites DEF WriterLabels, Step, Insert
<1>7. ptr[t] = Null => mem' = mem /\ ~RoomLeft
  BY <1>1 DEF StoreInv, Pending, InsertNode
<1> QED BY <1>1, <1>2, <1>3, <1>5, <1>6, <1>7

(* DeleteHead writes the successor of the head, or no key, into the head. *)
LEMMA HeadEffect ==
  ASSUME IndInv, StoreInv, NEW t \in Slaves, DeleteHead(t), NEW h, h = MyHead(t)
  PROVE  /\ pc[t] = "head" /\ pc'[t] = "load" /\ Writes(t) /\ h \in Heads /\ h \in LiveHeads
         /\ opType = "delete" /\ key[t] \in Keys /\ key'[t] = key[t]
         /\ mem[h] \in Entry /\ mem[h].key = key[t] /\ Follows(h, mem[h].next)
         /\ mem'[h] = IF mem[h].next = Null THEN [mem[h] EXCEPT !.key = NoKey]
                                            ELSE mem[mem[h].next]
         /\ \A a \in Addrs : a # h => mem'[a] = mem[a]
<1>0. TypeOK /\ LaunchInv /\ LockInv /\ ChainShape /\ RegisterInv
  BY DEF IndInv
<1>1. /\ pc[t] = "head" /\ pc'[t] = "load" /\ ptr[t] = h /\ key[t] \in Keys /\ pid # NoSlot
      /\ mem' = [mem EXCEPT ![h] = buf[t]] /\ opType = "delete" /\ key'[t] = key[t]
  BY <1>0 DEF DeleteHead, Goto, LaunchInv, Launched, TypeOK, Critical, locals
<1>2. h \in Heads /\ h \in Addrs /\ h \in LiveHeads
  BY <1>0, <1>1, MyHeadType, MyHeadLive DEF Critical
<1>3. mem'[h] = buf[t] /\ \A a \in Addrs : a # h => mem'[a] = mem[a]
  BY <1>0, <1>1, <1>2 DEF TypeOK
<1>4. Writes(t)
  BY <1>0, <1>1, <1>3, StepWrites DEF Private, WriterLabels, Step, Delete
<1>5. mem[h] \in Entry /\ Follows(h, mem[h].next)
  BY <1>0, <1>1, OwnHead DEF Critical
<1>6. /\ mem[h].key = key[t]
      /\ buf[t] = IF mem[h].next = Null THEN [mem[h] EXCEPT !.key = NoKey]
                                        ELSE mem[mem[h].next]
  BY <1>1 DEF StoreInv, Pending
<1> QED BY <1>1, <1>2, <1>3, <1>4, <1>5, <1>6

(* DeleteUnlink bypasses the entry with its key that follows the entry at  *)
(* ptr.                                                                    *)
LEMMA UnlinkEffect ==
  ASSUME IndInv, StoreInv, NEW t \in Slaves, DeleteUnlink(t), NEW h, h = MyHead(t),
         NEW q, q = ptr[t], NEW x, x = mem[q].next
  PROVE  /\ pc[t] = "unlink" /\ pc'[t] = "load" /\ Writes(t) /\ h \in Heads /\ h \in LiveHeads
         /\ opType = "delete" /\ key[t] \in Keys /\ key'[t] = key[t]
         /\ Belongs(h, q) /\ q \in Addrs /\ mem[q] \in Entry
         /\ x # Null /\ Follows(h, x) /\ mem[x].key = key[t]
         /\ mem'[q] = [mem[q] EXCEPT !.next = mem[x].next]
         /\ \A a \in Addrs : a # q => mem'[a] = mem[a]
<1>0. TypeOK /\ LaunchInv /\ LockInv /\ ChainShape /\ RegisterInv
  BY DEF IndInv
<1>1. /\ pc[t] = "unlink" /\ pc'[t] = "load" /\ key[t] \in Keys /\ pid # NoSlot
      /\ mem' = [mem EXCEPT ![q] = [last[t] EXCEPT !.next = buf[t].next]]
      /\ opType = "delete" /\ key'[t] = key[t]
  BY <1>0 DEF DeleteUnlink, Goto, LaunchInv, Launched, TypeOK, Critical, locals
<1>2. h \in Heads /\ h \in Addrs /\ h \in LiveHeads
  BY <1>0, <1>1, MyHeadType, MyHeadLive DEF Critical
<1>3. /\ Belongs(h, q) /\ last[t] = mem[q] /\ x # Null /\ Follows(h, x) /\ buf[t] = mem[x]
  BY <1>0, <1>1 DEF RegisterInv, Registers, DeleteRegisters
<1>4. q \in Addrs /\ q \in Private(h) /\ mem[q] \in Entry
  BY <1>0, <1>2, <1>3, OwnNode DEF Belongs, Private, Follows, TypeOK
<1>5. /\ mem'[q] = [mem[q] EXCEPT !.next = mem[x].next]
      /\ \A a \in Addrs : a # q => mem'[a] = mem[a]
  BY <1>0, <1>1, <1>3, <1>4 DEF TypeOK
<1>6. Writes(t)
  BY <1>0, <1>1, <1>4, <1>5, StepWrites DEF WriterLabels, Step, Delete
<1>7. mem[x].key = key[t]
  BY <1>1, <1>3 DEF StoreInv, Pending
<1> QED BY <1>1, <1>2, <1>3, <1>4, <1>5, <1>6, <1>7

(* UpdatePatch writes a value into an entry of the current index that      *)
(* keeps key and successor.                                                *)
LEMMA PatchEffect ==
  ASSUME IndInv, StoreInv, NEW t \in Slaves, UpdatePatch(t), NEW h, h = MyHead(t),
         NEW p, p = ptr[t]
  PROVE  /\ pc[t] = "patch" /\ pc'[t] = "unlock" /\ h \in Heads /\ h \in LiveHeads
         /\ opType = "update" /\ key[t] \in Keys /\ val[t] \in Vals
         /\ \A u \in Slaves : pc[u] \in {"idle", "peek", "lock", "patch", "unlock"}
         /\ Belongs(h, p) /\ p \in Addrs /\ mem[p].key = key[t]
         /\ mem'[p].key = mem[p].key /\ mem'[p].next = mem[p].next /\ mem'[p].val = val[t]
         /\ \A a \in Addrs : a # p => mem'[a] = mem[a]
         /\ \A u \in Slaves : u # t => SameSlave(u)
         /\ UNCHANGED <<home, avail, index>> /\ LiveHeads' = LiveHeads
<1>0. TypeOK /\ LaunchInv /\ LockInv /\ ChainShape /\ RegisterInv
  BY DEF IndInv
<1>1. /\ pc[t] = "patch" /\ pc'[t] = "unlock" /\ opType = "update" /\ pid # NoSlot
      /\ key[t] \in Keys /\ buf[t].key = key[t]
      /\ mem' = [mem EXCEPT ![p] = [buf[t] EXCEPT !.val = val[t]]]
      /\ UNCHANGED <<home, avail, index>>
  BY <1>0 DEF UpdatePatch, Patched, Goto, LaunchInv, Launched, TypeOK, Critical
<1>2. Belongs(h, p) /\ mem[p].key = key[t] /\ buf[t].next = mem[p].next
  BY <1>0, <1>1 DEF RegisterInv, Registers, UpdateRegisters
<1>3. h \in Heads /\ h \in Addrs /\ h \in LiveHeads
  BY <1>0, <1>1, MyHeadType, MyHeadLive DEF Critical
<1>4. p \in Addrs
  BY <1>2, <1>3, Layout DEF Belongs, Follows, Nodes, Addrs
<1>5. /\ [buf[t] EXCEPT !.val = val[t]].key = key[t]
      /\ [buf[t] EXCEPT !.val = val[t]].next = mem[p].next
      /\ [buf[t] EXCEPT !.val = val[t]].val = val[t]
  BY <1>0, <1>1, <1>2 DEF TypeOK, Entry
<1>6. /\ mem'[p] = [buf[t] EXCEPT !.val = val[t]]
      /\ \A a \in Addrs : a # p => mem'[a] = mem[a]
  BY <1>0, <1>1, <1>4 DEF TypeOK
<1>7. LiveHeads' = LiveHeads /\ \A u \in Slaves : u # t => SameSlave(u)
  BY <1>0, <1>1, StepLive, StepFrame DEF Step, Update
<1>8. \A u \in Slaves : pc[u] \in {"idle", "peek", "lock", "patch", "unlock"}
  BY <1>0, <1>1 DEF LaunchInv, Launched, TypeOK, Labels, Critical, Adding, Finding
<1>9. val[t] \in Vals
  BY <1>1 DEF StoreInv, Pending
<1> QED BY <1>1, <1>2, <1>3, <1>4, <1>5, <1>6, <1>7, <1>8, <1>9

-----------------------------------------------------------------------------
(* What is stored stays as it should be.                                   *)

LEMMA PutStores ==
  ASSUME IndInv, StoreInv, NEW t \in Slaves, InsertPut(t)
  PROVE  StoreInv'
<1> PICK h : h = MyHead(t)
  OBVIOUS
<1>1. /\ pc'[t] = "load" /\ Writes(t) /\ val[t] \in Vals
      /\ mem'[h] = [key |-> key[t], val |-> val[t], next |-> Null]
      /\ \A a \in Addrs : a # h => mem'[a] = mem[a]
  BY PutEffect
<1>2. \A a \in Addrs : mem'[a].key \in Keys => mem'[a].val \in Vals
  BY <1>1 DEF StoreInv
<1> QED BY <1>1, <1>2, WriterStores DEF IndInv, Step, Insert

LEMMA LinkStores ==
  ASSUME IndInv, StoreInv, NEW t \in Slaves, InsertLink(t)
  PROVE  StoreInv'
<1> PICK h : h = MyHead(t)
  OBVIOUS
<1>1. /\ pc'[t] = "node" /\ Writes(t) /\ mem[h] \in Entry /\ h \in Heads
      /\ mem'[h] = [mem[h] EXCEPT !.next = buf[t].next]
      /\ ptr'[t] = buf[t].next /\ (buf[t].next = Null => ~RoomLeft)
      /\ \A a \in Addrs : a # h => mem'[a] = mem[a]
  BY LinkEffect
<1>2. mem'[h].key = mem[h].key /\ mem'[h].val = mem[h].val /\ h \in Addrs
  BY <1>1, Layout DEF Entry, Heads, Addrs
<1>3. \A a \in Addrs : mem'[a].key \in Keys => mem'[a].val \in Vals
  BY <1>1, <1>2 DEF StoreInv
<1> QED BY <1>1, <1>3, WriterStores DEF IndInv, Step, Insert

LEMMA NodeStores ==
  ASSUME IndInv, StoreInv, NEW t \in Slaves, InsertNode(t)
  PROVE  StoreInv'
<1> PICK h : h = MyHead(t)
  OBVIOUS
<1>1. /\ pc'[t] = "load" /\ Writes(t) /\ val[t] \in Vals
      /\ ptr[t] = Null => mem' = mem
      /\ ptr[t] # Null => mem'[ptr[t]] = NewNode(t)
      /\ \A a \in Addrs : a # ptr[t] => mem'[a] = mem[a]
  BY NodeEffect
<1>2. \A a \in Addrs : mem'[a].key \in Keys => mem'[a].val \in Vals
  BY <1>1 DEF StoreInv, NewNode
<1> QED BY <1>1, <1>2, WriterStores DEF IndInv, Step, Insert

LEMMA HeadStores ==
  ASSUME IndInv, StoreInv, NEW t \in Slaves, DeleteHead(t)
  PROVE  StoreInv'
<1> PICK h : h = MyHead(t)
  OBVIOUS
<1>1. /\ pc'[t] = "load" /\ Writes(t) /\ h \in Heads /\ mem[h] \in Entry
      /\ Follows(h, mem[h].next)
      /\ mem'[h] = IF mem[h].next = Null THEN [mem[h] EXCEPT !.key = NoKey]
                                         ELSE mem[mem[h].next]
      /\ \A a \in Addrs : a # h => mem'[a] = mem[a]
  BY HeadEffect
<1>2. mem[h].next # Null => mem[h].next \in Addrs
  BY <1>1, OwnNode DEF IndInv
<1>3. mem[h].next = Null => mem'[h].key = NoKey
  BY <1>1 DEF Entry
<1>4. \A a \in Addrs : mem'[a].key \in Keys => mem'[a].val \in Vals
  BY <1>1, <1>2, <1>3, DataAssumption DEF StoreInv
<1> QED BY <1>1, <1>4, WriterStores DEF IndInv, Step, Delete

LEMMA UnlinkStores ==
  ASSUME IndInv, StoreInv, NEW t \in Slaves, DeleteUnlink(t)
  PROVE  StoreInv'
<1> PICK h, q, x : h = MyHead(t) /\ q = ptr[t] /\ x = mem[q].next
  OBVIOUS
<1>1. /\ pc'[t] = "load" /\ Writes(t) /\ q \in Addrs /\ mem[q] \in Entry
      /\ mem'[q] = [mem[q] EXCEPT !.next = mem[x].next]
      /\ \A a \in Addrs : a # q => mem'[a] = mem[a]
  BY UnlinkEffect
<1>2. mem'[q].key = mem[q].key /\ mem'[q].val = mem[q].val
  BY <1>1 DEF Entry
<1>3. \A a \in Addrs : mem'[a].key \in Keys => mem'[a].val \in Vals
  BY <1>1, <1>2 DEF StoreInv
<1> QED BY <1>1, <1>3, WriterStores DEF IndInv, Step, Delete

LEMMA PatchStores ==
  ASSUME IndInv, StoreInv, NEW t \in Slaves, UpdatePatch(t)
  PROVE  StoreInv'
<1> PICK h, p : h = MyHead(t) /\ p = ptr[t]
  OBVIOUS
<1>1. /\ pc[t] = "patch" /\ pc'[t] = "unlock" /\ val[t] \in Vals /\ Belongs(h, p) /\ p \in Addrs
      /\ h \in LiveHeads
      /\ \A u \in Slaves : pc[u] \in {"idle", "peek", "lock", "patch", "unlock"}
      /\ mem'[p].key = mem[p].key /\ mem'[p].next = mem[p].next /\ mem'[p].val = val[t]
      /\ \A a \in Addrs : a # p => mem'[a] = mem[a]
      /\ \A u \in Slaves : u # t => SameSlave(u)
      /\ UNCHANGED <<home, avail, index>> /\ LiveHeads' = LiveHeads
  BY PatchEffect
<1>2. ASSUME NEW a \in Addrs, mem'[a].key \in Keys PROVE mem'[a].val \in Vals
  BY <1>1, <1>2 DEF StoreInv
<1>3. ASSUME NEW g \in Heads \ LiveHeads PROVE mem'[g] = mem[g]
  <2>1. g \in Addrs /\ g \notin Nodes
    BY Layout DEF Heads, Addrs, Nodes
  <2>2. g # p
    BY <1>1, <2>1 DEF Belongs, Follows
  <2> QED BY <1>1, <2>1, <2>2
<1>4. ASSUME NEW u \in Slaves PROVE Pending(u, MyHead(u))'
  <2>1. CASE u = t
    BY <1>1, <2>1 DEF Pending
  <2>2. CASE u # t
    <3>1. Pending(u, MyHead(u)) /\ (RoomLeft' => RoomLeft) /\ SameSlave(u) /\ UNCHANGED index
      BY <1>1, <2>2 DEF StoreInv, RoomLeft
    <3> QED BY <1>1, <3>1, PendingFrame
  <2> QED BY <2>1, <2>2
<1> QED BY <1>1, <1>2, <1>3, <1>4 DEF StoreInv

LEMMA AllocStores ==
  ASSUME IndInv, StoreInv, NEW t \in Slaves, InsertAlloc(t)
  PROVE  StoreInv'
<1>0. TypeOK /\ LaunchInv /\ LockInv /\ AllocInv /\ ChainShape /\ RegisterInv
  BY DEF IndInv
<1> PICK h : h = MyHead(t)
  OBVIOUS
<1>1. /\ pc'[t] = "link" /\ UNCHANGED <<mem, key, index>> /\ LiveHeads' = LiveHeads
  BY <1>0, AllocEffect
<1>2. \/ home' = home /\ avail' = avail /\ buf'[t].next = Null
      \/ /\ avail \in Nodes /\ avail' = avail + 1 /\ buf'[t].next = avail
  BY <1>0, AllocEffect
<1>3. (RoomLeft' => RoomLeft) /\ \A u \in Slaves : u # t => SameSlave(u)
  BY <1>0, StepFrame, RoomShrinks DEF Step, Insert
<1>4. buf'[t].next = Null => ~RoomLeft'
  <2>1. \A n \in Nodes : n # Null
    BY Layout DEF Nodes, Null
  <2>2. buf'[t].next = Null => ~RoomLeft
    <3>1. buf[t] \in Entry /\ buf \in [Slaves -> Entry]
      BY <1>0 DEF TypeOK
    <3>2. RoomLeft => buf'[t].next = avail /\ avail \in Nodes
      BY <1>0, <3>1 DEF InsertAlloc, RoomLeft, TypeOK, Nodes, Entry
    <3> QED BY <2>1, <3>2
  <2> QED BY <1>3, <2>2
<1>5. Pending(t, MyHead(t))'
  BY <1>1, <1>4 DEF Pending
<1>6. ASSUME NEW u \in Slaves, u # t PROVE Pending(u, MyHead(u))'
  <2>1. Pending(u, MyHead(u)) /\ SameSlave(u) /\ UNCHANGED index
    BY <1>1, <1>3, <1>6 DEF StoreInv
  <2> QED BY <1>1, <1>3, <2>1, PendingFrame
<1> QED BY <1>1, <1>5, <1>6 DEF StoreInv

LEMMA InitBucketStores ==
  ASSUME IndInv, StoreInv, NEW t \in Slaves, InitBucket(t)
  PROVE  StoreInv'
<1>0. TypeOK /\ LaunchInv
  BY DEF IndInv
<1> PICK a : a = ptr[t]
  OBVIOUS
<1>1. /\ pc[t] = "init" /\ opType = "create" /\ pid \in Slots /\ num = pid + 1
      /\ a \in BucketHead(pid, BLOCK_LOW(Rank(t), NrSlaves, NrBuckets))..LastOfBlock(t)
  BY <1>0 DEF InitBucket, LaunchInv, Launched, TypeOK
<1>2. /\ \A u \in Slaves : pc[u] \in {"idle", "init"} /\ pc'[u] \in {"idle", "init"}
      /\ \A u \in Slaves : u # t => SameSlave(u)
      /\ UNCHANGED <<home, avail, index>>
  <2>1. pc \in [Slaves -> Labels]
    BY <1>0 DEF TypeOK
  <2>2. \A u \in Slaves : pc[u] \in {"idle", "init"}
    BY <1>0, <1>1, <2>1 DEF LaunchInv, Launched, Critical, Labels, Operations
  <2> QED BY <1>0, <2>1, <2>2, StepFrame DEF InitBucket, Step
<1>3. a \in Int /\ LastOfBlock(t) \in Int /\ a <= LastOfBlock(t)
  BY <1>1, BlockInSlot DEF LastOfBlock
<1>4. /\ \A x \in Addrs : x # a => mem'[x] = mem[x]
      /\ a \in Addrs => mem'[a] = EmptyEntry
  BY <1>0 DEF InitBucket, TypeOK
<1>5. /\ \A u \in Slaves : LastOfBlock(u)' = LastOfBlock(u)
      /\ \/ pc'[t] = "idle"
         \/ pc'[t] = "init" /\ ptr'[t] = a + 1
  BY <1>0, <1>1, <1>2 DEF InitBucket, LastOfBlock, TypeOK, index
<1>6. \A x \in Heads : Fresh(x)' => Fresh(x)
  BY <1>1, <1>2, <1>3, <1>5 DEF Fresh, SameSlave, Heads
<1>7. LiveHeads \subseteq LiveHeads'
  BY <1>2, <1>6 DEF LiveHeads, index
<1>8. ASSUME NEW h \in Heads \ LiveHeads' PROVE mem'[h].key \notin Keys /\ mem'[h].next = Null
  <2>1. h \in Heads \ LiveHeads /\ h \in Addrs
    BY <1>7, Layout DEF Heads, Addrs
  <2> QED BY <1>4, <2>1, DataAssumption DEF StoreInv, EmptyEntry
<1>9. \A x \in Addrs : mem'[x].key \in Keys => mem'[x].val \in Vals
  BY <1>4, DataAssumption DEF StoreInv, EmptyEntry
<1>10. \A u \in Slaves : Pending(u, MyHead(u))'
  BY <1>2 DEF Pending
<1> QED BY <1>8, <1>9, <1>10 DEF StoreInv

LEMMA BeginStores ==
  ASSUME IndInv, StoreInv, Begin
  PROVE  StoreInv'
<1>1. /\ UNCHANGED mem
      /\ \A t \in Slaves : pc'[t] \in {"idle", "init"}
  BY DEF Begin, BeginCreate, BeginOp, AllIdle
<1>2. LiveHeads' = LiveHeads
  BY CreateLive, OpLive DEF Begin, IndInv
<1>3. \A t \in Slaves : Pending(t, MyHead(t))'
  BY <1>1 DEF Pending
<1> QED BY <1>1, <1>2, <1>3 DEF StoreInv

(* A slave begins an operation: MRAM, the allocator and the others stay.    *)
LEMMA CallStores ==
  ASSUME IndInv, StoreInv, NEW t \in Slaves, NEW k \in Keys,
         \/ \E v \in Vals \cup {0} : Call(t, k, v)
         \/ \E a \in Addrs, v \in Vals : CallUpdate(t, a, v)
  PROVE  StoreInv'
<1>0. TypeOK
  BY DEF IndInv
<1>1. /\ UNCHANGED <<index, mem, home, avail>>
      /\ \A u \in Slaves : u # t => SameSlave(u)
  BY <1>0, CallFrame, CallUpdateFrame
<1>2. /\ pc[t] = "idle"
      /\ \/ pc'[t] = "lock" /\ opType' # "update"
         \/ pc'[t] = "peek" /\ val'[t] \in Vals
  BY <1>0, <1>1 DEF Call, CallUpdate, Goto, TypeOK, index
<1>3. LiveHeads' = LiveHeads
  BY <1>1, <1>2 DEF LiveHeads, Fresh, LastOfBlock, SameSlave, index
<1>4. Pending(t, MyHead(t))'
  BY <1>2 DEF Pending
<1>5. ASSUME NEW u \in Slaves, u # t PROVE Pending(u, MyHead(u))'
  <2>1. Pending(u, MyHead(u)) /\ SameSlave(u) /\ UNCHANGED index /\ RoomLeft' = RoomLeft
    BY <1>1, <1>5 DEF StoreInv, RoomLeft
  <2> QED BY <1>1, <2>1, PendingFrame
<1> QED BY <1>1, <1>3, <1>4, <1>5 DEF StoreInv

LEMMA StepStores ==
  ASSUME IndInv, StoreInv, NEW t \in Slaves, Step(t)
  PROVE  StoreInv'
<1>0. TypeOK /\ LaunchInv /\ LockInv /\ ChainShape /\ RegisterInv
  BY DEF IndInv
<1>1. CASE pc[t] \in QuietLabels
  BY <1>0, <1>1, StepQuiet, OwnPending, QuietStores
<1>2. CASE pc[t] \notin QuietLabels
  BY <1>0, <1>2, StepCasesByLabel, InitBucketStores, PutStores, AllocStores, LinkStores,
     NodeStores, HeadStores, UnlinkStores, PatchStores
<1> QED BY <1>1, <1>2

(* StoreInv is inductive together with IndInv. *)
LEMMA StoreInductive == IndInv /\ StoreInv /\ [Next]_vars => StoreInv'
<1> SUFFICES ASSUME IndInv, StoreInv, [Next]_vars PROVE StoreInv'
  OBVIOUS
<1>1. CASE Begin
  BY <1>1, BeginStores
<1>2. ASSUME NEW t \in Slaves, Step(t) PROVE StoreInv'
  BY <1>2, StepStores
<1>3. ASSUME NEW t \in Slaves, NEW k \in Keys, NEW v \in Vals \cup {0}, Call(t, k, v)
      PROVE  StoreInv'
  BY <1>3, CallStores
<1>4. ASSUME NEW t \in Slaves, NEW a \in Addrs, NEW v \in Vals, CallUpdate(t, a, v)
      PROVE  StoreInv'
  <2>1. mem[a].key \in Keys
    BY <1>4 DEF CallUpdate, Held
  <2> QED BY <1>4, <2>1, CallStores
<1>5. CASE UNCHANGED vars
  BY <1>5 DEF vars, index, locals, StoreInv, Pending, RoomLeft, MyHead, LiveHeads, Fresh,
     LastOfBlock
<1> QED BY <1>1, <1>2, <1>3, <1>4, <1>5 DEF Next, Work

(* Entries hold values that were stored, and a bucket nobody has            *)
(* initialised holds none.                                                 *)
THEOREM Stored == Spec => []StoreInv
<1> QED BY StoreInit, StoreInductive, Invariance, PTL DEF Spec

-----------------------------------------------------------------------------
(* The chains of a state.                                                  *)

(* Slave u has linked a node of bucket h and not written it yet. *)
Linking(u, h) == pc[u] = "node" /\ MyHead(u) = h /\ ptr[u] # Null

(* What Behind is, node by node and bucket by bucket. *)
Successors ==
  /\ \A n \in Nodes : Behind(n) = mem[n].next
  /\ \A h \in Heads : /\ Follows(h, Behind(h))
                      /\ (\A u \in Slaves : ~Linking(u, h)) => Behind(h) = mem[h].next
                      /\ \A u \in Slaves : Linking(u, h) => Behind(h) = tail[u]

(* Behind reads the chain from MRAM, or from the locals of the slave that  *)
(* is linking a node.                                                      *)
LEMMA SuccessorsHold == IndInv /\ StoreInv => Successors
<1> SUFFICES ASSUME IndInv, StoreInv PROVE Successors
  OBVIOUS
<1>0. TypeOK /\ LaunchInv /\ LockInv /\ AllocInv /\ ChainShape /\ RegisterInv
  BY DEF IndInv
<1> DEFINE At(u, x) == pc[u] = "node" /\ ptr[u] = x
<1>1. ASSUME NEW u \in Slaves, pc[u] = "node"
      PROVE  /\ MyHead(u) \in Heads /\ ptr[u] = mem[MyHead(u)].next
             /\ Follows(MyHead(u), tail[u])
             /\ ptr[u] # Null => Unwritten(MyHead(u), ptr[u])
  BY <1>0, <1>1, MyHeadType DEF RegisterInv, Registers, InsertRegisters, LaunchInv, Launched, Critical
<1>2. ASSUME NEW u \in Slaves, pc[u] = "node", ptr[u] # Null, NEW h, Follows(h, ptr[u])
      PROVE  FALSE
  BY <1>1, <1>2, DataAssumption DEF Follows, Hosts, Unwritten, Junk
<1>3. ASSUME NEW a, \A u \in Slaves : ~(At(u, mem[a].next) /\ mem[a].next # Null)
      PROVE  Behind(a) = mem[a].next
  BY <1>3 DEF Behind
<1>4. ASSUME NEW a, NEW u \in Slaves, At(u, mem[a].next), mem[a].next # Null,
             \A w \in Slaves : At(w, mem[a].next) => w = u
      PROVE  Behind(a) = tail[u]
  <2> PICK c : c = CHOOSE w \in Slaves : At(w, mem[a].next)
    OBVIOUS
  <2>1. c \in Slaves /\ At(c, mem[a].next)
    BY <1>4
  <2>2. c = u
    BY <1>4, <2>1
  <2>3. Behind(a) = tail[c]
    BY <1>4 DEF Behind
  <2> QED BY <2>2, <2>3
<1>5. ASSUME NEW u \in Slaves, NEW w \in Slaves, pc[u] = "node", pc[w] = "node",
             ptr[u] = ptr[w], ptr[u] # Null
      PROVE  u = w
  <2>1. MyHead(u) = MyHead(w)
    BY <1>1, <1>5 DEF Unwritten
  <2> QED BY <1>0, <1>5, <2>1, LockExcludes DEF LaunchInv, Launched, Critical
<1>6. ASSUME NEW n \in Nodes PROVE Behind(n) = mem[n].next
  <2>1. n \in Int /\ avail \in Int
    BY <1>0, Layout DEF Nodes, TypeOK
  <2>2. CASE mem[n] = Junk
    BY <1>3, <2>2 DEF Junk
  <2>3. CASE mem[n] # Junk
    <3>1. Follows(home[n], mem[n].next)
      BY <1>0, <2>3 DEF AllocInv, ChainShape, NodeShape
    <3> QED BY <1>2, <1>3, <3>1
  <2> QED BY <2>2, <2>3
<1>7. ASSUME NEW h \in Heads, NEW u \in Slaves, Linking(u, h) PROVE Behind(h) = tail[u]
  <2>1. At(u, mem[h].next) /\ mem[h].next # Null
    BY <1>1, <1>7 DEF Linking
  <2> QED BY <1>4, <1>5, <2>1
<1>8. ASSUME NEW h \in Heads, \A u \in Slaves : ~Linking(u, h)
      PROVE  Behind(h) = mem[h].next /\ Follows(h, mem[h].next)
  <2>1. CASE h \in LiveHeads
    <3>1. HeadShape(h)
      BY <1>0, <2>1 DEF ChainShape
    <3>2. \A n \in Nodes : n # Null
      BY Layout DEF Nodes, Null
    <3>3. Follows(h, mem[h].next)
      BY <1>8, <3>1, <3>2 DEF HeadShape, Linking, Unwritten
    <3>4. \A u \in Slaves : ~(At(u, mem[h].next) /\ mem[h].next # Null)
      BY <1>2, <3>3
    <3> QED BY <1>3, <3>3, <3>4
  <2>2. CASE h \notin LiveHeads
    <3>1. mem[h].next = Null
      BY <2>2 DEF StoreInv
    <3> QED BY <1>3, <3>1 DEF Follows
  <2> QED BY <2>1, <2>2
<1>9. ASSUME NEW h \in Heads PROVE Follows(h, Behind(h))
  <2>1. CASE \A u \in Slaves : ~Linking(u, h)
    BY <1>8, <2>1
  <2>2. ASSUME NEW u \in Slaves, Linking(u, h) PROVE Follows(h, Behind(h))
    BY <1>1, <1>7, <2>2 DEF Linking
  <2> QED BY <2>1, <2>2
<1> HIDE DEF At
<1> QED BY <1>6, <1>7, <1>8, <1>9 DEF Successors

(* Chain(h) is the chain from h, and only h's own entries are in it. *)
Chained ==
  \A h \in Heads :
    /\ IsChain(Nexts, h, Chain(h)) /\ Falls(Nexts, h, Chain(h))
    /\ \A a \in Chain(h) : Belongs(h, a)
    /\ h \in Chain(h) /\ Chain(h) \subseteq Addrs
    /\ \A a \in Chain(h) : a # h => a \in Nodes /\ mem[a].key \in Keys
    /\ \A a \in Chain(h) : Behind(a) # Null => Behind(a) \in Chain(h)

(* The recursion of Chain reaches every entry of a bucket, and no other. *)
LEMMA ChainsHold == IndInv /\ StoreInv => Successors /\ Chained
<1> SUFFICES ASSUME IndInv, StoreInv PROVE Successors /\ Chained
  OBVIOUS
<1>0. Successors /\ TypeOK /\ ChainShape
  BY SuccessorsHold DEF IndInv
<1> SUFFICES ASSUME NEW h \in Heads
             PROVE  /\ IsChain(Nexts, h, Chain(h)) /\ Falls(Nexts, h, Chain(h))
                    /\ \A a \in Chain(h) : Belongs(h, a)
                    /\ h \in Chain(h) /\ Chain(h) \subseteq Addrs
                    /\ \A a \in Chain(h) : a # h => a \in Nodes /\ mem[a].key \in Keys
                    /\ \A a \in Chain(h) : Behind(a) # Null => Behind(a) \in Chain(h)
  BY <1>0 DEF Chained
<1> DEFINE P == {n \in Nodes : Follows(h, n)}
<1>1. \A n \in Nodes : n # Null /\ n \in Addrs /\ n \notin Heads
  BY Layout DEF Nodes, Addrs, Heads, Null
<1>2. ASSUME NEW n \in P
      PROVE  Follows(h, Behind(n)) /\ Behind(n) < n
  BY <1>0, <1>1, OwnNode DEF Successors
<1>3. Follows(h, Behind(h))
  BY <1>0 DEF Successors
<1>4. \A a \in P \cup {h} : Behind(a) # Null => Behind(a) \in P
  BY <1>2, <1>3 DEF Follows
<1>5. IsChain(Nexts, h, Chain(h)) /\ Chain(h) \subseteq P \cup {h}
  <2> HIDE DEF P
  <2>1. P \in SUBSET Nodes
    BY DEF P
  <2> QED BY <1>2, <1>4, <2>1, ChainReached
<1>6. h \in Chain(h) /\ Chain(h) \subseteq Addrs /\ \A a \in Chain(h) : Nexts[a] = Behind(a)
  BY <1>5 DEF IsChain, Nexts
<1>7. \A a \in Chain(h) : Belongs(h, a)
  BY <1>1, <1>5 DEF Belongs
<1>8. Falls(Nexts, h, Chain(h))
  <2>1. \A a \in Chain(h) : Nexts[a] \in Nodes \cup {Null}
    BY <1>4, <1>5, <1>6
  <2>2. \A a \in Chain(h) : a # h => a \in Nodes /\ Nexts[a] < a
    BY <1>2, <1>5, <1>6
  <2> QED BY <2>1, <2>2 DEF Falls
<1>9. \A a \in Chain(h) : a # h => a \in Nodes /\ mem[a].key \in Keys
  BY <1>1, <1>5 DEF Follows, Hosts
<1>10. \A a \in Chain(h) : Behind(a) # Null => Behind(a) \in Chain(h)
  BY <1>5, <1>6 DEF IsChain
<1> QED BY <1>5, <1>6, <1>7, <1>8, <1>9, <1>10

(* The same of the next state. *)
LEMMA ChainsNext == (IndInv /\ StoreInv)' => Successors' /\ Chained'
BY ChainsHold, PTL

(* The chains of two buckets have nothing in common. *)
LEMMA ChainsApart ==
  ASSUME Chained, NEW g \in Heads, NEW h \in Heads, NEW a \in Chain(g), a \in Chain(h)
  PROVE  g = h
<1>1. Belongs(g, a) /\ Belongs(h, a)
  BY DEF Chained
<1>2. \A n \in Nodes : n \notin Heads
  BY Layout DEF Nodes, Heads
<1> QED BY <1>1, <1>2 DEF Belongs, Follows

-----------------------------------------------------------------------------
(* How a step changes the chains.                                          *)

LEMMA ChainStays ==
  ASSUME Chained, Chained', NEW h \in Heads, \A a \in Chain(h) : Behind(a)' = Behind(a)
  PROVE  Chain(h)' = Chain(h)
<1> PICK N, M, C, D : N = Nexts /\ M = Nexts' /\ C = Chain(h) /\ D = Chain(h)'
  OBVIOUS
<1>1. IsChain(N, h, C) /\ IsChain(M, h, D) /\ C \subseteq Addrs
  BY DEF Chained
<1>2. \A a \in C : M[a] = N[a]
  BY <1>1 DEF Nexts
<1> QED BY <1>1, <1>2, ChainSame, ChainUnique

(* The successor of an address stays when its entry keeps it and the slave  *)
(* at work is not about to write a node linked there.                      *)
LEMMA BehindStays ==
  ASSUME Successors, Successors', NEW a \in Addrs, mem'[a].next = mem[a].next,
         \A u \in Slaves : Linking(u, a)' <=> Linking(u, a),
         \A u \in Slaves : Linking(u, a) => tail'[u] = tail[u]
  PROVE  Behind(a)' = Behind(a)
<1>1. a \in Nodes \/ a \in Heads
  BY Layout DEF Addrs, Nodes, Heads
<1>2. CASE a \in Nodes
  BY <1>2 DEF Successors
<1>3. CASE a \in Heads /\ \A u \in Slaves : ~Linking(u, a)
  <2>1. Behind(a) = mem[a].next
    BY <1>3 DEF Successors
  <2>2. Behind(a)' = mem'[a].next
    BY <1>3 DEF Successors
  <2> QED BY <2>1, <2>2
<1>4. ASSUME NEW u \in Slaves, Linking(u, a), a \in Heads PROVE Behind(a)' = Behind(a)
  <2>1. Behind(a) = tail[u]
    BY <1>4 DEF Successors
  <2>2. Behind(a)' = tail'[u]
    BY <1>4 DEF Successors
  <2> QED BY <1>4, <2>1, <2>2
<1> QED BY <1>1, <1>2, <1>3, <1>4

LEMMA LinkingStays ==
  ASSUME NEW u \in Slaves, SameSlave(u), UNCHANGED index, NEW a
  PROVE  (Linking(u, a)' <=> Linking(u, a)) /\ tail'[u] = tail[u]
BY DEF Linking, SameSlave, MyHead, index

(* No other slave is about to write in the bucket t works on. *)
LEMMA LinkingOwn ==
  ASSUME TypeOK, LaunchInv, LockInv, NEW t \in Slaves, pc[t] \in Critical,
         NEW u \in Slaves, Linking(u, MyHead(t))
  PROVE  u = t
<1>1. pc[u] \in Critical /\ pid # NoSlot /\ key[t] \in Keys /\ key[u] \in Keys
  BY DEF Linking, LaunchInv, Launched, Critical
<1> QED BY <1>1, LockExcludes DEF Linking

(* No slave takes or writes a successor: all chains stay. *)
LEMMA LinksStay ==
  ASSUME Successors, Successors', Chained, Chained', NEW t \in Slaves, UNCHANGED index,
         \A u \in Slaves : u # t => SameSlave(u), pc[t] # "node", pc'[t] # "node",
         \A a \in Addrs : mem'[a].next = mem[a].next
  PROVE  \A h \in Heads : Chain(h)' = Chain(h)
<1>1. \A a : ~Linking(t, a) /\ ~Linking(t, a)'
  BY DEF Linking
<1>2. ASSUME NEW a \in Addrs PROVE Behind(a)' = Behind(a)
  <2>1. ASSUME NEW u \in Slaves
        PROVE  (Linking(u, a)' <=> Linking(u, a)) /\ (Linking(u, a) => tail'[u] = tail[u])
    <3>1. CASE u = t
      BY <1>1, <3>1
    <3>2. CASE u # t
      BY <3>2, LinkingStays
    <3> QED BY <3>1, <3>2
  <2> QED BY <2>1, BehindStays
<1>3. \A h \in Heads : Chain(h) \subseteq Addrs
  BY DEF Chained
<1> QED BY <1>2, <1>3, ChainStays

(* A slave that writes in its bucket leaves the other chains alone. *)
LEMMA ChainElsewhere ==
  ASSUME TypeOK, LaunchInv, Successors, Successors', Chained, Chained',
         NEW t \in Slaves, Writes(t), key'[t] = key[t], NEW g \in Heads, g # MyHead(t)
  PROVE  Chain(g)' = Chain(g) /\ \A a \in Chain(g) : mem'[a] = mem[a]
<1>1. MyHead(t)' = MyHead(t) /\ UNCHANGED index /\ \A u \in Slaves : u # t => SameSlave(u)
  BY DEF Writes, MyHead, index
<1>2. \A a \in Chain(g) : a \in Addrs /\ mem'[a] = mem[a] /\ (a = g \/ a \notin Heads)
  <2>1. \A n \in Nodes : n \notin Heads
    BY Layout DEF Nodes, Heads
  <2>2. \A a \in Chain(g) : a \in Addrs /\ Belongs(g, a)
    BY DEF Chained
  <2>3. \A a : Belongs(g, a) => mem'[a] = mem[a]
    BY WriterElsewhere
  <2> QED BY <2>1, <2>2, <2>3 DEF Belongs, Follows
<1>3. MyHead(t) \in Heads
  BY MyHeadType DEF Writes, LaunchInv, Launched
<1>4. ASSUME NEW a \in Chain(g) PROVE Behind(a)' = Behind(a)
  <2>1. a # MyHead(t) /\ a \in Addrs /\ mem'[a].next = mem[a].next
    BY <1>2, <1>3
  <2>2. ASSUME NEW u \in Slaves
        PROVE  (Linking(u, a)' <=> Linking(u, a)) /\ (Linking(u, a) => tail'[u] = tail[u])
    <3>1. CASE u = t
      BY <1>1, <2>1, <3>1 DEF Linking
    <3>2. CASE u # t
      BY <1>1, <3>2, LinkingStays
    <3> QED BY <3>1, <3>2
  <2> QED BY <2>1, <2>2, BehindStays
<1> QED BY <1>2, <1>4, ChainStays

(* Behind in the bucket of a slave that writes. *)
LEMMA OwnBehind ==
  ASSUME TypeOK, LaunchInv, LockInv, Successors, Successors', NEW t \in Slaves, Writes(t),
         key'[t] = key[t], NEW h \in Heads, h = MyHead(t)
  PROVE  /\ pc[t] # "node" \/ ptr[t] = Null => Behind(h) = mem[h].next
         /\ pc'[t] # "node" \/ ptr'[t] = Null => Behind(h)' = mem'[h].next
         /\ pc[t] = "node" /\ ptr[t] # Null => Behind(h) = tail[t]
         /\ pc'[t] = "node" /\ ptr'[t] # Null => Behind(h)' = tail'[t]
         /\ \A n \in Nodes : Behind(n) = mem[n].next /\ Behind(n)' = mem'[n].next
<1>1. MyHead(t)' = h /\ UNCHANGED index /\ pc[t] \in Critical
  BY DEF Writes, MyHead, index
<1>2. \A u \in Slaves : u # t => SameSlave(u)
  BY DEF Writes
<1>3. \A u \in Slaves : Linking(u, h) => u = t
  BY <1>1, LinkingOwn
<1>4. ASSUME NEW u \in Slaves, Linking(u, h)' PROVE u = t
  BY <1>1, <1>2, <1>3, <1>4, LinkingStays
<1>5. pc[t] # "node" \/ ptr[t] = Null => \A u \in Slaves : ~Linking(u, h)
  BY <1>3 DEF Linking
<1>6. pc'[t] # "node" \/ ptr'[t] = Null => \A u \in Slaves : ~Linking(u, h)'
  BY <1>4 DEF Linking
<1>7. pc[t] = "node" /\ ptr[t] # Null => Linking(t, h)
  BY DEF Linking
<1>8. pc'[t] = "node" /\ ptr'[t] # Null => Linking(t, h)'
  BY <1>1 DEF Linking
<1>9. \A n \in Nodes : Behind(n) = mem[n].next /\ Behind(n)' = mem'[n].next
  BY DEF Successors
<1>10. /\ (\A u \in Slaves : ~Linking(u, h)) => Behind(h) = mem[h].next
       /\ \A u \in Slaves : Linking(u, h) => Behind(h) = tail[u]
  BY DEF Successors
<1>11. /\ (\A u \in Slaves : ~Linking(u, h)') => Behind(h)' = mem'[h].next
       /\ \A u \in Slaves : Linking(u, h)' => Behind(h)' = tail'[u]
  BY DEF Successors
<1> QED BY <1>5, <1>6, <1>7, <1>8, <1>9, <1>10, <1>11

(* InsertPut changes no chain. *)
LEMMA PutChain ==
  ASSUME IndInv, StoreInv, Successors, Successors', Chained, Chained',
         NEW t \in Slaves, InsertPut(t), NEW h, h = MyHead(t)
  PROVE  Chain(h)' = Chain(h)
<1>0. TypeOK /\ LaunchInv /\ LockInv
  BY DEF IndInv
<1>1. /\ pc[t] = "put" /\ pc'[t] = "load" /\ Writes(t) /\ h \in Heads /\ key'[t] = key[t]
      /\ mem[h].next = Null /\ mem'[h] = [key |-> key[t], val |-> val[t], next |-> Null]
      /\ \A a \in Addrs : a # h => mem'[a] = mem[a]
  BY PutEffect
<1>2. Behind(h)' = Behind(h) /\ \A n \in Nodes : Behind(n) = mem[n].next /\ Behind(n)' = mem'[n].next
  BY <1>0, <1>1, OwnBehind
<1>3. \A a \in Chain(h) : a = h \/ (a \in Nodes /\ a \in Addrs)
  BY <1>1 DEF Chained
<1> QED BY <1>1, <1>2, <1>3, ChainStays

(* InsertLink changes no chain: Behind sees past the unwritten node.       *)
(* Without a node it cuts the chain behind the head.                       *)
LEMMA LinkChain ==
  ASSUME IndInv, StoreInv, Successors, Successors', Chained, Chained',
         NEW t \in Slaves, InsertLink(t), NEW h, h = MyHead(t)
  PROVE  Chain(h)' = IF buf[t].next = Null THEN {h} ELSE Chain(h)
<1>0. TypeOK /\ LaunchInv /\ LockInv
  BY DEF IndInv
<1>1. /\ pc[t] = "link" /\ pc'[t] = "node" /\ Writes(t) /\ h \in Heads /\ key'[t] = key[t]
      /\ ptr'[t] = buf[t].next /\ tail'[t] = tail[t] /\ tail[t] = mem[h].next
      /\ mem[h] \in Entry
      /\ mem'[h] = [mem[h] EXCEPT !.next = buf[t].next]
      /\ \A a \in Addrs : a # h => mem'[a] = mem[a]
  BY LinkEffect
<1>2. mem'[h].next = buf[t].next
  BY <1>1 DEF Entry
<1>3. /\ Behind(h) = mem[h].next
      /\ Behind(h)' = IF buf[t].next = Null THEN Null ELSE mem[h].next
      /\ \A n \in Nodes : Behind(n) = mem[n].next /\ Behind(n)' = mem'[n].next
  <2>1. /\ pc[t] # "node" \/ ptr[t] = Null => Behind(h) = mem[h].next
        /\ pc'[t] # "node" \/ ptr'[t] = Null => Behind(h)' = mem'[h].next
        /\ pc'[t] = "node" /\ ptr'[t] # Null => Behind(h)' = tail'[t]
        /\ \A n \in Nodes : Behind(n) = mem[n].next /\ Behind(n)' = mem'[n].next
    BY <1>0, <1>1, OwnBehind
  <2> QED BY <1>1, <1>2, <2>1
<1>4. \A a \in Chain(h) : a = h \/ (a \in Nodes /\ a \in Addrs)
  BY <1>1 DEF Chained
<1>5. CASE buf[t].next # Null
  BY <1>1, <1>3, <1>4, <1>5, ChainStays
<1>6. CASE buf[t].next = Null
  <2> PICK M, D : M = Nexts' /\ D = Chain(h)'
    OBVIOUS
  <2>1. IsChain(M, h, D) /\ h \in Addrs
    BY <1>1, Layout DEF Chained, Heads, Addrs
  <2>2. M[h] = Null
    BY <1>3, <1>6, <2>1 DEF Nexts
  <2> QED BY <1>6, <2>1, <2>2, ChainOfOne, ChainUnique
<1> QED BY <1>5, <1>6

(* InsertNode adds its node to the chain. *)
LEMMA NodeChain ==
  ASSUME IndInv, StoreInv, Successors, Successors', Chained, Chained',
         NEW t \in Slaves, InsertNode(t), NEW h, h = MyHead(t)
  PROVE  /\ Chain(h)' = IF ptr[t] = Null THEN Chain(h) ELSE Chain(h) \cup {ptr[t]}
         /\ ptr[t] \notin Chain(h)
<1>0. TypeOK /\ LaunchInv /\ LockInv
  BY DEF IndInv
<1> PICK p : p = ptr[t]
  OBVIOUS
<1>1. /\ pc[t] = "node" /\ pc'[t] = "load" /\ Writes(t) /\ h \in Heads /\ key'[t] = key[t]
      /\ p = mem[h].next
      /\ p = Null => mem' = mem
      /\ p # Null => Unwritten(h, p) /\ mem'[p] = NewNode(t)
      /\ \A a \in Addrs : a # p => mem'[a] = mem[a]
  BY NodeEffect
<1>2. /\ p = Null => Behind(h) = mem[h].next
      /\ p # Null => Behind(h) = tail[t]
      /\ Behind(h)' = mem'[h].next
      /\ \A n \in Nodes : Behind(n) = mem[n].next /\ Behind(n)' = mem'[n].next
  BY <1>0, <1>1, OwnBehind
<1>3. \A a \in Chain(h) : a \in Addrs /\ a # Null /\ (a = h \/ (a \in Nodes /\ mem[a].key \in Keys))
  BY <1>1 DEF Chained, Addrs, Null
<1>4. CASE p = Null
  <2>1. \A a \in Chain(h) : Behind(a)' = Behind(a)
    BY <1>1, <1>2, <1>3, <1>4, ZenonT(30)
  <2> QED BY <1>1, <1>3, <1>4, <2>1, ChainStays
<1>5. CASE p # Null
  <2>1. p \in Nodes /\ mem[p] = Junk /\ mem'[p].next = tail[t] /\ p \in Addrs
    BY <1>1, <1>5, Layout DEF Unwritten, NewNode, Nodes, Addrs
  <2>2. p # h
    BY <1>1, <2>1, Layout DEF Nodes, Heads
  <2>3. p \notin Chain(h)
    BY <1>3, <2>1, <2>2, DataAssumption DEF Junk
  <2> PICK N, M, C, D : N = Nexts /\ M = Nexts' /\ C = Chain(h) /\ D = Chain(h)'
    OBVIOUS
  <2>4. IsChain(N, h, C) /\ IsChain(M, h, D) /\ h \in Addrs
    BY <1>1, Layout DEF Chained, Heads, Addrs
  <2>5. mem'[h] = mem[h]
    BY <1>1, <2>2, <2>4
  <2>6. M[h] = p /\ N[h] = tail[t] /\ M[p] = tail[t]
    BY <1>1, <1>2, <1>5, <2>1, <2>4, <2>5 DEF Nexts
  <2>7. \A a \in C : a # h => M[a] = N[a]
    BY <1>1, <1>2, <1>3, <2>3 DEF Nexts
  <2>8. IsChain(M, h, C \cup {p})
    BY <1>5, <2>1, <2>3, <2>4, <2>6, <2>7, ChainInsert
  <2> QED BY <1>5, <2>3, <2>4, <2>8, ChainUnique
<1> QED BY <1>4, <1>5

(* DeleteHead takes the successor of the head out of the chain. *)
LEMMA HeadChain ==
  ASSUME IndInv, StoreInv, Successors, Successors', Chained, Chained',
         NEW t \in Slaves, DeleteHead(t), NEW h, h = MyHead(t), NEW x, x = mem[h].next
  PROVE  /\ Chain(h)' = Chain(h) \ {x} /\ x # h
         /\ x # Null => x \in Chain(h)
<1>0. TypeOK /\ LaunchInv /\ LockInv
  BY DEF IndInv
<1>1. /\ pc[t] = "head" /\ pc'[t] = "load" /\ Writes(t) /\ h \in Heads /\ key'[t] = key[t]
      /\ mem[h] \in Entry
      /\ mem'[h] = IF x = Null THEN [mem[h] EXCEPT !.key = NoKey] ELSE mem[x]
      /\ \A a \in Addrs : a # h => mem'[a] = mem[a]
  BY HeadEffect
<1>2. /\ Behind(h) = x /\ Behind(h)' = mem'[h].next
      /\ \A n \in Nodes : Behind(n) = mem[n].next /\ Behind(n)' = mem'[n].next
  BY <1>0, <1>1, OwnBehind
<1>3. \A a \in Chain(h) : a \in Addrs /\ a # Null /\ (a = h \/ a \in Nodes)
  BY <1>1 DEF Chained, Addrs, Null
<1>4. CASE x = Null
  <2>1. mem'[h].next = x /\ h # x /\ x \notin Chain(h)
    <3>1. h \in Chain(h)
      BY <1>1 DEF Chained
    <3> QED BY <1>1, <1>3, <1>4, <3>1 DEF Entry
  <2>2. \A a \in Chain(h) : Behind(a)' = Behind(a)
    BY <1>1, <1>2, <1>3, <1>4, <2>1
  <2> QED BY <1>1, <1>4, <2>1, <2>2, ChainStays
<1>5. CASE x # Null
  <2> PICK N, M, C, D : N = Nexts /\ M = Nexts' /\ C = Chain(h) /\ D = Chain(h)'
    OBVIOUS
  <2>1. IsChain(N, h, C) /\ IsChain(M, h, D) /\ h \in C /\ Falls(N, h, C)
    BY <1>1 DEF Chained
  <2>2. \A a \in C : N[a] = Behind(a) /\ M[a] = Behind(a)'
    BY <1>3 DEF Nexts
  <2>3. N[h] = x /\ x \in C
    BY <1>2, <1>5, <2>1, <2>2 DEF IsChain
  <2>4. x \in Nodes /\ x # h
    BY <1>1, <1>5, <2>1, <2>3, Layout DEF Falls, Nodes, Heads
  <2>5. N[x] # x
    BY <2>1, <2>3, <2>4 DEF Falls, Nodes
  <2>6. \A a \in C : a # h => N[a] # x
    BY <1>1, <1>5, <2>1, <2>3, ChainPredecessor
  <2>7. M[h] = N[x]
    BY <1>1, <1>2, <1>5, <2>1, <2>2, <2>3, <2>4
  <2>8. \A a \in C : a # h /\ a # x => M[a] = N[a]
    BY <1>1, <1>2, <1>3, <2>2
  <2>9. IsChain(M, h, C \ {x})
    BY <1>5, <2>1, <2>3, <2>4, <2>5, <2>6, <2>7, <2>8, ChainUnlink
  <2> QED BY <1>5, <2>1, <2>3, <2>4, <2>9, ChainUnique
<1> QED BY <1>4, <1>5

(* DeleteUnlink takes one entry out of the chain. *)
LEMMA UnlinkChain ==
  ASSUME IndInv, StoreInv, Successors, Successors', Chained, Chained',
         NEW t \in Slaves, DeleteUnlink(t), NEW h, h = MyHead(t),
         NEW q, q = ptr[t], NEW x, x = mem[q].next, q \in Chain(h)
  PROVE  /\ Chain(h)' = Chain(h) \ {x} /\ x # h /\ x # q /\ x \in Chain(h)
<1>0. TypeOK /\ LaunchInv /\ LockInv
  BY DEF IndInv
<1>1. /\ pc[t] = "unlink" /\ pc'[t] = "load" /\ Writes(t) /\ h \in Heads /\ key'[t] = key[t]
      /\ q \in Addrs /\ mem[q] \in Entry /\ x # Null
      /\ mem'[q] = [mem[q] EXCEPT !.next = mem[x].next]
      /\ \A a \in Addrs : a # q => mem'[a] = mem[a]
  BY UnlinkEffect
<1>2. /\ Behind(h) = mem[h].next /\ Behind(h)' = mem'[h].next
      /\ \A n \in Nodes : Behind(n) = mem[n].next /\ Behind(n)' = mem'[n].next
  BY <1>0, <1>1, OwnBehind
<1>3. \A a \in Chain(h) : a \in Addrs /\ (a = h \/ a \in Nodes)
  BY <1>1 DEF Chained
<1> PICK N, M, C, D : N = Nexts /\ M = Nexts' /\ C = Chain(h) /\ D = Chain(h)'
  OBVIOUS
<1>4. IsChain(N, h, C) /\ IsChain(M, h, D) /\ h \in C /\ Falls(N, h, C)
  BY <1>1 DEF Chained
<1>5. \A a \in C : N[a] = mem[a].next /\ M[a] = mem'[a].next
  BY <1>2, <1>3 DEF Nexts
<1>6. N[q] = x /\ x \in C
  BY <1>1, <1>4, <1>5 DEF IsChain
<1>7. x \in Nodes /\ x # h /\ x # q
  <2>1. x \in Nodes /\ (q # h => x < q)
    BY <1>1, <1>4, <1>6 DEF Falls
  <2> QED BY <1>1, <2>1, Layout DEF Nodes, Heads
<1>8. N[x] # x
  BY <1>4, <1>6, <1>7 DEF Falls, Nodes
<1>9. \A a \in C : a # q => N[a] # x
  BY <1>1, <1>4, <1>6, ChainPredecessor
<1>10. M[q] = N[x]
  BY <1>1, <1>5, <1>6 DEF Entry
<1>11. \A a \in C : a # q /\ a # x => M[a] = N[a]
  BY <1>1, <1>3, <1>5
<1>12. IsChain(M, h, C \ {x})
  BY <1>1, <1>4, <1>6, <1>7, <1>8, <1>9, <1>10, <1>11, ChainUnlink
<1> QED BY <1>4, <1>6, <1>7, <1>12, ChainUnique

-----------------------------------------------------------------------------
(* Searches.                                                               *)

(* Slave u has found out that its key is absent. *)
Missing(u) ==
  \/ /\ pc[u] \in {"reread", "put", "alloc", "link", "node"}
     /\ opType = "get_or_insert"
  \/ pc[u] \in {"unlock", "fetch"} /\ opType = "lookup" /\ ptr[u] = Null
  \/ /\ pc[u] = "walk" /\ opType = "delete"
     /\ buf[u].key # key[u] /\ buf[u].next = Null

(* Slave u returns to its caller with the address of an entry. *)
Returning(u) == pc[u] = "fetch" /\ ptr[u] # Null /\ (opType = "lookup" \/ RoomLeft)

Searched(u) ==
  /\ Missing(u) => Entries(pid, key[u]) = {}
  /\ Returning(u) => ptr[u] \in Entries(pid, key[u])
  /\ Searching(u, MyHead(u))

(* SearchInv is a statement about each slave. *)
LEMMA SearchedAll == SearchInv <=> \A u \in Slaves : Searched(u)
BY DEF SearchInv, MissMeansAbsent, FoundStaysFound, Searched, Missing, Returning

SearchLabels == {"walk", "unlink", "unlock", "fetch", "reread", "put", "alloc", "link", "node"}

LEMMA SearchedElse ==
  ASSUME NEW u \in Slaves, pc[u] \notin SearchLabels
  PROVE  Searched(u)
BY DEF Searched, Missing, Returning, Searching, SearchLabels

LEMMA SearchedElseNext ==
  ASSUME NEW u \in Slaves, pc'[u] \notin SearchLabels
  PROVE  Searched(u)'
BY DEF Searched, Missing, Returning, Searching, SearchLabels

LEMMA SearchLabelsHead ==
  ASSUME TypeOK, LaunchInv, NEW u \in Slaves, pc[u] \in SearchLabels
  PROVE  MyHead(u) \in Heads /\ key[u] \in Keys
BY MyHeadType DEF LaunchInv, Launched, SearchLabels, Critical

(* The chain slave u works on stays, so does what u knows of it. *)
LEMMA SearchFrame ==
  ASSUME NEW u \in Slaves, SameSlave(u), UNCHANGED index, NEW g, g = MyHead(u),
         Chain(g)' = Chain(g), \A a \in Chain(g) : mem'[a].key = mem[a].key,
         RoomLeft' => RoomLeft, Searched(u)
  PROVE  Searched(u)'
<1>1. MyHead(u)' = g /\ opType' = opType /\ pid' = pid
  BY DEF MyHead, SameSlave, index
<1>2. /\ Entries(pid, key[u]) = {a \in Chain(g) : mem[a].key = key[u]}
      /\ Entries(pid, key[u])' = {a \in Chain(g)' : mem'[a].key = key[u]}
  BY <1>1 DEF Entries, MyHead, SameSlave
<1>3. Entries(pid, key[u])' = Entries(pid, key[u])
  BY <1>2
<1>4. \A p : Rest(g, p)' = Rest(g, p)
  BY DEF Rest
<1>5. Missing(u)' => Missing(u)
  BY <1>1 DEF Missing, SameSlave
<1>6. Returning(u)' => Returning(u)
  BY <1>1 DEF Returning, SameSlave
<1>7. Searching(u, g)'
  BY <1>1, <1>3, <1>4 DEF Searched, Searching, SameSlave
<1> QED BY <1>1, <1>3, <1>5, <1>6, <1>7 DEF Searched, SameSlave

(* A search that is at p and has left no entry with its key behind.        *)
LEMMA SearchOn ==
  ASSUME Successors, Chained, NEW h \in Heads, NEW s, NEW k, h = BucketHead(s, Bucket(k)),
         \A u \in Slaves : ~Linking(u, h),
         NEW p \in Chain(h), Entries(s, k) \subseteq Rest(h, p), mem[p].key # k
  PROVE  /\ mem[p].next = Null => Entries(s, k) = {}
         /\ mem[p].next # Null => /\ mem[p].next \in Chain(h)
                                  /\ Entries(s, k) \subseteq Rest(h, mem[p].next)
<1>1. Behind(p) = mem[p].next
  BY DEF Successors, Chained
<1>2. ASSUME NEW a \in Entries(s, k)
      PROVE  a \in Chain(h) /\ a # h /\ a \in Nodes /\ Place(h, a) < Place(h, p)
  <2>1. a \in Rest(h, p) /\ a # p
    BY <1>2 DEF Entries
  <2>2. a \in Chain(h) /\ a # h /\ a \in Nodes
    BY <2>1 DEF Chained, Rest
  <2>3. a \in Nat /\ a < LastNode + 1
    BY <2>2, Layout DEF Nodes
  <2>4. CASE p = h
    BY <2>2, <2>3, <2>4 DEF Place
  <2>5. CASE p # h
    <3>1. p \in Nodes /\ a <= p
      BY <2>1, <2>5 DEF Chained, Rest
    <3>2. p \in Int
      BY <3>1, Layout DEF Nodes
    <3> QED BY <2>1, <2>2, <2>3, <2>5, <3>1, <3>2 DEF Place
  <2> QED BY <2>2, <2>4, <2>5
<1>3. ASSUME NEW a \in Entries(s, k)
      PROVE  a \in Chain(h) /\ a # h /\ a \in Nodes /\ a <= Place(h, mem[p].next)
  <2>1. a \in Chain(h) /\ a # h /\ a \in Nodes /\ Place(h, a) < Place(h, p)
    BY <1>2
  <2> PICK N, C : N = Nexts /\ C = Chain(h)
    OBVIOUS
  <2>2. IsChain(N, h, C) /\ Falls(N, h, C) /\ C \subseteq Addrs
    BY DEF Chained
  <2>3. Place(h, a) <= Place(h, N[p])
    BY <2>1, <2>2, ChainOrder
  <2>4. N[p] = mem[p].next
    BY <1>1, <2>2 DEF Nexts
  <2> QED BY <2>1, <2>3, <2>4 DEF Place
<1>4. ASSUME mem[p].next = Null PROVE Entries(s, k) = {}
  <2>1. h # Null
    BY DEF Heads, Null
  <2>2. Place(h, Null) = Null
    BY <2>1 DEF Place
  <2>3. \A a \in Nodes : ~(a <= Null)
    BY Layout DEF Nodes, Null
  <2> QED BY <1>3, <1>4, <2>2, <2>3
<1>5. ASSUME mem[p].next # Null
      PROVE  mem[p].next \in Chain(h) /\ Entries(s, k) \subseteq Rest(h, mem[p].next)
  <2>1. mem[p].next \in Chain(h)
    BY <1>1, <1>5 DEF Chained
  <2> QED BY <1>3, <1>5, <2>1 DEF Place, Rest
<1> QED BY <1>4, <1>5

(* The start of a search. *)
LEMMA SearchStart ==
  ASSUME Chained, NEW h \in Heads, NEW k, NEW s, h = BucketHead(s, Bucket(k))
  PROVE  h \in Chain(h) /\ Entries(s, k) \subseteq Rest(h, h)
BY DEF Chained, Entries, Rest

(* What the chain of slave t is after a step that writes no MRAM. *)
LEMMA QuietChains ==
  ASSUME TypeOK, Successors, Successors', Chained, Chained', NEW t \in Slaves, Step(t),
         pc[t] \in QuietLabels \cup {"alloc"}
  PROVE  /\ UNCHANGED <<mem, index>> /\ \A h \in Heads : Chain(h)' = Chain(h)
         /\ \A u \in Slaves : u # t => SameSlave(u)
<1>1. UNCHANGED mem /\ pc'[t] # "node" /\ pc[t] # "node"
  BY StepCases DEF QuietLabels, InitBucket, Lock, Unlock, UsedLoad, UsedStore, InsertRead,
     InsertPut, InsertAlloc, InsertLink, InsertNode, DeleteRead, DeletePull, DeleteHead,
     DeleteWalk, DeleteUnlink, LookupRead, LookupWalk, Missed, LookupFetch, UpdatePeek,
     UpdatePatch, Goto, TypeOK
<1>2. UNCHANGED index /\ \A u \in Slaves : u # t => SameSlave(u)
  BY StepFrame
<1> QED BY <1>1, <1>2, LinksStay

LEMMA QuietSearchedOther ==
  ASSUME TypeOK, LaunchInv, Successors, Successors', Chained, Chained', NEW t \in Slaves, Step(t),
         pc[t] \in QuietLabels \cup {"alloc"}, NEW u \in Slaves, u # t, Searched(u)
  PROVE  Searched(u)'
<1> PICK g : g = MyHead(u)
  OBVIOUS
<1>1. /\ UNCHANGED <<mem, index>> /\ \A h \in Heads : Chain(h)' = Chain(h)
      /\ SameSlave(u) /\ (RoomLeft' => RoomLeft)
  BY QuietChains, RoomShrinks
<1>2. CASE pc[u] \in SearchLabels
  <2>1. g \in Heads
    BY <1>2, SearchLabelsHead
  <2> QED BY <1>1, <2>1, SearchFrame
<1>3. CASE pc[u] \notin SearchLabels
  BY <1>1, <1>3, SearchedElseNext DEF SameSlave
<1> QED BY <1>2, <1>3

(* A slave that writes elsewhere disturbs no search; in the bucket it holds *)
(* others may only have found an entry.                                    *)
LEMMA WriterSearchedOther ==
  ASSUME TypeOK, LaunchInv, LockInv, RegisterInv, Successors, Successors', Chained, Chained',
         NEW t \in Slaves, Step(t), Writes(t), key'[t] = key[t],
         NEW u \in Slaves, u # t, Searched(u), NEW h, h = MyHead(t),
         opType = "get_or_insert" /\ RoomLeft => Chain(h) \subseteq Chain(h)'
  PROVE  Searched(u)'
<1> PICK g : g = MyHead(u)
  OBVIOUS
<1>1. UNCHANGED index /\ SameSlave(u) /\ (RoomLeft' => RoomLeft)
  BY RoomShrinks DEF Writes
<1>2. CASE pc[u] \notin SearchLabels
  BY <1>1, <1>2, SearchedElseNext DEF SameSlave
<1>3. CASE pc[u] \in SearchLabels /\ g # MyHead(t)
  <2>1. g \in Heads
    BY <1>3, SearchLabelsHead
  <2>2. Chain(g)' = Chain(g) /\ \A a \in Chain(g) : mem'[a] = mem[a]
    BY <1>3, <2>1, ChainElsewhere
  <2> QED BY <1>1, <2>2, SearchFrame
<1>4. CASE pc[u] \in SearchLabels /\ g = MyHead(t)
  <2>1. g \in Heads /\ key[u] \in Keys
    BY <1>4, SearchLabelsHead
  <2>2. pc[u] = "fetch"
    <3>1. pc[u] \notin Critical
      BY <1>4, <2>1, LockExcludes DEF Writes, LaunchInv, Launched
    <3> QED BY <1>4, <3>1 DEF SearchLabels, Critical
  <2>3. opType = "get_or_insert"
    BY <2>2 DEF Writes, LaunchInv, Launched, Finding, Adding
  <2>4. ~Missing(u)' /\ pc'[u] = "fetch" /\ ptr'[u] = ptr[u] /\ opType' = opType
        /\ key'[u] = key[u] /\ MyHead(u)' = g
    BY <1>1, <2>2, <2>3 DEF Missing, SameSlave, index, MyHead
  <2>5. ASSUME Returning(u)' PROVE ptr[u] \in Entries(pid, key[u])'
    <3>1. Returning(u) /\ RoomLeft
      BY <1>1, <2>3, <2>4, <2>5 DEF Returning, SameSlave, index
    <3>2. ptr[u] \in Chain(g) /\ mem[ptr[u]].key = key[u] /\ ptr[u] \in Addrs
      BY <2>1, <3>1 DEF Searched, Entries, MyHead, Chained
    <3>3. mem'[ptr[u]].key = key[u] /\ ptr[u] \in Chain(g)'
      <4>1. g = h
        BY <1>4
      <4> QED BY <2>1, <2>3, <3>1, <3>2, <4>1 DEF Writes
    <3>4. g = BucketHead(pid', Bucket(key'[u])) /\ pid' = pid
      BY <1>1, <2>4 DEF MyHead, index
    <3> QED BY <2>4, <3>3, <3>4 DEF Entries
  <2>6. Searching(u, MyHead(u))'
    BY <2>4 DEF Searching
  <2>7. (ptr[u] \in Entries(pid, key[u]))' <=> ptr[u] \in Entries(pid, key[u])'
    BY <2>4
  <2> QED BY <2>4, <2>5, <2>6, <2>7, <1>1 DEF Searched, SameSlave, index
<1> QED BY <1>2, <1>3, <1>4

(* The step of slave t itself. *)
LEMMA QuietSearchedSelf ==
  ASSUME IndInv, StoreInv, Successors, Successors', Chained, Chained', NEW t \in Slaves, Step(t),
         pc[t] \in QuietLabels \cup {"alloc"}, Searched(t)
  PROVE  Searched(t)'
<1> PICK h, k : h = MyHead(t) /\ k = key[t]
  OBVIOUS
<1>0. TypeOK /\ LaunchInv /\ LockInv /\ RegisterInv
  BY DEF IndInv
<1>1. /\ UNCHANGED mem /\ opType' = opType /\ pid' = pid /\ \A g \in Heads : Chain(g)' = Chain(g)
  BY <1>0, QuietChains DEF index
<1>2. CASE pc'[t] \notin SearchLabels
  BY <1>2, SearchedElseNext
<1>3. CASE pc[t] \in {"lock", "fetch", "peek", "load", "pull"}
  <2>1. pc'[t] \notin SearchLabels
    BY <1>0, <1>3, StepCases, SMTT(30) DEF QuietLabels, InitBucket, Lock, Unlock, UsedLoad, UsedStore,
       InsertRead, InsertPut, InsertAlloc, InsertLink, InsertNode, DeleteRead, DeletePull,
       DeleteHead, DeleteWalk, DeleteUnlink, LookupRead, LookupWalk, LookupFetch, UpdatePeek,
       UpdatePatch, Goto, TypeOK, SearchLabels
  <2> QED BY <1>2, <2>1
<1>4. CASE pc[t] \in {"unlock", "store", "read", "walk", "reread", "alloc"}
  <2>0. /\ h \in Heads /\ k \in Keys /\ Launched(t) /\ Registers(t) /\ Chain(h)' = Chain(h)
        /\ pc \in [Slaves -> Labels] /\ buf \in [Slaves -> Entry] /\ ptr \in [Slaves -> 0..LastNode]
    BY <1>0, <1>1, <1>4, MyHeadType DEF LaunchInv, Launched, RegisterInv, TypeOK, Critical
  <2>1. Entries(pid, k)' = Entries(pid, k) /\ \A p : Rest(h, p)' = Rest(h, p)
    <3>1. Entries(pid, k) = {a \in Chain(h) : mem[a].key = k}
      BY DEF Entries, MyHead
    <3>2. Entries(pid, k)' = {a \in Chain(h)' : mem'[a].key = k}
      BY <1>1 DEF Entries, MyHead
    <3> QED BY <1>1, <2>0, <3>1, <3>2 DEF Rest
  <2>2. h \in Chain(h) /\ Entries(pid, k) \subseteq Rest(h, h)
    BY <2>0, SearchStart DEF MyHead
  <2>9. ASSUME pc[t] \in {"read", "walk"}, NEW p \in Chain(h),
               Entries(pid, k) \subseteq Rest(h, p), mem[p].key # k
        PROVE  /\ mem[p].next = Null => Entries(pid, k) = {}
               /\ mem[p].next # Null => /\ mem[p].next \in Chain(h)
                                        /\ Entries(pid, k) \subseteq Rest(h, mem[p].next)
    <3>1. \A u \in Slaves : ~Linking(u, h)
      <4>1. ASSUME NEW u \in Slaves, Linking(u, h) PROVE FALSE
        BY <1>0, <2>9, <4>1, LinkingOwn DEF Critical, Linking
      <4> QED BY <4>1
    <3>2. h = BucketHead(pid, Bucket(k))
      BY DEF MyHead
    <3> QED BY <2>0, <2>9, <3>1, <3>2, SearchOn
  <2>3. ASSUME key'[t] = k,
               Missing(t)' => Entries(pid, k) = {},
               Returning(t)' => ptr'[t] \in Entries(pid, k),
               pc'[t] = "walk" => /\ ptr'[t] \in Chain(h)
                                  /\ Entries(pid, k) \subseteq Rest(h, ptr'[t])
                                  /\ opType = "delete" => buf'[t].key # k,
               pc'[t] = "unlink" => ptr'[t] \in Chain(h),
               pc'[t] = "unlock" /\ opType \in Finding /\ ptr'[t] # Null => ptr'[t] \in Chain(h)
        PROVE  Searched(t)'
    <3>1. MyHead(t)' = h
      BY <1>1, <2>3 DEF MyHead
    <3>2. Searching(t, h)'
      BY <1>1, <2>0, <2>1, <2>3 DEF Searching
    <3> QED BY <1>1, <2>1, <2>3, <3>1, <3>2 DEF Searched
  <2>4. CASE InsertRead(t) \/ InsertAlloc(t)
    <3>1. /\ key'[t] = k /\ pc'[t] \in {"put", "alloc", "link"}
          /\ opType = "get_or_insert" => pc[t] \in {"reread", "alloc"}
      BY <2>0, <2>4 DEF InsertRead, InsertAlloc, Goto
    <3>2. Missing(t)' => Missing(t)
      BY <1>1, <3>1 DEF Missing
    <3> QED BY <2>3, <3>1, <3>2 DEF Searched, Returning
  <2>5. CASE DeleteRead(t) \/ LookupRead(t)
    <3>1. /\ key'[t] = k /\ ptr'[t] = h /\ buf'[t] = mem[h] /\ opType' = opType
          /\ pc'[t] = "walk"
          /\ opType = "delete" => mem[h].key # k
          \/ pc'[t] \in {"head", "pull"}
      BY <1>1, <2>0, <2>5 DEF DeleteRead, LookupRead, Goto, Launched, Finding
    <3>2. CASE pc'[t] = "walk"
      <4>1. Missing(t)' => opType = "delete" /\ mem[h].key # k /\ mem[h].next = Null
        BY <3>1, <3>2 DEF Missing
      <4>2. mem[h].key # k /\ mem[h].next = Null => Entries(pid, k) = {}
        BY <2>2, <2>5, <2>9 DEF DeleteRead, LookupRead
      <4> QED BY <2>2, <2>3, <3>1, <3>2, <4>1, <4>2 DEF Returning
    <3> QED BY <1>2, <3>1, <3>2 DEF SearchLabels
  <2>6. CASE LookupWalk(t) \/ DeleteWalk(t)
    <3> PICK p, x : p = ptr[t] /\ x = mem[p].next
      OBVIOUS
    <3>0. /\ pc[t] = "walk" /\ key'[t] = k /\ buf[t] = mem[p]
          /\ p \in Chain(h) /\ Entries(pid, k) \subseteq Rest(h, p)
      BY <2>0, <2>6 DEF LookupWalk, DeleteWalk, Searched, Searching, Registers, WalkRegisters
    <3>1. /\ pc[t] = "walk" /\ key'[t] = k /\ buf[t] = mem[p] /\ p \in Chain(h)
          /\ mem[p].key # k /\ x = Null => Entries(pid, k) = {}
          /\ mem[p].key # k /\ x # Null => x \in Chain(h) /\ Entries(pid, k) \subseteq Rest(h, x)
      BY <2>9, <3>0
    <3>2. CASE LookupWalk(t) /\ mem[p].key = k
      <4>1. pc'[t] = "unlock" /\ ptr'[t] = p /\ ptr'[t] # Null
        <5>1. p # Null
          BY <2>0, <3>1 DEF Chained, Addrs, Null
        <5> QED BY <2>0, <3>1, <3>2, <5>1 DEF LookupWalk, Goto
      <4> QED BY <1>1, <2>3, <3>1, <4>1 DEF Missing, Returning
    <3>3. CASE LookupWalk(t) /\ mem[p].key # k /\ x = Null
      <4>1. /\ Entries(pid, k) = {} /\ pc'[t] \in {"unlock", "reread"}
            /\ pc'[t] = "unlock" => ptr'[t] = Null
        BY <2>0, <3>1, <3>3 DEF LookupWalk, Missed, Goto
      <4> QED BY <1>1, <2>3, <3>1, <4>1 DEF Returning
    <3>4. CASE LookupWalk(t) /\ mem[p].key # k /\ x # Null
      <4>1. pc'[t] = "walk" /\ ptr'[t] = x /\ opType # "delete"
        BY <2>0, <3>1, <3>4 DEF LookupWalk, Finding
      <4> QED BY <1>1, <2>3, <3>1, <3>4, <4>1 DEF Missing, Returning
    <3>5. CASE DeleteWalk(t) /\ x = Null
      <4>1. pc'[t] = "unlock" /\ opType = "delete"
        BY <2>0, <3>1, <3>5 DEF DeleteWalk, Goto
      <4> QED BY <1>1, <2>3, <3>1, <4>1 DEF Missing, Returning, Finding
    <3>6. CASE DeleteWalk(t) /\ x # Null
      <4>0. mem[p].key # k /\ opType = "delete"
        BY <3>1, <3>6 DEF Searched, Searching, DeleteWalk
      <4>1. CASE mem[x].key = k
        <5>1. pc'[t] = "unlink" /\ ptr'[t] = p
          BY <2>0, <3>1, <3>6, <4>1 DEF DeleteWalk, Goto
        <5> QED BY <2>3, <3>1, <5>1 DEF Missing, Returning
      <4>2. CASE mem[x].key # k
        <5>1. pc'[t] = "walk" /\ ptr'[t] = x /\ buf'[t] = mem[x]
          BY <2>0, <3>1, <3>6, <4>2 DEF DeleteWalk, Goto
        <5>2. x \in Chain(h) /\ Entries(pid, k) \subseteq Rest(h, x)
          BY <3>1, <3>6, <4>0
        <5>3. mem[x].next = Null => Entries(pid, k) = {}
          BY <2>9, <3>1, <4>2, <5>2
        <5>4. ~Returning(t)' /\ (Missing(t)' => mem[x].next = Null)
          BY <5>1 DEF Missing, Returning
        <5> QED BY <2>3, <3>1, <4>2, <5>1, <5>2, <5>3, <5>4
      <4> QED BY <4>1, <4>2
    <3> QED BY <2>6, <3>2, <3>3, <3>4, <3>5, <3>6
  <2>7. CASE Unlock(t)
    <3>1. CASE pc'[t] = "fetch"
      <4>1. /\ pc[t] = "unlock" /\ key'[t] = k /\ ptr'[t] = ptr[t]
            /\ opType = "lookup" \/ (opType = "get_or_insert" /\ ptr[t] # Null)
        BY <2>0, <2>7, <3>1 DEF Unlock, Returned, Goto, locals
      <4>2. ptr[t] # Null => ptr[t] \in Chain(h) /\ mem[ptr[t]].key = k
        BY <2>0, <4>1 DEF Searched, Searching, Finding, Registers, WalkRegisters
      <4>3. ptr[t] # Null => ptr[t] \in Entries(pid, k)
        BY <4>2 DEF Entries, MyHead
      <4>4. Missing(t)' => Missing(t)
        BY <1>1, <3>1, <4>1 DEF Missing
      <4> QED BY <2>3, <3>1, <4>1, <4>3, <4>4 DEF Searched, Returning
    <3>2. CASE pc'[t] # "fetch"
      <4>1. pc'[t] = "idle"
        BY <2>0, <2>7, <3>2 DEF Unlock, Goto
      <4> QED BY <1>2, <4>1 DEF SearchLabels
    <3> QED BY <3>1, <3>2
  <2>8. CASE UsedStore(t)
    <3>1. /\ key'[t] = k /\ pc'[t] = "unlock" /\ opType \in Adding \cup {"delete"}
          /\ opType = "get_or_insert" => ptr'[t] = Null
      BY <2>0, <2>8 DEF UsedStore, Goto, Launched
    <3> QED BY <1>1, <2>3, <3>1 DEF Missing, Returning, Finding, Adding
  <2> QED
    BY <1>4, <2>4, <2>5, <2>6, <2>7, <2>8, StepCases DEF InitBucket, Lock, UsedLoad, InsertPut,
       InsertLink, InsertNode, DeletePull, DeleteHead, DeleteUnlink, LookupFetch, UpdatePeek,
       UpdatePatch
<1> QED BY <1>3, <1>4 DEF QuietLabels

(* What all slaves found stays right when one of them writes. *)
LEMMA WriterSearched ==
  ASSUME IndInv, StoreInv, Successors, Successors', Chained, Chained', NEW t \in Slaves, Step(t),
         pc[t] \in WriterLabels, \A u \in Slaves : Searched(u)
  PROVE  \A u \in Slaves : Searched(u)'
<1> PICK h : h = MyHead(t)
  OBVIOUS
<1>0. TypeOK /\ LaunchInv /\ LockInv /\ RegisterInv
  BY DEF IndInv
<1>1. ASSUME Writes(t), key'[t] = key[t], Searched(t)',
             opType = "get_or_insert" /\ RoomLeft => Chain(h) \subseteq Chain(h)'
      PROVE  \A u \in Slaves : Searched(u)'
  <2>1. ASSUME NEW u \in Slaves, u # t PROVE Searched(u)'
    BY <1>0, <1>1, <2>1, WriterSearchedOther
  <2> QED BY <1>1, <2>1
<1>2. ASSUME pc'[t] = "load" PROVE Searched(t)'
  BY <1>2, SearchedElseNext DEF SearchLabels
<1>3. CASE InsertPut(t)
  BY <1>1, <1>2, <1>3, PutEffect, PutChain
<1>4. CASE InsertLink(t)
  <2>1. /\ pc[t] = "link" /\ pc'[t] = "node" /\ Writes(t) /\ key'[t] = key[t] /\ h \in Heads
        /\ mem[h] \in Entry /\ mem'[h] = [mem[h] EXCEPT !.next = buf[t].next]
        /\ buf[t].next = Null => ~RoomLeft
        /\ \A a \in Addrs : a # h => mem'[a] = mem[a]
    BY <1>4, LinkEffect
  <2>2. Chain(h)' = IF buf[t].next = Null THEN {h} ELSE Chain(h)
    BY <1>4, LinkChain
  <2>3. Chain(h)' \subseteq Chain(h) /\ Chain(h) \subseteq Addrs
    BY <2>1, <2>2 DEF Chained
  <2>4. \A a \in Addrs : mem'[a].key = mem[a].key
    BY <2>1 DEF Entry
  <2>5. h = BucketHead(pid, Bucket(key[t])) /\ h = BucketHead(pid', Bucket(key'[t]))
    BY <2>1 DEF MyHead, Writes, index
  <2>6. /\ Entries(pid, key[t]) = {a \in Chain(h) : mem[a].key = key[t]}
        /\ Entries(pid, key[t])' = {a \in Chain(h)' : mem'[a].key = key[t]}
    BY <2>1, <2>5 DEF Entries
  <2>7. Entries(pid, key[t])' \subseteq Entries(pid, key[t])
    BY <2>3, <2>4, <2>6
  <2>8. Missing(t)' => Missing(t)
    BY <2>1 DEF Missing, Writes, index
  <2>9. Missing(t)' => Entries(pid, key[t])' = {}
    BY <2>7, <2>8 DEF Searched
  <2>10. Searched(t)'
    BY <2>1, <2>9 DEF Searched, Returning, Searching
  <2> QED BY <1>1, <2>1, <2>2, <2>10
<1>5. CASE InsertNode(t)
  <2>1. Chain(h) \subseteq Chain(h)'
    BY <1>5, NodeChain
  <2> QED BY <1>1, <1>2, <1>5, <2>1, NodeEffect
<1>6. CASE DeleteHead(t)
  BY <1>1, <1>2, <1>6, HeadEffect
<1>7. CASE DeleteUnlink(t)
  BY <1>1, <1>2, <1>7, UnlinkEffect
<1> QED
  BY <1>3, <1>4, <1>5, <1>6, <1>7, <1>0, StepCasesByLabel
     DEF WriterLabels, QuietLabels, InitBucket, InsertAlloc, UpdatePatch

LEMMA StepSearched ==
  ASSUME IndInv, StoreInv, Successors, Successors', Chained, Chained', NEW t \in Slaves, Step(t),
         \A u \in Slaves : Searched(u)
  PROVE  \A u \in Slaves : Searched(u)'
<1>0. TypeOK /\ LaunchInv /\ LockInv /\ RegisterInv
  BY DEF IndInv
<1>1. CASE pc[t] \in WriterLabels
  BY <1>1, WriterSearched
<1>2. CASE pc[t] \in QuietLabels \cup {"alloc"}
  BY <1>0, <1>2, QuietSearchedSelf, QuietSearchedOther
<1>3. CASE pc[t] = "init"
  <2>1. \A u \in Slaves : pc[u] \in {"idle", "init"} /\ pc'[u] \in {"idle", "init"}
    <3>1. pc \in [Slaves -> Labels]
      BY <1>0 DEF TypeOK
    <3>2. opType = "create"
      BY <1>0, <1>3 DEF LaunchInv, Launched
    <3>3. \A u \in Slaves : pc[u] \in {"idle", "init"}
      BY <1>0, <3>1, <3>2 DEF LaunchInv, Launched, Critical, Labels, Operations
    <3>4. InitBucket(t)
      BY <1>0, <1>3, StepCasesByLabel DEF QuietLabels, InsertPut, InsertAlloc, InsertLink,
         InsertNode, DeleteHead, DeleteUnlink, UpdatePatch
    <3> QED BY <1>0, <3>1, <3>3, <3>4, StepFrame DEF InitBucket
  <2> QED BY <2>1, SearchedElseNext DEF SearchLabels
<1>4. CASE pc[t] = "patch"
  <2>1. UpdatePatch(t)
    BY <1>0, <1>4, StepCasesByLabel DEF QuietLabels, InitBucket, InsertPut, InsertAlloc,
       InsertLink, InsertNode, DeleteHead, DeleteUnlink
  <2>2. /\ pc'[t] = "unlock" /\ opType = "update" /\ UNCHANGED index
        /\ \A u \in Slaves : pc[u] \in {"idle", "peek", "lock", "patch", "unlock"}
        /\ \A u \in Slaves : u # t => SameSlave(u)
    BY <2>1, PatchEffect
  <2>3. ASSUME NEW u \in Slaves PROVE Searched(u)'
    <3>1. opType' = "update" /\ pc'[u] \in {"idle", "peek", "lock", "patch", "unlock"}
      BY <2>2 DEF SameSlave, index
    <3> QED BY <3>1 DEF Searched, Missing, Returning, Searching, Finding
  <2> QED BY <2>3
<1> QED
  BY <1>1, <1>2, <1>3, <1>4, StepCases DEF WriterLabels, QuietLabels, InitBucket, Lock,
     Unlock, UsedLoad, UsedStore, InsertRead, InsertPut, InsertAlloc, InsertLink, InsertNode,
     DeleteRead, DeletePull, DeleteHead, DeleteWalk, DeleteUnlink, LookupRead, LookupWalk,
     LookupFetch, UpdatePeek, UpdatePatch

LEMMA CallSearched ==
  ASSUME TypeOK, LaunchInv, Successors, Successors', Chained, Chained', NEW t \in Slaves,
         UNCHANGED <<index, mem, avail>>, \A u \in Slaves : u # t => SameSlave(u),
         pc[t] # "node", pc'[t] \notin SearchLabels,
         \A u \in Slaves : Searched(u)
  PROVE  \A u \in Slaves : Searched(u)'
<1> SUFFICES ASSUME NEW u \in Slaves PROVE Searched(u)'
  OBVIOUS
<1>1. CASE u = t
  BY <1>1, SearchedElseNext
<1>2. CASE u # t /\ pc[u] \notin SearchLabels
  BY <1>2, SearchedElseNext DEF SameSlave
<1>3. CASE u # t /\ pc[u] \in SearchLabels
  <2>1. MyHead(u) \in Heads
    BY <1>3, SearchLabelsHead
  <2>2. \A h \in Heads : Chain(h)' = Chain(h)
    BY LinksStay DEF SearchLabels
  <2> PICK g : g = MyHead(u)
    OBVIOUS
  <2>3. Chain(g)' = Chain(g) /\ (RoomLeft' => RoomLeft)
    BY <2>1, <2>2 DEF RoomLeft
  <2> QED BY <1>3, <2>3, SearchFrame
<1> QED BY <1>1, <1>2, <1>3

(* SearchInv is inductive together with IndInv and StoreInv. *)
LEMMA SearchInductive ==
  IndInv /\ StoreInv /\ (IndInv /\ StoreInv)' /\ SearchInv /\ [Next]_vars => SearchInv'
<1> SUFFICES ASSUME IndInv, StoreInv, (IndInv /\ StoreInv)', SearchInv, [Next]_vars
             PROVE  \A u \in Slaves : Searched(u)'
  <2>1. (\A u \in Slaves : Searched(u))' => SearchInv'
    BY SearchedAll, PTL
  <2> QED BY <2>1
<1>1. Successors /\ Successors' /\ Chained /\ Chained'
  BY ChainsHold, ChainsNext
<1>2. \A u \in Slaves : Searched(u)
  BY SearchedAll
<1>3. TypeOK /\ LaunchInv
  BY DEF IndInv
<1>4. CASE Begin
  <2>1. \A u \in Slaves : pc'[u] \in {"idle", "init"}
    BY <1>4 DEF Begin, BeginCreate, BeginOp, AllIdle
  <2> QED BY <2>1, SearchedElseNext DEF SearchLabels
<1>5. ASSUME NEW t \in Slaves, Step(t) PROVE \A u \in Slaves : Searched(u)'
  BY <1>1, <1>2, <1>5, StepSearched
<1>6. ASSUME NEW t \in Slaves, NEW k \in Keys, NEW v \in Vals \cup {0}, Call(t, k, v)
      PROVE  \A u \in Slaves : Searched(u)'
  <2>1. pc[t] # "node" /\ pc'[t] \notin SearchLabels
    BY <1>3, <1>6 DEF Call, Goto, TypeOK, SearchLabels
  <2>2. UNCHANGED <<index, mem, avail>> /\ \A u \in Slaves : u # t => SameSlave(u)
    BY <1>3, <1>6, CallFrame
  <2> QED BY <1>1, <1>2, <1>3, <2>1, <2>2, CallSearched
<1>7. ASSUME NEW t \in Slaves, NEW a \in Addrs, NEW v \in Vals, CallUpdate(t, a, v)
      PROVE  \A u \in Slaves : Searched(u)'
  <2>1. pc[t] # "node" /\ pc'[t] \notin SearchLabels
    BY <1>3, <1>7 DEF CallUpdate, Goto, TypeOK, SearchLabels
  <2>2. UNCHANGED <<index, mem, avail>> /\ \A u \in Slaves : u # t => SameSlave(u)
    BY <1>3, <1>7, CallUpdateFrame
  <2> QED BY <1>1, <1>2, <1>3, <2>1, <2>2, CallSearched
<1>8. CASE UNCHANGED vars
  <2>1. UNCHANGED <<index, mem, avail>> /\ \A u \in Slaves : SameSlave(u)
    BY <1>8 DEF vars, locals, SameSlave
  <2>2. ASSUME NEW u \in Slaves, pc[u] \notin SearchLabels PROVE Searched(u)'
    BY <2>1, <2>2, SearchedElseNext DEF SameSlave
  <2>3. ASSUME NEW u \in Slaves, pc[u] \in SearchLabels PROVE Searched(u)'
    <3> PICK g : g = MyHead(u)
      OBVIOUS
    <3>1. g \in Heads
      BY <1>3, <2>3, SearchLabelsHead
    <3>2. \A a \in Addrs : Behind(a)' = Behind(a)
      <4>1. ASSUME NEW a \in Addrs, NEW w \in Slaves
            PROVE  (Linking(w, a)' <=> Linking(w, a)) /\ tail'[w] = tail[w]
        BY <2>1, LinkingStays
      <4> QED BY <1>1, <2>1, <4>1, BehindStays
    <3>3. Chain(g)' = Chain(g)
      BY <1>1, <3>1, <3>2, ChainStays DEF Chained
    <3> QED BY <1>2, <2>1, <3>3, SearchFrame DEF RoomLeft
  <2> QED BY <2>2, <2>3
<1> QED BY <1>4, <1>5, <1>6, <1>7, <1>8 DEF Next, Work

LEMMA SearchInit == Init => SearchInv
<1> SUFFICES ASSUME Init, NEW u \in Slaves PROVE Searched(u)
  BY SearchedAll
<1>1. pc[u] \notin SearchLabels
  BY DEF Init, SearchLabels
<1> QED BY <1>1, SearchedElse

(* What a slave knows of the chain it searches stays right at every        *)
(* moment: nothing with its key lies behind it, and it is still inside the *)
(* chain.                                                                  *)
THEOREM SearchesRight == Spec => []SearchInv
<1>1. Init => SearchInv
  BY SearchInit
<1> QED BY <1>1, SearchInductive, Invariance, Stored, PTL DEF Spec

(* Everything proved inductive holds of every execution: launch, locks,     *)
(* allocator, chains, what is stored and what searches know of it.          *)
THEOREM FullInvariance == Spec => []FullInv
<1>1. IndInv /\ StoreInv /\ SearchInv => FullInv
  BY DEF FullInv
<1> QED BY <1>1, Invariance, Stored, SearchesRight, PTL

(* When a slave has found that its key is absent, the index of the current *)
(* operation holds no entry with that key until the slave acts on it.      *)
THEOREM MissesAreRight == Spec => []MissMeansAbsent
<1>1. SearchInv => MissMeansAbsent
  BY DEF SearchInv
<1> QED BY <1>1, SearchesRight, PTL

(* An entry whose address a slave returns is still an entry of its index   *)
(* with the slave's key when the slave returns.                            *)
THEOREM FoundsAreRight == Spec => []FoundStaysFound
<1>1. SearchInv => FoundStaysFound
  BY DEF SearchInv
<1> QED BY <1>1, SearchesRight, PTL

-----------------------------------------------------------------------------
(* Bags.                                                                   *)

Pair == Keys \X Vals
BagType == [1..MaxIndexes -> [Pair -> Int]]
Bag == [i \in 1..MaxIndexes |-> Pairs(i - 1)]

(* The entries of slot s that hold key k and value v. *)
With(s, k, v) == {a \in Entries(s, k) : mem[a].val = v}

Copies(s, k, v) == Cardinality(With(s, k, v))

(* Bags with the same counts are equal. *)
LEMMA BagEqual ==
  ASSUME NEW B \in BagType, NEW C \in BagType,
         \A i \in 1..MaxIndexes, k \in Keys, v \in Vals : B[i][<<k, v>>] = C[i][<<k, v>>]
  PROVE  B = C
<1>1. ASSUME NEW i \in 1..MaxIndexes PROVE B[i] = C[i]
  <2>1. B[i] \in [Pair -> Int] /\ C[i] \in [Pair -> Int]
    BY DEF BagType
  <2>2. ASSUME NEW p \in Pair PROVE B[i][p] = C[i][p]
    <3>1. PICK k \in Keys, v \in Vals : p = <<k, v>>
      BY DEF Pair
    <3> QED BY <3>1
  <2> QED BY <2>1, <2>2
<1>2. B = [i \in 1..MaxIndexes |-> B[i]] /\ C = [i \in 1..MaxIndexes |-> C[i]]
  BY DEF BagType
<1>3. [i \in 1..MaxIndexes |-> B[i]] = [i \in 1..MaxIndexes |-> C[i]]
  BY <1>1
<1> QED BY <1>2, <1>3

(* The bag B with another number of one pair. *)
Recount(B, i, k, v, w) == [B EXCEPT ![i][<<k, v>>] = w]

LEMMA BagAt ==
  ASSUME NEW B \in BagType, NEW C \in BagType, NEW i \in 1..MaxIndexes,
         NEW k \in Keys, NEW v \in Vals, NEW w \in Int, C[i][<<k, v>>] = w,
         \A j \in 1..MaxIndexes, l \in Keys, u \in Vals :
           j # i \/ l # k \/ u # v => C[j][<<l, u>>] = B[j][<<l, u>>]
  PROVE  C = Recount(B, i, k, v, w)
<1> DEFINE q == <<k, v>>
           f == [B[i] EXCEPT ![q] = w]
           D == [B EXCEPT ![i] = f]
<1>1. q \in Pair /\ B[i] \in [Pair -> Int]
  BY DEF Pair, BagType
<1>2. f \in [Pair -> Int] /\ \A p \in Pair : f[p] = IF p = q THEN w ELSE B[i][p]
  BY <1>1
<1>3. \A l \in Keys, u \in Vals : <<l, u>> \in Pair /\ (<<l, u>> = q <=> l = k /\ u = v)
  BY DEF Pair
<1>4. Recount(B, i, k, v, w) = D
  BY DEF Recount
<1> HIDE DEF f, q
<1>5. D \in BagType
  BY <1>2 DEF BagType
<1>6. ASSUME NEW j \in 1..MaxIndexes, NEW l \in Keys, NEW u \in Vals
      PROVE  D[j][<<l, u>>] = C[j][<<l, u>>]
  <2>1. D[j] = IF j = i THEN f ELSE B[j]
    BY DEF BagType
  <2>2. <<l, u>> \in Pair /\ (<<l, u>> = q <=> l = k /\ u = v)
    BY <1>3
  <2>3. CASE j = i /\ l = k /\ u = v
    <3>1. D[j][<<l, u>>] = w
      BY <1>2, <2>1, <2>2, <2>3
    <3> QED BY <2>3, <3>1
  <2>4. CASE j # i
    BY <2>1, <2>4
  <2>5. CASE j = i /\ ~(l = k /\ u = v)
    <3>1. D[j][<<l, u>>] = B[j][<<l, u>>]
      BY <1>2, <2>1, <2>2, <2>5
    <3> QED BY <2>5, <3>1
  <2> QED BY <2>3, <2>4, <2>5
<1> HIDE DEF D
<1>7. C = D
  BY <1>5, <1>6, BagEqual
<1> QED BY <1>4, <1>7

(* The bag B with another set of pairs in one index. *)
Reindex(B, i, f) == [B EXCEPT ![i] = f]

LEMMA Reindexed ==
  ASSUME NEW B \in BagType, NEW i \in 1..MaxIndexes, NEW f \in [Pair -> Int]
  PROVE  /\ Reindex(B, i, f) \in BagType
         /\ \A j \in 1..MaxIndexes : Reindex(B, i, f)[j] = IF j = i THEN f ELSE B[j]
BY DEF Reindex, BagType

LEMMA BagIndex ==
  ASSUME NEW B \in BagType, NEW C \in BagType, NEW i \in 1..MaxIndexes,
         NEW f \in [Pair -> Int],
         \A l \in Keys, u \in Vals : C[i][<<l, u>>] = f[<<l, u>>],
         \A j \in 1..MaxIndexes, l \in Keys, u \in Vals :
           j # i => C[j][<<l, u>>] = B[j][<<l, u>>]
  PROVE  C = Reindex(B, i, f)
<1> DEFINE D == [B EXCEPT ![i] = f]
<1>1. D \in BagType
  BY DEF BagType
<1>2. ASSUME NEW j \in 1..MaxIndexes, NEW l \in Keys, NEW u \in Vals
      PROVE  D[j][<<l, u>>] = C[j][<<l, u>>]
  BY DEF BagType
<1> HIDE DEF D
<1>3. C = D
  BY <1>1, <1>2, BagEqual
<1> QED BY <1>3 DEF D, Reindex

LEMMA WithFinite ==
  ASSUME Chained, NEW s \in Slots, NEW k \in Keys, NEW v
  PROVE  IsFiniteSet(With(s, k, v)) /\ Copies(s, k, v) \in Nat
<1>1. Bucket(k) \in Buckets
  BY BucketType
<1>2. BucketHead(s, Bucket(k)) \in Heads
  BY <1>1, HeadType
<1>3. With(s, k, v) \in SUBSET Addrs
  BY <1>2 DEF With, Entries, Chained
<1>4. IsFiniteSet(Addrs)
  BY Layout, FS_Interval DEF Addrs
<1>5. IsFiniteSet(With(s, k, v))
  BY <1>3, <1>4, FS_Subset
<1> QED BY <1>5, FS_CardinalityType DEF Copies

(* The bag counts entries. *)
Counting ==
  /\ Bag \in BagType
  /\ \A s \in Slots, k \in Keys, v \in Vals :
       s + 1 \in 1..MaxIndexes /\ Bag[s + 1][<<k, v>>] = Copies(s, k, v)
  /\ \A i \in 1..MaxIndexes, k \in Keys, v \in Vals :
       i - 1 \in Slots /\ Bag[i][<<k, v>>] = Copies(i - 1, k, v)

(* Copies(s, k, v) is the count of the pair in the bag of slot s. *)
LEMMA CountingHolds == Chained => Counting
<1> SUFFICES ASSUME Chained PROVE Counting
  OBVIOUS
<1>1. ASSUME NEW i \in 1..MaxIndexes PROVE i - 1 \in Slots
  BY SizeAssumption DEF Slots
<1>2. ASSUME NEW s \in Slots PROVE s + 1 \in 1..MaxIndexes /\ (s + 1) - 1 = s
  BY SizeAssumption DEF Slots
<1>3. ASSUME NEW s \in Slots
      PROVE  /\ Pairs(s) \in [Pair -> Int]
             /\ \A k \in Keys, v \in Vals : Pairs(s)[<<k, v>>] = Copies(s, k, v)
  <2>1. Pairs(s) = [p \in Pair |-> Copies(s, p[1], p[2])]
    BY DEF Pairs, Copies, With, Pair
  <2>2. ASSUME NEW p \in Pair PROVE Copies(s, p[1], p[2]) \in Int
    <3>1. p[1] \in Keys /\ p[2] \in Vals
      BY DEF Pair
    <3> QED BY <3>1, WithFinite
  <2>3. ASSUME NEW k \in Keys, NEW v \in Vals
        PROVE  <<k, v>> \in Pair /\ <<k, v>>[1] = k /\ <<k, v>>[2] = v
    BY DEF Pair
  <2> QED BY <2>1, <2>2, <2>3
<1>4. Bag \in BagType
  BY <1>1, <1>3 DEF Bag, BagType
<1>5. ASSUME NEW s \in Slots PROVE Bag[s + 1] = Pairs(s)
  BY <1>2 DEF Bag
<1>6. ASSUME NEW i \in 1..MaxIndexes PROVE Bag[i] = Pairs(i - 1)
  BY DEF Bag
<1> QED BY <1>1, <1>2, <1>3, <1>4, <1>5, <1>6 DEF Counting

LEMMA CountingNext == Chained' => Counting'
BY CountingHolds, PTL

(* Different buckets of different slots have different heads. *)
LEMMA HeadsDiffer ==
  ASSUME NEW s \in Slots, NEW r \in Slots, NEW b \in Buckets, NEW c \in Buckets,
         BucketHead(s, b) = BucketHead(r, c)
  PROVE  s = r /\ b = c
<1>1. ASSUME NEW i \in Slots, NEW j \in Slots, NEW d \in Buckets, NEW e \in Buckets, i < j
      PROVE  BucketHead(i, d) < BucketHead(j, e)
  <2>1. i \in Nat /\ j \in Nat /\ e \in Nat /\ NrBuckets \in Nat
    BY SizeAssumption DEF Slots, Buckets
  <2>2. BucketHead(i, d) \in Nat /\ BucketHead(i, d) <= j * NrBuckets
    BY <1>1, <2>1, HeadBelow
  <2>3. PICK m \in Nat : m = j * NrBuckets
    BY <2>1
  <2>4. BucketHead(j, e) = m + e + 1
    BY <2>3 DEF BucketHead
  <2> QED BY <2>1, <2>2, <2>3, <2>4
<1>2. s \in Int /\ r \in Int /\ b \in Int /\ c \in Int /\ BucketHead(s, b) \in Int
  BY HeadType, SizeAssumption DEF Slots, Buckets, Heads
<1>3. s = r
  BY <1>1, <1>2
<1>4. PICK m \in Int : m = s * NrBuckets
  BY <1>2, SizeAssumption
<1>5. BucketHead(s, b) = m + b + 1 /\ BucketHead(r, c) = m + c + 1
  BY <1>3, <1>4 DEF BucketHead
<1> QED BY <1>2, <1>3, <1>4, <1>5

-----------------------------------------------------------------------------
(* How a step changes the bags.                                            *)

(* The number of one pair changes by d, every other number stays. *)
Changes(s, k, v, d) ==
  /\ Copies(s, k, v)' = Copies(s, k, v) + d
  /\ \A r \in Slots, l \in Keys, w \in Vals :
       r # s \/ l # k \/ w # v => Copies(r, l, w)' = Copies(r, l, w)

Stays == \A s \in Slots, k \in Keys, v \in Vals : Copies(s, k, v)' = Copies(s, k, v)

(* When an entry joins or leaves, the count of its pair changes by one. *)
LEMMA BagChanges ==
  ASSUME Chained, Chained', NEW s \in Slots, NEW k \in Keys, NEW v \in Vals, NEW d \in Int,
         Changes(s, k, v, d)
  PROVE  Bag' = [Bag EXCEPT ![s + 1][<<k, v>>] = Bag[s + 1][<<k, v>>] + d]
<1>1. Counting /\ Counting'
  BY CountingHolds, CountingNext
<1> PICK B, C, i : B = Bag /\ C = Bag' /\ i = s + 1
  OBVIOUS
<1>2. /\ B \in BagType /\ C \in BagType /\ i \in 1..MaxIndexes
      /\ B[i][<<k, v>>] = Copies(s, k, v) /\ C[i][<<k, v>>] = Copies(s, k, v)'
  BY <1>1 DEF Counting
<1>3. ASSUME NEW j \in 1..MaxIndexes, NEW l \in Keys, NEW w \in Vals,
             j # i \/ l # k \/ w # v
      PROVE  C[j][<<l, w>>] = B[j][<<l, w>>]
  <2> PICK r : r = j - 1
    OBVIOUS
  <2>1. r \in Slots /\ B[j][<<l, w>>] = Copies(r, l, w) /\ C[j][<<l, w>>] = Copies(r, l, w)'
    BY <1>1 DEF Counting
  <2>2. r # s \/ l # k \/ w # v
    BY <1>3 DEF Slots
  <2> QED BY <2>1, <2>2 DEF Changes
<1>4. Copies(s, k, v) \in Nat
  BY WithFinite
<1> PICK n : n = B[i][<<k, v>>] + d
  OBVIOUS
<1>5. C[i][<<k, v>>] = n /\ n \in Int
  BY <1>2, <1>4 DEF Changes
<1>6. C = Recount(B, i, k, v, n)
  BY <1>2, <1>3, <1>5, BagAt
<1> QED BY <1>6 DEF Recount

(* When entries stay, so do the counts. *)
LEMMA BagStays ==
  ASSUME Chained, Chained', Stays
  PROVE  Bag' = Bag
<1>1. Counting /\ Counting'
  BY CountingHolds, CountingNext
<1> PICK B, C : B = Bag /\ C = Bag'
  OBVIOUS
<1>2. B \in BagType /\ C \in BagType
  BY <1>1 DEF Counting
<1>3. ASSUME NEW i \in 1..MaxIndexes, NEW l \in Keys, NEW w \in Vals
      PROVE  C[i][<<l, w>>] = B[i][<<l, w>>]
  <2> PICK r : r = i - 1
    OBVIOUS
  <2>1. r \in Slots /\ B[i][<<l, w>>] = Copies(r, l, w) /\ C[i][<<l, w>>] = Copies(r, l, w)'
    BY <1>1 DEF Counting
  <2> QED BY <2>1 DEF Stays
<1> QED BY <1>2, <1>3, BagEqual

(* A chain that stays with its keys and values holds the same pairs. *)
LEMMA WithSame ==
  ASSUME NEW s, NEW k, NEW v, NEW g, g = BucketHead(s, Bucket(k)), Chain(g)' = Chain(g),
         \A a \in Chain(g) : mem'[a].key = k \/ mem[a].key = k =>
           mem'[a].key = mem[a].key /\ mem'[a].val = mem[a].val
  PROVE  With(s, k, v)' = With(s, k, v)
<1>1. With(s, k, v) = {a \in Chain(g) : mem[a].key = k /\ mem[a].val = v}
  BY DEF With, Entries
<1>2. With(s, k, v)' = {a \in Chain(g)' : mem'[a].key = k /\ mem'[a].val = v}
  BY DEF With, Entries
<1> QED BY <1>1, <1>2

(* A step that writes no MRAM and links no node keeps the bags. *)
LEMMA MemStays ==
  ASSUME \A h \in Heads : Chain(h)' = Chain(h), UNCHANGED mem
  PROVE  Stays
<1>1. ASSUME NEW s \in Slots, NEW k \in Keys, NEW v \in Vals
      PROVE  Copies(s, k, v)' = Copies(s, k, v)
  <2> PICK g : g = BucketHead(s, Bucket(k))
    OBVIOUS
  <2>1. g \in Heads
    BY BucketType, HeadType
  <2> QED BY <2>1, WithSame DEF Copies
<1> QED BY <1>1 DEF Stays

(* A slave that writes changes no pair that does not collide with its key.  *)
LEMMA WithElsewhere ==
  ASSUME TypeOK, LaunchInv, Successors, Successors', Chained, Chained',
         NEW t \in Slaves, Writes(t), key'[t] = key[t],
         NEW s \in Slots, NEW k \in Keys, NEW v, s # pid \/ Bucket(k) # Bucket(key[t])
  PROVE  With(s, k, v)' = With(s, k, v) /\ Copies(s, k, v)' = Copies(s, k, v)
<1> PICK g : g = BucketHead(s, Bucket(k))
  OBVIOUS
<1>1. /\ Bucket(k) \in Buckets /\ Bucket(key[t]) \in Buckets /\ pid \in Slots
      /\ MyHead(t) = BucketHead(pid, Bucket(key[t]))
  BY BucketType, MyHeadType DEF MyHead, Writes, LaunchInv, Launched
<1>2. g \in Heads /\ g # MyHead(t)
  BY <1>1, HeadType, HeadsDiffer
<1>3. Chain(g)' = Chain(g) /\ \A a \in Chain(g) : mem'[a] = mem[a]
  BY <1>2, ChainElsewhere
<1> QED BY <1>3, WithSame DEF Copies

(* The pairs of the bucket slave t writes in. *)
LEMMA WithOwn ==
  ASSUME NEW t \in Slaves, Writes(t), NEW h, h = MyHead(t), NEW s, s = pid,
         NEW k, Bucket(k) = Bucket(key[t]), NEW v
  PROVE  /\ With(s, k, v) = {a \in Chain(h) : mem[a].key = k /\ mem[a].val = v}
         /\ With(s, k, v)' = {a \in Chain(h)' : mem'[a].key = k /\ mem'[a].val = v}
<1>1. h = BucketHead(s, Bucket(k))
  BY DEF MyHead
<1> QED BY <1>1 DEF With, Entries

(* What is left to show of a slave that changes the number of one pair. *)
LEMMA WriterChanges ==
  ASSUME TypeOK, LaunchInv, Successors, Successors', Chained, Chained',
         NEW t \in Slaves, Writes(t), key'[t] = key[t], NEW s \in Slots, s = pid,
         NEW k0, NEW v0, NEW d,
         Copies(s, k0, v0)' = Copies(s, k0, v0) + d,
         \A k \in Keys, v \in Vals : Bucket(k) = Bucket(key[t]) /\ (k # k0 \/ v # v0) =>
           Copies(s, k, v)' = Copies(s, k, v)
  PROVE  Changes(s, k0, v0, d)
<1>1. ASSUME NEW r \in Slots, NEW k \in Keys, NEW v \in Vals,
             r # s \/ k # k0 \/ v # v0
      PROVE  Copies(r, k, v)' = Copies(r, k, v)
  <2>1. CASE r # s \/ Bucket(k) # Bucket(key[t])
    BY <2>1, WithElsewhere
  <2>2. CASE r = s /\ Bucket(k) = Bucket(key[t])
    BY <1>1, <2>2
  <2> QED BY <2>1, <2>2
<1> QED BY <1>1 DEF Changes

LEMMA WriterStays ==
  ASSUME TypeOK, LaunchInv, Successors, Successors', Chained, Chained',
         NEW t \in Slaves, Writes(t), key'[t] = key[t], NEW s \in Slots, s = pid,
         \A k \in Keys, v \in Vals : Bucket(k) = Bucket(key[t]) =>
           Copies(s, k, v)' = Copies(s, k, v)
  PROVE  Stays
<1>1. ASSUME NEW r \in Slots, NEW k \in Keys, NEW v \in Vals
      PROVE  Copies(r, k, v)' = Copies(r, k, v)
  <2>1. CASE r # s \/ Bucket(k) # Bucket(key[t])
    BY <2>1, WithElsewhere
  <2>2. CASE r = s /\ Bucket(k) = Bucket(key[t])
    BY <2>2
  <2> QED BY <2>1, <2>2
<1> QED BY <1>1 DEF Stays

(* One entry more, or one less. *)
LEMMA OneMore ==
  ASSUME Chained, NEW s \in Slots, NEW k \in Keys, NEW v, NEW x, x \notin With(s, k, v),
         With(s, k, v)' = With(s, k, v) \cup {x}
  PROVE  Copies(s, k, v)' = Copies(s, k, v) + 1
<1> PICK W : W = With(s, k, v)
  OBVIOUS
<1>1. IsFiniteSet(W)
  BY WithFinite
<1>2. Cardinality(W \cup {x}) = Cardinality(W) + 1
  BY <1>1, FS_AddElement
<1> QED BY <1>2 DEF Copies

LEMMA OneLess ==
  ASSUME Chained, NEW s \in Slots, NEW k \in Keys, NEW v, NEW x, x \in With(s, k, v),
         With(s, k, v)' = With(s, k, v) \ {x}
  PROVE  Copies(s, k, v)' = Copies(s, k, v) + (-1) /\ Copies(s, k, v) > 0
<1> PICK W : W = With(s, k, v)
  OBVIOUS
<1>1. IsFiniteSet(W) /\ Cardinality(W) \in Nat
  BY WithFinite DEF Copies
<1>2. Cardinality(W \ {x}) = Cardinality(W) - 1 /\ IsFiniteSet(W \ {x})
  BY <1>1, FS_RemoveElement
<1>3. Cardinality(W \ {x}) \in Nat
  BY <1>2, FS_CardinalityType
<1> QED BY <1>1, <1>2, <1>3 DEF Copies

(* One entry in place of another. *)
LEMMA OneInstead ==
  ASSUME Chained, NEW s \in Slots, NEW k \in Keys, NEW v, NEW x, x \in With(s, k, v),
         NEW h, h \notin With(s, k, v), With(s, k, v)' = (With(s, k, v) \ {x}) \cup {h}
  PROVE  Copies(s, k, v)' = Copies(s, k, v)
<1> PICK W : W = With(s, k, v)
  OBVIOUS
<1>1. IsFiniteSet(W) /\ Cardinality(W) \in Nat
  BY WithFinite DEF Copies
<1>2. Cardinality(W \ {x}) = Cardinality(W) - 1 /\ IsFiniteSet(W \ {x})
  BY <1>1, FS_RemoveElement
<1>3. Cardinality((W \ {x}) \cup {h}) = Cardinality(W \ {x}) + 1
  BY <1>2, FS_AddElement
<1>4. Cardinality((W \ {x}) \cup {h}) = Cardinality(W)
  BY <1>1, <1>2, <1>3
<1> QED BY <1>4 DEF Copies

(* InsertPut adds one pair. *)
LEMMA PutBag ==
  ASSUME IndInv, StoreInv, Successors, Successors', Chained, Chained',
         NEW t \in Slaves, InsertPut(t), NEW s \in Slots, s = pid
  PROVE  Changes(s, key[t], val[t], 1)
<1> PICK h, k0, v0 : h = MyHead(t) /\ k0 = key[t] /\ v0 = val[t]
  OBVIOUS
<1>0. TypeOK /\ LaunchInv
  BY DEF IndInv
<1>1. /\ Writes(t) /\ key'[t] = k0 /\ k0 \in Keys /\ mem[h].key \notin Keys
      /\ mem'[h].key = k0 /\ mem'[h].val = v0 /\ \A a \in Addrs : a # h => mem'[a] = mem[a]
      /\ Chain(h)' = Chain(h) /\ h \in Chain(h) /\ Chain(h) \subseteq Addrs
  <2>1. /\ Writes(t) /\ h \in Heads /\ key'[t] = k0 /\ k0 \in Keys /\ mem[h].key = NoKey
        /\ mem'[h] = [key |-> k0, val |-> v0, next |-> Null]
        /\ \A a \in Addrs : a # h => mem'[a] = mem[a]
    BY PutEffect
  <2>2. Chain(h)' = Chain(h)
    BY PutChain
  <2> QED BY <2>1, <2>2, DataAssumption DEF Chained
<1>2. With(s, k0, v0)' = With(s, k0, v0) \cup {h} /\ h \notin With(s, k0, v0)
  <2>1. /\ With(s, k0, v0) = {a \in Chain(h) : mem[a].key = k0 /\ mem[a].val = v0}
        /\ With(s, k0, v0)' = {a \in Chain(h)' : mem'[a].key = k0 /\ mem'[a].val = v0}
    BY <1>1, WithOwn
  <2> QED BY <1>1, <2>1
<1>3. ASSUME NEW k \in Keys, NEW v \in Vals, Bucket(k) = Bucket(k0), k # k0 \/ v # v0
      PROVE  Copies(s, k, v)' = Copies(s, k, v)
  <2>1. /\ With(s, k, v) = {a \in Chain(h) : mem[a].key = k /\ mem[a].val = v}
        /\ With(s, k, v)' = {a \in Chain(h)' : mem'[a].key = k /\ mem'[a].val = v}
    BY <1>1, <1>3, WithOwn
  <2>2. With(s, k, v)' = With(s, k, v)
    BY <1>1, <1>3, <2>1
  <2> QED BY <2>2 DEF Copies
<1>4. Copies(s, k0, v0)' = Copies(s, k0, v0) + 1
  BY <1>1, <1>2, OneMore
<1> QED BY <1>0, <1>1, <1>3, <1>4, WriterChanges

(* InsertNode adds one pair, or nothing when it has no node. *)
LEMMA NodeBag ==
  ASSUME IndInv, StoreInv, Successors, Successors', Chained, Chained',
         NEW t \in Slaves, InsertNode(t), NEW s \in Slots, s = pid
  PROVE  /\ ptr[t] # Null => Changes(s, key[t], val[t], 1)
         /\ ptr[t] = Null => Stays
<1> PICK h, p, k0, v0 : h = MyHead(t) /\ p = ptr[t] /\ k0 = key[t] /\ v0 = val[t]
  OBVIOUS
<1>0. TypeOK /\ LaunchInv
  BY DEF IndInv
<1>1. /\ Writes(t) /\ key'[t] = k0 /\ k0 \in Keys /\ v0 \in Vals
      /\ p = Null => mem' = mem
      /\ p # Null => p \in Nodes /\ mem'[p].key = k0 /\ mem'[p].val = v0
      /\ \A a \in Addrs : a # p => mem'[a] = mem[a]
      /\ Chain(h)' = (IF p = Null THEN Chain(h) ELSE Chain(h) \cup {p}) /\ p \notin Chain(h)
      /\ h \in Chain(h) /\ Chain(h) \subseteq Addrs
  <2>1. /\ Writes(t) /\ h \in Heads /\ key'[t] = k0 /\ k0 \in Keys /\ v0 \in Vals
        /\ p = Null => mem' = mem
        /\ p # Null => Unwritten(h, p) /\ mem'[p] = NewNode(t)
        /\ \A a \in Addrs : a # p => mem'[a] = mem[a]
    BY NodeEffect
  <2>2. Chain(h)' = (IF p = Null THEN Chain(h) ELSE Chain(h) \cup {p}) /\ p \notin Chain(h)
    BY NodeChain
  <2> QED BY <2>1, <2>2 DEF Chained, Unwritten, NewNode
<1>2. ASSUME NEW k \in Keys, NEW v \in Vals, Bucket(k) = Bucket(k0)
      PROVE  /\ With(s, k, v) = {a \in Chain(h) : mem[a].key = k /\ mem[a].val = v}
             /\ With(s, k, v)' = {a \in Chain(h)' : mem'[a].key = k /\ mem'[a].val = v}
  BY <1>1, <1>2, WithOwn
<1>3. CASE p = Null
  <2>1. ASSUME NEW k \in Keys, NEW v \in Vals, Bucket(k) = Bucket(k0)
        PROVE  Copies(s, k, v)' = Copies(s, k, v)
    <3>0. /\ With(s, k, v) = {a \in Chain(h) : mem[a].key = k /\ mem[a].val = v}
          /\ With(s, k, v)' = {a \in Chain(h)' : mem'[a].key = k /\ mem'[a].val = v}
      BY <1>2, <2>1
    <3>1. Chain(h)' = Chain(h) /\ \A a \in Chain(h) : mem'[a] = mem[a]
      BY <1>1, <1>3
    <3>2. With(s, k, v)' = With(s, k, v)
      BY <3>0, <3>1
    <3> QED BY <3>2 DEF Copies
  <2> QED BY <1>0, <1>1, <1>3, <2>1, WriterStays
<1>4. CASE p # Null
  <2>1. ASSUME NEW k \in Keys, NEW v \in Vals, Bucket(k) = Bucket(k0), k # k0 \/ v # v0
        PROVE  Copies(s, k, v)' = Copies(s, k, v)
    <3>0. /\ With(s, k, v) = {a \in Chain(h) : mem[a].key = k /\ mem[a].val = v}
          /\ With(s, k, v)' = {a \in Chain(h)' : mem'[a].key = k /\ mem'[a].val = v}
      BY <1>2, <2>1
    <3>1. With(s, k, v)' = With(s, k, v)
      BY <1>1, <1>4, <2>1, <3>0
    <3> QED BY <3>1 DEF Copies
  <2>2. /\ With(s, k0, v0) = {a \in Chain(h) : mem[a].key = k0 /\ mem[a].val = v0}
        /\ With(s, k0, v0)' = {a \in Chain(h)' : mem'[a].key = k0 /\ mem'[a].val = v0}
    BY <1>1, <1>2
  <2>3. With(s, k0, v0)' = With(s, k0, v0) \cup {p} /\ p \notin With(s, k0, v0)
    BY <1>1, <1>4, <2>2
  <2>4. Copies(s, k0, v0)' = Copies(s, k0, v0) + 1
    BY <1>1, <2>3, OneMore
  <2> QED BY <1>0, <1>1, <1>4, <2>1, <2>4, WriterChanges
<1> QED BY <1>3, <1>4

(* Slot s keeps, of the pairs that collide in bucket c, one. *)
Collapses(s, c, k0, v0) ==
  /\ \A k \in Keys, v \in Vals :
       Bucket(k) = c => Copies(s, k, v)' = IF k = k0 /\ v = v0 THEN 1 ELSE 0
  /\ \A r \in Slots, k \in Keys, v \in Vals :
       r # s \/ Bucket(k) # c => Copies(r, k, v)' = Copies(r, k, v)

(* InsertLink keeps the bags; without a node, of the pairs in its bucket   *)
(* only the one in the head survives.                                      *)
LEMMA LinkBag ==
  ASSUME IndInv, StoreInv, Successors, Successors', Chained, Chained',
         NEW t \in Slaves, InsertLink(t), NEW s \in Slots, s = pid, NEW h, h = MyHead(t)
  PROVE  /\ buf[t].next # Null => Stays
         /\ buf[t].next = Null => /\ Collapses(s, Bucket(key[t]), mem[h].key, mem[h].val)
                                  /\ Copies(s, mem[h].key, mem[h].val) > 0
<1> PICK k0, v0, c : k0 = mem[h].key /\ v0 = mem[h].val /\ c = Bucket(key[t])
  OBVIOUS
<1>0. TypeOK /\ LaunchInv
  BY DEF IndInv
<1>1. /\ Writes(t) /\ key'[t] = key[t] /\ key[t] \in Keys /\ h \in LiveHeads
      /\ mem'[h].key = k0 /\ mem'[h].val = v0 /\ \A a \in Addrs : a # h => mem'[a] = mem[a]
      /\ k0 \in Keys
  <2>1. /\ Writes(t) /\ key'[t] = key[t] /\ key[t] \in Keys /\ h \in LiveHeads
        /\ mem[h] \in Entry /\ k0 \in Keys /\ mem'[h] = [mem[h] EXCEPT !.next = buf[t].next]
        /\ \A a \in Addrs : a # h => mem'[a] = mem[a]
    BY LinkEffect
  <2> QED BY <2>1 DEF Entry
<1>2. /\ Chain(h)' = (IF buf[t].next = Null THEN {h} ELSE Chain(h))
      /\ h \in Chain(h) /\ Chain(h) \subseteq Addrs
  BY <1>1, LinkChain DEF Chained, LiveHeads
<1>3. ASSUME NEW k \in Keys, NEW v \in Vals, Bucket(k) = c
      PROVE  /\ With(s, k, v) = {a \in Chain(h) : mem[a].key = k /\ mem[a].val = v}
             /\ With(s, k, v)' = {a \in Chain(h)' : mem'[a].key = k /\ mem'[a].val = v}
  BY <1>1, <1>3, WithOwn
<1>4. CASE buf[t].next # Null
  <2>1. ASSUME NEW k \in Keys, NEW v \in Vals, Bucket(k) = c
        PROVE  Copies(s, k, v)' = Copies(s, k, v)
    <3>0. /\ With(s, k, v) = {a \in Chain(h) : mem[a].key = k /\ mem[a].val = v}
          /\ With(s, k, v)' = {a \in Chain(h)' : mem'[a].key = k /\ mem'[a].val = v}
      BY <1>3, <2>1
    <3>1. With(s, k, v)' = With(s, k, v)
      BY <1>1, <1>2, <1>4, <2>1, <3>0
    <3> QED BY <3>1 DEF Copies
  <2> QED BY <1>0, <1>1, <1>4, <2>1, WriterStays
<1>5. CASE buf[t].next = Null
  <2>1. ASSUME NEW k \in Keys, NEW v \in Vals, Bucket(k) = c
        PROVE  Copies(s, k, v)' = IF k = k0 /\ v = v0 THEN 1 ELSE 0
    <3>0. /\ With(s, k, v) = {a \in Chain(h) : mem[a].key = k /\ mem[a].val = v}
          /\ With(s, k, v)' = {a \in Chain(h)' : mem'[a].key = k /\ mem'[a].val = v}
      BY <1>3, <2>1
    <3>1. With(s, k, v)' = IF k = k0 /\ v = v0 THEN {h} ELSE {}
      BY <1>1, <1>2, <1>5, <2>1, <3>0
    <3>2. Cardinality({h}) = 1 /\ Cardinality({}) = 0
      BY FS_Singleton, FS_EmptySet
    <3> QED BY <3>1, <3>2 DEF Copies
  <2>2. ASSUME NEW r \in Slots, NEW k \in Keys, NEW v \in Vals, r # s \/ Bucket(k) # c
        PROVE  Copies(r, k, v)' = Copies(r, k, v)
    BY <1>0, <1>1, <2>2, WithElsewhere
  <2>3. Copies(s, k0, v0) > 0
    <3>1. Bucket(k0) = c /\ v0 \in Vals
      <4>1. Hosts(h, k0) /\ h \in Addrs
        BY <1>1, <1>2, DataAssumption DEF IndInv, ChainShape, HeadShape
      <4>2. PICK r \in Slots : h = BucketHead(r, Bucket(k0))
        BY <4>1 DEF Hosts
      <4>3. Bucket(k0) \in Buckets /\ c \in Buckets /\ h = BucketHead(s, c)
        BY <1>1, BucketType DEF MyHead
      <4> QED BY <1>1, <4>1, <4>2, <4>3, HeadsDiffer DEF StoreInv
    <3>2. h \in With(s, k0, v0)
      BY <1>1, <1>2, <1>3, <3>1
    <3>3. IsFiniteSet(With(s, k0, v0)) /\ Copies(s, k0, v0) \in Nat
      BY <1>1, WithFinite
    <3>4. Copies(s, k0, v0) # 0
      BY <3>2, <3>3, FS_EmptySet DEF Copies
    <3> QED BY <3>3, <3>4
  <2> QED BY <1>5, <2>1, <2>2, <2>3 DEF Collapses
<1> QED BY <1>4, <1>5

(* DeleteHead takes out one pair. *)
LEMMA HeadBag ==
  ASSUME IndInv, StoreInv, Successors, Successors', Chained, Chained',
         NEW t \in Slaves, DeleteHead(t), NEW s \in Slots, s = pid, NEW h, h = MyHead(t)
  PROVE  /\ Changes(s, key[t], mem[h].val, -1)
         /\ Copies(s, key[t], mem[h].val) > 0 /\ mem[h].val \in Vals
<1> PICK x, k0, v0 : x = mem[h].next /\ k0 = key[t] /\ v0 = mem[h].val
  OBVIOUS
<1>0. TypeOK /\ LaunchInv
  BY DEF IndInv
<1>1. /\ Writes(t) /\ h \in Heads /\ key'[t] = k0 /\ k0 \in Keys /\ mem[h].key = k0
      /\ mem[h] \in Entry
      /\ mem'[h] = IF x = Null THEN [mem[h] EXCEPT !.key = NoKey] ELSE mem[x]
      /\ \A a \in Addrs : a # h => mem'[a] = mem[a]
  BY HeadEffect
<1>2. /\ Chain(h)' = Chain(h) \ {x} /\ x # h
      /\ x # Null => x \in Chain(h)
      /\ h \in Chain(h) /\ Chain(h) \subseteq Addrs /\ Null \notin Chain(h)
  <2>1. /\ Chain(h)' = Chain(h) \ {x} /\ x # h
        /\ x # Null => x \in Chain(h)
    BY HeadChain
  <2> QED BY <1>1, <2>1 DEF Chained, Addrs, Null
<1>3. v0 \in Vals
  BY <1>1, <1>2 DEF StoreInv
<1>4. /\ x = Null => mem'[h].key \notin Keys
      /\ x # Null => x \in Chain(h) /\ mem'[h] = mem[x]
  BY <1>1, <1>2, DataAssumption DEF Entry
<1>5. ASSUME NEW k \in Keys, NEW v \in Vals, Bucket(k) = Bucket(k0)
      PROVE  /\ k = k0 /\ v = v0 => h \in With(s, k, v)
             /\ k # k0 \/ v # v0 => h \notin With(s, k, v)
             /\ x \notin With(s, k, v) => With(s, k, v)' = With(s, k, v) \ {h}
             /\ x \in With(s, k, v) => With(s, k, v)' = (With(s, k, v) \ {x}) \cup {h}
  <2> PICK W, V, C : W = With(s, k, v) /\ V = With(s, k, v)' /\ C = Chain(h)
    OBVIOUS
  <2>1. /\ W = {a \in C : mem[a].key = k /\ mem[a].val = v}
        /\ V = {a \in C \ {x} : mem'[a].key = k /\ mem'[a].val = v}
    <3>1. /\ With(s, k, v) = {a \in Chain(h) : mem[a].key = k /\ mem[a].val = v}
          /\ With(s, k, v)' = {a \in Chain(h)' : mem'[a].key = k /\ mem'[a].val = v}
      BY <1>1, <1>5, WithOwn
    <3> QED BY <1>2, <3>1
  <2>2. (k = k0 /\ v = v0 => h \in W) /\ (k # k0 \/ v # v0 => h \notin W)
    BY <1>1, <1>2, <2>1
  <2>3. \A a \in C : a # h => (mem'[a] = mem[a])
    BY <1>1, <1>2
  <2>4. x \notin W => V = W \ {h}
    BY <1>2, <1>4, <2>1, <2>3
  <2>5. x \in W => V = (W \ {x}) \cup {h}
    <3> SUFFICES ASSUME x \in W PROVE V = (W \ {x}) \cup {h}
      OBVIOUS
    <3>1. x \in C /\ mem'[h] = mem[x] /\ mem[x].key = k /\ mem[x].val = v
      BY <1>2, <1>4, <2>1
    <3> QED BY <1>2, <2>1, <2>3, <3>1
  <2> QED BY <2>2, <2>4, <2>5
<1>6. ASSUME NEW k \in Keys, NEW v \in Vals, Bucket(k) = Bucket(k0), k # k0 \/ v # v0
      PROVE  Copies(s, k, v)' = Copies(s, k, v)
  <2>1. CASE x \in With(s, k, v)
    BY <1>5, <1>6, <2>1, OneInstead
  <2>2. CASE x \notin With(s, k, v)
    <3>1. With(s, k, v)' = With(s, k, v)
      <4>1. h \notin With(s, k, v) /\ With(s, k, v)' = With(s, k, v) \ {h}
        BY <1>5, <1>6, <2>2
      <4> QED BY <4>1
    <3> QED BY <3>1 DEF Copies
  <2> QED BY <2>1, <2>2
<1>7. Copies(s, k0, v0)' = Copies(s, k0, v0) + (-1) /\ Copies(s, k0, v0) > 0
  <2>1. h \in With(s, k0, v0)
    BY <1>1, <1>3, <1>5
  <2>2. CASE x \in With(s, k0, v0)
    <3>1. With(s, k0, v0)' = With(s, k0, v0) \ {x}
      <4>1. With(s, k0, v0)' = (With(s, k0, v0) \ {x}) \cup {h}
        BY <1>1, <1>3, <1>5, <2>2
      <4> QED BY <1>2, <2>1, <4>1
    <3> QED BY <1>1, <2>2, <3>1, OneLess
  <2>3. CASE x \notin With(s, k0, v0)
    <3>1. With(s, k0, v0)' = With(s, k0, v0) \ {h}
      BY <1>1, <1>3, <1>5, <2>3
    <3> QED BY <1>1, <2>1, <3>1, OneLess
  <2> QED BY <2>2, <2>3
<1>8. Changes(s, k0, v0, -1)
  BY <1>0, <1>1, <1>6, <1>7, WriterChanges
<1> QED BY <1>3, <1>7, <1>8

(* DeleteUnlink takes out one pair. *)
LEMMA UnlinkBag ==
  ASSUME IndInv, StoreInv, Successors, Successors', Chained, Chained',
         NEW t \in Slaves, DeleteUnlink(t), NEW s \in Slots, s = pid,
         ptr[t] \in Chain(MyHead(t)), NEW x, x = mem[ptr[t]].next
  PROVE  /\ Changes(s, key[t], mem[x].val, -1)
         /\ Copies(s, key[t], mem[x].val) > 0 /\ mem[x].val \in Vals
<1> PICK h, q, k0, v0 : h = MyHead(t) /\ q = ptr[t] /\ k0 = key[t] /\ v0 = mem[x].val
  OBVIOUS
<1>0. TypeOK /\ LaunchInv
  BY DEF IndInv
<1>1. /\ Writes(t) /\ h \in Heads /\ key'[t] = k0 /\ k0 \in Keys /\ mem[x].key = k0
      /\ q \in Addrs /\ mem[q] \in Entry
      /\ mem'[q] = [mem[q] EXCEPT !.next = mem[x].next]
      /\ \A a \in Addrs : a # q => mem'[a] = mem[a]
  BY UnlinkEffect
<1>2. /\ Chain(h)' = Chain(h) \ {x} /\ x # q /\ x \in Chain(h) /\ Chain(h) \subseteq Addrs
  <2>1. Chain(h)' = Chain(h) \ {x} /\ x # q /\ x \in Chain(h)
    BY UnlinkChain
  <2> QED BY <1>1, <2>1 DEF Chained
<1>3. v0 \in Vals
  BY <1>1, <1>2 DEF StoreInv
<1>4. \A a \in Addrs : mem'[a].key = mem[a].key /\ mem'[a].val = mem[a].val
  BY <1>1 DEF Entry
<1>5. ASSUME NEW k \in Keys, NEW v \in Vals, Bucket(k) = Bucket(k0)
      PROVE  /\ With(s, k, v)' = With(s, k, v) \ {x}
             /\ x \in With(s, k, v) <=> k = k0 /\ v = v0
  <2>1. /\ With(s, k, v) = {a \in Chain(h) : mem[a].key = k /\ mem[a].val = v}
        /\ With(s, k, v)' = {a \in Chain(h)' : mem'[a].key = k /\ mem'[a].val = v}
    BY <1>1, <1>5, WithOwn
  <2>2. With(s, k, v)' = With(s, k, v) \ {x}
    BY <1>2, <1>4, <2>1
  <2> QED BY <1>1, <1>2, <2>1, <2>2
<1>6. ASSUME NEW k \in Keys, NEW v \in Vals, Bucket(k) = Bucket(k0), k # k0 \/ v # v0
      PROVE  Copies(s, k, v)' = Copies(s, k, v)
  <2>1. With(s, k, v)' = With(s, k, v)
    BY <1>5, <1>6
  <2> QED BY <2>1 DEF Copies
<1>7. Copies(s, k0, v0)' = Copies(s, k0, v0) + (-1) /\ Copies(s, k0, v0) > 0
  <2>1. x \in With(s, k0, v0) /\ With(s, k0, v0)' = With(s, k0, v0) \ {x}
    BY <1>1, <1>3, <1>5
  <2> QED BY <1>1, <2>1, OneLess
<1>8. Changes(s, k0, v0, -1)
  BY <1>0, <1>1, <1>6, <1>7, WriterChanges
<1> QED BY <1>3, <1>7, <1>8

(* One pair of slot s gets another value. *)
Moves(s, k0, v0, v1) ==
  /\ Copies(s, k0, v0)' = Copies(s, k0, v0) + (-1)
  /\ Copies(s, k0, v1)' = Copies(s, k0, v1) + 1
  /\ \A r \in Slots, l \in Keys, w \in Vals :
       r # s \/ l # k0 \/ (w # v0 /\ w # v1) => Copies(r, l, w)' = Copies(r, l, w)

(* UpdatePatch gives one pair another value, or the same. *)
LEMMA PatchBag ==
  ASSUME IndInv, StoreInv, Successors, Successors', Chained, Chained',
         NEW t \in Slaves, UpdatePatch(t), NEW s \in Slots, s = pid,
         NEW v0, v0 = mem[ptr[t]].val
  PROVE  \/ Stays
         \/ /\ v0 \in Vals /\ v0 # val[t] /\ Copies(s, key[t], v0) > 0
            /\ Moves(s, key[t], v0, val[t])
<1> PICK h, p, k0, v1 : h = MyHead(t) /\ p = ptr[t] /\ k0 = key[t] /\ v1 = val[t]
  OBVIOUS
<1>0. TypeOK /\ LaunchInv
  BY DEF IndInv
<1>1. /\ pc[t] = "patch" /\ pc'[t] = "unlock" /\ h \in Heads /\ k0 \in Keys /\ v1 \in Vals
      /\ Belongs(h, p) /\ p \in Addrs /\ mem[p].key = k0
      /\ mem'[p].key = k0 /\ mem'[p].next = mem[p].next /\ mem'[p].val = v1
      /\ \A a \in Addrs : a # p => mem'[a] = mem[a]
      /\ \A u \in Slaves : u # t => SameSlave(u)
      /\ UNCHANGED index
  BY PatchEffect
<1>2. \A g \in Heads : Chain(g)' = Chain(g)
  <2>1. \A a \in Addrs : mem'[a].next = mem[a].next
    BY <1>1
  <2> QED BY <1>1, <2>1, LinksStay
<1>3. v0 \in Vals
  BY <1>1 DEF StoreInv
<1>4. ASSUME NEW g \in Heads, p \in Chain(g) PROVE g = h
  <2>1. Belongs(g, p)
    BY <1>4 DEF Chained
  <2>2. Heads \cap Nodes = {}
    BY Layout DEF Heads, Nodes
  <2> QED BY <1>1, <1>4, <2>1, <2>2 DEF Belongs, Follows, Null
<1>5. ASSUME NEW r \in Slots, NEW k \in Keys, NEW v \in Vals,
             v0 = v1 \/ k # k0 \/ r # s \/ (v # v0 /\ v # v1) \/ p \notin Chain(h)
      PROVE  Copies(r, k, v)' = Copies(r, k, v)
  <2> PICK g : g = BucketHead(r, Bucket(k))
    OBVIOUS
  <2>1. g \in Heads /\ Bucket(k) \in Buckets /\ Bucket(k0) \in Buckets
    BY <1>1, BucketType, HeadType
  <2>2. /\ With(r, k, v) = {a \in Chain(g) : mem[a].key = k /\ mem[a].val = v}
        /\ With(r, k, v)' = {a \in Chain(g)' : mem'[a].key = k /\ mem'[a].val = v}
    BY DEF With, Entries
  <2>3. Chain(g)' = Chain(g) /\ Chain(g) \subseteq Addrs
    BY <1>2, <2>1 DEF Chained
  <2>4. CASE p \notin Chain(g) \/ v0 = v1 \/ k # k0 \/ (v # v0 /\ v # v1)
    <3>1. With(r, k, v)' = With(r, k, v)
      BY <1>1, <2>2, <2>3, <2>4
    <3> QED BY <3>1 DEF Copies
  <2>5. CASE p \in Chain(g)
    <3>1. g = h /\ h = BucketHead(s, Bucket(k0))
      BY <1>4, <2>1, <2>5 DEF MyHead
    <3>2. r = s
      <4>1. BucketHead(r, Bucket(k)) = BucketHead(s, Bucket(k0))
        BY <3>1
      <4> QED BY <2>1, <4>1, HeadsDiffer
    <3> QED BY <1>5, <2>4, <3>1, <3>2
  <2> QED BY <2>4, <2>5
<1>6. CASE v0 = v1 \/ p \notin Chain(h)
  BY <1>5, <1>6 DEF Stays
<1>7. CASE v0 # v1 /\ p \in Chain(h)
  <2>1. ASSUME NEW v
        PROVE  /\ With(s, k0, v) = {a \in Chain(h) : mem[a].key = k0 /\ mem[a].val = v}
               /\ With(s, k0, v)' = {a \in Chain(h) : mem'[a].key = k0 /\ mem'[a].val = v}
    <3>1. /\ With(s, k0, v) = {a \in Chain(h) : mem[a].key = k0 /\ mem[a].val = v}
          /\ With(s, k0, v)' = {a \in Chain(h)' : mem'[a].key = k0 /\ mem'[a].val = v}
      BY DEF With, Entries, MyHead
    <3> QED BY <1>1, <1>2, <3>1
  <2>2. Chain(h) \subseteq Addrs
    BY <1>1 DEF Chained
  <2>3. p \in With(s, k0, v0) /\ With(s, k0, v0)' = With(s, k0, v0) \ {p}
    <3> PICK W, V : W = With(s, k0, v0) /\ V = With(s, k0, v0)'
      OBVIOUS
    <3>1. /\ W = {a \in Chain(h) : mem[a].key = k0 /\ mem[a].val = v0}
          /\ V = {a \in Chain(h) : mem'[a].key = k0 /\ mem'[a].val = v0}
      BY <2>1
    <3>2. p \in W /\ V = W \ {p}
      BY <1>1, <1>7, <2>2, <3>1
    <3> QED BY <3>2
  <2>4. p \notin With(s, k0, v1) /\ With(s, k0, v1)' = With(s, k0, v1) \cup {p}
    <3> PICK W, V : W = With(s, k0, v1) /\ V = With(s, k0, v1)'
      OBVIOUS
    <3>1. /\ W = {a \in Chain(h) : mem[a].key = k0 /\ mem[a].val = v1}
          /\ V = {a \in Chain(h) : mem'[a].key = k0 /\ mem'[a].val = v1}
      BY <2>1
    <3>2. p \notin W /\ V = W \cup {p}
      BY <1>1, <1>7, <2>2, <3>1
    <3> QED BY <3>2
  <2>5. Copies(s, k0, v0)' = Copies(s, k0, v0) + (-1) /\ Copies(s, k0, v0) > 0
    BY <1>1, <2>3, OneLess
  <2>6. Copies(s, k0, v1)' = Copies(s, k0, v1) + 1
    BY <1>1, <2>4, OneMore
  <2>7. Moves(s, k0, v0, v1)
    BY <1>5, <2>5, <2>6 DEF Moves
  <2> QED BY <1>3, <1>7, <2>5, <2>7
<1> QED BY <1>6, <1>7

-----------------------------------------------------------------------------
(* What a change of the bags is for the abstract index.                    *)

(* The rest of the abstract state stays. *)
RestStays ==
  UNCHANGED <<index, answer>> /\ ((avail' > LastNode) <=> (avail > LastNode))

(* Bags that stay are a stutter of the abstract index. *)
LEMMA AbstractStutter ==
  ASSUME Chained, Chained', Stays, RestStays
  PROVE  UNCHANGED AbstractIndex!vars
<1>1. Bag' = Bag
  BY BagStays
<1>2. num' = num /\ indexId' = indexId /\ pid' = pid /\ opType' = opType /\ answer' = answer
      /\ (avail' > LastNode) = (avail > LastNode)
  BY DEF RestStays, index
<1> QED BY <1>1, <1>2 DEF AbstractIndex!vars, Bag

(* The number of a pair as the abstract index sees it. *)
LEMMA AbstractCopies ==
  ASSUME Chained, NEW s \in Slots, NEW k \in Keys, NEW v \in Vals
  PROVE  Bag[s + 1][<<k, v>>] = Copies(s, k, v) /\ Copies(s, k, v) \in Nat /\ s + 1 # 0
<1>1. Counting
  BY CountingHolds
<1>2. s \in Nat
  BY SizeAssumption DEF Slots
<1> QED BY <1>1, <1>2, WithFinite DEF Counting

(* One pair more is an insert of the abstract index. *)
LEMMA AbstractInsert ==
  ASSUME Chained, Chained', RestStays, NEW s \in Slots, s = pid, NEW k \in Keys, NEW v \in Vals,
         opType \in Adding, Changes(s, k, v, 1),
         opType = "get_or_insert" => \A w \in Vals : Copies(s, k, w) = 0
  PROVE  AbstractIndex!Insert(k, v)
<1>1. Bag' = [Bag EXCEPT ![s + 1][<<k, v>>] = Bag[s + 1][<<k, v>>] + 1]
  BY BagChanges
<1>2. num' = num /\ indexId' = indexId /\ pid' = pid /\ opType' = opType /\ answer' = answer
      /\ (avail' > LastNode) = (avail > LastNode)
  BY DEF RestStays, index
<1>3. opType = "get_or_insert" => AbstractIndex!Absent(k)
  <2>1. ASSUME opType = "get_or_insert", NEW w \in Vals PROVE Bag[pid + 1][<<k, w>>] = 0
    BY <2>1, AbstractCopies
  <2> QED BY <2>1 DEF AbstractIndex!Absent, Bag
<1>4. pid + 1 # 0
  BY AbstractCopies
<1> QED BY <1>1, <1>2, <1>3, <1>4 DEF AbstractIndex!Insert, AbstractIndex!Adding, Adding, Bag

(* One pair less is a delete of the abstract index. *)
LEMMA AbstractDelete ==
  ASSUME Chained, Chained', RestStays, NEW s \in Slots, s = pid, NEW k \in Keys, NEW v \in Vals,
         opType = "delete", Changes(s, k, v, -1), Copies(s, k, v) > 0
  PROVE  AbstractIndex!Delete(k, v)
<1>1. Bag' = [Bag EXCEPT ![s + 1][<<k, v>>] = Bag[s + 1][<<k, v>>] + (-1)]
  BY BagChanges
<1>2. num' = num /\ indexId' = indexId /\ pid' = pid /\ opType' = opType /\ answer' = answer
      /\ (avail' > LastNode) = (avail > LastNode)
  BY DEF RestStays, index
<1>3. pid + 1 # 0 /\ Bag[pid + 1][<<k, v>>] > 0 /\ Bag[s + 1][<<k, v>>] \in Nat
  BY AbstractCopies
<1>4. Bag[s + 1][<<k, v>>] + (-1) = Bag[s + 1][<<k, v>>] - 1
  BY <1>3
<1>5. Bag' = [Bag EXCEPT ![pid + 1][<<k, v>>] = Bag[pid + 1][<<k, v>>] - 1]
  BY <1>1, <1>4
<1> QED BY <1>2, <1>3, <1>5 DEF AbstractIndex!Delete, Bag

(* A pair with another value is an update of the abstract index. *)
LEMMA AbstractUpdate ==
  ASSUME Chained, Chained', RestStays, NEW s \in Slots, s = pid, NEW k \in Keys,
         NEW v \in Vals, NEW w \in Vals, v # w, opType = "update", Moves(s, k, v, w),
         Copies(s, k, v) > 0
  PROVE  AbstractIndex!Update(k, v, w)
<1>1. Counting /\ Counting'
  BY CountingHolds, CountingNext
<1> PICK B, C, i : B = Bag /\ C = Bag' /\ i = s + 1
  OBVIOUS
<1>2. /\ B \in BagType /\ C \in BagType /\ i \in 1..MaxIndexes
      /\ B[i][<<k, v>>] = Copies(s, k, v) /\ C[i][<<k, v>>] = Copies(s, k, v)'
      /\ B[i][<<k, w>>] = Copies(s, k, w) /\ C[i][<<k, w>>] = Copies(s, k, w)'
  BY <1>1 DEF Counting
<1>3. ASSUME NEW j \in 1..MaxIndexes, NEW l \in Keys, NEW u \in Vals,
             j # i \/ l # k \/ (u # v /\ u # w)
      PROVE  C[j][<<l, u>>] = B[j][<<l, u>>]
  <2> PICK r : r = j - 1
    OBVIOUS
  <2>1. r \in Slots /\ B[j][<<l, u>>] = Copies(r, l, u) /\ C[j][<<l, u>>] = Copies(r, l, u)'
    BY <1>1 DEF Counting
  <2>2. r # s \/ l # k \/ (u # v /\ u # w)
    BY <1>3 DEF Slots
  <2> QED BY <2>1, <2>2 DEF Moves
<1>4. Copies(s, k, v) \in Nat /\ Copies(s, k, w) \in Nat
  BY WithFinite
<1> PICK n, m : n = B[i][<<k, v>>] - 1 /\ m = B[i][<<k, w>>] + 1
  OBVIOUS
<1>5. C[i][<<k, v>>] = n /\ n \in Int /\ C[i][<<k, w>>] = m /\ m \in Int
  BY <1>2, <1>4 DEF Moves
<1> PICK D : D = Recount(B, i, k, v, n)
  OBVIOUS
<1>6. /\ D \in BagType /\ D[i][<<k, v>>] = n /\ D[i][<<k, w>>] = B[i][<<k, w>>]
      /\ \A j \in 1..MaxIndexes, l \in Keys, u \in Vals :
           j # i \/ l # k \/ u # v => D[j][<<l, u>>] = B[j][<<l, u>>]
  <2> PICK q, f : q = <<k, v>> /\ f = [B[i] EXCEPT ![q] = n]
    OBVIOUS
  <2>1. q \in Pair /\ B[i] \in [Pair -> Int]
    BY <1>2 DEF Pair, BagType
  <2>2. f \in [Pair -> Int] /\ \A p \in Pair : f[p] = IF p = q THEN n ELSE B[i][p]
    BY <1>5, <2>1
  <2>3. \A l \in Keys, u \in Vals : <<l, u>> \in Pair /\ (<<l, u>> = q <=> l = k /\ u = v)
    BY DEF Pair
  <2>4. D = Reindex(B, i, f)
    BY DEF Recount, Reindex
  <2>5. D \in BagType /\ \A j \in 1..MaxIndexes : D[j] = IF j = i THEN f ELSE B[j]
    BY <1>2, <2>2, <2>4, Reindexed
  <2>6. ASSUME NEW l \in Keys, NEW u \in Vals
        PROVE  D[i][<<l, u>>] = IF l = k /\ u = v THEN n ELSE B[i][<<l, u>>]
    BY <1>2, <2>2, <2>3, <2>5
  <2> QED BY <1>2, <2>5, <2>6
<1>7. \A j \in 1..MaxIndexes, l \in Keys, u \in Vals :
        j # i \/ l # k \/ u # w => C[j][<<l, u>>] = D[j][<<l, u>>]
  BY <1>3, <1>5, <1>6
<1>8. C = Recount(D, i, k, w, m)
  <2>1. C \in BagType /\ D \in BagType /\ i \in 1..MaxIndexes /\ m \in Int
        /\ C[i][<<k, w>>] = m
    BY <1>2, <1>5, <1>6
  <2> QED BY <1>7, <2>1, BagAt
<1>9. D = [B EXCEPT ![i][<<k, v>>] = B[i][<<k, v>>] - 1]
  BY DEF Recount
<1>10. C = [D EXCEPT ![i][<<k, w>>] = D[i][<<k, w>>] + 1]
  BY <1>6, <1>8 DEF Recount
<1>11. C = [B EXCEPT ![i][<<k, v>>] = @ - 1, ![i][<<k, w>>] = @ + 1]
  <2>1. [B EXCEPT ![i][<<k, v>>] = @ - 1, ![i][<<k, w>>] = @ + 1]
          = [[B EXCEPT ![i][<<k, v>>] = @ - 1] EXCEPT ![i][<<k, w>>] = @ + 1]
    BY ZenonT(30)
  <2> QED BY <1>9, <1>10, <2>1
<1>12. num' = num /\ indexId' = indexId /\ pid' = pid /\ opType' = opType /\ answer' = answer
       /\ (avail' > LastNode) = (avail > LastNode)
  BY DEF RestStays, index
<1>13. pid + 1 # 0 /\ Bag[pid + 1][<<k, v>>] > 0
  BY AbstractCopies
<1>14. Bag' = [Bag EXCEPT ![pid + 1][<<k, v>>] = @ - 1, ![pid + 1][<<k, w>>] = @ + 1]
  BY <1>11
<1> QED BY <1>12, <1>13, <1>14 DEF AbstractIndex!Update, Bag

(* Of the pairs b in collision class c the pair p survives.                 *)
Survivor(b, c, p) ==
  [q \in Pair |-> IF [l \in Keys |-> Bucket(l)][q[1]] # c THEN b[q] ELSE IF q = p THEN 1 ELSE 0]

(* A chain that collapses in a full region is an overflow of the abstract  *)
(* index.                                                                  *)
LEMMA AbstractOverflow ==
  ASSUME Chained, Chained', RestStays, NEW s \in Slots, s = pid, NEW c,
         NEW k \in Keys, NEW v \in Vals, Bucket(k) = c,
         opType \in Adding, ~RoomLeft, avail \in Int,
         Collapses(s, c, k, v), Copies(s, k, v) > 0
  PROVE  \E p \in Keys \X Vals : AbstractIndex!Overflow(c, p)
<1>1. Counting /\ Counting'
  BY CountingHolds, CountingNext
<1> PICK B, C, i, p : B = Bag /\ C = Bag' /\ i = s + 1 /\ p = <<k, v>>
  OBVIOUS
<1>2. /\ B \in BagType /\ C \in BagType /\ i \in 1..MaxIndexes /\ p \in Pair /\ p[1] = k
      /\ \A l \in Keys, u \in Vals :
           B[i][<<l, u>>] = Copies(s, l, u) /\ C[i][<<l, u>>] = Copies(s, l, u)'
  BY <1>1 DEF Counting, Pair
<1> PICK f : f = Survivor(B[i], c, p)
  OBVIOUS
<1>3. f \in [Pair -> Int]
  <2>1. B[i] \in [Pair -> Int]
    BY <1>2 DEF BagType
  <2> QED BY <2>1 DEF Survivor
<1>4. ASSUME NEW l \in Keys, NEW u \in Vals PROVE C[i][<<l, u>>] = f[<<l, u>>]
  <2> PICK q : q = <<l, u>>
    OBVIOUS
  <2>1. q \in Pair /\ q[1] = l /\ (q = p <=> l = k /\ u = v)
    BY DEF Pair
  <2>2. f[q] = IF Bucket(l) # c THEN B[i][q] ELSE IF q = p THEN 1 ELSE 0
    BY <2>1 DEF Survivor
  <2>3. B[i][q] = Copies(s, l, u) /\ C[i][q] = Copies(s, l, u)'
    BY <1>2
  <2> QED BY <2>1, <2>2, <2>3 DEF Collapses
<1>5. ASSUME NEW j \in 1..MaxIndexes, NEW l \in Keys, NEW u \in Vals, j # i
      PROVE  C[j][<<l, u>>] = B[j][<<l, u>>]
  <2> PICK r : r = j - 1
    OBVIOUS
  <2>1. r \in Slots /\ B[j][<<l, u>>] = Copies(r, l, u) /\ C[j][<<l, u>>] = Copies(r, l, u)'
    BY <1>1 DEF Counting
  <2>2. r # s
    BY <1>5 DEF Slots
  <2> QED BY <2>1, <2>2 DEF Collapses
<1>6. C = Reindex(B, i, f)
  <2>1. B \in BagType /\ C \in BagType /\ i \in 1..MaxIndexes /\ f \in [Pair -> Int]
    BY <1>2, <1>3
  <2> QED BY <1>4, <1>5, <2>1, BagIndex
<1>7. num' = num /\ indexId' = indexId /\ pid' = pid /\ opType' = opType /\ answer' = answer
      /\ (avail' > LastNode) = (avail > LastNode) /\ avail > LastNode
  BY Layout DEF RestStays, index, RoomLeft
<1>8. pid + 1 # 0 /\ Bag[pid + 1][p] > 0
  BY AbstractCopies
<1>9. Bag' = [Bag EXCEPT ![pid + 1] =
                [q \in Keys \X Vals |-> IF [l \in Keys |-> Bucket(l)][q[1]] # c THEN Bag[pid + 1][q]
                                        ELSE IF q = p THEN 1 ELSE 0]]
  BY <1>6 DEF Pair, Reindex, Survivor
<1>10. [l \in Keys |-> Bucket(l)][p[1]] = c
  BY <1>2
<1>11. AbstractIndex!Overflow(c, p)
  BY <1>7, <1>8, <1>9, <1>10 DEF AbstractIndex!Overflow, AbstractIndex!Adding, Adding, Bag
<1> QED BY <1>2, <1>11 DEF Pair

-----------------------------------------------------------------------------
(* Every step maps to a step or a stutter.                                 *)

AbstractStep == AbstractIndex!Next \/ UNCHANGED AbstractIndex!vars

(* What is known of the states before and after a step. *)
Sound == /\ IndInv /\ StoreInv /\ SearchInv
         /\ Successors /\ Successors' /\ Chained /\ Chained'

(* All chains stay, and the keys in them. *)
SameKeys ==
  /\ \A g \in Heads : Chain(g)' = Chain(g)
  /\ \A a \in Addrs : mem'[a].key = mem[a].key \/ {mem'[a].key, mem[a].key} \cap Keys = {}

(* A bucket that is initialised held no pair. *)
LEMMA InitBucketBag ==
  ASSUME Sound, NEW t \in Slaves, InitBucket(t)
  PROVE  Stays /\ SameKeys
<1> PICK p : p = ptr[t]
  OBVIOUS
<1>0. TypeOK /\ LaunchInv /\ StoreInv /\ Chained
  BY DEF Sound, IndInv
<1>1. /\ pc[t] = "init" /\ pc'[t] \in {"init", "idle"} /\ UNCHANGED index
      /\ mem' = [mem EXCEPT ![p] = EmptyEntry] /\ \A u \in Slaves : u # t => SameSlave(u)
  <2>1. Step(t)
    BY DEF Step
  <2> QED BY <1>0, <2>1, StepFrame DEF InitBucket, TypeOK
<1>2. p \in Heads /\ p \in Addrs /\ p \notin LiveHeads
  <2>1. /\ opType = "create" /\ pid \in Slots /\ num = pid + 1
        /\ p \in BucketHead(pid, BLOCK_LOW(Rank(t), NrSlaves, NrBuckets))..LastOfBlock(t)
    BY <1>0, <1>1 DEF LaunchInv, Launched, TypeOK
  <2>2. p \in p..LastOfBlock(t)
    BY <2>1
  <2>3. Fresh(p)
    BY <1>1, <2>2 DEF Fresh
  <2>4. p \in Heads
    <3> PICK lo, hi, m : /\ lo = BucketHead(pid, BLOCK_LOW(Rank(t), NrSlaves, NrBuckets))
                         /\ hi = LastOfBlock(t) /\ m = pid * NrBuckets
      OBVIOUS
    <3>0. lo \in Int /\ hi \in Int /\ m < lo /\ hi < FirstNode /\ p \in lo..hi
      BY <2>1, BlockInSlot DEF LastOfBlock
    <3>1. p \in Int /\ pid * NrBuckets < p /\ p < FirstNode
      <4>1. m \in Int
        BY <2>1, SizeAssumption DEF Slots
      <4> QED BY <3>0, <4>1, Layout
    <3>2. pid * NrBuckets \in Nat
      BY <2>1, SizeAssumption DEF Slots
    <3> QED BY <3>1, <3>2, Layout DEF Heads
  <2> QED BY <2>3, <2>4, Layout DEF LiveHeads, Heads, Addrs
<1>3. mem[p].key \notin Keys /\ mem[p].next = Null /\ mem'[p].key \notin Keys /\ mem'[p].next = Null
  <2>1. mem'[p] = EmptyEntry
    BY <1>0, <1>1, <1>2 DEF TypeOK
  <2> QED BY <1>0, <1>2, <2>1, DataAssumption DEF StoreInv, EmptyEntry
<1>4. \A a \in Addrs : a # p => mem'[a] = mem[a]
  BY <1>0, <1>1 DEF TypeOK
<1>5. \A g \in Heads : Chain(g)' = Chain(g)
  BY <1>1, <1>3, <1>4, LinksStay DEF Sound
<1>6. ASSUME NEW s \in Slots, NEW k \in Keys, NEW v \in Vals
      PROVE  Copies(s, k, v)' = Copies(s, k, v)
  <2> PICK g : g = BucketHead(s, Bucket(k))
    OBVIOUS
  <2>1. g \in Heads
    BY BucketType, HeadType
  <2>2. \A a \in Chain(g) : mem'[a].key = k \/ mem[a].key = k =>
           mem'[a].key = mem[a].key /\ mem'[a].val = mem[a].val
    BY <1>0, <1>3, <1>4, <2>1 DEF Chained
  <2> QED BY <1>5, <2>1, <2>2, WithSame DEF Copies
<1>7. SameKeys
  BY <1>3, <1>4, <1>5 DEF SameKeys
<1> QED BY <1>6, <1>7 DEF Stays

(* No slave is about to write a node: all chains stay with what they hold.  *)
LEMMA RestingBag ==
  ASSUME Sound, UNCHANGED mem, \A u \in Slaves : pc[u] # "node" /\ pc'[u] # "node"
  PROVE  Stays /\ SameKeys
<1>1. \A a \in Addrs : Behind(a)' = Behind(a)
  BY BehindStays DEF Sound, Linking
<1>2. \A g \in Heads : Chain(g)' = Chain(g)
  BY <1>1, ChainStays DEF Sound, Chained
<1> QED BY <1>2, MemStays DEF SameKeys

LEMMA IdleBag ==
  ASSUME Sound, UNCHANGED vars
  PROVE  Stays /\ SameKeys
<1>1. UNCHANGED <<index, mem, avail>> /\ \A u \in Slaves : SameSlave(u)
  BY DEF vars, locals, SameSlave
<1>2. \A a \in Addrs : Behind(a)' = Behind(a)
  <2>1. ASSUME NEW a \in Addrs, NEW w \in Slaves
        PROVE  (Linking(w, a)' <=> Linking(w, a)) /\ tail'[w] = tail[w]
    BY <1>1, LinkingStays
  <2> QED BY <1>1, <2>1, BehindStays DEF Sound
<1>3. \A g \in Heads : Chain(g)' = Chain(g)
  BY <1>2, ChainStays DEF Sound, Chained
<1> QED BY <1>1, <1>3, MemStays DEF SameKeys

(* A slave begins an operation. *)
LEMMA CallBag ==
  ASSUME Sound, NEW t \in Slaves, UNCHANGED <<index, mem>>, pc[t] # "node", pc'[t] # "node",
         \A u \in Slaves : u # t => SameSlave(u)
  PROVE  Stays /\ SameKeys
<1>1. \A g \in Heads : Chain(g)' = Chain(g)
  BY LinksStay DEF Sound
<1> QED BY <1>1, MemStays DEF SameKeys

LEMMA QuietBag ==
  ASSUME Sound, NEW t \in Slaves, Step(t), pc[t] \in QuietLabels \cup {"alloc"}
  PROVE  Stays /\ SameKeys /\ UNCHANGED index
<1>1. UNCHANGED <<mem, index>> /\ \A g \in Heads : Chain(g)' = Chain(g)
  BY QuietChains DEF Sound, IndInv
<1> QED BY <1>1, MemStays DEF SameKeys

LEMMA CopiesSome ==
  ASSUME Chained, NEW s \in Slots, NEW k \in Keys, NEW v, NEW x \in With(s, k, v)
  PROVE  Copies(s, k, v) > 0
<1>1. IsFiniteSet(With(s, k, v)) /\ Copies(s, k, v) \in Nat
  BY WithFinite
<1>2. Copies(s, k, v) # 0
  BY <1>1, FS_EmptySet DEF Copies
<1> QED BY <1>1, <1>2

LEMMA CopiesNone ==
  ASSUME NEW s \in Slots, NEW k \in Keys, Entries(s, k) = {}
  PROVE  \A v \in Vals : Copies(s, k, v) = 0
<1>1. ASSUME NEW v \in Vals PROVE Copies(s, k, v) = 0
  <2>1. With(s, k, v) = {}
    BY DEF With
  <2> QED BY <2>1, FS_EmptySet DEF Copies
<1> QED BY <1>1

(* The end of a lookup or of the search of get_or_insert is an answer of   *)
(* the abstract index.                                                     *)
LEMMA FetchRefines ==
  ASSUME Sound, NEW t \in Slaves, LookupFetch(t)
  PROVE  AbstractStep
<1> PICK k, p, s : k = key[t] /\ p = ptr[t] /\ s = pid
  OBVIOUS
<1>0. TypeOK /\ LaunchInv /\ RegisterInv /\ StoreInv /\ SearchInv /\ Chained
  BY DEF Sound, IndInv
<1>1. /\ pc[t] = "fetch" /\ k \in Keys /\ s \in Slots /\ opType \in Finding
      /\ p \in 0..LastNode /\ Registers(t) /\ Pending(t, MyHead(t))
      /\ avail \in Int /\ avail' = avail
      /\ answer' = [answer EXCEPT ![t] =
                      [key |-> k, val |-> IF p = Null THEN 0 ELSE mem[p].val]]
  BY <1>0 DEF LaunchInv, Launched, RegisterInv, TypeOK, LookupFetch, StoreInv
<1>2. Bag' = Bag /\ UNCHANGED index
  <2>1. Step(t)
    BY DEF Step, Lookup
  <2>2. Stays /\ UNCHANGED index
    BY <1>1, <2>1, QuietBag DEF QuietLabels
  <2> QED BY <2>2, BagStays DEF Sound
<1>3. num' = num /\ indexId' = indexId /\ pid' = pid /\ opType' = opType
      /\ (avail' > LastNode) = (avail > LastNode) /\ pid + 1 # 0
  BY <1>1, <1>2, SizeAssumption DEF index, Slots
<1>4. CASE p = Null
  <2>1. opType = "lookup"
    BY <1>1, <1>4 DEF Pending, Finding
  <2>2. Entries(s, k) = {}
    BY <1>0, <1>1, <1>4, <2>1 DEF SearchInv, MissMeansAbsent
  <2>3. \A v \in Vals : Bag[pid + 1][<<k, v>>] = 0
    BY <1>0, <1>1, <2>2, CopiesNone, AbstractCopies
  <2>4. AbstractIndex!Absent(k)
    BY <2>3 DEF AbstractIndex!Absent, Bag
  <2>5. answer' = [answer EXCEPT ![t] = [key |-> k, val |-> 0]]
    BY <1>1, <1>4
  <2>6. AbstractIndex!Lookup(t, k)
    BY <1>2, <1>3, <2>1, <2>4, <2>5 DEF AbstractIndex!Lookup, Bag
  <2> QED BY <1>1, <2>6 DEF AbstractStep, AbstractIndex!Next
<1>5. CASE p # Null
  <2> PICK v : v = mem[p].val
    OBVIOUS
  <2>1. mem[p].key = k /\ p \in Addrs
    BY <1>1, <1>5 DEF Registers, WalkRegisters, Addrs, Null
  <2>2. v \in Vals
    BY <1>0, <1>1, <2>1 DEF StoreInv
  <2>3. Bag[pid + 1][<<k, v>>] > 0 \/ (opType = "get_or_insert" /\ avail > LastNode)
    <3>1. CASE opType = "get_or_insert" /\ ~RoomLeft
      BY <1>1, <3>1, Layout DEF RoomLeft
    <3>2. CASE opType = "lookup" \/ RoomLeft
      <4>1. p \in Entries(s, k)
        BY <1>0, <1>1, <1>5, <3>2 DEF SearchInv, FoundStaysFound
      <4>2. p \in With(s, k, v)
        BY <4>1 DEF With
      <4> QED BY <1>0, <1>1, <2>2, <4>2, CopiesSome, AbstractCopies
    <3> QED BY <1>1, <3>1, <3>2 DEF Finding
  <2>4. answer' = [answer EXCEPT ![t] = [key |-> k, val |-> v]]
    BY <1>1, <1>5
  <2>5. AbstractIndex!Lookup(t, k)
    BY <1>1, <1>2, <1>3, <2>2, <2>3, <2>4 DEF AbstractIndex!Lookup, Bag, Finding
  <2> QED BY <1>1, <2>5 DEF AbstractStep, AbstractIndex!Next
<1> QED BY <1>4, <1>5

(* The table of indexes as a sequence. *)
LEMMA Table ==
  ASSUME NEW n \in Nat, NEW f, NEW q, q = [i \in 1..n |-> f[i - 1]]
  PROVE  Len(q) = n /\ DOMAIN q = 1..n /\ \A i \in 1..n : q[i] = f[i - 1]
OBVIOUS

LEMMA SequenceIsFunction ==
  ASSUME NEW S, NEW A \in Seq(S)
  PROVE  A = [i \in DOMAIN A |-> A[i]]
OBVIOUS

(* Create adds an index to the table, and its bag is empty. *)
LEMMA CreateRefines ==
  ASSUME Sound, NEW id \in Ids, BeginCreate(id)
  PROVE  AbstractStep
<1>0. TypeOK
  BY DEF Sound, IndInv
<1>1. Bag' = Bag /\ avail' = avail /\ opType' = "create"
  <2>1. \A u \in Slaves : pc[u] # "node" /\ pc'[u] # "node"
    BY DEF BeginCreate, AllIdle
  <2>2. Stays
    BY <2>1, RestingBag DEF BeginCreate
  <2> QED BY <2>2, BagStays DEF Sound, BeginCreate
<1>2. answer' = AbstractIndex!NoAnswer
  BY DEF BeginCreate, NoAnswer, AbstractIndex!NoAnswer
<1> PICK T, U : T = [i \in 1..num |-> indexId[i - 1]] /\ U = [i \in 1..num |-> indexId[i - 1]]'
  OBVIOUS
<1>3. num \in Nat /\ num <= MaxIndexes /\ MaxIndexes \in Nat /\ Len(T) = num
  BY <1>0, SizeAssumption, Table DEF TypeOK
<1>4. CASE num >= MaxIndexes
  <2>1. pid' + 1 = 0 /\ U = T /\ Len(T) = MaxIndexes
    BY <1>3, <1>4 DEF BeginCreate, NoSlot
  <2>2. AbstractIndex!Create(id)
    BY <1>1, <1>2, <2>1 DEF AbstractIndex!Create, Bag
  <2> QED BY <2>2 DEF AbstractStep, AbstractIndex!Next
<1>5. CASE num < MaxIndexes
  <2>1. pid' = num /\ num' = num + 1 /\ indexId' = [indexId EXCEPT ![num] = id]
    BY <1>3, <1>5 DEF BeginCreate
  <2>2. indexId \in [Slots -> Ids \cup {NoId}] /\ num \in Slots
    BY <1>0, <1>3, <1>5 DEF TypeOK, Slots
  <2>3. U = Append(T, id)
    <3>1. /\ Len(U) = num + 1 /\ DOMAIN U = 1..(num + 1)
          /\ U = [i \in 1..(num + 1) |-> indexId'[i - 1]]
      BY <1>3, <2>1, Table
    <3>2. T \in Seq(Ids \cup {NoId}) /\ DOMAIN T = 1..num
      <4>1. \A i \in 1..num : indexId[i - 1] \in Ids \cup {NoId}
        BY <1>3, <2>2 DEF Slots
      <4> QED BY <1>3, <4>1
    <3>3. /\ Append(T, id) \in Seq(Ids \cup {NoId}) /\ DOMAIN Append(T, id) = 1..(num + 1)
          /\ Append(T, id)[num + 1] = id
          /\ \A i \in 1..num : Append(T, id)[i] = T[i]
      BY <1>3, <3>2
    <3>4. ASSUME NEW i \in 1..(num + 1) PROVE U[i] = Append(T, id)[i]
      <4>1. U[i] = indexId'[i - 1]
        BY <3>1
      <4>2. CASE i = num + 1
        BY <1>3, <2>1, <2>2, <3>3, <4>1, <4>2
      <4>3. CASE i # num + 1
        <5>1. i \in 1..num /\ i - 1 \in Slots /\ i - 1 # num
          BY <1>3, <2>2, <4>3 DEF Slots
        <5>2. T[i] = indexId[i - 1]
          BY <5>1
        <5> QED BY <2>1, <2>2, <3>3, <4>1, <5>1, <5>2
      <4> QED BY <4>2, <4>3
    <3>5. U = [i \in 1..(num + 1) |-> U[i]] /\ Append(T, id) = [i \in 1..(num + 1) |-> Append(T, id)[i]]
      <4> PICK A, D, S : A = Append(T, id) /\ D = 1..(num + 1) /\ S = Ids \cup {NoId}
        OBVIOUS
      <4>1. A \in Seq(S) /\ DOMAIN A = D
        BY <3>3
      <4>3. A = [i \in D |-> A[i]]
        <5>1. A = [i \in DOMAIN A |-> A[i]]
          BY <4>1, SequenceIsFunction
        <5> QED BY <4>1, <5>1
      <4>4. U = [i \in D |-> U[i]]
        BY <3>1
      <4> QED BY <4>3, <4>4
    <3>6. [i \in 1..(num + 1) |-> U[i]] = [i \in 1..(num + 1) |-> Append(T, id)[i]]
      BY <3>4
    <3> QED BY <3>5, <3>6
  <2>4. AbstractIndex!Create(id)
    BY <1>1, <1>2, <1>3, <1>5, <2>1, <2>3 DEF AbstractIndex!Create, Bag
  <2> QED BY <2>4 DEF AbstractStep, AbstractIndex!Next
<1> QED BY <1>3, <1>4, <1>5

(* An operation opens the index whose id it was given. *)
LEMMA OpenRefines ==
  ASSUME Sound, NEW id \in Ids, NEW type \in Operations, BeginOp(type, id)
  PROVE  AbstractStep
<1>0. TypeOK
  BY DEF Sound, IndInv
<1>1. Bag' = Bag /\ avail' = avail /\ opType' = type /\ num' = num /\ indexId' = indexId
  <2>1. \A u \in Slaves : pc[u] # "node" /\ pc'[u] # "node"
    BY DEF BeginOp, AllIdle
  <2>2. Stays
    BY <2>1, RestingBag DEF BeginOp
  <2> QED BY <2>2, BagStays DEF Sound, BeginOp
<1>2. answer' = AbstractIndex!NoAnswer
  BY DEF BeginOp, NoAnswer, AbstractIndex!NoAnswer
<1> PICK T, found : /\ T = [i \in 1..num |-> indexId[i - 1]]
                    /\ found = {i \in DOMAIN T : T[i] = id}
  OBVIOUS
<1>3. num \in Nat /\ num <= MaxIndexes /\ MaxIndexes \in Nat
      /\ DOMAIN T = 1..num /\ \A i \in 1..num : T[i] = indexId[i - 1]
  BY <1>0, SizeAssumption, Table DEF TypeOK
<1>4. \A i : i \in found <=> i \in 1..num /\ i - 1 \in SlotsOf(id)
  BY <1>3 DEF SlotsOf, Slots
<1>5. \A s \in SlotsOf(id) : s \in Int /\ s + 1 \in found /\ (s + 1) - 1 = s
  BY <1>3, <1>4 DEF SlotsOf, Slots
<1>6. CASE SlotsOf(id) = {} /\ pid' = NoSlot
  <2>1. found = {} /\ pid' + 1 = 0
    BY <1>4, <1>6 DEF NoSlot
  <2>2. AbstractIndex!Open(type, id)
    BY <1>1, <1>2, <2>1 DEF AbstractIndex!Open, Bag
  <2> QED BY <2>2 DEF AbstractStep, AbstractIndex!Next, AbstractIndex!Kinds, Operations
<1>7. ASSUME NEW s \in Slots, IsFirst(s, id), pid' = s PROVE AbstractStep
  <2>1. pid' + 1 \in found /\ \A j \in found : pid' + 1 <= j
    <3>1. pid' + 1 \in found
      BY <1>5, <1>7 DEF IsFirst
    <3>2. ASSUME NEW j \in found PROVE pid' + 1 <= j
      <4>1. j \in Int /\ s \in Int /\ s <= j - 1
        <5> PICK r : r = j - 1
          OBVIOUS
        <5>0. j \in 1..num /\ j - 1 \in SlotsOf(id)
          BY <1>4, <3>2
        <5>1. j \in Int /\ r \in SlotsOf(id) /\ s \in SlotsOf(id)
          BY <1>3, <1>7, <5>0 DEF IsFirst
        <5>2. s \in Int /\ s <= r
          BY <1>5, <1>7, <5>1 DEF IsFirst
        <5> QED BY <5>1, <5>2
      <4> QED BY <1>7, <4>1
    <3> QED BY <3>1, <3>2
  <2>2. AbstractIndex!Open(type, id)
    BY <1>1, <1>2, <2>1 DEF AbstractIndex!Open, Bag
  <2> QED BY <2>2 DEF AbstractStep, AbstractIndex!Next, AbstractIndex!Kinds, Operations
<1> QED BY <1>6, <1>7 DEF BeginOp

(* A slave writes: an entry comes, goes or takes another value.            *)
LEMMA WriterRefines ==
  ASSUME Sound, NEW t \in Slaves, Step(t), pc[t] \in WriterLabels \cup {"patch"}
  PROVE  AbstractStep
<1> PICK h, s : h = MyHead(t) /\ s = pid
  OBVIOUS
<1>0. /\ IndInv /\ StoreInv /\ SearchInv /\ TypeOK /\ LaunchInv
      /\ Successors /\ Successors' /\ Chained /\ Chained'
  BY DEF Sound, IndInv
<1>1. /\ s \in Slots /\ key[t] \in Keys /\ Launched(t) /\ avail \in Int
  BY <1>0 DEF LaunchInv, Launched, TypeOK, Critical, WriterLabels
<1>2. RestStays
  <2>1. UNCHANGED index /\ avail' = avail
    BY <1>0, StepFrame DEF WriterLabels
  <2>2. answer' = answer
    BY <1>0, StepCasesByLabel DEF WriterLabels, QuietLabels, InitBucket, InsertPut, InsertAlloc,
       InsertLink, InsertNode, DeleteHead, DeleteUnlink, UpdatePatch
  <2> QED BY <2>1, <2>2 DEF RestStays
<1>3. ASSUME pc[t] \in {"put", "node"}, opType = "get_or_insert"
      PROVE  \A w \in Vals : Copies(s, key[t], w) = 0
  <2>1. Entries(s, key[t]) = {}
    BY <1>0, <1>3 DEF SearchInv, MissMeansAbsent
  <2> QED BY <1>1, <2>1, CopiesNone
<1>4. ASSUME Stays PROVE AbstractStep
  BY <1>0, <1>2, <1>4, AbstractStutter DEF AbstractStep
<1>5. CASE InsertPut(t)
  <2>1. Changes(s, key[t], val[t], 1)
    BY <1>0, <1>1, <1>5, PutBag
  <2>2. opType \in Adding /\ val[t] \in Vals /\ pc[t] = "put"
    BY <1>0, <1>5, PutEffect
  <2>3. AbstractIndex!Insert(key[t], val[t])
    BY <1>0, <1>1, <1>2, <1>3, <2>1, <2>2, AbstractInsert
  <2> QED BY <1>1, <2>2, <2>3 DEF AbstractStep, AbstractIndex!Next
<1>6. CASE InsertLink(t)
  <2>1. CASE buf[t].next # Null
    BY <1>0, <1>1, <1>4, <1>6, <2>1, LinkBag
  <2>2. CASE buf[t].next = Null
    <3> PICK k, v, c : k = mem[h].key /\ v = mem[h].val /\ c = Bucket(key[t])
      OBVIOUS
    <3>1. Collapses(s, c, k, v) /\ Copies(s, k, v) > 0
      BY <1>0, <1>1, <1>6, <2>2, LinkBag
    <3>2. opType \in Adding /\ ~RoomLeft /\ k \in Keys /\ h \in LiveHeads
      BY <1>0, <1>6, <2>2, LinkEffect
    <3>3. v \in Vals /\ Bucket(k) = c
      <4>1. h \in Heads /\ h \in Addrs
        BY <3>2, Layout DEF LiveHeads, Heads, Addrs
      <4>2. Hosts(h, k)
        BY <1>0, <3>2, DataAssumption DEF IndInv, ChainShape, HeadShape
      <4>3. PICK r \in Slots : h = BucketHead(r, Bucket(k))
        BY <4>2 DEF Hosts
      <4>4. Bucket(k) \in Buckets /\ c \in Buckets /\ h = BucketHead(s, c)
        BY <1>1, <3>2, BucketType DEF MyHead
      <4>5. BucketHead(r, Bucket(k)) = BucketHead(s, c)
        BY <4>3, <4>4
      <4>6. Bucket(k) = c
        BY <1>1, <4>4, <4>5, HeadsDiffer
      <4> QED BY <1>0, <3>2, <4>1, <4>6 DEF StoreInv
    <3>4. \E p \in Keys \X Vals : AbstractIndex!Overflow(c, p)
      BY <1>0, <1>1, <1>2, <3>1, <3>2, <3>3, AbstractOverflow
    <3>5. c \in {[l \in Keys |-> Bucket(l)][q] : q \in Keys}
      BY <1>1
    <3> QED BY <3>4, <3>5 DEF AbstractStep, AbstractIndex!Next
  <2> QED BY <2>1, <2>2
<1>7. CASE InsertNode(t)
  <2>1. CASE ptr[t] = Null
    BY <1>0, <1>1, <1>4, <1>7, <2>1, NodeBag
  <2>2. CASE ptr[t] # Null
    <3>1. Changes(s, key[t], val[t], 1)
      BY <1>0, <1>1, <1>7, <2>2, NodeBag
    <3>2. opType \in Adding /\ val[t] \in Vals /\ pc[t] = "node"
      BY <1>0, <1>7, NodeEffect
    <3>3. AbstractIndex!Insert(key[t], val[t])
      BY <1>0, <1>1, <1>2, <1>3, <3>1, <3>2, AbstractInsert
    <3> QED BY <1>1, <3>2, <3>3 DEF AbstractStep, AbstractIndex!Next
  <2> QED BY <2>1, <2>2
<1>8. CASE DeleteHead(t)
  <2> PICK v : v = mem[h].val
    OBVIOUS
  <2>1. Changes(s, key[t], v, -1) /\ Copies(s, key[t], v) > 0 /\ v \in Vals
    BY <1>0, <1>1, <1>8, HeadBag
  <2>2. opType = "delete"
    BY <1>0, <1>8, HeadEffect
  <2>3. AbstractIndex!Delete(key[t], v)
    BY <1>0, <1>1, <1>2, <2>1, <2>2, AbstractDelete
  <2> QED BY <1>1, <2>1, <2>3 DEF AbstractStep, AbstractIndex!Next
<1>9. CASE DeleteUnlink(t)
  <2> PICK x, v : x = mem[ptr[t]].next /\ v = mem[x].val
    OBVIOUS
  <2>1. ptr[t] \in Chain(MyHead(t))
    BY <1>0, <1>9 DEF SearchInv, Searching, DeleteUnlink
  <2>2. Changes(s, key[t], v, -1) /\ Copies(s, key[t], v) > 0 /\ v \in Vals
    BY <1>0, <1>1, <1>9, <2>1, UnlinkBag
  <2>3. opType = "delete"
    BY <1>0, <1>9, UnlinkEffect
  <2>4. AbstractIndex!Delete(key[t], v)
    BY <1>0, <1>1, <1>2, <2>2, <2>3, AbstractDelete
  <2> QED BY <1>1, <2>2, <2>4 DEF AbstractStep, AbstractIndex!Next
<1>10. CASE UpdatePatch(t)
  <2> PICK v, w : v = mem[ptr[t]].val /\ w = val[t]
    OBVIOUS
  <2>1. \/ Stays
        \/ v \in Vals /\ v # w /\ Copies(s, key[t], v) > 0 /\ Moves(s, key[t], v, w)
    BY <1>0, <1>1, <1>10, PatchBag
  <2>2. opType = "update" /\ w \in Vals
    BY <1>0, <1>10, PatchEffect
  <2>3. CASE ~Stays
    <3>1. v \in Vals /\ AbstractIndex!Update(key[t], v, w)
      BY <1>0, <1>1, <1>2, <2>1, <2>2, <2>3, AbstractUpdate
    <3> QED BY <1>1, <2>2, <3>1 DEF AbstractStep, AbstractIndex!Next
  <2> QED BY <1>4, <2>3
<1> QED
  BY <1>0, <1>5, <1>6, <1>7, <1>8, <1>9, <1>10, StepCasesByLabel
     DEF WriterLabels, QuietLabels, InitBucket, InsertAlloc

(* A slave allocates a node: the region may run out with it. *)
LEMMA AllocRefines ==
  ASSUME Sound, NEW t \in Slaves, InsertAlloc(t)
  PROVE  AbstractStep
<1>0. TypeOK /\ LaunchInv
  BY DEF Sound, IndInv
<1>1. pc[t] = "alloc" /\ opType \in Adding /\ answer' = answer /\ avail \in Int
  BY <1>0 DEF InsertAlloc, LaunchInv, Launched, TypeOK
<1>2. avail' = avail \/ (avail' = avail + 1 /\ avail <= LastNode)
  BY DEF InsertAlloc, RoomLeft
<1>3. Stays /\ UNCHANGED index
  <2>1. Step(t)
    BY DEF Step, Insert
  <2> QED BY <1>1, <2>1, QuietBag
<1>4. CASE (avail' > LastNode) <=> (avail > LastNode)
  BY <1>1, <1>3, <1>4, AbstractStutter DEF AbstractStep, RestStays, Sound
<1>5. CASE ~((avail' > LastNode) <=> (avail > LastNode))
  <2>1. (avail' > LastNode) = TRUE
    BY <1>1, <1>2, <1>5, Layout
  <2>2. Bag' = Bag
    BY <1>3, BagStays DEF Sound
  <2>3. num' = num /\ indexId' = indexId /\ pid' = pid /\ opType' = opType
    BY <1>3 DEF index
  <2>4. AbstractIndex!Spend
    BY <1>1, <2>1, <2>2, <2>3 DEF AbstractIndex!Spend, AbstractIndex!Adding, Adding, Bag
  <2> QED BY <2>4 DEF AbstractStep, AbstractIndex!Next
<1> QED BY <1>4, <1>5

(* A step of a slave is a step or a stutter of the abstract index. *)
LEMMA StepRefines ==
  ASSUME Sound, NEW t \in Slaves, Step(t)
  PROVE  AbstractStep
<1>0. TypeOK /\ LaunchInv /\ Chained /\ Chained'
  BY DEF Sound, IndInv
<1>1. CASE InitBucket(t)
  <2>1. Stays
    BY <1>1, InitBucketBag
  <2>2. RestStays
    BY <1>1 DEF RestStays, InitBucket
  <2> QED BY <1>0, <2>1, <2>2, AbstractStutter DEF AbstractStep
<1>2. CASE pc[t] \in WriterLabels \cup {"patch"}
  BY <1>2, WriterRefines
<1>3. CASE InsertAlloc(t)
  BY <1>3, AllocRefines
<1>4. CASE LookupFetch(t)
  BY <1>4, FetchRefines
<1>5. CASE pc[t] \in QuietLabels /\ ~LookupFetch(t)
  <2>1. Stays /\ UNCHANGED index
    BY <1>5, QuietBag
  <2>2. avail' = avail /\ answer' = answer
    BY <1>5, StepCases DEF QuietLabels, InitBucket, Lock, Unlock, UsedLoad, UsedStore,
       InsertRead, InsertPut, InsertAlloc, InsertLink, InsertNode, DeleteRead, DeletePull,
       DeleteHead, DeleteWalk, DeleteUnlink, LookupRead, LookupWalk, LookupFetch, UpdatePeek,
       UpdatePatch
  <2> QED BY <1>0, <2>1, <2>2, AbstractStutter DEF AbstractStep, RestStays
<1> QED
  BY <1>0, <1>1, <1>2, <1>3, <1>4, <1>5, StepCasesByLabel
     DEF InsertPut, InsertLink, InsertNode, DeleteHead, DeleteUnlink, UpdatePatch, WriterLabels

LEMMA InitRefines == Init => AbstractIndex!Init
<1> SUFFICES ASSUME Init PROVE AbstractIndex!Init
  OBVIOUS
<1>1. \A s \in Slots, k \in Keys : Entries(s, k) = {}
  <2>1. IndInv /\ StoreInv
    BY InitType, LaunchInit, LockInit, ShapeInit, StoreInit DEF IndInv
  <2>2. Chained
    BY <2>1, ChainsHold
  <2>3. \A a \in Addrs : mem[a].key \notin Keys
    BY DataAssumption DEF Init, Junk
  <2>4. ASSUME NEW s \in Slots, NEW k \in Keys PROVE Entries(s, k) = {}
    <3>1. Chain(BucketHead(s, Bucket(k))) \subseteq Addrs
      BY <2>2, BucketType, HeadType DEF Chained
    <3> QED BY <2>3, <3>1 DEF Entries
  <2> QED BY <2>4
<1>2. \A s \in Slots : Pairs(s) = [p \in Keys \X Vals |-> 0]
  <2>1. ASSUME NEW s \in Slots, NEW p \in Keys \X Vals
        PROVE  Cardinality({a \in Entries(s, p[1]) : mem[a].val = p[2]}) = 0
    <3>1. Entries(s, p[1]) = {}
      BY <1>1
    <3> QED BY <3>1, FS_EmptySet
  <2> QED BY <2>1 DEF Pairs
<1>3. \A i \in 1..MaxIndexes : i - 1 \in Slots
  BY SizeAssumption DEF Slots
<1>4. [i \in 1..MaxIndexes |-> Pairs(i - 1)] = [i \in 1..MaxIndexes |-> [p \in Keys \X Vals |-> 0]]
  BY <1>2, <1>3
<1>5. num = 0 /\ opType = "none" /\ pid + 1 = 0
  BY DEF Init, NoSlot
<1>6. [i \in 1..num |-> indexId[i - 1]] = << >>
  BY <1>5
<1>7. answer = AbstractIndex!NoAnswer
  BY DEF Init, NoAnswer, AbstractIndex!NoAnswer
<1>8. (avail > LastNode) \in BOOLEAN
  BY Layout DEF Init
<1> QED
  BY <1>4, <1>5, <1>6, <1>7, <1>8
     DEF AbstractIndex!Init, AbstractIndex!Positions, AbstractIndex!NoPairs

(* The indexes of a DPU are bags of pairs, whatever the slaves interleave.  *)
THEOREM Refinement == Spec => ImplementsPrimaryIndex
<1>1. Init => AbstractIndex!Init
  BY InitRefines
<1>2. /\ IndInv /\ StoreInv /\ SearchInv /\ (IndInv /\ StoreInv)' /\ [Next]_vars
      => [AbstractIndex!Next]_(AbstractIndex!vars)
  <2> SUFFICES ASSUME IndInv, StoreInv, SearchInv, (IndInv /\ StoreInv)', [Next]_vars
               PROVE  AbstractStep
    BY DEF AbstractStep
  <2>1. Sound
    BY ChainsHold, ChainsNext DEF Sound
  <2>2. TypeOK
    BY DEF IndInv
  <2>3. ASSUME NEW id \in Ids, BeginCreate(id) PROVE AbstractStep
    BY <2>1, <2>3, CreateRefines
  <2>4. ASSUME NEW id \in Ids, NEW type \in Operations, BeginOp(type, id) PROVE AbstractStep
    BY <2>1, <2>4, OpenRefines
  <2>5. ASSUME NEW t \in Slaves, Step(t) PROVE AbstractStep
    BY <2>1, <2>5, StepRefines
  <2>6. ASSUME Stays, RestStays PROVE AbstractStep
    BY <2>1, <2>6, AbstractStutter DEF AbstractStep, Sound
  <2>7. ASSUME NEW t \in Slaves, NEW k \in Keys, NEW v \in Vals \cup {0}, Call(t, k, v)
        PROVE  AbstractStep
    <3>1. /\ UNCHANGED <<index, mem, avail, answer>> /\ pc[t] # "node" /\ pc'[t] # "node"
          /\ \A u \in Slaves : u # t => SameSlave(u)
      BY <2>2, <2>7, CallFrame DEF Call, Goto, TypeOK
    <3>2. Stays /\ RestStays
      BY <2>1, <3>1, CallBag DEF RestStays
    <3> QED BY <2>6, <3>2
  <2>8. ASSUME NEW t \in Slaves, NEW a \in Addrs, NEW v \in Vals, CallUpdate(t, a, v)
        PROVE  AbstractStep
    <3>1. /\ UNCHANGED <<index, mem, avail, answer>> /\ pc[t] # "node" /\ pc'[t] # "node"
          /\ \A u \in Slaves : u # t => SameSlave(u)
      BY <2>2, <2>8, CallUpdateFrame DEF CallUpdate, Goto, TypeOK
    <3>2. Stays /\ RestStays
      BY <2>1, <3>1, CallBag DEF RestStays
    <3> QED BY <2>6, <3>2
  <2>9. CASE UNCHANGED vars
    <3>1. Stays /\ RestStays
      BY <2>1, <2>9, IdleBag DEF RestStays, vars
    <3> QED BY <2>6, <3>1
  <2> QED BY <2>3, <2>4, <2>5, <2>7, <2>8, <2>9 DEF Next, Work, Begin
<1> QED
  BY Invariance, Stored, SearchesRight, <1>1, <1>2, PTL
     DEF Spec, ImplementsPrimaryIndex, AbstractIndex!Spec

-----------------------------------------------------------------------------
(* The counter used.                                                       *)

(* Those in the bucket with number c, whose head is h, and the others. *)
Own(h, c) == {a \in Chain(h) : mem[a].key \in Keys /\ Bucket(mem[a].key) = c}
Others(s, c) == UNION {Entries(s, k) : k \in {l \in Keys : Bucket(l) # c}}

(* The entries of a slot are those of one bucket and those of the others.  *)
LEMMA ContentSplit ==
  ASSUME Chained, NEW s \in Slots, NEW c \in Buckets, NEW h, h = BucketHead(s, c)
  PROVE  Content(s) = Others(s, c) \cup Own(h, c) /\ Others(s, c) \cap Chain(h) = {}
<1>1. Content(s) = Others(s, c) \cup Own(h, c)
  <2>1. ASSUME NEW a PROVE a \in Content(s) <=> a \in Others(s, c) \cup Own(h, c)
    <3>1. a \in Content(s) <=> \E k \in Keys : a \in Entries(s, k)
      BY DEF Content
    <3>2. a \in Others(s, c) <=> \E k \in Keys : Bucket(k) # c /\ a \in Entries(s, k)
      BY DEF Others
    <3>3. a \in Own(h, c) <=> \E k \in Keys : Bucket(k) = c /\ a \in Entries(s, k)
      BY DEF Own, Entries
    <3> QED BY <3>1, <3>2, <3>3
  <2> QED BY <2>1
<1>2. ASSUME NEW a \in Others(s, c), a \in Chain(h) PROVE FALSE
  <2>1. PICK k \in Keys : Bucket(k) # c /\ a \in Chain(BucketHead(s, Bucket(k)))
    BY <1>2 DEF Others, Entries
  <2>2. Bucket(k) \in Buckets /\ BucketHead(s, Bucket(k)) \in Heads /\ h \in Heads
    BY BucketType, HeadType
  <2>3. BucketHead(s, Bucket(k)) = h
    BY <1>2, <2>1, <2>2, ChainsApart
  <2> QED BY <2>1, <2>2, <2>3, HeadsDiffer
<1> QED BY <1>1, <1>2

SplitInv ==
  \A s \in Slots, c \in Buckets :
    /\ Content(s) = Others(s, c) \cup Own(BucketHead(s, c), c)
    /\ Others(s, c) \cap Chain(BucketHead(s, c)) = {}

LEMMA SplitHolds == Chained => SplitInv
BY ContentSplit DEF SplitInv

LEMMA SplitNext == Chained' => SplitInv'
BY SplitHolds, PTL

(* A slot has finitely many entries.                                       *)
LEMMA ContentFinite ==
  ASSUME Chained, NEW s \in Slots
  PROVE  IsFiniteSet(Content(s)) /\ Number(s) \in Nat
<1>1. Content(s) \in SUBSET Addrs
  <2>1. \A k \in Keys : Entries(s, k) \subseteq Addrs
    BY BucketType, HeadType DEF Entries, Chained
  <2> QED BY <2>1 DEF Content
<1>2. IsFiniteSet(Addrs)
  BY Layout, FS_Interval DEF Addrs
<1> QED BY <1>1, <1>2, FS_Subset, FS_CardinalityType DEF Number

(* Entries that stay with their keys are counted as before. *)
LEMMA NumberSame ==
  ASSUME Chained, SameKeys
  PROVE  \A s \in Slots : Number(s)' = Number(s)
<1>1. ASSUME NEW s \in Slots, NEW k \in Keys PROVE Entries(s, k)' = Entries(s, k)
  <2> PICK g : g = BucketHead(s, Bucket(k))
    OBVIOUS
  <2>1. g \in Heads
    BY BucketType, HeadType
  <2>2. Chain(g)' = Chain(g) /\ Chain(g) \subseteq Addrs
    BY <2>1 DEF SameKeys, Chained
  <2>3. \A a \in Addrs : mem'[a].key = k <=> mem[a].key = k
    BY DEF SameKeys
  <2>4. /\ Entries(s, k) = {a \in Chain(g) : mem[a].key = k}
        /\ Entries(s, k)' = {a \in Chain(g)' : mem'[a].key = k}
    BY DEF Entries
  <2> QED BY <2>2, <2>3, <2>4
<1>2. ASSUME NEW s \in Slots PROVE Content(s)' = Content(s)
  <2>1. Content(s)' = UNION {Entries(s, k)' : k \in Keys}
    BY DEF Content
  <2> QED BY <1>1, <2>1 DEF Content
<1> QED BY <1>2 DEF Number

(* A slave that writes leaves alone all entries outside its bucket.  What   *)
(* it does to those inside is what it does to the entries of the index.    *)
LEMMA WriterContent ==
  ASSUME TypeOK, LaunchInv, Successors, Successors', Chained, Chained',
         NEW t \in Slaves, Writes(t), key'[t] = key[t],
         NEW h, h = MyHead(t), NEW c, c = Bucket(key[t]), NEW s, s = pid
  PROVE  /\ s \in Slots /\ \A r \in Slots : r # s => Number(r)' = Number(r)
         /\ \A x : /\ Own(h, c)' = Own(h, c) \cup {x} /\ x \notin Own(h, c) =>
                        Number(s)' = Number(s) + 1
                   /\ Own(h, c)' = Own(h, c) \ {x} /\ x \in Own(h, c) =>
                        Number(s)' = Number(s) - 1
         /\ Own(h, c)' = Own(h, c) => Number(s)' = Number(s)
<1>1. s \in Slots /\ c \in Buckets /\ h = BucketHead(s, c) /\ h \in Heads
  BY BucketType, MyHeadType DEF MyHead, Writes, LaunchInv, Launched
<1>2. ASSUME NEW r \in Slots, NEW k \in Keys, r # s \/ Bucket(k) # c
      PROVE  Entries(r, k)' = Entries(r, k)
  <2> PICK g : g = BucketHead(r, Bucket(k))
    OBVIOUS
  <2>1. g \in Heads /\ g # h
    BY <1>1, <1>2, BucketType, HeadType, HeadsDiffer
  <2>2. Chain(g)' = Chain(g) /\ \A a \in Chain(g) : mem'[a] = mem[a]
    BY <2>1, ChainElsewhere
  <2>3. /\ Entries(r, k) = {a \in Chain(g) : mem[a].key = k}
        /\ Entries(r, k)' = {a \in Chain(g)' : mem'[a].key = k}
    BY DEF Entries
  <2> QED BY <2>2, <2>3
<1>3. ASSUME NEW r \in Slots, r # s PROVE Number(r)' = Number(r)
  <2>1. Content(r)' = UNION {Entries(r, k)' : k \in Keys}
    BY DEF Content
  <2>2. Content(r)' = Content(r)
    BY <1>2, <1>3, <2>1 DEF Content
  <2> QED BY <2>2 DEF Number
<1>4. Others(s, c)' = Others(s, c)
  <2>1. Others(s, c)' = UNION {Entries(s, k)' : k \in {l \in Keys : Bucket(l) # c}}
    BY DEF Others, Bucket
  <2> QED BY <1>1, <1>2, <2>1 DEF Others
<1> PICK O, W, V : O = Others(s, c) /\ W = Own(h, c) /\ V = Own(h, c)'
  OBVIOUS
<1>5. Content(s) = O \cup W /\ O \cap W = {}
  BY <1>1, ContentSplit DEF Own
<1>6. Content(s)' = O \cup V /\ O \cap V = {}
  <2>1. /\ Content(s)' = Others(s, c)' \cup Own(h, c)'
        /\ Others(s, c)' \cap Chain(h)' = {}
    <3>1. SplitInv'
      BY SplitNext
    <3>2. Others(s, c)' \cap Chain(BucketHead(s, c))' = {}
      BY <1>1, <3>1 DEF SplitInv
    <3>3. Content(s)' = Others(s, c)' \cup Own(BucketHead(s, c), c)'
      BY <1>1, <3>1 DEF SplitInv
    <3> QED BY <1>1, <3>2, <3>3
  <2>2. Own(h, c)' \subseteq Chain(h)'
    BY DEF Own
  <2> QED BY <1>4, <2>1, <2>2
<1>7. IsFiniteSet(Content(s)) /\ Number(s) \in Nat
  BY <1>1, ContentFinite
<1>8. ASSUME NEW x, V = W \cup {x}, x \notin W PROVE Number(s)' = Number(s) + 1
  <2>1. Content(s)' = Content(s) \cup {x} /\ x \notin Content(s)
    BY <1>5, <1>6, <1>8
  <2>2. Cardinality(Content(s) \cup {x}) = Cardinality(Content(s)) + 1
    BY <1>7, <2>1, FS_AddElement
  <2> QED BY <2>1, <2>2 DEF Number
<1>9. ASSUME NEW x, V = W \ {x}, x \in W PROVE Number(s)' = Number(s) - 1
  <2>1. Content(s)' = Content(s) \ {x} /\ x \in Content(s)
    BY <1>5, <1>6, <1>9
  <2>2. Cardinality(Content(s) \ {x}) = Cardinality(Content(s)) - 1
    BY <1>7, <2>1, FS_RemoveElement
  <2>3. Number(s)' = Cardinality(Content(s) \ {x})
    BY <2>1 DEF Number
  <2> QED BY <2>2, <2>3 DEF Number
<1>10. V = W => Number(s)' = Number(s)
  BY <1>5, <1>6 DEF Number
<1> QED BY <1>1, <1>3, <1>8, <1>9, <1>10

(* The slot the launch works on gains d entries, the others keep theirs. *)
Gains(s, d) ==
  /\ s \in Slots /\ Number(s)' = Number(s) + d
  /\ \A r \in Slots : r # s => Number(r)' = Number(r)

(* What the writes of the operations do to the number of entries.          *)
LEMMA PutNumber ==
  ASSUME IndInv, StoreInv, Successors, Successors', Chained, Chained',
         NEW t \in Slaves, InsertPut(t), NEW s, s = pid
  PROVE  Gains(s, 1)
<1> PICK h, c : h = MyHead(t) /\ c = Bucket(key[t])
  OBVIOUS
<1>1. /\ TypeOK /\ LaunchInv /\ Writes(t) /\ key'[t] = key[t] /\ key[t] \in Keys
      /\ mem[h].key \notin Keys /\ mem'[h].key = key[t]
      /\ \A a \in Addrs : a # h => mem'[a] = mem[a]
      /\ h \in Chain(h) /\ Chain(h) \subseteq Addrs
  <2>1. /\ Writes(t) /\ key'[t] = key[t] /\ key[t] \in Keys /\ h \in Heads /\ mem[h].key = NoKey
        /\ mem'[h] = [key |-> key[t], val |-> val[t], next |-> Null]
        /\ \A a \in Addrs : a # h => mem'[a] = mem[a]
    BY PutEffect
  <2>2. h \in Chain(h) /\ Chain(h) \subseteq Addrs
    BY <2>1 DEF Chained
  <2> QED BY <2>1, <2>2, DataAssumption DEF IndInv
<1>2. Chain(h)' = Chain(h)
  BY PutChain
<1>3. Own(h, c)' = Own(h, c) \cup {h} /\ h \notin Own(h, c)
  <2>1. /\ Own(h, c) = {a \in Chain(h) : mem[a].key \in Keys /\ Bucket(mem[a].key) = c}
        /\ Own(h, c)' = {a \in Chain(h) : mem'[a].key \in Keys /\ Bucket(mem'[a].key) = c}
    BY <1>2 DEF Own, Bucket
  <2> QED BY <1>1, <2>1
<1> QED BY <1>1, <1>3, WriterContent DEF Gains

LEMMA NodeNumber ==
  ASSUME IndInv, StoreInv, Successors, Successors', Chained, Chained',
         NEW t \in Slaves, InsertNode(t), ptr[t] # Null, NEW s, s = pid
  PROVE  Gains(s, 1)
<1> PICK h, c, p : h = MyHead(t) /\ c = Bucket(key[t]) /\ p = ptr[t]
  OBVIOUS
<1>1. /\ TypeOK /\ LaunchInv /\ Writes(t) /\ key'[t] = key[t] /\ key[t] \in Keys
      /\ mem'[p].key = key[t] /\ \A a \in Addrs : a # p => mem'[a] = mem[a]
      /\ h \in Heads /\ Chain(h) \subseteq Addrs
  <2>1. /\ Writes(t) /\ key'[t] = key[t] /\ key[t] \in Keys /\ h \in Heads
        /\ mem'[p] = NewNode(t) /\ \A a \in Addrs : a # p => mem'[a] = mem[a]
    BY NodeEffect
  <2>2. Chain(h) \subseteq Addrs
    BY <2>1 DEF Chained
  <2> QED BY <2>1, <2>2 DEF IndInv, NewNode
<1>2. Chain(h)' = Chain(h) \cup {p} /\ p \notin Chain(h)
  BY NodeChain
<1>3. Own(h, c)' = Own(h, c) \cup {p} /\ p \notin Own(h, c)
  <2>1. /\ Own(h, c) = {a \in Chain(h) : mem[a].key \in Keys /\ Bucket(mem[a].key) = c}
        /\ Own(h, c)' = {a \in Chain(h) \cup {p} : mem'[a].key \in Keys /\ Bucket(mem'[a].key) = c}
    BY <1>2 DEF Own, Bucket
  <2> QED BY <1>1, <1>2, <2>1
<1> QED BY <1>1, <1>3, WriterContent DEF Gains

LEMMA LinkNumber ==
  ASSUME IndInv, StoreInv, Successors, Successors', Chained, Chained',
         NEW t \in Slaves, InsertLink(t), buf[t].next # Null, NEW s, s = pid
  PROVE  Gains(s, 0)
<1> PICK h, c : h = MyHead(t) /\ c = Bucket(key[t])
  OBVIOUS
<1>1. /\ TypeOK /\ LaunchInv /\ Writes(t) /\ key'[t] = key[t] /\ key[t] \in Keys
      /\ mem'[h].key = mem[h].key /\ \A a \in Addrs : a # h => mem'[a] = mem[a]
      /\ h \in Heads /\ Chain(h) \subseteq Addrs
  <2>1. /\ Writes(t) /\ key'[t] = key[t] /\ key[t] \in Keys /\ h \in Heads /\ mem[h] \in Entry
        /\ mem'[h] = [mem[h] EXCEPT !.next = buf[t].next]
        /\ \A a \in Addrs : a # h => mem'[a] = mem[a]
    BY LinkEffect
  <2>2. Chain(h) \subseteq Addrs
    BY <2>1 DEF Chained
  <2> QED BY <2>1, <2>2 DEF IndInv, Entry
<1>2. Chain(h)' = Chain(h)
  BY LinkChain
<1>3. Own(h, c)' = Own(h, c)
  <2>1. /\ Own(h, c) = {a \in Chain(h) : mem[a].key \in Keys /\ Bucket(mem[a].key) = c}
        /\ Own(h, c)' = {a \in Chain(h) : mem'[a].key \in Keys /\ Bucket(mem'[a].key) = c}
    BY <1>2 DEF Own, Bucket
  <2> QED BY <1>1, <2>1
<1>4. s \in Slots /\ Number(s)' = Number(s) /\ \A r \in Slots : r # s => Number(r)' = Number(r)
  BY <1>1, <1>3, WriterContent
<1>5. Number(s) \in Nat
  BY <1>4, ContentFinite
<1> QED BY <1>4, <1>5 DEF Gains

LEMMA HeadNumber ==
  ASSUME IndInv, StoreInv, Successors, Successors', Chained, Chained',
         NEW t \in Slaves, DeleteHead(t), NEW s, s = pid
  PROVE  Gains(s, -1)
<1> PICK h, c, x : h = MyHead(t) /\ c = Bucket(key[t]) /\ x = mem[h].next
  OBVIOUS
<1>1. /\ TypeOK /\ LaunchInv /\ Writes(t) /\ key'[t] = key[t] /\ key[t] \in Keys
      /\ mem[h].key = key[t] /\ mem[h] \in Entry
      /\ mem'[h] = (IF x = Null THEN [mem[h] EXCEPT !.key = NoKey] ELSE mem[x])
      /\ \A a \in Addrs : a # h => mem'[a] = mem[a]
      /\ h \in Heads /\ h \in Chain(h) /\ Chain(h) \subseteq Addrs
  BY HeadEffect DEF Chained, IndInv
<1>2. /\ Chain(h)' = Chain(h) \ {x} /\ x # h
      /\ x # Null => x \in Chain(h)
  BY HeadChain
<1>3. /\ x = Null => mem'[h].key \notin Keys
      /\ x # Null => mem'[h] = mem[x]
  BY <1>1, DataAssumption DEF Entry
<1>4. /\ Own(h, c) = {a \in Chain(h) : mem[a].key \in Keys /\ Bucket(mem[a].key) = c}
      /\ Own(h, c)' = {a \in Chain(h) \ {x} : mem'[a].key \in Keys /\ Bucket(mem'[a].key) = c}
  BY <1>2 DEF Own, Bucket
<1>5. h \in Own(h, c)
  BY <1>1, <1>4
<1>6. CASE x \in Own(h, c)
  <2>1. x # Null /\ x \in Chain(h) /\ mem'[h] = mem[x]
    <3>1. Null \notin Chain(h)
      BY <1>1 DEF Addrs, Null
    <3> QED BY <1>3, <1>4, <1>6, <3>1
  <2>2. Own(h, c)' = Own(h, c) \ {x}
    BY <1>1, <1>2, <1>4, <1>6, <2>1
  <2>3. Number(s)' = Number(s) - 1 /\ s \in Slots /\ \A r \in Slots : r # s => Number(r)' = Number(r)
    BY <1>1, <1>6, <2>2, WriterContent
  <2>4. Number(s) \in Nat
    BY <2>3, ContentFinite
  <2> QED BY <2>3, <2>4 DEF Gains
<1>7. CASE x \notin Own(h, c)
  <2>1. Own(h, c)' = Own(h, c) \ {h}
    BY <1>1, <1>2, <1>3, <1>4, <1>7
  <2>3. Number(s)' = Number(s) - 1 /\ s \in Slots /\ \A r \in Slots : r # s => Number(r)' = Number(r)
    BY <1>1, <1>5, <2>1, WriterContent
  <2>4. Number(s) \in Nat
    BY <2>3, ContentFinite
  <2> QED BY <2>3, <2>4 DEF Gains
<1> QED BY <1>6, <1>7

LEMMA UnlinkNumber ==
  ASSUME IndInv, StoreInv, Successors, Successors', Chained, Chained',
         NEW t \in Slaves, DeleteUnlink(t), ptr[t] \in Chain(MyHead(t)), NEW s, s = pid
  PROVE  Gains(s, -1)
<1> PICK h, c, q, x : h = MyHead(t) /\ c = Bucket(key[t]) /\ q = ptr[t] /\ x = mem[q].next
  OBVIOUS
<1>1. /\ TypeOK /\ LaunchInv /\ Writes(t) /\ key'[t] = key[t] /\ key[t] \in Keys
      /\ mem[x].key = key[t] /\ mem[q] \in Entry /\ q \in Addrs
      /\ mem'[q] = [mem[q] EXCEPT !.next = mem[x].next]
      /\ \A a \in Addrs : a # q => mem'[a] = mem[a]
      /\ h \in Heads /\ Chain(h) \subseteq Addrs
  BY UnlinkEffect DEF Chained, IndInv
<1>2. Chain(h)' = Chain(h) \ {x} /\ x \in Chain(h)
  BY UnlinkChain
<1>3. \A a \in Addrs : mem'[a].key = mem[a].key
  BY <1>1 DEF Entry
<1>4. /\ Own(h, c) = {a \in Chain(h) : mem[a].key \in Keys /\ Bucket(mem[a].key) = c}
      /\ Own(h, c)' = {a \in Chain(h) \ {x} : mem'[a].key \in Keys /\ Bucket(mem'[a].key) = c}
  BY <1>2 DEF Own, Bucket
<1>5. Own(h, c)' = Own(h, c) \ {x} /\ x \in Own(h, c)
  BY <1>1, <1>2, <1>3, <1>4
<1>6. Number(s)' = Number(s) - 1 /\ s \in Slots /\ \A r \in Slots : r # s => Number(r)' = Number(r)
  BY <1>1, <1>5, WriterContent
<1>7. Number(s) \in Nat
  BY <1>6, ContentFinite
<1> QED BY <1>6, <1>7 DEF Gains

LEMMA PatchNumber ==
  ASSUME IndInv, StoreInv, Successors, Successors', Chained, Chained',
         NEW t \in Slaves, UpdatePatch(t)
  PROVE  SameKeys
<1>1. /\ pc[t] # "node" /\ pc'[t] # "node" /\ UNCHANGED index
      /\ \A u \in Slaves : u # t => SameSlave(u)
      /\ \A a \in Addrs : mem'[a].next = mem[a].next /\ mem'[a].key = mem[a].key
  BY PatchEffect
<1> QED BY <1>1, LinksStay DEF SameKeys

(* A counter that goes one further in the direction d.                      *)
LEMMA MovedOn ==
  ASSUME NEW m \in Nat \ {0}, NEW d \in {1, -1}, NEW x \in Int, NEW y \in Int
  PROVE  (d * (((x + d) % m) - y)) % m = (((d * (x - y)) % m) + 1) % m
<1>1. CASE d = 1
  <2>1. (((x + 1) % m) + (-y)) % m = ((x + 1) + (-y)) % m
    <3>1. x + 1 \in Int /\ -y \in Int
      OBVIOUS
    <3> QED BY <3>1, RemainderStep
  <2>2. (((x - y) % m) + 1) % m = ((x - y) + 1) % m
    <3>1. x - y \in Int /\ 1 \in Int
      OBVIOUS
    <3> QED BY <3>1, RemainderStep
  <2> DEFINE r == (x + 1) % m
  <2>3. r \in Int
    OBVIOUS
  <2>4. (x + 1) + (-y) = (x - y) + 1 /\ d * (x - y) = x - y
    BY <1>1
  <2> HIDE DEF r
  <2>5. d * (r - y) = r + (-y)
    BY <1>1, <2>3
  <2>6. (d * (r - y)) % m = ((x - y) + 1) % m
    BY <2>1, <2>4, <2>5 DEF r
  <2> QED BY <1>1, <2>2, <2>4, <2>6 DEF r
<1>2. CASE d = -1
  <2> DEFINE p == (x - 1) \div m
             r == (x - 1) % m
             q == (y - r) \div m
             s == (y - r) % m
  <2>1. p \in Int /\ r \in Int /\ x - 1 = m * p + r
    OBVIOUS
  <2>2. q \in Int /\ s \in 0..(m - 1) /\ y - r = m * q + s
    BY <2>1
  <2> HIDE DEF p, r, q, s
  <2>3. m * p \in Int /\ m * q \in Int /\ m * (q - p) = m * q - m * p /\ q - p \in Int
    BY <2>1, <2>2
  <2>4. (y - x) + 1 = m * (q - p) + s /\ (y - x) + 1 \in Int
    BY <2>1, <2>2, <2>3
  <2>5. ((y - x) + 1) % m = s
    BY <2>2, <2>3, <2>4, RestOfAnyQuotient
  <2>6. (((y - x) % m) + 1) % m = ((y - x) + 1) % m
    <3>1. y - x \in Int /\ 1 \in Int
      OBVIOUS
    <3> QED BY <3>1, RemainderStep
  <2>7. x + d = x - 1 /\ d * (r - y) = y - r /\ d * (x - y) = y - x
    BY <1>2, <2>1
  <2> QED BY <2>5, <2>6, <2>7 DEF r, s
<1> QED BY <1>1, <1>2

(* One step of a remainder that stays below the modulus.                   *)
LEMMA RemainderOn ==
  ASSUME NEW m \in Nat \ {0}, NEW n \in 0..(m - 1)
  PROVE  (n + 1) % m <= n + 1 /\ (n + 1 < m => (n + 1) % m = n + 1)
<1>1. ASSUME n + 1 < m PROVE (n + 1) % m = n + 1
  BY <1>1
<1>2. ASSUME ~(n + 1 < m) PROVE (n + 1) % m = 0
  <2>1. n + 1 = m * 1 + 0
    BY <1>2
  <2>2. n + 1 \in Int /\ 1 \in Int /\ 0 \in 0..(m - 1)
    OBVIOUS
  <2> QED BY <2>1, <2>2, RestOfAnyQuotient
<1> QED BY <1>1, <1>2

LEMMA SignType == Sign \in {1, -1} /\ Sign \in Int
BY DEF Sign

(* The slaves at the counter are counted by a natural number. *)
LEMMA AtCounterType ==
  /\ IsFiniteSet(AtCounter) /\ Cardinality(AtCounter) \in Nat
  /\ AtCounter = {} => Cardinality(AtCounter) = 0
<1>1. IsFiniteSet(Slaves)
  BY SizeAssumption, FS_Interval DEF Slaves
<1>2. AtCounter \subseteq Slaves
  BY DEF AtCounter
<1>3. IsFiniteSet(AtCounter)
  BY <1>1, <1>2, FS_Subset
<1> QED BY <1>3, FS_CardinalityType, FS_EmptySet

(* A step that changes neither entries nor counters. *)
LEMMA CountStays ==
  ASSUME CountInv, RoomLeft' => RoomLeft, ~crowded' => ~crowded,
         UNCHANGED <<pid, opType, used, usedBefore, numberBefore>>,
         \A s \in Slots : Number(s)' = Number(s),
         \A u \in Slaves : pc'[u] \in Counter \/ pc[u] \in Counter =>
           pc'[u] = pc[u] /\ tmp'[u] = tmp[u]
  PROVE  CountInv'
<1>1. AtCounter' = AtCounter
  <2>1. \A u \in Slaves : pc'[u] \in Counter <=> pc[u] \in Counter
    OBVIOUS
  <2> QED BY <2>1 DEF AtCounter, Counter
<1>2. Sign' = Sign
  BY DEF Sign
<1>3. \A t \in Slaves : pc'[t] = "store" => pc[t] = "store" /\ tmp'[t] = tmp[t]
  BY DEF Counter
<1>4. Crowd' <=> Crowd
  BY <1>1 DEF Crowd
<1>5. ASSUME NEW s \in Slots, RoomLeft PROVE (IF WorkedOn(s) THEN Following(s) ELSE Undisturbed(s))'
  <2>1. Changed(s)' = Changed(s) /\ Done(s)' = Done(s)
    <3>1. Number(s)' = Number(s)
      OBVIOUS
    <3>2. Changed(s)' = Changed(s)
      BY <1>2, <3>1 DEF Changed
    <3> QED BY <1>1, <3>2 DEF Done
  <2>2. WorkedOn(s)' <=> WorkedOn(s)
    BY DEF WorkedOn
  <2>3. CASE WorkedOn(s)
    <3>1. Following(s)
      BY <1>5, <2>3 DEF CountInv
    <3>2. Moved(s, used[s])' = Moved(s, used[s])
      BY <1>2 DEF Moved
    <3>3. \A t \in Slaves : pc'[t] = "store" => Moved(s, tmp[t])' = Moved(s, tmp[t])
      BY <1>2, <1>3 DEF Moved
    <3>4. Following(s)'
      BY <1>3, <1>4, <2>1, <3>1, <3>2, <3>3 DEF Following
    <3> QED BY <2>2, <2>3, <3>4
  <2>4. CASE ~WorkedOn(s)
    <3>1. Undisturbed(s)
      BY <1>5, <2>4 DEF CountInv
    <3>2. Undisturbed(s)'
      BY <3>1 DEF Undisturbed
    <3> QED BY <2>2, <2>4, <3>2
  <2> QED BY <2>3, <2>4
<1> QED BY <1>5 DEF CountInv

(* A slave that has added or taken out an entry counts it next. *)
LEMMA WriterCounts ==
  ASSUME IndInv, StoreInv, CountInv, RoomLeft' => RoomLeft, NEW t \in Slaves, Writes(t),
         UNCHANGED <<usedBefore, numberBefore>>, ~crowded' => ~crowded /\ ~Crowd',
         pc[t] \notin Counter, pc'[t] = "load", used' = used,
         \A u \in Slaves : u # t => tmp'[u] = tmp[u],
         NEW s, s = pid, Gains(s, Sign),
         numberBefore \in [Slots -> Nat]
  PROVE  CountInv'
<1>0. TypeOK /\ LaunchInv
  BY DEF IndInv
<1>1. /\ s \in Slots /\ pid' = s /\ opType' = opType
      /\ \A u \in Slaves : u # t => pc'[u] = pc[u]
      /\ WorkedOn(s) /\ \A r \in Slots : (WorkedOn(r)' <=> r = s) /\ (WorkedOn(r) <=> r = s)
  BY DEF Writes, SameSlave, index, Gains, WorkedOn
<1>2. AtCounter' = AtCounter \cup {t} /\ t \notin AtCounter
  BY <1>1 DEF AtCounter, Counter
<1>3. Cardinality(AtCounter') = Cardinality(AtCounter) + 1 /\ Cardinality(AtCounter) \in Nat
  BY <1>2, AtCounterType, FS_AddElement
<1>4. Sign' = Sign
  BY <1>1 DEF Sign
<1>5. Changed(s)' = Changed(s) + 1 /\ Changed(s) \in Int
  <2>1. Number(s) \in Nat /\ numberBefore[s] \in Nat
    BY <1>1, ChainsHold, ContentFinite
  <2>2. Number(s)' = Number(s) + Sign
    BY DEF Gains
  <2>3. Changed(s)' = Sign * (Number(s)' - numberBefore[s])
    BY <1>4 DEF Changed
  <2> PICK n, b, d : n = Number(s) /\ b = numberBefore[s] /\ d = Sign
    OBVIOUS
  <2>4. d * ((n + d) - b) = d * (n - b) + 1 /\ d * (n - b) \in Int
    BY <2>1, SignType
  <2> QED BY <2>2, <2>3, <2>4 DEF Changed
<1>6. Done(s)' = Done(s)
  BY <1>3, <1>5 DEF Done
<1>7. /\ Moved(s, used[s])' = Moved(s, used[s])
      /\ \A u \in Slaves : u # t => Moved(s, tmp[u])' = Moved(s, tmp[u])
  BY <1>4 DEF Moved
<1>8. ASSUME RoomLeft PROVE Following(s)'
  <2>1. Following(s)
    BY <1>1, <1>8 DEF CountInv
  <2>2. \A u \in Slaves : pc'[u] = "store" => u # t /\ pc[u] = "store"
    BY <1>1
  <2> QED BY <1>6, <1>7, <2>1, <2>2 DEF Following
<1>9. ASSUME NEW r \in Slots, r # s, RoomLeft PROVE Undisturbed(r)'
  <2>1. Undisturbed(r)
    BY <1>1, <1>9 DEF CountInv
  <2>2. Number(r)' = Number(r)
    BY <1>9 DEF Gains
  <2> QED BY <2>1, <2>2 DEF Undisturbed
<1> QED BY <1>1, <1>8, <1>9 DEF CountInv

(* The two halves of the update of the counter.                            *)
LEMMA LoadCounts ==
  ASSUME IndInv, CountInv, NEW t \in Slaves, UsedLoad(t),
         UNCHANGED <<usedBefore, numberBefore>>, ~crowded' => ~crowded,
         \A r \in Slots : Number(r)' = Number(r)
  PROVE  CountInv'
<1>0. TypeOK /\ LaunchInv
  BY DEF IndInv
<1>1. /\ pc[t] = "load" /\ pc'[t] = "store" /\ tmp'[t] = used[pid] /\ used' = used
      /\ pid' = pid /\ opType' = opType /\ RoomLeft' = RoomLeft
      /\ \A u \in Slaves : u # t => pc'[u] = pc[u] /\ tmp'[u] = tmp[u]
  BY <1>0 DEF UsedLoad, Goto, index, TypeOK, RoomLeft
<1>2. AtCounter' = AtCounter /\ Sign' = Sign
  BY <1>1 DEF AtCounter, Counter, Sign
<1>3. Crowd' <=> Crowd
  BY <1>2 DEF Crowd
<1>4. ASSUME NEW s \in Slots, RoomLeft PROVE (IF WorkedOn(s) THEN Following(s) ELSE Undisturbed(s))'
  <2>1. Changed(s)' = Changed(s) /\ Done(s)' = Done(s)
    <3>1. Number(s)' = Number(s)
      OBVIOUS
    <3>2. Changed(s)' = Changed(s)
      BY <1>2, <3>1 DEF Changed
    <3> QED BY <1>2, <3>2 DEF Done
  <2>2. WorkedOn(s)' <=> WorkedOn(s)
    BY <1>1 DEF WorkedOn
  <2>3. CASE WorkedOn(s)
    <3>1. Following(s) /\ s = pid
      BY <1>4, <2>3 DEF CountInv, WorkedOn
    <3>2. /\ Moved(s, used[s])' = Moved(s, used[s]) /\ Moved(s, tmp[t])' = Moved(s, used[s])
          /\ \A u \in Slaves : u # t => Moved(s, tmp[u])' = Moved(s, tmp[u])
      BY <1>1, <1>2, <3>1 DEF Moved
    <3>3. Following(s)'
      BY <1>1, <1>3, <2>1, <3>1, <3>2 DEF Following
    <3> QED BY <2>2, <2>3, <3>3
  <2>4. CASE ~WorkedOn(s)
    <3>1. Undisturbed(s)
      BY <1>4, <2>4 DEF CountInv
    <3>2. Undisturbed(s)'
      BY <1>1, <3>1 DEF Undisturbed
    <3> QED BY <2>2, <2>4, <3>2
  <2> QED BY <2>3, <2>4
<1> QED BY <1>1, <1>4 DEF CountInv

LEMMA StoreCounts ==
  ASSUME IndInv, StoreInv, CountInv, NEW t \in Slaves, UsedStore(t),
         UNCHANGED <<usedBefore, numberBefore>>, ~crowded' => ~crowded,
         \A r \in Slots : Number(r)' = Number(r),
         numberBefore \in [Slots -> Nat], usedBefore \in [Slots -> Nat]
  PROVE  CountInv'
<1>0. TypeOK /\ LaunchInv
  BY DEF IndInv
<1> PICK s : s = pid
  OBVIOUS
<1>1. /\ pc[t] = "store" /\ pc'[t] = "unlock" /\ used' = [used EXCEPT ![pid] = Counted(t)]
      /\ pid' = pid /\ opType' = opType /\ RoomLeft' = RoomLeft
      /\ \A u \in Slaves : u # t => pc'[u] = pc[u] /\ tmp'[u] = tmp[u]
      /\ s \in Slots /\ used \in [Slots -> 0..(UsedModulus - 1)] /\ tmp[t] \in 0..(UsedModulus - 1)
      /\ opType \in Adding \cup {"delete"}
  BY <1>0 DEF UsedStore, Goto, index, TypeOK, RoomLeft, LaunchInv, Launched, Critical, NoSlot
<1>2. /\ used'[s] = Counted(t) /\ \A r \in Slots : r # s => used'[r] = used[r]
      /\ WorkedOn(s) /\ \A r \in Slots : (WorkedOn(r)' <=> r = s) /\ (WorkedOn(r) <=> r = s)
  BY <1>1 DEF WorkedOn
<1>3. AtCounter' = AtCounter \ {t} /\ t \in AtCounter /\ Sign' = Sign
  BY <1>1 DEF AtCounter, Counter, Sign
<1>4. Cardinality(AtCounter') = Cardinality(AtCounter) - 1 /\ Cardinality(AtCounter) \in Nat
  BY <1>3, AtCounterType, FS_RemoveElement
<1>5. Changed(s)' = Changed(s) /\ Changed(s) \in Int
  <2>1. Number(s)' = Number(s)
    BY <1>1
  <2>2. Number(s) \in Nat /\ numberBefore[s] \in Nat
    BY <1>1, ChainsHold, ContentFinite
  <2> PICK n, b, d : n = Number(s) /\ b = numberBefore[s] /\ d = Sign
    OBVIOUS
  <2>3. d * (n - b) \in Int
    BY <2>2, SignType
  <2> QED BY <1>3, <2>1, <2>3 DEF Changed
<1>6. Done(s)' = Done(s) + 1 /\ Done(s) \in Int
  BY <1>4, <1>5 DEF Done
<1>7. /\ Moved(s, used[s])' = (Moved(s, tmp[t]) + 1) % UsedModulus
      /\ Moved(s, tmp[t]) \in 0..(UsedModulus - 1)
  <2> PICK x, y, d : x = tmp[t] /\ y = usedBefore[s] /\ d = Sign
    OBVIOUS
  <2>1. x \in Int /\ y \in Int /\ d \in {1, -1} /\ UsedModulus \in Nat \ {0}
    BY <1>1, SignType, SizeAssumption
  <2>2. Counted(t) = (x + d) % UsedModulus
    BY <2>1 DEF Counted, Sign
  <2>3. Moved(s, used[s])' = (d * (((x + d) % UsedModulus) - y)) % UsedModulus
    BY <1>2, <1>3, <2>2 DEF Moved
  <2>4. Moved(s, tmp[t]) = (d * (x - y)) % UsedModulus
    BY DEF Moved
  <2>5. d * (x - y) \in Int
    BY <2>1
  <2>6. (d * (x - y)) % UsedModulus \in 0..(UsedModulus - 1)
    BY <2>1, <2>5
  <2>7. (d * (((x + d) % UsedModulus) - y)) % UsedModulus
          = (((d * (x - y)) % UsedModulus) + 1) % UsedModulus
    BY <2>1, MovedOn
  <2> QED BY <2>3, <2>4, <2>6, <2>7
<1>8. ASSUME RoomLeft PROVE Following(s)'
  <2>1. Following(s)
    BY <1>1, <1>2, <1>8 DEF CountInv
  <2> PICK a, b, n, m : a = Moved(s, tmp[t]) /\ b = Moved(s, used[s])' /\ n = Done(s) /\ m = UsedModulus
    OBVIOUS
  <2>2. a <= n /\ 0 <= n /\ a \in 0..(m - 1) /\ b = (a + 1) % m /\ n \in Int /\ m \in Nat \ {0}
    BY <1>1, <1>6, <1>7, <2>1, SizeAssumption DEF Following
  <2>3. b <= a + 1 /\ (a + 1 < m => b = a + 1)
    BY <2>2, RemainderOn
  <2>4. b <= n + 1 /\ (n + 1 \in 1..(m - 1) => b >= 1) /\ n + 1 >= 0
    <3>1. b \in Int
      BY <2>2
    <3> QED BY <2>2, <2>3, <3>1
  <2>5. \A u \in Slaves : pc'[u] = "store" => Moved(s, tmp[u])' <= n + 1
    <3> SUFFICES ASSUME NEW u \in Slaves, pc'[u] = "store" PROVE Moved(s, tmp[u])' <= n + 1
      OBVIOUS
    <3>1. pc[u] = "store" /\ Moved(s, tmp[u])' = Moved(s, tmp[u])
      BY <1>1, <1>3 DEF Moved
    <3>2. Moved(s, tmp[u]) <= n /\ Moved(s, tmp[u]) \in Int
      <4>1. Moved(s, tmp[u]) <= n
        BY <2>1, <3>1 DEF Following
      <4>2. tmp[u] \in Nat /\ usedBefore[s] \in Nat /\ Sign \in {1, -1}
        BY <1>0, <1>1, SignType DEF TypeOK
      <4>3. Sign * (tmp[u] - usedBefore[s]) \in Int
        BY <4>2
      <4> QED BY <4>1, <4>3, SizeAssumption DEF Moved
    <3> QED BY <2>2, <3>1, <3>2
  <2>6. ASSUME ~crowded'
        PROVE  /\ ~Crowd' /\ b = (n + 1) % m
               /\ \A u \in Slaves : pc'[u] # "store"
    <3>1. ~Crowd /\ tmp[t] = used[s] /\ Moved(s, used[s]) = n % m
      BY <1>1, <2>1, <2>6 DEF Following
    <3>2. AtCounter' = {}
      BY <1>3, <3>1 DEF Crowd
    <3>3. ~Crowd' /\ \A u \in Slaves : pc'[u] # "store"
      BY <3>2 DEF Crowd, AtCounter, Counter
    <3>4. a = n % m
      BY <3>1
    <3>5. ((n % m) + 1) % m = (n + 1) % m
      BY <2>2, RemainderStep
    <3> QED BY <2>2, <3>3, <3>4, <3>5
  <2> QED BY <1>6, <2>4, <2>5, <2>6 DEF Following
<1>9. ASSUME NEW r \in Slots, r # s, RoomLeft PROVE Undisturbed(r)'
  <2>1. Undisturbed(r)
    BY <1>2, <1>9 DEF CountInv
  <2>2. Number(r)' = Number(r)
    OBVIOUS
  <2> QED BY <1>2, <1>9, <2>1, <2>2 DEF Undisturbed
<1> QED BY <1>1, <1>2, <1>8, <1>9 DEF CountInv

(* Without room for a node nothing is said of the counters. *)
LEMMA NoRoomCounts ==
  ASSUME ~RoomLeft, RoomLeft' => RoomLeft
  PROVE  CountInv'
BY DEF CountInv

(* A step of work, as the history variables see it. *)
Seen ==
  /\ usedBefore \in [Slots -> Nat] /\ numberBefore \in [Slots -> Nat]
  /\ UNCHANGED <<usedBefore, numberBefore>>
  /\ ~crowded' => ~crowded /\ ~Crowd'

(* What a step that is no part of such an update does to the counter.      *)
LEMMA StepUsed ==
  ASSUME TypeOK, LaunchInv, NEW t \in Slaves, Step(t), pc[t] \notin Counter
  PROVE  /\ used' = used /\ \A u \in Slaves : u # t => tmp'[u] = tmp[u] /\ pc'[u] = pc[u]
         /\ pc'[t] \in Counter => pc[t] \in WriterLabels /\ pc'[t] = "load" /\ pc[t] # "link"
         /\ pc[t] \in WriterLabels /\ pc[t] # "link" => pc'[t] = "load"
<1>1. used' = used /\ \A u \in Slaves : u # t => tmp'[u] = tmp[u]
  BY StepCases DEF Counter, TypeOK, InitBucket, Lock, Unlock, UsedLoad, UsedStore, InsertRead,
     InsertPut, InsertAlloc, InsertLink, InsertNode, DeleteRead, DeletePull, DeleteHead,
     DeleteWalk, DeleteUnlink, LookupRead, LookupWalk, LookupFetch, UpdatePeek, UpdatePatch,
     ForgetLocals, locals
<1>2. \A u \in Slaves : u # t => pc'[u] = pc[u]
  BY StepFrame DEF SameSlave
<1>3. /\ pc'[t] \in Counter => pc[t] \in WriterLabels /\ pc'[t] = "load" /\ pc[t] # "link"
      /\ pc[t] \in WriterLabels /\ pc[t] # "link" => pc'[t] = "load"
  BY StepCases DEF Counter, WriterLabels, TypeOK, InitBucket, Lock, Unlock, UsedLoad, UsedStore,
     InsertRead, InsertPut, InsertAlloc, InsertLink, InsertNode, DeleteRead, DeletePull,
     DeleteHead, DeleteWalk, DeleteUnlink, LookupRead, LookupWalk, Missed, LookupFetch,
     UpdatePeek, UpdatePatch, Goto
<1> QED BY <1>1, <1>2, <1>3

(* A step that leaves all entries and their keys where they are, and none   *)
(* to be counted.                                                          *)
LEMMA OtherCounts ==
  ASSUME TypeOK, LaunchInv, CountInv, Seen, NEW t \in Slaves, Step(t), pc[t] \notin Counter,
         pc'[t] \notin Counter, \A s \in Slots : Number(s)' = Number(s)
  PROVE  CountInv'
<1>1. /\ used' = used
      /\ \A u \in Slaves : pc'[u] \in Counter \/ pc[u] \in Counter =>
           pc'[u] = pc[u] /\ tmp'[u] = tmp[u]
  BY StepUsed
<1>2. UNCHANGED <<pid, opType>> /\ (RoomLeft' => RoomLeft)
  BY StepFrame, RoomShrinks DEF index
<1> QED BY <1>1, <1>2, CountStays DEF Seen

(* The steps that write an entry. *)
LEMMA WriteCounts ==
  ASSUME Sound, CountInv, Seen, NEW t \in Slaves, Step(t), pc[t] \in WriterLabels
  PROVE  CountInv'
<1>0. /\ IndInv /\ StoreInv /\ SearchInv /\ TypeOK /\ LaunchInv
      /\ Successors /\ Successors' /\ Chained /\ Chained'
  BY DEF Sound, IndInv
<1>1. /\ pc[t] \notin Counter /\ (RoomLeft' => RoomLeft) /\ Launched(t) /\ Pending(t, MyHead(t))
      /\ Searching(t, MyHead(t))
  BY <1>0, RoomShrinks DEF Counter, WriterLabels, LaunchInv, StoreInv, SearchInv
<1>2. /\ used' = used /\ \A u \in Slaves : u # t => tmp'[u] = tmp[u]
      /\ (pc[t] # "link" => pc'[t] = "load") /\ (pc[t] = "link" => pc'[t] \notin Counter)
  BY <1>0, <1>1, StepUsed
<1> PICK s : s = pid
  OBVIOUS
<1>3. /\ pc[t] \in {"put", "node"} => Sign = 1
      /\ pc[t] \in {"head", "unlink"} => Sign = -1
  BY <1>1 DEF Sign, Launched, Adding
<1>4. ASSUME ~RoomLeft PROVE CountInv'
  BY <1>1, <1>4, NoRoomCounts
<1>5. CASE InsertPut(t)
  <2>1. Gains(s, Sign) /\ Writes(t) /\ pc[t] # "link"
    BY <1>0, <1>3, <1>5, PutNumber, PutEffect DEF InsertPut
  <2> QED BY <1>0, <1>1, <1>2, <2>1, WriterCounts DEF Seen
<1>6. CASE InsertLink(t) /\ buf[t].next = Null
  BY <1>1, <1>4, <1>6 DEF Pending, InsertLink
<1>7. CASE InsertLink(t) /\ buf[t].next # Null
  <2>1. Gains(s, 0)
    BY <1>0, <1>7, LinkNumber
  <2>2. \A r \in Slots : Number(r)' = Number(r)
    <3>1. Number(s) \in Nat
      BY <1>0, <2>1, ContentFinite DEF Gains
    <3> QED BY <2>1, <3>1 DEF Gains
  <2> QED BY <1>0, <1>1, <1>2, <1>7, <2>2, OtherCounts DEF InsertLink
<1>8. CASE InsertNode(t) /\ ptr[t] = Null
  BY <1>1, <1>4, <1>8 DEF Pending, InsertNode
<1>9. CASE InsertNode(t) /\ ptr[t] # Null
  <2>1. Gains(s, Sign) /\ Writes(t) /\ pc[t] # "link"
    BY <1>0, <1>3, <1>9, NodeNumber, NodeEffect DEF InsertNode
  <2> QED BY <1>0, <1>1, <1>2, <2>1, WriterCounts DEF Seen
<1>10. CASE DeleteHead(t)
  <2>1. Gains(s, Sign) /\ Writes(t) /\ pc[t] # "link"
    BY <1>0, <1>3, <1>10, HeadNumber, HeadEffect DEF DeleteHead
  <2> QED BY <1>0, <1>1, <1>2, <2>1, WriterCounts DEF Seen
<1>11. CASE DeleteUnlink(t)
  <2>1. Gains(s, Sign) /\ Writes(t) /\ pc[t] # "link"
    BY <1>0, <1>1, <1>3, <1>11, UnlinkNumber, UnlinkEffect DEF DeleteUnlink, Searching
  <2> QED BY <1>0, <1>1, <1>2, <2>1, WriterCounts DEF Seen
<1> QED
  BY <1>0, <1>5, <1>6, <1>7, <1>8, <1>9, <1>10, <1>11, StepCasesByLabel
     DEF WriterLabels, QuietLabels, InitBucket, InsertAlloc, UpdatePatch

(* Every step of a slave.                                                  *)
LEMMA StepCounts ==
  ASSUME Sound, CountInv, Seen, NEW t \in Slaves, Step(t)
  PROVE  CountInv'
<1>0. /\ IndInv /\ StoreInv /\ TypeOK /\ LaunchInv
      /\ Successors /\ Successors' /\ Chained /\ Chained'
  BY DEF Sound, IndInv
<1>1. CASE pc[t] \in WriterLabels
  BY <1>1, WriteCounts
<1>2. CASE pc[t] \in QuietLabels \cup {"alloc"}
  <2>1. \A s \in Slots : Number(s)' = Number(s)
    BY <1>0, <1>2, QuietBag, NumberSame
  <2>2. CASE pc[t] = "load"
    <3>1. UsedLoad(t)
      BY <2>2, StepCases DEF InitBucket, Lock, Unlock, UsedStore, InsertRead, InsertPut,
         InsertAlloc, InsertLink, InsertNode, DeleteRead, DeletePull, DeleteHead, DeleteWalk,
         DeleteUnlink, LookupRead, LookupWalk, LookupFetch, UpdatePeek, UpdatePatch
    <3> QED BY <1>0, <2>1, <3>1, LoadCounts DEF Seen
  <2>3. CASE pc[t] = "store"
    <3>1. UsedStore(t)
      BY <2>3, StepCases DEF InitBucket, Lock, Unlock, UsedLoad, InsertRead, InsertPut,
         InsertAlloc, InsertLink, InsertNode, DeleteRead, DeletePull, DeleteHead, DeleteWalk,
         DeleteUnlink, LookupRead, LookupWalk, LookupFetch, UpdatePeek, UpdatePatch
    <3> QED BY <1>0, <2>1, <3>1, StoreCounts DEF Seen
  <2>4. CASE pc[t] \notin Counter
    <3>1. pc'[t] \notin Counter
      BY <1>0, <1>2, <2>4, StepUsed DEF QuietLabels, WriterLabels
    <3> QED BY <1>0, <2>1, <2>4, <3>1, OtherCounts
  <2> QED BY <2>2, <2>3, <2>4 DEF Counter
<1>3. CASE InitBucket(t) \/ UpdatePatch(t)
  <2>1. SameKeys
    BY <1>0, <1>3, InitBucketBag, PatchNumber
  <2>2. \A s \in Slots : Number(s)' = Number(s)
    BY <1>0, <2>1, NumberSame
  <2>3. pc[t] \notin Counter /\ pc'[t] \notin Counter
    <3>1. pc[t] \notin Counter /\ pc[t] \notin WriterLabels
      BY <1>3 DEF InitBucket, UpdatePatch, Counter, WriterLabels
    <3> QED BY <1>0, <3>1, StepUsed
  <2> QED BY <1>0, <2>2, <2>3, OtherCounts
<1> QED
  BY <1>0, <1>1, <1>2, <1>3, StepCasesByLabel
     DEF InsertPut, InsertAlloc, InsertLink, InsertNode, DeleteHead, DeleteUnlink, WriterLabels

LEMMA NumbersAre == Chained => \A s \in Slots : Number(s) \in Nat
BY ContentFinite

LEMMA NumbersNext == Chained' => \A s \in Slots : Number(s)' \in Nat
<1>1. Chained' => (\A s \in Slots : Number(s) \in Nat)'
  BY NumbersAre, PTL
<1> QED BY <1>1

(* A launch begins while no slave is at the counter. *)
LEMMA BeginCounts ==
  ASSUME Sound, BeginH
  PROVE  CountInv'
<1>0. Chained'
  BY DEF Sound
<1>1. /\ usedBefore' = used' /\ numberBefore' = [s \in Slots |-> Number(s)']
      /\ \A u \in Slaves : pc'[u] \in {"idle", "init"}
      /\ TypeOK'
  <2>1. Begin /\ TypeOK
    BY DEF BeginH, Sound, IndInv
  <2>2. TypeOK'
    BY <2>1, BeginType DEF Begin
  <2> QED BY <2>1, <2>2 DEF BeginH, Begin, BeginCreate, BeginOp, AllIdle
<1>2. AtCounter' = {}
  BY <1>1 DEF AtCounter, Counter
<1>3. Cardinality(AtCounter') = 0
  BY <1>2, FS_EmptySet
<1>4. ASSUME NEW s \in Slots PROVE Following(s)' /\ Undisturbed(s)'
  <2>1. Number(s)' = numberBefore'[s] /\ used'[s] = usedBefore'[s] /\ used'[s] \in Nat
    BY <1>1 DEF TypeOK
  <2>2. Number(s)' \in Nat
    BY <1>0, NumbersNext
  <2>3. Sign' \in {1, -1}
    BY DEF Sign
  <2>4. Changed(s)' = 0
    <3> PICK n, d : n = Number(s)' /\ d = Sign'
      OBVIOUS
    <3>1. d * (n - n) = 0
      BY <2>2, <2>3
    <3> QED BY <2>1, <3>1 DEF Changed
  <2>5. Done(s)' = 0
    BY <1>3, <2>4 DEF Done
  <2>6. Moved(s, used[s])' = 0
    <3> PICK n, d : n = used'[s] /\ d = Sign'
      OBVIOUS
    <3>1. d * (n - n) = 0
      BY <2>1, <2>3
    <3>2. 0 % UsedModulus = 0
      BY SizeAssumption
    <3> QED BY <2>1, <3>1, <3>2 DEF Moved
  <2>7. \A t \in Slaves : pc'[t] # "store"
    BY <1>1
  <2>8. ~Crowd'
    BY <1>2 DEF Crowd
  <2>9. 0 % UsedModulus = 0
    BY SizeAssumption
  <2> QED BY <2>1, <2>5, <2>6, <2>7, <2>8, <2>9 DEF Following, Undisturbed
<1> QED BY <1>4 DEF CountInv

(* The call of an operation. *)
LEMMA CallCounts ==
  ASSUME Sound, CountInv, Seen, NEW t \in Slaves, UNCHANGED <<index, mem, avail, used, tmp>>,
         pc[t] = "idle", pc'[t] \in {"lock", "peek"}, \A u \in Slaves : u # t => SameSlave(u)
  PROVE  CountInv'
<1>0. Chained /\ Chained'
  BY DEF Sound
<1>1. SameKeys
  BY CallBag
<1>2. \A s \in Slots : Number(s)' = Number(s)
  BY <1>0, <1>1, NumberSame
<1>3. \A u \in Slaves : pc'[u] \in Counter \/ pc[u] \in Counter =>
           pc'[u] = pc[u] /\ tmp'[u] = tmp[u]
  BY DEF Counter, SameSlave
<1>4. UNCHANGED <<pid, opType, used>> /\ RoomLeft' = RoomLeft
  BY DEF index, RoomLeft
<1> QED BY <1>2, <1>3, <1>4, CountStays DEF Seen

LEMMA IdleCounts ==
  ASSUME Sound, CountInv, UNCHANGED varsH
  PROVE  CountInv'
<1>0. Chained /\ Chained'
  BY DEF Sound
<1>1. SameKeys
  BY IdleBag DEF varsH
<1>2. \A s \in Slots : Number(s)' = Number(s)
  BY <1>0, <1>1, NumberSame
<1>3. /\ UNCHANGED <<pid, opType, used, pc, tmp, usedBefore, numberBefore, crowded>>
      /\ RoomLeft' = RoomLeft
  BY DEF varsH, history, vars, locals, index, RoomLeft
<1> QED BY <1>2, <1>3, CountStays

(* The types of the history variables. *)
LEMMA HistoryType ==
  ASSUME Sound, TypeOKH, [NextH]_varsH
  PROVE  TypeOKH'
<1>1. CASE BeginH
  <2>1. /\ usedBefore' = used' /\ numberBefore' = [s \in Slots |-> Number(s)'] /\ crowded' = FALSE
        /\ Begin /\ TypeOK /\ Chained'
    BY <1>1 DEF BeginH, Sound, IndInv
  <2>2. TypeOK'
    BY <2>1, BeginType DEF Begin
  <2>3. \A s \in Slots : Number(s)' \in Nat
    BY <2>1, NumbersNext
  <2> QED BY <2>1, <2>2, <2>3 DEF TypeOKH, TypeOK
<1>2. CASE WorkH
  BY <1>2 DEF WorkH, TypeOKH
<1>3. CASE UNCHANGED varsH
  BY <1>3 DEF varsH, history, TypeOKH
<1> QED BY <1>1, <1>2, <1>3 DEF NextH

(* The invariant of the counter is inductive together with FullInv. *)
LEMMA CountInductive ==
  /\ IndInv /\ StoreInv /\ SearchInv /\ (IndInv /\ StoreInv)'
  /\ IndInvH /\ [NextH]_varsH
  => IndInvH'
<1> SUFFICES ASSUME IndInv, StoreInv, SearchInv, (IndInv /\ StoreInv)', IndInvH, [NextH]_varsH
             PROVE  IndInvH'
  OBVIOUS
<1>1. Sound /\ TypeOK /\ TypeOKH /\ CountInv
  BY ChainsHold, ChainsNext DEF Sound, IndInv, IndInvH
<1> SUFFICES CountInv'
  BY <1>1, HistoryType DEF IndInvH
<1>2. CASE BeginH
  BY <1>1, <1>2, BeginCounts
<1>3. CASE WorkH
  <2>1. Seen /\ Work
    <3>1. usedBefore \in [Slots -> Nat] /\ numberBefore \in [Slots -> Nat]
      BY <1>1, SizeAssumption DEF TypeOKH
    <3>2. ~crowded' => ~crowded /\ ~Crowd'
      BY <1>3 DEF WorkH
    <3> QED BY <1>3, <3>1, <3>2 DEF WorkH, Seen
  <2>2. ASSUME NEW t \in Slaves, Step(t) PROVE CountInv'
    BY <1>1, <2>1, <2>2, StepCounts
  <2>3. ASSUME NEW t \in Slaves, NEW k \in Keys, NEW v \in Vals \cup {0}, Call(t, k, v)
        PROVE  CountInv'
    <3>1. /\ UNCHANGED <<index, mem, avail, used, tmp>> /\ pc[t] = "idle" /\ pc'[t] = "lock"
          /\ \A u \in Slaves : u # t => SameSlave(u)
      BY <1>1, <2>3, CallFrame DEF Call, Goto, TypeOK
    <3> QED BY <1>1, <2>1, <3>1, CallCounts
  <2>4. ASSUME NEW t \in Slaves, NEW a \in Addrs, NEW v \in Vals, CallUpdate(t, a, v)
        PROVE  CountInv'
    <3>1. /\ UNCHANGED <<index, mem, avail, used, tmp>> /\ pc[t] = "idle" /\ pc'[t] = "peek"
          /\ \A u \in Slaves : u # t => SameSlave(u)
      BY <1>1, <2>4, CallUpdateFrame DEF CallUpdate, Goto, TypeOK
    <3> QED BY <1>1, <2>1, <3>1, CallCounts
  <2> QED BY <2>1, <2>2, <2>3, <2>4 DEF Work
<1>4. CASE UNCHANGED varsH
  BY <1>1, <1>4, IdleCounts
<1> QED BY <1>2, <1>3, <1>4 DEF NextH

LEMMA CountInit == InitH /\ IndInv /\ StoreInv => IndInvH
<1> SUFFICES ASSUME InitH, IndInv, StoreInv PROVE IndInvH
  OBVIOUS
<1>1. \A s \in Slots : ~WorkedOn(s)
  BY DEF InitH, Init, WorkedOn, Adding
<1>2. \A s \in Slots : Undisturbed(s)
  BY DEF InitH, Undisturbed
<1>3. \A s \in Slots : Number(s) \in Nat
  BY ChainsHold, ContentFinite
<1>4. TypeOKH
  BY <1>3 DEF InitH, TypeOKH, IndInv, TypeOK
<1> QED BY <1>1, <1>2, <1>4 DEF IndInvH, CountInv

(* The history variables only watch: what holds of PrimaryIndexDpu holds    *)
(* with them.                                                              *)
LEMMA HistoryWatches == SpecH => Spec
<1>1. InitH => Init
  BY DEF InitH
<1>2. [NextH]_varsH => [Next]_vars
  BY DEF NextH, BeginH, WorkH, Next, varsH
<1> QED BY <1>1, <1>2, PTL DEF SpecH, Spec

(* Whatever number of slaves, buckets and mutexes: neither the counter used *)
(* nor what a slave has loaded from it is ever ahead of the entries added   *)
(* or deleted, every launch with updates moves it, and without overlapping *)
(* updates it is one update behind per slave at the counter.               *)
THEOREM UpdatesAreFollowed == SpecH => []IndInvH
<1>1. Spec => [](IndInv /\ StoreInv /\ SearchInv)
  BY Invariance, Stored, SearchesRight, PTL
<1> QED
  BY <1>1, HistoryWatches, CountInit, CountInductive, PTL DEF SpecH

(* When a launch is over, used has moved by at most the number of entries   *)
(* it has added or deleted, by at least one if there were any, and by that  *)
(* number if no two of its updates overlapped.                             *)
THEOREM CountersFollow == SpecH => []UsedFollowsEntries
<1>1. IndInv /\ StoreInv /\ IndInvH => UsedFollowsEntries
  <2> SUFFICES ASSUME IndInv, StoreInv, IndInvH, AllIdle, RoomLeft, NEW s \in Slots
               PROVE  IF WorkedOn(s) THEN Followed(s) ELSE Undisturbed(s)
    BY DEF UsedFollowsEntries
  <2>1. AtCounter = {}
    BY DEF AtCounter, AllIdle, Counter
  <2>2. CASE WorkedOn(s)
    <3>1. Following(s)
      BY <2>2 DEF IndInvH, CountInv
    <3>2. Cardinality(AtCounter) = 0
      BY <2>1, FS_EmptySet
    <3>3. /\ Number(s) \in Nat /\ numberBefore[s] \in Nat /\ UsedModulus \in Nat \ {0}
          /\ used[s] \in Int /\ usedBefore[s] \in Int
      BY ChainsHold, NumbersAre, SizeAssumption DEF IndInvH, TypeOKH, IndInv, TypeOK
    <3>4. Changed(s) \in Int
      <4>1. Number(s) - numberBefore[s] \in Int
        BY <3>3
      <4> QED BY <4>1, SignType DEF Changed
    <3>5. Moved(s, used[s]) \in 0..(UsedModulus - 1)
      <4>1. Sign * (used[s] - usedBefore[s]) \in Int
        <5>1. used[s] - usedBefore[s] \in Int
          BY <3>3
        <5> QED BY <5>1, SignType
      <4> QED BY <3>3, <4>1 DEF Moved
    <3>6. Done(s) = Changed(s)
      BY <3>2, <3>4 DEF Done
    <3>7. Followed(s)
      BY <3>1, <3>3, <3>4, <3>5, <3>6 DEF Following, Followed
    <3> QED BY <2>2, <3>7
  <2>3. CASE ~WorkedOn(s)
    BY <2>3 DEF IndInvH, CountInv
  <2> QED BY <2>2, <2>3
<1> QED BY <1>1, Invariance, Stored, HistoryWatches, UpdatesAreFollowed, PTL
=============================================================================
