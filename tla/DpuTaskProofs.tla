----------------------------- MODULE DpuTaskProofs -----------------------------
(***************************************************************************)
(* Proofs about the launches of a DPU, for any number of slaves, items,    *)
(* indexes, launches and any size of the result cache.                     *)
(***************************************************************************)
EXTENDS DpuTask, BlockDecompProofs, FiniteSetTheorems, SequenceTheorems, TLAPS

(* The search of the table ends at an entry with the id, or at none. *)
LEMMA PositionFound ==
  ASSUME table \in Seq(Ids), NEW id
  PROVE  /\ Position(id) \in 0..Len(table)
         /\ Position(id) # NoSlot => table[Position(id)] = id
<1>1. Len(table) \in Nat /\ DOMAIN table = 1..Len(table)
  BY LenProperties
<1>2. CASE \E s \in DOMAIN table : table[s] = id
  <2> DEFINE S == {s \in DOMAIN table : table[s] = id}
  <2>1. \E s \in S : \A k \in S : s <= k
    <3>1. S \in SUBSET Nat /\ S # {}
      BY <1>1, <1>2
    <3> HIDE DEF S
    <3> QED BY <1>1, <3>1, Least
  <2>2. \E s \in DOMAIN table : table[s] = id /\ \A r \in 1..(s - 1) : table[r] # id
    BY <1>1, <2>1
  <2>3. Position(id) \in DOMAIN table /\ table[Position(id)] = id
    BY <1>2, <2>2 DEF Position
  <2> QED BY <1>1, <2>3
<1>3. CASE ~ \E s \in DOMAIN table : table[s] = id
  BY <1>1, <1>3 DEF Position, NoSlot
<1> QED BY <1>2, <1>3

(* Whoever passes a barrier, passes it with everybody. *)
LEMMA AllWaiting ==
  ASSUME NEW b, Cardinality(Waiters(b)) >= BarrierSize
  PROVE  \A t \in Tasklets : pc[t] = b
<1>1. Tasklets = 0..NrSlaves
  BY TaskAssumption DEF Tasklets, Master, Slaves
<1>2. IsFiniteSet(Tasklets) /\ Cardinality(Tasklets) = NrSlaves + 1
  BY <1>1, FS_Interval, TaskAssumption
<1>3. Waiters(b) \in SUBSET Tasklets
  BY DEF Waiters
<1>4. /\ Cardinality(Waiters(b)) <= Cardinality(Tasklets) /\ IsFiniteSet(Waiters(b))
      /\ Cardinality(Tasklets) = Cardinality(Waiters(b)) => Tasklets = Waiters(b)
  BY <1>2, <1>3, FS_Subset
<1>5. Cardinality(Waiters(b)) \in Nat
  BY <1>4, FS_CardinalityType
<1>6. Tasklets = Waiters(b)
  BY <1>2, <1>4, <1>5, TaskAssumption DEF BarrierSize
<1> QED BY <1>6 DEF Waiters

(* Blocks of different slaves lie apart and inside the items. *)
LEMMA Blocks ==
  ASSUME NEW n \in Nat, NEW t \in Slaves
  PROVE  /\ BLOCK_LOW(Rank(t), NrSlaves, n) \in Nat
         /\ BLOCK_SIZE(Rank(t), NrSlaves, n) \in Nat
         /\ BLOCK_LOW(Rank(t), NrSlaves, n) + BLOCK_SIZE(Rank(t), NrSlaves, n) <= n
         /\ \A u \in Slaves : t < u =>
              BLOCK_LOW(Rank(t), NrSlaves, n) + BLOCK_SIZE(Rank(t), NrSlaves, n)
                <= BLOCK_LOW(Rank(u), NrSlaves, n)
<1>8. PICK r \in 0..(NrSlaves - 1) : r = t - 1
  BY TaskAssumption DEF Slaves
<1> DEFINE lo == BLOCK_LOW(r, NrSlaves, n)
           hi == BLOCK_HIGH(r, NrSlaves, n)
<1>1. r \in 0..(NrSlaves - 1) /\ r \in Nat /\ NrSlaves \in Nat \ {0}
  BY TaskAssumption
<1>9. r * n \in Nat /\ (r + 1) * n \in Nat /\ r * n <= (r + 1) * n
  BY <1>1, MulMono
<1>2. lo \in Nat /\ hi < n /\ hi \in Int
  BY <1>1, BlocksBounds
<1>3. BLOCK_SIZE(r, NrSlaves, n) = hi + 1 - lo
  <2>1. hi + 1 = BLOCK_LOW(r + 1, NrSlaves, n)
    <3>1. BLOCK_LOW(r + 1, NrSlaves, n) \in Int
      <4>1. ((r + 1) * n) \div NrSlaves \in Nat
        BY <1>1, <1>9, Division
      <4> QED BY <4>1 DEF BLOCK_LOW
    <3> QED BY <3>1 DEF BLOCK_HIGH
  <2> HIDE DEF hi
  <2> QED BY <1>2, <2>1 DEF BLOCK_SIZE
<1>4. lo <= hi + 1
  <2>1. r * n \in Nat /\ (r + 1) * n \in Nat /\ r * n <= (r + 1) * n
    BY <1>9
  <2>2. lo = (r * n) \div NrSlaves /\ hi + 1 = ((r + 1) * n) \div NrSlaves
    <3>1. ((r + 1) * n) \div NrSlaves \in Nat
      BY <1>1, <2>1, Division
    <3> QED BY <3>1 DEF BLOCK_LOW, BLOCK_HIGH
  <2> DEFINE c == hi + 2
             a == (r + 1) * n
             b == r * n
  <2>3. c \in Nat /\ a \div NrSlaves < c
    <3>1. a \div NrSlaves \in Nat
      BY <1>1, <2>1, Division
    <3> QED BY <2>2, <3>1, <1>2
  <2>4. a < c * NrSlaves
    <3> HIDE DEF c, a
    <3>1. a \in Nat
      BY <2>1 DEF a
    <3> QED BY <1>1, <2>3, <3>1, QuotientBelow
  <2>5. b < c * NrSlaves
    <3>1. c * NrSlaves \in Int
      <4> HIDE DEF c
      <4> QED BY <2>3, <1>1
    <3> HIDE DEF c, a, b
    <3>2. b \in Nat /\ a \in Nat /\ b <= a
      BY <2>1 DEF a, b
    <3> QED BY <2>4, <3>1, <3>2
  <2>6. b \div NrSlaves < c
    <3> HIDE DEF c, b
    <3>1. b \in Nat
      BY <2>1 DEF b
    <3> QED BY <1>1, <2>3, <2>5, <3>1, QuotientBelow
  <2> QED BY <2>2, <2>6, <1>2
<1>5. ASSUME NEW u \in Slaves, t < u
      PROVE  hi + 1 <= BLOCK_LOW(u - 1, NrSlaves, n)
  <2>1. u - 1 \in 0..(NrSlaves - 1) /\ u - 1 \in Nat /\ r < u - 1
    BY <1>8, <1>5, TaskAssumption DEF Slaves
  <2>2. hi < BLOCK_LOW(u - 1, NrSlaves, n) /\ BLOCK_LOW(u - 1, NrSlaves, n) \in Nat
    BY <1>1, <2>1, BlocksDisjoint, BlocksBounds
  <2> QED BY <2>2, <1>2
<1> HIDE DEF lo, hi
<1>6. Rank(t) = r /\ \A u \in Slaves : Rank(u) = u - 1
  BY <1>8 DEF Rank
<1>7. BLOCK_LOW(Rank(t), NrSlaves, n) = lo /\ BLOCK_SIZE(Rank(t), NrSlaves, n) = hi + 1 - lo
  BY <1>3, <1>6 DEF lo
<1> QED BY <1>2, <1>4, <1>5, <1>6, <1>7

LEMMA SlavesTasklets == /\ Slaves \subseteq Tasklets /\ Master \in Tasklets /\ Master \notin Slaves
                        /\ IsFiniteSet(Slaves) /\ Cardinality(Slaves) = NrSlaves
<1>1. IsFiniteSet(Slaves) /\ Cardinality(Slaves) = NrSlaves
  BY FS_Interval, TaskAssumption DEF Slaves
<1> QED BY <1>1 DEF Slaves, Tasklets, Master

(* Before a launch has items, nothing is taken, cached or reported. *)
LEMMA NothingTaken ==
  ASSUME TypeOK, \A t \in Slaves : handled[t] = 0
  PROVE  \A t \in Slaves : Taken(t) = {}
<1> SUFFICES ASSUME NEW t \in Slaves PROVE Taken(t) = {}
  OBVIOUS
<1>1. low[t] \in Nat /\ handled[t] = 0
  BY DEF TypeOK, LocalsOK
<1> QED BY <1>1 DEF Taken

LEMMA InitInv == Init => IndInv
<1> SUFFICES ASSUME Init PROVE IndInv
  OBVIOUS
<1> USE TaskAssumption, SlavesTasklets DEF Init, Nothing
<1>1. TypeOK
  <2>1. MramOK
    BY DEF MramOK, Types
  <2>2. GlobalsOK
    <3>1. <<>> \in Seq(Ids) /\ Len(<<>>) = 0
      OBVIOUS
    <3> QED BY <3>1 DEF GlobalsOK, NoSlot
  <2>3. LocalsOK
    <3>1. <<>> \in Seq(Row) /\ Len(<<>>) = 0
      OBVIOUS
    <3> QED BY <3>1 DEF LocalsOK
  <2> QED BY <2>1, <2>2, <2>3 DEF TypeOK, Labels
<1>2. PhaseInv
  BY DEF PhaseInv
<1>3. GlobalsInv
  BY DEF GlobalsInv, Position
<1>4. BufferInv
  <2>1. {t \in Slaves : buffer[t] # 0} = {}
    OBVIOUS
  <2>2. Cardinality({}) = 0
    BY FS_EmptySet
  <2>3. heap = Cardinality({t \in Slaves : buffer[t] # 0})
    BY <2>1, <2>2
  <2> QED BY <2>3 DEF BufferInv, BuffersApart
<1>5. BlockInv
  BY DEF BlockInv, BlockOK
<1>6. ServedInv
  BY <1>1, NothingTaken DEF ServedInv
<1>7. CacheInv
  BY DEF CacheInv, CacheOK
<1>8. MutexInv
  BY DEF MutexInv
<1>9. ReportedInv
  BY DEF ReportedInv
<1>10. WrittenInv
  BY DEF WrittenInv, WrittenOK
<1> QED BY <1>1, <1>2, <1>3, <1>4, <1>5, <1>6, <1>7, <1>8, <1>9, <1>10 DEF IndInv

-----------------------------------------------------------------------------
(* The host and the master.                                                *)

LEMMA LaunchInv ==
  ASSUME IndInv, NEW type \in Types, NEW id \in Ids, NEW n \in 0..MaxItems, Launch(type, id, n)
  PROVE  IndInv'
<1> USE SlavesTasklets
<1>0. /\ query' = [type |-> type, id |-> id, nnz |-> n]
      /\ pc' = [t \in Tasklets |-> IF t = Master THEN "start" ELSE "barrier1"]
      /\ buffer' = Nothing(0) /\ low' = Nothing(0) /\ nnz' = Nothing(0)
      /\ handled' = Nothing(0) /\ cache' = Nothing(<<>>) /\ tmp' = Nothing(0)
      /\ served' = [i \in Items |-> 0]
      /\ UNCHANGED <<cooNnz, cooData, resultSize, table, index, kvsdNnz, heap, mutex>>
  BY DEF Launch, globals
<1>1. TypeOK'
  <2>1. MramOK'
    BY <1>0 DEF IndInv, TypeOK, MramOK
  <2>2. GlobalsOK'
    BY <1>0 DEF IndInv, TypeOK, GlobalsOK
  <2>3. LocalsOK'
    <3>1. <<>> \in Seq(Row) /\ Len(<<>>) = 0
      OBVIOUS
    <3> QED BY <1>0, <3>1, TaskAssumption DEF LocalsOK, Nothing
  <2>4. pc' \in [Tasklets -> Labels] /\ served' \in [Items -> Nat]
    BY <1>0 DEF Labels
  <2> QED BY <1>0, <2>1, <2>2, <2>3, <2>4 DEF IndInv, TypeOK
<1>2. pc'[Master] = "start" /\ \A t \in Slaves : pc'[t] = "barrier1"
  BY <1>0
<1>3. \A t \in Slaves : /\ buffer'[t] = 0 /\ handled'[t] = 0 /\ nnz'[t] = 0 /\ cache'[t] = <<>>
  BY <1>0 DEF Nothing
<1>4. PhaseInv'
  BY <1>2 DEF PhaseInv
<1>5. GlobalsInv'
  BY <1>2 DEF GlobalsInv
<1>6. BufferInv'
  BY <1>2, <1>3 DEF BufferInv, BuffersApart
<1>7. BlockInv'
  BY <1>2, <1>3 DEF BlockInv, BlockOK
<1>8. ServedInv'
  <2>1. \A t \in Slaves : Taken(t)' = {}
    BY <1>0 DEF Taken, Nothing
  <2> QED BY <1>0, <2>1 DEF ServedInv
<1>9. CacheInv'
  BY <1>2, <1>3 DEF CacheInv, CacheOK
<1>10. MutexInv'
  <2>1. \A t \in Slaves : mutex # t
    BY DEF Launch, Done, IndInv, MutexInv
  <2> QED BY <1>0, <1>2, <2>1 DEF MutexInv
<1>11. ReportedInv'
  BY <1>2 DEF ReportedInv
<1>12. WrittenInv'
  BY <1>2 DEF WrittenInv, WrittenOK
<1> QED BY <1>1, <1>4, <1>5, <1>6, <1>7, <1>8, <1>9, <1>10, <1>11, <1>12 DEF IndInv

(* What a step of the master leaves as it is. *)
LEMMA MasterFrame ==
  ASSUME IndInv, UNCHANGED <<query, mutex, locals, served>>,
         \A t \in Slaves : pc'[t] = pc[t],
         \A t \in Slaves : BlockOK(t)'
  PROVE  BlockInv' /\ ServedInv' /\ CacheInv' /\ MutexInv' /\ LocalsOK'
<1> USE DEF locals
<1>1. BlockInv'
  BY DEF BlockInv
<1>2. ServedInv'
  <2>1. \A t \in Slaves : Taken(t)' = Taken(t)
    BY DEF Taken
  <2> QED BY <2>1 DEF IndInv, ServedInv
<1>3. CacheInv'
  BY DEF IndInv, CacheInv, CacheOK
<1>4. MutexInv'
  BY DEF IndInv, MutexInv
<1>5. LocalsOK'
  BY DEF IndInv, TypeOK, LocalsOK
<1> QED BY <1>1, <1>2, <1>3, <1>4, <1>5

LEMMA InitialInv ==
  ASSUME IndInv, Initial
  PROVE  IndInv'
<1> USE SlavesTasklets DEF Initial, Goto
<1>0. /\ pc[Master] = "start" /\ pc' \in [Tasklets -> Labels] /\ pc'[Master] = "prepare"
      /\ \A t \in Slaves : pc[t] = "barrier1" /\ pc'[t] = "barrier1"
  BY DEF IndInv, TypeOK, Labels, PhaseInv
<1>1. \A t \in Slaves : buffer[t] = 0 /\ buffer'[t] = 0 /\ handled[t] = 0 /\ cache[t] = <<>>
  BY <1>0 DEF IndInv, BufferInv, BlockInv, BlockOK, locals
<1>2. \A t \in Slaves : BlockOK(t)'
  BY <1>0 DEF IndInv, BlockInv, BlockOK, locals
<1>3. BlockInv' /\ ServedInv' /\ CacheInv' /\ MutexInv' /\ LocalsOK'
  BY <1>0, <1>2, MasterFrame DEF mram
<1>4. TypeOK'
  <2>1. query.nnz \in 0..MaxItems
    BY DEF IndInv, TypeOK, MramOK
  <2>2. MramOK'
    BY DEF IndInv, TypeOK, MramOK, mram
  <2>3. GlobalsOK'
    BY <2>1, TaskAssumption DEF IndInv, TypeOK, GlobalsOK
  <2> QED BY <1>0, <1>3, <2>2, <2>3 DEF IndInv, TypeOK
<1>5. PhaseInv'
  BY <1>0 DEF PhaseInv
<1>6. GlobalsInv'
  BY <1>0 DEF GlobalsInv, mram
<1>7. BufferInv'
  <2>1. {t \in Slaves : buffer'[t] # 0} = {}
    BY <1>1
  <2>2. Cardinality({t \in Slaves : buffer'[t] # 0}) = 0
    BY <2>1, FS_EmptySet
  <2> QED BY <1>1, <2>2 DEF BufferInv, BuffersApart
<1>8. ReportedInv'
  BY <1>0 DEF ReportedInv
<1>9. WrittenInv'
  BY <1>0 DEF WrittenInv, WrittenOK
<1> QED BY <1>3, <1>4, <1>5, <1>6, <1>7, <1>8, <1>9 DEF IndInv

LEMMA PrepareInv ==
  ASSUME IndInv, Prepare
  PROVE  IndInv'
<1> USE SlavesTasklets
<1>0. /\ pc[Master] = "prepare" /\ pc' \in [Tasklets -> Labels] /\ pc'[Master] = "barrier1"
      /\ \A t \in Slaves : pc[t] = "barrier1" /\ pc'[t] = "barrier1"
      /\ cooNnz' = IF query.type = "lookup" THEN 0 ELSE cooNnz
      /\ UNCHANGED <<query, kvsdNnz, heap, cooData, resultSize, mutex, locals, served>>
      /\ UNCHANGED <<buffer, low, nnz, handled, cache, tmp>>
  BY DEF Prepare, Goto, IndInv, TypeOK, Labels, PhaseInv, ClearResults, locals
<1>1. \A t \in Slaves : handled[t] = 0 /\ cache[t] = <<>> /\ buffer[t] = 0
  BY <1>0 DEF IndInv, BlockInv, BlockOK, BufferInv
<1>2. \A t \in Slaves : BlockOK(t)'
  BY <1>0, <1>1 DEF IndInv, BlockInv, BlockOK
<1>3. BlockInv' /\ ServedInv' /\ CacheInv' /\ MutexInv' /\ LocalsOK'
  BY <1>0, <1>2, MasterFrame
<1>4. /\ table' \in Seq(Ids) /\ Len(table') <= MaxIndexes /\ index' \in 0..Len(table')
      /\ query.type # "create" => index' = Position(query.id) /\ table' = table
      /\ query.type = "create" /\ index' # NoSlot => table'[index'] = query.id
  <2>1. table \in Seq(Ids) /\ Len(table) \in Nat /\ Len(table) <= MaxIndexes /\ query.id \in Ids
    BY LenProperties DEF IndInv, TypeOK, GlobalsOK, MramOK
  <2>2. CASE query.type = "create" /\ Len(table) < MaxIndexes /\ table' = Append(table, query.id)
             /\ index' = Len(table) + 1
    <3>1. /\ table' \in Seq(Ids) /\ Len(table') = Len(table) + 1
          /\ table'[Len(table) + 1] = query.id
      BY <2>1, <2>2, AppendProperties
    <3> QED BY <2>1, <2>2, <3>1, TaskAssumption
  <2>3. CASE query.type = "create" /\ index' = NoSlot /\ UNCHANGED table
    BY <2>1, <2>3 DEF NoSlot
  <2>4. CASE query.type # "create" /\ index' = Position(query.id) /\ UNCHANGED table
    BY <2>1, <2>4, PositionFound
  <2> QED BY <2>2, <2>3, <2>4 DEF Prepare
<1>5. TypeOK'
  <2>1. MramOK'
    BY <1>0, TaskAssumption DEF IndInv, TypeOK, MramOK
  <2>2. GlobalsOK'
    BY <1>0, <1>4 DEF IndInv, TypeOK, GlobalsOK
  <2> QED BY <1>0, <1>3, <2>1, <2>2 DEF IndInv, TypeOK
<1>6. PhaseInv'
  BY <1>0 DEF PhaseInv
<1>7. GlobalsInv'
  <2>1. query.type # "create" => index' = Position(query.id)'
    BY <1>0, <1>4 DEF Position
  <2> QED BY <1>0, <1>4, <2>1 DEF GlobalsInv, IndInv
<1>8. BufferInv'
  BY <1>0, <1>1 DEF IndInv, BufferInv, BuffersApart
<1>9. ReportedInv'
  <2>1. \A t \in Slaves : Flushed(t)' = {}
    <3>1. \A t \in Slaves : low[t] \in Nat /\ handled[t] = 0 /\ Len(cache[t]) = 0
      BY <1>1 DEF IndInv, TypeOK, LocalsOK
    <3> QED BY <1>0, <3>1 DEF Flushed
  <2>2. UNION {Flushed(t)' : t \in Slaves} = {}
    BY <2>1
  <2>3. query.type = "lookup" => Reported' = {} /\ cooNnz' = 0
    BY <1>0 DEF Reported
  <2> QED BY <1>0, <2>2, <2>3, FS_EmptySet DEF ReportedInv
<1>10. WrittenInv'
  BY <1>0 DEF WrittenInv, WrittenOK
<1> QED BY <1>3, <1>5, <1>6, <1>7, <1>8, <1>9, <1>10 DEF IndInv

LEMMA MergeInv ==
  ASSUME IndInv, Merge
  PROVE  IndInv'
<1> USE SlavesTasklets
<1>0. /\ pc[Master] = "merge" /\ pc' \in [Tasklets -> Labels] /\ pc'[Master] = "done"
      /\ \A t \in Slaves : pc[t] = "done" /\ pc'[t] = "done"
      /\ resultSize' = IF query.type = "lookup" THEN cooNnz ELSE resultSize
      /\ UNCHANGED <<query, cooNnz, cooData, table, index, kvsdNnz, heap, mutex, locals, served>>
      /\ UNCHANGED <<buffer, low, nnz, handled, cache, tmp>>
  BY DEF Merge, Goto, IndInv, TypeOK, Labels, PhaseInv, globals, locals
<1>1. \A t \in Slaves : BlockOK(t)'
  BY <1>0 DEF IndInv, BlockInv, BlockOK, ItemsOfLaunch
<1>2. BlockInv' /\ ServedInv' /\ CacheInv' /\ MutexInv' /\ LocalsOK'
  BY <1>0, <1>1, MasterFrame
<1>3. TypeOK'
  <2>1. MramOK'
    BY <1>0 DEF IndInv, TypeOK, MramOK
  <2>2. GlobalsOK'
    BY <1>0 DEF IndInv, TypeOK, GlobalsOK
  <2> QED BY <1>0, <1>2, <2>1, <2>2 DEF IndInv, TypeOK
<1>4. PhaseInv'
  BY <1>0 DEF PhaseInv
<1>5. GlobalsInv'
  <2>1. Position(query.id)' = Position(query.id)
    BY <1>0 DEF Position
  <2> QED BY <1>0, <2>1 DEF GlobalsInv, IndInv
<1>6. BufferInv'
  BY <1>0 DEF IndInv, BufferInv, BuffersApart
<1>7. ReportedInv'
  <2>1. Reported' = Reported /\ \A t \in Slaves : Flushed(t)' = Flushed(t)
    BY <1>0 DEF Reported, Flushed
  <2> QED BY <1>0, <2>1 DEF IndInv, ReportedInv
<1>8. WrittenInv'
  BY <1>0 DEF WrittenInv, WrittenOK
<1> QED BY <1>2, <1>3, <1>4, <1>5, <1>6, <1>7, <1>8 DEF IndInv

(* A barrier changes nothing but where the tasklets are. *)
LEMMA PassInv ==
  ASSUME IndInv, NEW b, NEW m, NEW sl, Pass(b, m, sl),
         <<b, m, sl>> \in {<<"barrier1", "barrier2", "run">>, <<"barrier2", "merge", "done">>}
  PROVE  IndInv'
<1> USE SlavesTasklets
<1>0. /\ pc[Master] = b /\ pc'[Master] = m /\ pc' \in [Tasklets -> Labels]
      /\ \A t \in Slaves : pc[t] = b /\ pc'[t] = sl
      /\ UNCHANGED <<query, cooNnz, cooData, resultSize, table, index, kvsdNnz, heap, mutex, locals, served>>
      /\ UNCHANGED <<buffer, low, nnz, handled, cache, tmp>>
  <2>1. \A t \in Tasklets : pc[t] = b
    BY AllWaiting DEF Pass
  <2>2. pc' = [t \in Tasklets |-> IF t = Master THEN m ELSE sl]
    BY <2>1 DEF Pass, Waiters
  <2>3. m \in Labels /\ sl \in Labels
    BY DEF Labels
  <2> QED BY <2>1, <2>2, <2>3 DEF Pass, mram, globals, locals
<1>1. \A t \in Slaves : BlockOK(t)'
  BY <1>0 DEF IndInv, BlockInv, BlockOK, ItemsOfLaunch
<1>3. TypeOK'
  <2>1. MramOK'
    BY <1>0 DEF IndInv, TypeOK, MramOK
  <2>2. GlobalsOK'
    BY <1>0 DEF IndInv, TypeOK, GlobalsOK
  <2>3. LocalsOK'
    BY <1>0 DEF IndInv, TypeOK, LocalsOK
  <2> QED BY <1>0, <2>1, <2>2, <2>3 DEF IndInv, TypeOK
<1>4. PhaseInv'
  BY <1>0 DEF PhaseInv, Working
<1>5. GlobalsInv'
  <2>1. Position(query.id)' = Position(query.id)
    BY <1>0 DEF Position
  <2> QED BY <1>0, <2>1 DEF GlobalsInv, IndInv
<1>6. BufferInv'
  BY <1>0 DEF IndInv, BufferInv, BuffersApart
<1>7. BlockInv'
  BY <1>1 DEF BlockInv
<1>8. ServedInv'
  <2>1. \A t \in Slaves : Taken(t)' = Taken(t)
    BY <1>0 DEF Taken
  <2> QED BY <1>0, <2>1 DEF IndInv, ServedInv
<1>9. CacheInv'
  BY <1>0 DEF IndInv, CacheInv, CacheOK
<1>10. MutexInv'
  BY <1>0 DEF IndInv, MutexInv
<1>11. ReportedInv'
  <2>1. Reported' = Reported /\ \A t \in Slaves : Flushed(t)' = Flushed(t)
    BY <1>0 DEF Reported, Flushed
  <2> QED BY <1>0, <2>1 DEF IndInv, ReportedInv
<1>12. WrittenInv'
  BY <1>0 DEF WrittenInv, WrittenOK
<1> QED BY <1>3, <1>4, <1>5, <1>6, <1>7, <1>8, <1>9, <1>10, <1>11, <1>12 DEF IndInv

-----------------------------------------------------------------------------
(* The slaves.  Their blocks lie apart and inside the items, ...           *)

LEMMA ItemsBound ==
  ASSUME TypeOK
  PROVE  /\ ItemsOfLaunch \in Nat
         /\ \A i \in 0..(ItemsOfLaunch - 1) : i \in Items
         /\ query.type = "lookup" => ItemsOfLaunch = kvsdNnz /\ ItemsOfLaunch <= MaxItems
<1>1. kvsdNnz \in Nat /\ kvsdNnz <= MaxItems
  BY TaskAssumption DEF TypeOK, GlobalsOK
<1> QED BY <1>1, TaskAssumption DEF ItemsOfLaunch, Items

LEMMA OwnBlock ==
  ASSUME IndInv, NEW t \in Slaves, pc[t] \notin {"barrier1", "run"}, index # NoSlot
  PROVE  /\ low[t] \in Nat /\ nnz[t] \in Nat /\ low[t] + nnz[t] <= ItemsOfLaunch
         /\ handled[t] \in Nat /\ handled[t] <= nnz[t]
<1>1. /\ low[t] = BLOCK_LOW(Rank(t), NrSlaves, ItemsOfLaunch)
      /\ nnz[t] = BLOCK_SIZE(Rank(t), NrSlaves, ItemsOfLaunch)
      /\ handled[t] <= nnz[t] /\ handled[t] \in Nat
  BY DEF IndInv, BlockInv, BlockOK, TypeOK, LocalsOK
<1>2. ItemsOfLaunch \in Nat
  BY ItemsBound DEF IndInv
<1> QED BY <1>1, <1>2, Blocks

LEMMA Apart ==
  ASSUME IndInv, NEW t \in Slaves, pc[t] \notin {"barrier1", "run"}, index # NoSlot,
         NEW u \in Slaves \ {t}
  PROVE  \A i \in low[t]..(low[t] + nnz[t] - 1) : i \notin Taken(u)
<1>0. /\ low[t] \in Nat /\ nnz[t] \in Nat /\ low[u] \in Nat /\ nnz[u] \in Nat /\ handled[u] \in Nat
      /\ handled[u] <= nnz[u]
  BY DEF IndInv, TypeOK, LocalsOK, BlockInv, BlockOK
<1>1. CASE handled[u] = 0
  BY <1>0, <1>1 DEF Taken
<1>2. CASE handled[u] # 0
  <2>1. /\ low[t] = BLOCK_LOW(Rank(t), NrSlaves, ItemsOfLaunch)
        /\ nnz[t] = BLOCK_SIZE(Rank(t), NrSlaves, ItemsOfLaunch)
        /\ low[u] = BLOCK_LOW(Rank(u), NrSlaves, ItemsOfLaunch)
        /\ nnz[u] = BLOCK_SIZE(Rank(u), NrSlaves, ItemsOfLaunch)
    BY <1>2 DEF IndInv, BlockInv, BlockOK
  <2>2. ItemsOfLaunch \in Nat
    BY ItemsBound DEF IndInv
  <2>3. t < u \/ u < t
    BY TaskAssumption DEF Slaves
  <2>4. low[t] + nnz[t] <= low[u] \/ low[u] + nnz[u] <= low[t]
    BY <2>1, <2>2, <2>3, Blocks
  <2> QED BY <1>0, <2>4 DEF Taken
<1> QED BY <1>1, <1>2

(* ... and a step of one slave leaves the others as they are.              *)
Others(t) ==
  /\ \A u \in Tasklets \ {t} : pc'[u] = pc[u]
  /\ \A u \in Slaves \ {t} :
       /\ low'[u] = low[u] /\ nnz'[u] = nnz[u] /\ handled'[u] = handled[u]
       /\ cache'[u] = cache[u] /\ tmp'[u] = tmp[u]

LEMMA MasterWaits ==
  ASSUME IndInv, NEW t \in Slaves, Working(t)
  PROVE  pc[Master] = "barrier2"
BY DEF IndInv, PhaseInv, Working

LEMMA SlaveFrame ==
  ASSUME IndInv, NEW t \in Slaves, Working(t), Others(t),
         UNCHANGED <<query, table, index, kvsdNnz>>,
         Working(t)' \/ pc'[t] = "barrier2",
         BlockOK(t)', CacheOK(t)'
  PROVE  PhaseInv' /\ GlobalsInv' /\ BlockInv' /\ CacheInv'
<1>1. /\ pc[Master] = "barrier2" /\ pc'[Master] = "barrier2"
      /\ \A u \in Slaves \ {t} : pc'[u] = pc[u]
  BY MasterWaits, SlavesTasklets DEF Others
<1>2. PhaseInv'
  <2>1. \A u \in Slaves \ {t} : Working(u)' \/ pc'[u] = "barrier2"
    BY <1>1 DEF IndInv, PhaseInv, Working
  <2> QED BY <1>1, <2>1 DEF PhaseInv
<1>3. GlobalsInv'
  <2>1. Position(query.id)' = Position(query.id)
    BY DEF Position
  <2> QED BY <1>1, <2>1 DEF GlobalsInv, IndInv
<1>4. BlockInv'
  <2>1. \A u \in Slaves \ {t} : BlockOK(u)'
    BY <1>1 DEF IndInv, BlockInv, BlockOK, Others, ItemsOfLaunch
  <2> QED BY <2>1 DEF BlockInv
<1>5. CacheInv'
  <2>1. \A u \in Slaves \ {t} : CacheOK(u)'
    BY <1>1 DEF IndInv, CacheInv, CacheOK, Others
  <2> QED BY <2>1 DEF CacheInv
<1> QED BY <1>2, <1>3, <1>4, <1>5

(* Steps that neither take an item nor allocate a buffer nor flush.        *)
LEMMA QuietFrame ==
  ASSUME IndInv, NEW t \in Slaves, Working(t), Others(t),
         UNCHANGED <<buffer, heap>>, pc'[t] \notin {"barrier1", "run"}
  PROVE  BufferInv'
<1>1. pc[Master] = "barrier2" /\ pc'[Master] = "barrier2" /\ \A u \in Slaves \ {t} : pc'[u] = pc[u]
  BY MasterWaits, SlavesTasklets DEF Others
<1> QED BY <1>1 DEF IndInv, BufferInv, BuffersApart

LEMMA EndOfBlockInv ==
  ASSUME IndInv, NEW t \in Slaves, EndOfBlock(t)
  PROVE  IndInv'
<1> USE SlavesTasklets
<1>0. /\ pc[t] = "items" /\ handled[t] = nnz[t] /\ pc' \in [Tasklets -> Labels]
      /\ pc'[t] = LastFlush(t) /\ \A u \in Tasklets \ {t} : pc'[u] = pc[u]
      /\ UNCHANGED <<query, cooNnz, cooData, resultSize, table, index, kvsdNnz, heap, mutex, served>>
      /\ UNCHANGED <<buffer, low, nnz, handled, cache, tmp>>
  BY DEF EndOfBlock, Goto, IndInv, TypeOK, Labels, mram, globals, locals, LastFlush
<1>1. Others(t) /\ Working(t) /\ pc[Master] = "barrier2"
  BY <1>0, MasterWaits DEF Others, Working
<1>2. \/ cache[t] = <<>> /\ pc'[t] = "barrier2"
      \/ cache[t] # <<>> /\ pc'[t] = "lock"
  BY <1>0 DEF LastFlush
<1>3. BlockOK(t)'
  BY <1>0, <1>2 DEF IndInv, BlockInv, BlockOK, ItemsOfLaunch
<1>4. CacheOK(t)'
  BY <1>0, <1>2 DEF IndInv, CacheInv, CacheOK
<1>5. PhaseInv' /\ GlobalsInv' /\ BlockInv' /\ CacheInv'
  BY <1>0, <1>1, <1>2, <1>3, <1>4, SlaveFrame DEF Working
<1>6. TypeOK'
  BY <1>0 DEF IndInv, TypeOK, MramOK, GlobalsOK, LocalsOK
<1>7. BufferInv'
  BY <1>0, <1>1, <1>2, QuietFrame
<1>8. ServedInv'
  <2>1. \A u \in Slaves : Taken(u)' = Taken(u)
    BY <1>0 DEF Taken
  <2> QED BY <1>0, <2>1 DEF IndInv, ServedInv
<1>9. MutexInv'
  BY <1>0, <1>2 DEF IndInv, MutexInv
<1>10. ReportedInv'
  <2>1. Reported' = Reported /\ \A u \in Slaves : Flushed(u)' = Flushed(u)
    BY <1>0 DEF Reported, Flushed
  <2> QED BY <1>0, <1>1, <2>1 DEF IndInv, ReportedInv
<1>11. WrittenInv'
  BY <1>0, <1>2 DEF IndInv, WrittenInv, WrittenOK
<1> QED BY <1>5, <1>6, <1>7, <1>8, <1>9, <1>10, <1>11 DEF IndInv

LEMMA LockInv ==
  ASSUME IndInv, NEW t \in Slaves, Lock(t)
  PROVE  IndInv'
<1> USE SlavesTasklets
<1>0. /\ pc[t] = "lock" /\ mutex = Master /\ mutex' = t /\ pc' \in [Tasklets -> Labels]
      /\ pc'[t] = "write" /\ \A u \in Tasklets \ {t} : pc'[u] = pc[u]
      /\ UNCHANGED <<query, cooNnz, cooData, resultSize, table, index, kvsdNnz, heap, served>>
      /\ UNCHANGED <<buffer, low, nnz, handled, cache, tmp>>
  BY DEF Lock, LockResults, Goto, IndInv, TypeOK, Labels, mram, globals, locals
<1>1. Others(t) /\ Working(t) /\ pc[Master] = "barrier2"
  BY <1>0, MasterWaits DEF Others, Working
<1>3. BlockOK(t)'
  BY <1>0 DEF IndInv, BlockInv, BlockOK, ItemsOfLaunch
<1>4. CacheOK(t)'
  BY <1>0 DEF IndInv, CacheInv, CacheOK
<1>5. PhaseInv' /\ GlobalsInv' /\ BlockInv' /\ CacheInv'
  BY <1>0, <1>1, <1>3, <1>4, SlaveFrame DEF Working
<1>6. TypeOK'
  BY <1>0 DEF IndInv, TypeOK, MramOK, GlobalsOK, LocalsOK
<1>7. BufferInv'
  BY <1>0, <1>1, QuietFrame
<1>8. ServedInv'
  <2>1. \A u \in Slaves : Taken(u)' = Taken(u)
    BY <1>0 DEF Taken
  <2> QED BY <1>0, <2>1 DEF IndInv, ServedInv
<1>9. MutexInv'
  BY <1>0 DEF IndInv, MutexInv
<1>10. ReportedInv'
  <2>1. Reported' = Reported /\ \A u \in Slaves : Flushed(u)' = Flushed(u)
    BY <1>0 DEF Reported, Flushed
  <2> QED BY <1>0, <1>1, <2>1 DEF IndInv, ReportedInv
<1>11. WrittenInv'
  BY <1>0 DEF IndInv, WrittenInv, WrittenOK
<1> QED BY <1>5, <1>6, <1>7, <1>8, <1>9, <1>10, <1>11 DEF IndInv

LEMMA LoadNnzInv ==
  ASSUME IndInv, NEW t \in Slaves, LoadNnz(t)
  PROVE  IndInv'
<1> USE SlavesTasklets
<1>0. /\ pc[t] = "load" /\ pc' \in [Tasklets -> Labels]
      /\ pc'[t] = "store" /\ \A u \in Tasklets \ {t} : pc'[u] = pc[u]
      /\ tmp' = [tmp EXCEPT ![t] = cooNnz] /\ cooNnz \in 0..MaxItems
      /\ tmp'[t] = cooNnz /\ \A u \in Slaves \ {t} : tmp'[u] = tmp[u]
      /\ UNCHANGED <<query, cooNnz, cooData, resultSize, table, index, kvsdNnz, heap, served, mutex>>
      /\ UNCHANGED <<buffer, low, nnz, handled, cache>>
  BY DEF LoadNnz, Goto, IndInv, TypeOK, LocalsOK, MramOK, Labels, mram, globals
<1>1. Others(t) /\ Working(t) /\ pc[Master] = "barrier2"
  BY <1>0, MasterWaits DEF Others, Working
<1>3. BlockOK(t)'
  BY <1>0 DEF IndInv, BlockInv, BlockOK, ItemsOfLaunch
<1>4. CacheOK(t)'
  BY <1>0 DEF IndInv, CacheInv, CacheOK
<1>5. PhaseInv' /\ GlobalsInv' /\ BlockInv' /\ CacheInv'
  BY <1>0, <1>1, <1>3, <1>4, SlaveFrame DEF Working
<1>6. TypeOK'
  BY <1>0 DEF IndInv, TypeOK, MramOK, GlobalsOK, LocalsOK
<1>7. BufferInv'
  BY <1>0, <1>1, QuietFrame
<1>8. ServedInv'
  <2>1. \A u \in Slaves : Taken(u)' = Taken(u)
    BY <1>0 DEF Taken
  <2> QED BY <1>0, <2>1 DEF IndInv, ServedInv
<1>9. MutexInv'
  BY <1>0 DEF IndInv, MutexInv
<1>10. ReportedInv'
  <2>1. Reported' = Reported /\ \A u \in Slaves : Flushed(u)' = Flushed(u)
    BY <1>0 DEF Reported, Flushed
  <2> QED BY <1>0, <1>1, <2>1 DEF IndInv, ReportedInv
<1>11. WrittenInv'
  BY <1>0 DEF IndInv, WrittenInv, WrittenOK
<1> QED BY <1>5, <1>6, <1>7, <1>8, <1>9, <1>10, <1>11 DEF IndInv

(* A slave that starts has taken nothing and has no buffer yet.            *)
LEMMA RunInv ==
  ASSUME IndInv, NEW t \in Slaves, Run(t)
  PROVE  IndInv'
<1> USE SlavesTasklets
<1> DEFINE S == {u \in Slaves : buffer[u] # 0}
<1>0. /\ pc[t] = "run" /\ pc' \in [Tasklets -> Labels]
      /\ pc'[t] = IF index = NoSlot THEN "barrier2" ELSE "items"
      /\ \A u \in Tasklets \ {t} : pc'[u] = pc[u]
      /\ UNCHANGED <<query, cooNnz, cooData, resultSize, table, index, kvsdNnz, served, mutex>>
      /\ UNCHANGED <<handled, cache, tmp>>
  BY DEF Run, Goto, IndInv, TypeOK, Labels, mram
<1>1. Working(t) /\ pc[Master] = "barrier2" /\ pc'[Master] = "barrier2"
  BY <1>0, MasterWaits DEF Working
<1>2. /\ buffer[t] = 0 /\ handled[t] = 0 /\ cache[t] = <<>> /\ Len(cache[t]) = 0
      /\ heap = Cardinality(S) /\ \A u \in Slaves : buffer[u] <= heap
  BY <1>0, <1>1 DEF IndInv, BufferInv, BlockInv, BlockOK
<1>3. /\ heap \in Nat /\ heap < NrSlaves /\ Cardinality(S \cup {t}) = heap + 1
      /\ buffer \in [Slaves -> 0..NrSlaves]
  <2>1. IsFiniteSet(S) /\ S \in SUBSET Slaves /\ t \notin S /\ S \cup {t} \in SUBSET Slaves
    <3>1. IsFiniteSet(S)
      BY FS_Subset
    <3> QED BY <1>2, <3>1
  <2>2. Cardinality(S \cup {t}) = Cardinality(S) + 1 /\ Cardinality(S) \in Nat
    <3> HIDE DEF S
    <3> QED BY <2>1, FS_AddElement, FS_CardinalityType
  <2>3. Cardinality(S \cup {t}) <= NrSlaves
    <3> HIDE DEF S
    <3> QED BY <2>1, FS_Subset
  <2> QED BY <1>2, <2>2, <2>3, TaskAssumption DEF IndInv, TypeOK, LocalsOK
<1>4. /\ heap' \in 0..NrSlaves /\ buffer' \in [Slaves -> 0..NrSlaves]
      /\ \/ buffer'[t] = heap + 1 /\ heap' = heap + 1
         \/ buffer'[t] = 0 /\ heap' = heap
      /\ \A u \in Slaves \ {t} : buffer'[u] = buffer[u]
  <2>1. CASE buffer' = [buffer EXCEPT ![t] = heap + 1] /\ heap' = heap + 1
    BY <1>3, <2>1, TaskAssumption
  <2>2. CASE UNCHANGED <<buffer, heap>>
    BY <1>2, <1>3, <2>2, TaskAssumption
  <2> QED BY <2>1, <2>2 DEF Run
<1>5. /\ low' \in [Slaves -> Nat] /\ nnz' \in [Slaves -> Nat]
      /\ index # NoSlot => /\ low'[t] = BLOCK_LOW(Rank(t), NrSlaves, ItemsOfLaunch)
                           /\ nnz'[t] = BLOCK_SIZE(Rank(t), NrSlaves, ItemsOfLaunch)
      /\ \A u \in Slaves \ {t} : low'[u] = low[u] /\ nnz'[u] = nnz[u]
  <2>1. low \in [Slaves -> Nat] /\ nnz \in [Slaves -> Nat]
    BY DEF IndInv, TypeOK, LocalsOK
  <2>2. CASE index = NoSlot /\ UNCHANGED <<low, nnz>>
    BY <2>1, <2>2
  <2>3. CASE /\ index # NoSlot
             /\ low' = [low EXCEPT ![t] = BLOCK_LOW(Rank(t), NrSlaves, ItemsOfLaunch)]
             /\ nnz' = [nnz EXCEPT ![t] = BLOCK_SIZE(Rank(t), NrSlaves, ItemsOfLaunch)]
    <3>1. /\ BLOCK_LOW(Rank(t), NrSlaves, ItemsOfLaunch) \in Nat
          /\ BLOCK_SIZE(Rank(t), NrSlaves, ItemsOfLaunch) \in Nat
      BY Blocks, ItemsBound DEF IndInv
    <3> QED BY <2>1, <2>3, <3>1
  <2> QED BY <2>2, <2>3 DEF Run
<1>6. Others(t)
  BY <1>0, <1>5 DEF Others
<1>7. BlockOK(t)'
  <2>1. ItemsOfLaunch' = ItemsOfLaunch
    BY <1>0 DEF ItemsOfLaunch
  <2>2. nnz'[t] \in Nat
    BY <1>5
  <2> QED BY <1>0, <1>2, <1>5, <2>1, <2>2 DEF BlockOK
<1>8. CacheOK(t)'
  <2>1. ResultCacheSize \in Nat /\ 0 < ResultCacheSize
    BY TaskAssumption
  <2>2. query.type # "lookup" => cache[t] = <<>>
    BY <1>2
  <2>3. DOMAIN cache[t] = {}
    BY <1>2
  <2> QED BY <1>0, <1>2, <2>1, <2>2, <2>3 DEF CacheOK
<1>9. PhaseInv' /\ GlobalsInv' /\ BlockInv' /\ CacheInv'
  <2>1. Working(t)' \/ pc'[t] = "barrier2"
    BY <1>0 DEF Working
  <2> QED BY <1>0, <1>1, <1>6, <1>7, <1>8, <2>1, SlaveFrame
<1>10. TypeOK'
  BY <1>0, <1>4, <1>5 DEF IndInv, TypeOK, MramOK, GlobalsOK, LocalsOK
<1>11. BufferInv'
  <2>1. pc'[t] \notin {"barrier1", "run"}
    BY <1>0
  <2>2. \A u \in Slaves : pc'[u] \in {"barrier1", "run"} => buffer'[u] = 0
    BY <1>0, <1>4, <2>1 DEF IndInv, BufferInv
  <2>3. \A u \in Slaves : buffer'[u] <= heap'
    BY <1>2, <1>3, <1>4
  <2>4. heap' = Cardinality({u \in Slaves : buffer'[u] # 0})
    <3>1. CASE buffer'[t] = heap + 1 /\ heap' = heap + 1
      <4>1. {u \in Slaves : buffer'[u] # 0} = S \cup {t}
        BY <1>3, <1>4, <3>1
      <4> QED BY <1>3, <3>1, <4>1
    <3>2. CASE buffer'[t] = 0 /\ heap' = heap
      <4>1. {u \in Slaves : buffer'[u] # 0} = S
        BY <1>2, <1>4, <3>2
      <4> QED BY <1>2, <3>2, <4>1
    <3> QED BY <1>4, <3>1, <3>2
  <2>5. BuffersApart'
    <3> SUFFICES ASSUME NEW u \in Slaves, NEW w \in Slaves, u # w, buffer'[u] # 0
                 PROVE  buffer'[u] # buffer'[w]
      BY DEF BuffersApart
    <3>1. buffer[u] \in Nat /\ buffer[w] \in Nat /\ buffer[u] <= heap /\ buffer[w] <= heap
      BY <1>2, <1>3, TaskAssumption
    <3>2. CASE u = t
      BY <1>3, <1>4, <3>1, <3>2
    <3>3. CASE w = t
      BY <1>3, <1>4, <3>1, <3>3
    <3>4. CASE u # t /\ w # t
      BY <1>4, <3>4 DEF IndInv, BufferInv, BuffersApart
    <3> QED BY <3>2, <3>3, <3>4
  <2> QED BY <1>1, <2>2, <2>3, <2>4, <2>5 DEF BufferInv
<1>12. ServedInv'
  <2>1. Taken(t)' = {} /\ Taken(t) = {}
    <3>1. low[t] \in Nat /\ low'[t] \in Nat
      BY <1>5 DEF IndInv, TypeOK, LocalsOK
    <3> QED BY <1>0, <1>2, <3>1 DEF Taken
  <2>2. \A u \in Slaves \ {t} : Taken(u)' = Taken(u)
    BY <1>0, <1>5 DEF Taken
  <2>3. \A u \in Slaves : Taken(u)' = Taken(u)
    BY <2>1, <2>2
  <2> QED BY <1>0, <2>3 DEF IndInv, ServedInv
<1>13. MutexInv'
  BY <1>0 DEF IndInv, MutexInv
<1>14. ReportedInv'
  <2>1. Flushed(t)' = {} /\ Flushed(t) = {}
    <3>1. low[t] \in Nat /\ low'[t] \in Nat
      BY <1>5 DEF IndInv, TypeOK, LocalsOK
    <3> QED BY <1>0, <1>2, <3>1 DEF Flushed
  <2>2. \A u \in Slaves \ {t} : Flushed(u)' = Flushed(u)
    BY <1>0, <1>5 DEF Flushed
  <2>3. Reported' = Reported /\ \A u \in Slaves : Flushed(u)' = Flushed(u)
    BY <1>0, <2>1, <2>2 DEF Reported
  <2> QED BY <1>0, <1>1, <2>3 DEF IndInv, ReportedInv
<1>15. WrittenInv'
  BY <1>0 DEF IndInv, WrittenInv, WrittenOK
<1> QED BY <1>9, <1>10, <1>11, <1>12, <1>13, <1>14, <1>15 DEF IndInv

LEMMA OneMore ==
  ASSUME NEW a \in Nat, NEW h \in Nat, NEW c \in Nat
  PROVE  /\ a..(a + (h + 1) - 1) = (a..(a + h - 1)) \cup {a + h}
         /\ a + h \notin a..(a + h - 1)
         /\ a..(a + (h + 1) - (c + 1) - 1) = a..(a + h - c - 1)
<1>1. a + (h + 1) - (c + 1) - 1 = a + h - c - 1
  OBVIOUS
<1>2. a..(a + (h + 1) - 1) = (a..(a + h - 1)) \cup {a + h}
  OBVIOUS
<1> QED BY <1>1, <1>2

(* The item a slave takes has not been served yet.                         *)
LEMMA HandleItemInv ==
  ASSUME IndInv, NEW t \in Slaves, HandleItem(t)
  PROVE  IndInv'
<1> USE SlavesTasklets
<1>0. /\ pc[t] = "items" /\ handled[t] < nnz[t] /\ index # NoSlot
      /\ served' = [served EXCEPT ![low[t] + handled[t]] = @ + 1]
      /\ cache' = IF query.type = "lookup"
                    THEN [cache EXCEPT ![t] = Append(@, low[t] + handled[t])] ELSE cache
      /\ handled' = [handled EXCEPT ![t] = @ + 1]
      /\ pc' = [pc EXCEPT ![t] = IF CacheFull(cache'[t]) THEN "lock" ELSE "items"]
      /\ UNCHANGED <<query, cooNnz, cooData, resultSize, table, index, kvsdNnz, heap, mutex>>
      /\ UNCHANGED <<buffer, low, nnz, tmp>>
  BY DEF HandleItem, Goto, mram, globals, IndInv, BlockInv, BlockOK
<1>1. /\ low[t] \in Nat /\ nnz[t] \in Nat /\ handled[t] \in Nat
      /\ low[t] + nnz[t] <= ItemsOfLaunch /\ ItemsOfLaunch \in Nat
  BY <1>0, OwnBlock, ItemsBound DEF IndInv
<1> DEFINE item == low[t] + handled[t]
<1>2. PICK i \in Items : i = item
  BY <1>0, <1>1, ItemsBound DEF IndInv
<1>3. i \in Nat /\ i < ItemsOfLaunch /\ i \in low[t]..(low[t] + nnz[t] - 1)
  BY <1>0, <1>1, <1>2
<1>4. /\ pc' \in [Tasklets -> Labels] /\ \A u \in Tasklets \ {t} : pc'[u] = pc[u]
      /\ pc'[t] = IF CacheFull(cache'[t]) THEN "lock" ELSE "items"
  BY <1>0 DEF IndInv, TypeOK, Labels
<1>5. /\ handled' \in [Slaves -> Nat] /\ handled'[t] = handled[t] + 1
      /\ \A u \in Slaves \ {t} : handled'[u] = handled[u]
  BY <1>0, <1>1 DEF IndInv, TypeOK, LocalsOK
<1>6. cache[t] \in Seq(Row) /\ Len(cache[t]) \in Nat /\ Len(cache[t]) < ResultCacheSize
  BY <1>0, LenProperties DEF IndInv, TypeOK, LocalsOK, CacheInv, CacheOK
<1>7. query.type = "lookup" => i \in Row
  BY <1>3, ItemsBound, TaskAssumption DEF IndInv, Row
<1>8. /\ cache' \in [Slaves -> Seq(Row)] /\ \A u \in Slaves \ {t} : cache'[u] = cache[u]
      /\ query.type = "lookup" => cache'[t] = Append(cache[t], i)
      /\ query.type # "lookup" => cache'[t] = <<>> /\ cache[t] = <<>>
  <2>1. cache \in [Slaves -> Seq(Row)]
    BY DEF IndInv, TypeOK, LocalsOK
  <2>2. CASE query.type = "lookup"
    <3>1. Append(cache[t], i) \in Seq(Row)
      BY <1>6, <1>7, <2>2, AppendProperties
    <3> QED BY <1>0, <1>2, <2>1, <2>2, <3>1
  <2>3. CASE query.type # "lookup"
    BY <1>0, <2>1, <2>3 DEF IndInv, CacheInv, CacheOK
  <2> QED BY <2>2, <2>3
<1>9. /\ Len(cache'[t]) = IF query.type = "lookup" THEN Len(cache[t]) + 1 ELSE 0
      /\ Len(cache'[t]) \in Nat /\ Len(cache'[t]) <= ResultCacheSize
      /\ pc'[t] = "items" => Len(cache'[t]) < ResultCacheSize
      /\ pc'[t] = "lock" => cache'[t] # <<>>
      /\ pc'[t] \in {"items", "lock"}
  <2>1. ResultCacheSize \in Nat /\ 0 < ResultCacheSize
    BY TaskAssumption
  <2>2. CASE query.type = "lookup"
    <3>1. Len(cache'[t]) = Len(cache[t]) + 1
      BY <1>6, <1>7, <1>8, <2>2, AppendProperties
    <3>2. cache'[t] # <<>>
      BY <1>6, <3>1
    <3> QED BY <1>4, <1>6, <2>1, <2>2, <3>1, <3>2 DEF CacheFull
  <2>3. CASE query.type # "lookup"
    <3>1. Len(cache'[t]) = 0
      BY <1>8, <2>3
    <3> QED BY <1>4, <2>1, <2>3, <3>1 DEF CacheFull
  <2> QED BY <2>2, <2>3
<1>10. Others(t) /\ Working(t) /\ pc[Master] = "barrier2" /\ pc'[Master] = "barrier2"
  <2>1. Working(t)
    BY <1>0 DEF Working
  <2> QED BY <1>0, <1>4, <1>5, <1>8, <2>1, MasterWaits DEF Others
<1>11. BlockOK(t)'
  <2>1. ItemsOfLaunch' = ItemsOfLaunch
    BY <1>0 DEF ItemsOfLaunch
  <2>2. handled'[t] <= nnz[t]
    BY <1>0, <1>1, <1>5
  <2> QED BY <1>0, <1>5, <1>9, <2>1, <2>2 DEF IndInv, BlockInv, BlockOK
<1>12. CacheOK(t)'
  <2>1. /\ Len(cache[t]) <= handled[t]
        /\ \A k \in DOMAIN cache[t] : cache[t][k] = low[t] + handled[t] - Len(cache[t]) + k - 1
    BY DEF IndInv, CacheInv, CacheOK
  <2>2. Len(cache'[t]) <= handled'[t]
    BY <1>1, <1>5, <1>6, <1>9, <2>1
  <2>3. ASSUME NEW k \in DOMAIN cache'[t]
        PROVE  cache'[t][k] = low[t] + handled'[t] - Len(cache'[t]) + k - 1
    <3>1. CASE query.type = "lookup"
      <4>1. DOMAIN cache'[t] = 1..(Len(cache[t]) + 1) /\ DOMAIN cache[t] = 1..Len(cache[t])
        BY <1>6, <1>8, <1>9, <3>1, LenProperties
      <4>2. CASE k = Len(cache[t]) + 1
        <5>1. cache'[t][k] = i
          BY <1>6, <1>7, <1>8, <3>1, <4>2, AppendProperties
        <5>2. low[t] + handled'[t] - Len(cache'[t]) + k - 1 = low[t] + handled[t]
          <6>1. PICK a \in Nat, h \in Nat, c \in Nat :
                  a = low[t] /\ h = handled[t] /\ c = Len(cache[t])
            BY <1>1, <1>6
          <6>2. handled'[t] = h + 1 /\ Len(cache'[t]) = c + 1 /\ k = c + 1
            BY <1>5, <1>9, <3>1, <4>2, <6>1
          <6>3. a + (h + 1) - (c + 1) + (c + 1) - 1 = a + h
            OBVIOUS
          <6> QED BY <6>1, <6>2, <6>3
        <5> QED BY <1>2, <5>1, <5>2
      <4>3. CASE k \in 1..Len(cache[t])
        <5>1. cache'[t][k] = cache[t][k]
          BY <1>6, <1>7, <1>8, <3>1, <4>3, AppendProperties
        <5> QED BY <1>1, <1>5, <1>6, <1>9, <2>1, <3>1, <4>1, <4>3, <5>1
      <4> QED BY <1>6, <4>1, <4>2, <4>3
    <3>2. CASE query.type # "lookup"
      BY <1>8, <3>2
    <3> QED BY <3>1, <3>2
  <2>4. query.type # "lookup" => cache'[t] = <<>>
    BY <1>8
  <2> QED BY <1>0, <1>9, <2>2, <2>3, <2>4 DEF CacheOK
<1>13. PhaseInv' /\ GlobalsInv' /\ BlockInv' /\ CacheInv'
  <2>1. Working(t)'
    BY <1>9 DEF Working
  <2> QED BY <1>0, <1>10, <1>11, <1>12, <2>1, SlaveFrame
<1>14. TypeOK'
  <2>1. served' \in [Items -> Nat]
    BY <1>0, <1>2 DEF IndInv, TypeOK
  <2>2. \A u \in Slaves : Len(cache'[u]) <= ResultCacheSize
    BY <1>8, <1>9 DEF IndInv, TypeOK, LocalsOK
  <2> QED BY <1>0, <1>4, <1>5, <1>8, <2>1, <2>2 DEF IndInv, TypeOK, MramOK, GlobalsOK, LocalsOK
<1>15. BufferInv'
  BY <1>0, <1>9, <1>10, QuietFrame
<1>16. ServedInv'
  <2>1. \A u \in Slaves \ {t} : i \notin Taken(u) /\ Taken(u)' = Taken(u)
    <3>1. \A u \in Slaves \ {t} : i \notin Taken(u)
      BY <1>0, <1>3, Apart
    <3> QED BY <1>0, <1>5, <3>1 DEF Taken
  <2>2. i \notin Taken(t) /\ Taken(t)' = Taken(t) \cup {i}
    <3>1. Taken(t) = low[t]..(low[t] + handled[t] - 1)
      BY DEF Taken
    <3>2. Taken(t)' = low[t]..(low[t] + (handled[t] + 1) - 1)
      BY <1>0, <1>5 DEF Taken
    <3> QED BY <1>1, <1>2, <3>1, <3>2, OneMore
  <2>3. served[i] = 0 /\ served'[i] = 1
    <3>1. served[i] = 0
      BY <2>1, <2>2 DEF IndInv, ServedInv
    <3> QED BY <1>0, <1>2, <3>1 DEF IndInv, TypeOK
  <2>4. ASSUME NEW j \in Items
        PROVE  served'[j] = IF \E u \in Slaves : j \in Taken(u)' THEN 1 ELSE 0
    <3>1. CASE j = i
      BY <2>2, <2>3, <3>1
    <3>2. CASE j # i
      <4>1. served'[j] = served[j]
        BY <1>0, <1>2, <3>2 DEF IndInv, TypeOK
      <4>2. (\E u \in Slaves : j \in Taken(u)') <=> (\E u \in Slaves : j \in Taken(u))
        BY <2>1, <2>2, <3>2
      <4> QED BY <4>1, <4>2 DEF IndInv, ServedInv
    <3> QED BY <3>1, <3>2
  <2> QED BY <2>4 DEF ServedInv
<1>17. MutexInv'
  BY <1>0, <1>4, <1>9 DEF IndInv, MutexInv
<1>18. ReportedInv'
  <2>1. \A u \in Slaves \ {t} : Flushed(u)' = Flushed(u)
    BY <1>0, <1>5, <1>8 DEF Flushed
  <2>2. query.type = "lookup" => Flushed(t)' = Flushed(t)
    <3> SUFFICES ASSUME query.type = "lookup" PROVE Flushed(t)' = Flushed(t)
      OBVIOUS
    <3>1. /\ Flushed(t) = low[t]..(low[t] + handled[t] - Len(cache[t]) - 1)
          /\ Flushed(t)' = low[t]..(low[t] + (handled[t] + 1) - (Len(cache[t]) + 1) - 1)
      BY <1>0, <1>5, <1>9 DEF Flushed
    <3>2. PICK a \in Nat, h \in Nat, c \in Nat :
            a = low[t] /\ h = handled[t] /\ c = Len(cache[t])
      BY <1>1, <1>6
    <3>3. a..(a + (h + 1) - (c + 1) - 1) = a..(a + h - c - 1)
      BY OneMore
    <3> QED BY <3>1, <3>2, <3>3
  <2>3. Reported' = Reported
    BY <1>0 DEF Reported
  <2> QED BY <1>0, <1>10, <2>1, <2>2, <2>3 DEF IndInv, ReportedInv
<1>19. WrittenInv'
  <2>1. \A u \in Slaves \ {t} : WrittenOK(u)'
    BY <1>0, <1>4, <1>8 DEF IndInv, WrittenInv, WrittenOK
  <2>2. WrittenOK(t)'
    BY <1>9 DEF WrittenOK
  <2> QED BY <2>1, <2>2 DEF WrittenInv
<1> QED BY <1>13, <1>14, <1>15, <1>16, <1>17, <1>18, <1>19 DEF IndInv

(* The items a slave has cached and not flushed ...                        *)
Cached(t) == (low[t] + handled[t] - Len(cache[t]))..(low[t] + handled[t] - 1)

LEMMA Prefix ==
  ASSUME NEW b \in Nat, NEW g \in Nat, NEW d \in Nat
  PROVE  b..(b + g - d - 1) \subseteq b..(b + g - 1)
OBVIOUS

LEMMA Ranges ==
  ASSUME NEW a \in Nat, NEW h \in Nat, NEW c \in Nat, NEW n \in Nat, NEW N \in Nat,
         c <= h, h <= n, a + n <= N
  PROVE  /\ a..(a + h - c - 1) \subseteq 0..(N - 1)
         /\ \A i \in a..(a + h - c - 1) : i \notin (a + h - c)..(a + h - 1)
         /\ (a + h - c)..(a + h - 1) \subseteq a..(a + n - 1)
         /\ (a + h - c)..(a + h - 1) \subseteq 0..(N - 1)
OBVIOUS

(* ... have not been reported, so that the matrix has room for them.       *)
LEMMA RoomForCache ==
  ASSUME IndInv, NEW t \in Slaves, pc[t] \in {"lock", "write", "load", "store"}
  PROVE  /\ query.type = "lookup" /\ pc[Master] = "barrier2"
         /\ Cached(t) = {cache[t][k] : k \in DOMAIN cache[t]}
         /\ Cardinality(Reported \cup Cached(t)) = cooNnz + Len(cache[t])
         /\ cooNnz + Len(cache[t]) <= MaxItems
         /\ cache[t] \in Seq(Row) /\ Len(cache[t]) \in Nat /\ DOMAIN cache[t] = 1..Len(cache[t])
<1> USE SlavesTasklets
<1>1. /\ query.type = "lookup" /\ index # NoSlot /\ pc[Master] = "barrier2"
      /\ cache[t] \in Seq(Row) /\ Len(cache[t]) \in Nat /\ DOMAIN cache[t] = 1..Len(cache[t])
      /\ Len(cache[t]) <= handled[t]
      /\ \A k \in 1..Len(cache[t]) : cache[t][k] = low[t] + handled[t] - Len(cache[t]) + k - 1
  <2>1. cache[t] \in Seq(Row)
    BY DEF IndInv, TypeOK, LocalsOK
  <2>2. Len(cache[t]) \in Nat /\ DOMAIN cache[t] = 1..Len(cache[t])
    BY <2>1, LenProperties
  <2>3. query.type = "lookup" /\ index # NoSlot
    BY DEF IndInv, CacheInv, CacheOK, BlockInv, BlockOK
  <2>4. pc[Master] = "barrier2"
    BY MasterWaits DEF Working
  <2> QED BY <2>1, <2>2, <2>3, <2>4 DEF IndInv, CacheInv, CacheOK
<1>2. PICK a \in Nat, h \in Nat, c \in Nat, n \in Nat, N \in Nat :
        /\ a = low[t] /\ h = handled[t] /\ c = Len(cache[t]) /\ n = nnz[t] /\ N = ItemsOfLaunch
        /\ h <= n /\ a + n <= N /\ c <= h /\ N <= MaxItems
  BY <1>1, OwnBlock, ItemsBound DEF IndInv
<1>14. /\ a..(a + h - c - 1) \subseteq 0..(N - 1)
       /\ \A i \in a..(a + h - c - 1) : i \notin (a + h - c)..(a + h - 1)
       /\ (a + h - c)..(a + h - 1) \subseteq a..(a + n - 1)
       /\ (a + h - c)..(a + h - 1) \subseteq 0..(N - 1)
  <2>1. c <= h /\ h <= n /\ a + n <= N
    BY <1>2
  <2> QED BY <2>1, Ranges
<1>3. Cached(t) = (a + h - c)..(a + h - 1) /\ \A k \in 1..c : cache[t][k] = a + h - c + k - 1
  BY <1>1, <1>2 DEF Cached
<1>4. Cached(t) = {cache[t][k] : k \in DOMAIN cache[t]}
  <2>1. \A x \in Cached(t) : \E k \in 1..c : x = cache[t][k]
    <3> SUFFICES ASSUME NEW x \in (a + h - c)..(a + h - 1)
                 PROVE  \E k \in 1..c : x = a + h - c + k - 1
      BY <1>3
    <3>1. x - (a + h - c) + 1 \in 1..c /\ x = a + h - c + (x - (a + h - c) + 1) - 1
      OBVIOUS
    <3> QED BY <3>1
  <2>2. \A k \in 1..c : cache[t][k] \in Cached(t)
    BY <1>3
  <2> QED BY <1>1, <1>2, <2>1, <2>2
<1>5. IsFiniteSet(Cached(t)) /\ Cardinality(Cached(t)) = c
  <2>1. a + h - c \in Int /\ a + h - 1 \in Int
    OBVIOUS
  <2>2. /\ IsFiniteSet((a + h - c)..(a + h - 1))
        /\ Cardinality((a + h - c)..(a + h - 1))
             = IF a + h - c > a + h - 1 THEN 0 ELSE (a + h - 1) - (a + h - c) + 1
    BY <2>1, FS_Interval
  <2> QED BY <1>3, <2>2
<1>6. \A u \in Slaves : Flushed(u) \in SUBSET (0..(N - 1)) /\ Flushed(u) \cap Cached(t) = {}
  <2> SUFFICES ASSUME NEW u \in Slaves
               PROVE  Flushed(u) \in SUBSET (0..(N - 1)) /\ Flushed(u) \cap Cached(t) = {}
    OBVIOUS
  <2>1. CASE u = t
    <3>1. Flushed(t) = a..(a + h - c - 1)
      BY <1>2 DEF Flushed
    <3> QED BY <1>3, <1>14, <2>1, <3>1
  <2>2. CASE u # t
    <3>1. PICK b \in Nat, g \in Nat, d \in Nat :
            b = low[u] /\ g = handled[u] /\ d = Len(cache[u]) /\ d <= g
      <4>1. cache[u] \in Seq(Row)
        BY DEF IndInv, TypeOK, LocalsOK
      <4>2. Len(cache[u]) \in Nat
        BY <4>1, LenProperties
      <4>3. low[u] \in Nat /\ handled[u] \in Nat /\ Len(cache[u]) <= handled[u]
        BY DEF IndInv, TypeOK, LocalsOK, CacheInv, CacheOK
      <4> QED BY <4>2, <4>3
    <3>2. Flushed(u) \subseteq Taken(u)
      <4>1. Flushed(u) = b..(b + g - d - 1) /\ Taken(u) = b..(b + g - 1)
        BY <3>1 DEF Flushed, Taken
      <4>2. b..(b + g - d - 1) \subseteq b..(b + g - 1)
        BY Prefix
      <4> QED BY <4>1, <4>2
    <3>3. Taken(u) \subseteq 0..(N - 1)
      <4>1. CASE g = 0
        BY <3>1, <4>1 DEF Taken
      <4>2. CASE g # 0
        <5>1. pc[u] \notin {"barrier1", "run"}
          BY <3>1, <4>2 DEF IndInv, BlockInv, BlockOK
        <5>2. PICK e \in Nat : e = nnz[u] /\ g <= e /\ b + e <= N
          BY <1>1, <1>2, <3>1, <5>1, OwnBlock
        <5>3. Taken(u) = b..(b + g - 1)
          BY <3>1 DEF Taken
        <5> QED BY <5>2, <5>3
      <4> QED BY <4>1, <4>2
    <3>4. Taken(u) \cap Cached(t) = {}
      <4>1. \A i \in a..(a + n - 1) : i \notin Taken(u)
        BY <1>1, <1>2, <2>2, Apart
      <4>2. Cached(t) \subseteq a..(a + n - 1)
        BY <1>3, <1>14
      <4> QED BY <4>1, <4>2
    <3> QED BY <3>2, <3>3, <3>4
  <2> QED BY <2>1, <2>2
<1>7. Reported \in SUBSET (0..(N - 1)) /\ Reported \cap Cached(t) = {} /\ Cardinality(Reported) = cooNnz
  <2>1. Reported = UNION {Flushed(u) : u \in Slaves} /\ Cardinality(Reported) = cooNnz
    BY <1>1 DEF IndInv, ReportedInv
  <2> QED BY <1>6, <2>1
<1>8. Cached(t) \in SUBSET (0..(N - 1))
  BY <1>3, <1>14
<1>9. IsFiniteSet(0..(N - 1)) /\ Cardinality(0..(N - 1)) = N
  <2>1. 0 \in Int /\ N - 1 \in Int
    OBVIOUS
  <2> QED BY <2>1, FS_Interval
<1>10. IsFiniteSet(Reported)
  BY <1>7, <1>9, FS_Subset
<1>11. Cardinality(Reported \cup Cached(t)) = cooNnz + c
  <2>1. Cardinality(Reported \cup Cached(t))
          = Cardinality(Reported) + Cardinality(Cached(t)) - Cardinality(Reported \cap Cached(t))
    BY <1>5, <1>10, FS_Union
  <2>2. Cardinality(Reported \cap Cached(t)) = 0
    BY <1>7, FS_EmptySet
  <2>3. cooNnz \in Nat
    BY <1>7, <1>10, FS_CardinalityType
  <2> QED BY <1>5, <1>7, <2>1, <2>2, <2>3
<1>12. Cardinality(Reported \cup Cached(t)) <= N
  <2>1. Reported \cup Cached(t) \in SUBSET (0..(N - 1))
    BY <1>7, <1>8
  <2> QED BY <1>9, <2>1, FS_Subset
<1>13. cooNnz + c <= MaxItems
  <2>1. cooNnz \in Nat
    BY <1>7, <1>10, FS_CardinalityType
  <2> QED BY <1>2, <1>11, <1>12, <2>1, TaskAssumption
<1> QED BY <1>1, <1>2, <1>4, <1>11, <1>13

LEMMA WriteRowsInv ==
  ASSUME IndInv, NEW t \in Slaves, WriteRows(t)
  PROVE  IndInv'
<1> USE SlavesTasklets
<1>0. /\ pc[t] = "write" /\ pc' \in [Tasklets -> Labels]
      /\ pc'[t] = "load" /\ \A u \in Tasklets \ {t} : pc'[u] = pc[u]
      /\ cooData' = [r \in Row |-> IF r \in cooNnz..(cooNnz + Len(cache[t]) - 1)
                                   THEN cache[t][r - cooNnz + 1] ELSE cooData[r]]
      /\ UNCHANGED <<query, cooNnz, resultSize, table, index, kvsdNnz, heap, served, mutex>>
      /\ UNCHANGED <<buffer, low, nnz, handled, cache, tmp>>
  BY DEF WriteRows, Goto, IndInv, TypeOK, Labels, globals, locals
<1>1. Others(t) /\ Working(t) /\ pc[Master] = "barrier2"
  BY <1>0, MasterWaits DEF Others, Working
<1>2. /\ query.type = "lookup" /\ cooNnz + Len(cache[t]) <= MaxItems
      /\ cache[t] \in Seq(Row) /\ Len(cache[t]) \in Nat /\ DOMAIN cache[t] = 1..Len(cache[t])
      /\ cooNnz \in Nat /\ cooData \in [Row -> Row \cup {NoRow}]
  <2>1. cooNnz \in Nat /\ cooData \in [Row -> Row \cup {NoRow}]
    BY TaskAssumption DEF IndInv, TypeOK, MramOK
  <2>2. pc[t] \in {"lock", "write", "load", "store"}
    BY <1>0
  <2> QED BY <2>1, <2>2, RoomForCache
<1>3. PICK m \in Nat, c \in Nat : m = cooNnz /\ c = Len(cache[t]) /\ m + c <= MaxItems
  BY <1>2
<1>4. /\ \A r \in Row : r < m => cooData'[r] = cooData[r]
      /\ \A k \in 1..c : m + k - 1 \in Row /\ cooData'[m + k - 1] = cache[t][k]
  <2>1. ASSUME NEW r \in Row, r < m PROVE cooData'[r] = cooData[r]
    <3>1. r \notin m..(m + c - 1)
      BY <2>1 DEF Row
    <3> QED BY <1>0, <1>3, <3>1
  <2>2. ASSUME NEW k \in 1..c PROVE m + k - 1 \in Row /\ cooData'[m + k - 1] = cache[t][k]
    <3>1. m + k - 1 \in Row /\ m + k - 1 \in m..(m + c - 1) /\ (m + k - 1) - m + 1 = k
      BY <1>3, TaskAssumption DEF Row
    <3> QED BY <1>0, <1>3, <3>1
  <2> QED BY <2>1, <2>2
<1>5. cooData' \in [Row -> Row \cup {NoRow}]
  <2>1. ASSUME NEW r \in Row
        PROVE  (IF r \in m..(m + c - 1) THEN cache[t][r - m + 1] ELSE cooData[r]) \in Row \cup {NoRow}
    <3>1. CASE r \in m..(m + c - 1)
      <4>1. r - m + 1 \in 1..c
        BY <3>1
      <4>2. cache[t][r - m + 1] \in Row
        BY <1>2, <1>3, <4>1, ElementOfSeq
      <4> QED BY <3>1, <4>2
    <3>2. CASE r \notin m..(m + c - 1)
      BY <1>2, <3>2
    <3> QED BY <3>1, <3>2
  <2> QED BY <1>0, <1>3, <2>1
<1>6. BlockOK(t)'
  BY <1>0 DEF IndInv, BlockInv, BlockOK, ItemsOfLaunch
<1>7. CacheOK(t)'
  BY <1>0 DEF IndInv, CacheInv, CacheOK
<1>8. PhaseInv' /\ GlobalsInv' /\ BlockInv' /\ CacheInv'
  BY <1>0, <1>1, <1>6, <1>7, SlaveFrame DEF Working
<1>9. TypeOK'
  BY <1>0, <1>5 DEF IndInv, TypeOK, MramOK, GlobalsOK, LocalsOK
<1>10. BufferInv'
  BY <1>0, <1>1, QuietFrame
<1>11. ServedInv'
  <2>1. \A u \in Slaves : Taken(u)' = Taken(u)
    BY <1>0 DEF Taken
  <2> QED BY <1>0, <2>1 DEF IndInv, ServedInv
<1>12. MutexInv'
  BY <1>0 DEF IndInv, MutexInv
<1>13. ReportedInv'
  <2>1. \A r \in 0..(m - 1) : r \in Row /\ cooData'[r] = cooData[r]
    <3>1. \A r \in 0..(m - 1) : r \in Row /\ r < m
      BY <1>3, TaskAssumption DEF Row
    <3> QED BY <1>4, <3>1
  <2>2. Reported' = Reported
    <3>1. Reported = {cooData[r] : r \in 0..(m - 1)} /\ Reported' = {cooData'[r] : r \in 0..(m - 1)}
      BY <1>0, <1>3 DEF Reported
    <3> QED BY <2>1, <3>1
  <2>3. \A u \in Slaves : Flushed(u)' = Flushed(u)
    BY <1>0 DEF Flushed
  <2> QED BY <1>0, <1>1, <2>2, <2>3 DEF IndInv, ReportedInv
<1>14. WrittenInv'
  <2>1. WrittenOK(t)'
    BY <1>0, <1>2, <1>3, <1>4 DEF WrittenOK
  <2>2. \A u \in Slaves \ {t} : pc'[u] \notin {"load", "store"}
    BY <1>0 DEF IndInv, MutexInv
  <2> QED BY <2>1, <2>2 DEF WrittenInv, WrittenOK
<1> QED BY <1>8, <1>9, <1>10, <1>11, <1>12, <1>13, <1>14 DEF IndInv

LEMMA StoreNnzInv ==
  ASSUME IndInv, NEW t \in Slaves, StoreNnz(t)
  PROVE  IndInv'
<1> USE SlavesTasklets
<1>0. /\ pc[t] = "store" /\ pc' \in [Tasklets -> Labels] /\ mutex = t /\ mutex' = Master
      /\ pc'[t] = "items" /\ \A u \in Tasklets \ {t} : pc'[u] = pc[u]
      /\ cooNnz' = tmp[t] + Len(cache[t]) /\ tmp[t] = cooNnz
      /\ UNCHANGED <<query, cooData, resultSize, table, index, kvsdNnz, heap, served>>
      /\ UNCHANGED <<buffer, low, nnz, handled>>
  BY DEF StoreNnz, Released, Goto, IndInv, TypeOK, Labels, globals, MutexInv, WrittenInv, WrittenOK
<1>1. /\ cache' \in [Slaves -> Seq(Row)] /\ tmp' \in [Slaves -> 0..MaxItems]
      /\ cache'[t] = <<>> /\ Len(cache'[t]) = 0
      /\ \A u \in Slaves \ {t} : cache'[u] = cache[u] /\ tmp'[u] = tmp[u]
  <2>1. cache' = [cache EXCEPT ![t] = <<>>] /\ tmp' = [tmp EXCEPT ![t] = 0]
    BY DEF StoreNnz
  <2>2. <<>> \in Seq(Row) /\ Len(<<>>) = 0
    OBVIOUS
  <2> QED BY <2>1, <2>2, TaskAssumption DEF IndInv, TypeOK, LocalsOK
<1>2. Others(t) /\ Working(t) /\ pc[Master] = "barrier2"
  BY <1>0, <1>1, MasterWaits DEF Others, Working
<1>3. /\ query.type = "lookup" /\ cooNnz + Len(cache[t]) <= MaxItems
      /\ Cached(t) = {cache[t][k] : k \in DOMAIN cache[t]}
      /\ Cardinality(Reported \cup Cached(t)) = cooNnz + Len(cache[t])
      /\ cache[t] \in Seq(Row) /\ Len(cache[t]) \in Nat /\ DOMAIN cache[t] = 1..Len(cache[t])
      /\ cooNnz \in Nat
  <2>1. cooNnz \in Nat
    BY TaskAssumption DEF IndInv, TypeOK, MramOK
  <2>2. pc[t] \in {"lock", "write", "load", "store"}
    BY <1>0
  <2> QED BY <2>1, <2>2, RoomForCache
<1>4. PICK m \in Nat, c \in Nat : m = cooNnz /\ c = Len(cache[t]) /\ cooNnz' = m + c /\ m + c <= MaxItems
  BY <1>0, <1>3
<1>5. BlockOK(t)'
  BY <1>0, <1>1 DEF IndInv, BlockInv, BlockOK, ItemsOfLaunch
<1>6. CacheOK(t)'
  <2>1. handled[t] \in Nat /\ 0 < ResultCacheSize /\ DOMAIN cache'[t] = {}
    BY <1>1, TaskAssumption DEF IndInv, TypeOK, LocalsOK
  <2> QED BY <1>0, <1>1, <2>1 DEF CacheOK
<1>7. PhaseInv' /\ GlobalsInv' /\ BlockInv' /\ CacheInv'
  BY <1>0, <1>2, <1>5, <1>6, SlaveFrame DEF Working
<1>8. TypeOK'
  <2>1. MramOK'
    <3>1. cooNnz' \in 0..MaxItems
      BY <1>4, TaskAssumption
    <3> QED BY <1>0, <3>1 DEF IndInv, TypeOK, MramOK
  <2>2. LocalsOK'
    <3>1. \A u \in Slaves : Len(cache'[u]) <= ResultCacheSize
      <4>1. 0 <= ResultCacheSize
        BY TaskAssumption
      <4>2. \A u \in Slaves \ {t} : Len(cache'[u]) <= ResultCacheSize
        BY <1>1 DEF IndInv, TypeOK, LocalsOK
      <4> QED BY <1>1, <4>1, <4>2
    <3> QED BY <1>0, <1>1, <3>1 DEF IndInv, TypeOK, LocalsOK
  <2> QED BY <1>0, <2>1, <2>2 DEF IndInv, TypeOK, GlobalsOK
<1>9. BufferInv'
  BY <1>0, <1>2, QuietFrame
<1>10. ServedInv'
  <2>1. \A u \in Slaves : Taken(u)' = Taken(u)
    BY <1>0 DEF Taken
  <2> QED BY <1>0, <2>1 DEF IndInv, ServedInv
<1>11. MutexInv'
  BY <1>0 DEF IndInv, MutexInv
<1>12. Reported' = Reported \cup Cached(t)
  <2>1. \A k \in 1..c : cooData[m + k - 1] = cache[t][k]
    BY <1>0, <1>3, <1>4 DEF IndInv, WrittenInv, WrittenOK
  <2>2. Reported' = {cooData[r] : r \in 0..(m + c - 1)} /\ Reported = {cooData[r] : r \in 0..(m - 1)}
    BY <1>0, <1>4 DEF Reported
  <2>3. \A r \in 0..(m + c - 1) : r \in 0..(m - 1) \/ \E k \in 1..c : r = m + k - 1
    <3> SUFFICES ASSUME NEW r \in 0..(m + c - 1), r \notin 0..(m - 1)
                 PROVE  \E k \in 1..c : r = m + k - 1
      OBVIOUS
    <3>1. r - m + 1 \in 1..c /\ r = m + (r - m + 1) - 1
      OBVIOUS
    <3> QED BY <3>1
  <2>4. (\A k \in 1..c : m + k - 1 \in 0..(m + c - 1)) /\ \A r \in 0..(m - 1) : r \in 0..(m + c - 1)
    OBVIOUS
  <2>5. Cached(t) = {cooData[m + k - 1] : k \in 1..c}
    BY <1>3, <1>4, <2>1
  <2>6. \A x \in Reported' : x \in Reported \/ x \in Cached(t)
    BY <2>2, <2>3, <2>5
  <2>7. \A x \in Reported : x \in Reported'
    BY <2>2, <2>4
  <2>8. \A x \in Cached(t) : x \in Reported'
    BY <2>2, <2>4, <2>5
  <2> QED BY <2>6, <2>7, <2>8
<1>13. ReportedInv'
  <2>1. \A u \in Slaves \ {t} : Flushed(u)' = Flushed(u)
    BY <1>0, <1>1 DEF Flushed
  <2>2. Flushed(t)' = Flushed(t) \cup Cached(t)
    <3>1. PICK a \in Nat, h \in Nat : a = low[t] /\ h = handled[t] /\ c <= h
      BY <1>4 DEF IndInv, TypeOK, LocalsOK, CacheInv, CacheOK
    <3>2. /\ Flushed(t)' = a..(a + h - 0 - 1) /\ Flushed(t) = a..(a + h - c - 1)
          /\ Cached(t) = (a + h - c)..(a + h - 1)
      BY <1>0, <1>1, <1>4, <3>1 DEF Flushed, Cached
    <3> QED BY <3>1, <3>2
  <2>3. Reported = UNION {Flushed(u) : u \in Slaves}
    BY <1>2, <1>3 DEF IndInv, ReportedInv
  <2>4. Reported' = UNION {Flushed(u)' : u \in Slaves}
    BY <1>12, <2>1, <2>2, <2>3
  <2>5. Cardinality(Reported') = cooNnz'
    BY <1>3, <1>4, <1>12
  <2> QED BY <1>0, <1>2, <2>4, <2>5 DEF ReportedInv
<1>14. WrittenInv'
  <2>1. \A u \in Slaves \ {t} : pc'[u] \notin {"load", "store"}
    BY <1>0 DEF IndInv, MutexInv
  <2> QED BY <1>0, <2>1 DEF WrittenInv, WrittenOK
<1> QED BY <1>7, <1>8, <1>9, <1>10, <1>11, <1>13, <1>14 DEF IndInv

-----------------------------------------------------------------------------
LEMMA NextInv == IndInv /\ [Next]_vars => IndInv'
<1> SUFFICES ASSUME IndInv, [Next]_vars PROVE IndInv'
  OBVIOUS
<1>1. ASSUME NEW type \in Types, NEW id \in Ids, NEW n \in 0..MaxItems, Launch(type, id, n)
      PROVE  IndInv'
  BY <1>1, LaunchInv
<1>2. CASE MasterStep
  BY <1>2, InitialInv, PrepareInv, MergeInv DEF MasterStep
<1>3. CASE Barrier1
  BY <1>3, PassInv DEF Barrier1
<1>4. CASE Barrier2
  BY <1>4, PassInv DEF Barrier2
<1>5. ASSUME NEW t \in Slaves, Slave(t)
      PROVE  IndInv'
  BY <1>5, RunInv, HandleItemInv, EndOfBlockInv, LockInv, WriteRowsInv, LoadNnzInv, StoreNnzInv DEF Slave
<1>6. CASE UNCHANGED vars
  <2>1. /\ UNCHANGED <<query, cooNnz, cooData, resultSize, table, index, kvsdNnz, heap, mutex, pc, served>>
        /\ UNCHANGED <<buffer, low, nnz, handled, cache, tmp>>
    BY <1>6 DEF vars, mram, globals, locals
  <2>2. TypeOK' /\ PhaseInv' /\ BufferInv' /\ BlockInv'
    BY <2>1 DEF IndInv, TypeOK, MramOK, GlobalsOK, LocalsOK, PhaseInv, Working, BufferInv, BuffersApart,
                BlockInv, BlockOK, ItemsOfLaunch
  <2>3. GlobalsInv' /\ CacheInv' /\ MutexInv' /\ WrittenInv'
    <3>1. Position(query.id)' = Position(query.id)
      BY <2>1 DEF Position
    <3> QED BY <2>1, <3>1 DEF IndInv, GlobalsInv, CacheInv, CacheOK, MutexInv, WrittenInv, WrittenOK
  <2>4. ServedInv' /\ ReportedInv'
    <3>1. Reported' = Reported /\ \A u \in Slaves : Flushed(u)' = Flushed(u) /\ Taken(u)' = Taken(u)
      BY <2>1 DEF Reported, Flushed, Taken
    <3> QED BY <2>1, <3>1 DEF IndInv, ServedInv, ReportedInv
  <2> QED BY <2>2, <2>3, <2>4 DEF IndInv
<1> QED BY <1>1, <1>2, <1>3, <1>4, <1>5, <1>6 DEF Next

(* The invariant: phases, globals, buffers, blocks, caches and the result   *)
(* matrix fit together in every reachable state of a DPU.                   *)
THEOREM Invariance == Spec => []IndInv
<1>1. Init => IndInv
  BY InitInv
<1>2. IndInv /\ [Next]_vars => IndInv'
  BY NextInv
<1> QED BY <1>1, <1>2, PTL DEF Spec

(* No slave works before the master has prepared the launch.               *)
THEOREM PreparationComesFirst == Spec => []PreparedFirst
<1>1. IndInv => PreparedFirst
  <2> SUFFICES ASSUME IndInv, NEW t \in Slaves, Working(t)
               PROVE  /\ pc[Master] = "barrier2"
                      /\ kvsdNnz = query.nnz
                      /\ query.type # "create" => index = Position(query.id)
                      /\ query.type = "create" /\ index # NoSlot => table[index] = query.id
    BY DEF PreparedFirst
  <2>1. pc[Master] = "barrier2"
    BY MasterWaits
  <2> QED BY <2>1 DEF IndInv, GlobalsInv
<1> QED BY <1>1, Invariance, PTL

(* Two slaves never read through the same buffer.                          *)
THEOREM NoSharedBuffer == Spec => []BuffersApart
<1>1. IndInv => BuffersApart
  BY DEF IndInv, BufferInv
<1> QED BY <1>1, Invariance, PTL

(* Every item lies in the block of a slave ...                             *)
LEMMA BlocksMeet ==
  ASSUME NEW n \in Nat, NEW i \in 0..(n - 1)
  PROVE  \E t \in Slaves :
           i \in BLOCK_LOW(Rank(t), NrSlaves, n)
                 ..(BLOCK_LOW(Rank(t), NrSlaves, n) + BLOCK_SIZE(Rank(t), NrSlaves, n) - 1)
<1>1. PICK r \in 0..(NrSlaves - 1) : i \in BLOCK_LOW(r, NrSlaves, n)..BLOCK_HIGH(r, NrSlaves, n)
  BY BlocksCover, TaskAssumption
<1>2. BLOCK_LOW(r, NrSlaves, n) \in Nat /\ BLOCK_HIGH(r, NrSlaves, n) \in Int
  BY BlocksBounds, TaskAssumption
<1>3. PICK a \in Nat, b \in Int : a = BLOCK_LOW(r, NrSlaves, n) /\ b = BLOCK_LOW(r + 1, NrSlaves, n)
  <2>1. r \in Nat /\ r + 1 \in Nat /\ NrSlaves \in Nat \ {0}
    BY TaskAssumption
  <2>2. r * n <= (r + 1) * n /\ (r + 1) * n \in Nat
    BY <2>1, MulMono
  <2>3. ((r + 1) * n) \div NrSlaves \in Nat
    BY <2>1, <2>2, Division
  <2> QED BY <1>2, <2>3 DEF BLOCK_LOW
<1>4. i \in a..(b - 1) /\ BLOCK_SIZE(r, NrSlaves, n) = b - a
  BY <1>1, <1>3 DEF BLOCK_HIGH, BLOCK_SIZE
<1>5. i \in a..(a + (b - a) - 1)
  BY <1>4
<1>6. r + 1 \in Slaves /\ Rank(r + 1) = r
  BY TaskAssumption DEF Slaves, Rank
<1> QED BY <1>3, <1>4, <1>5, <1>6

(* ... so that when the launch has ended all items have been taken.        *)
LEMMA AllTaken ==
  ASSUME IndInv, Done, index # NoSlot
  PROVE  \A i \in Int : i \in 0..(ItemsOfLaunch - 1) <=> \E t \in Slaves : i \in Taken(t)
<1> USE SlavesTasklets
<1>1. \A t \in Slaves : pc[t] = "done" /\ handled[t] = nnz[t]
  BY DEF Done, IndInv, BlockInv, BlockOK
<1>2. PICK N \in Nat : N = ItemsOfLaunch
  BY ItemsBound DEF IndInv
<1>3. ASSUME NEW t \in Slaves
      PROVE  /\ Taken(t) = low[t]..(low[t] + nnz[t] - 1)
             /\ low[t] = BLOCK_LOW(Rank(t), NrSlaves, N) /\ nnz[t] = BLOCK_SIZE(Rank(t), NrSlaves, N)
             /\ low[t] \in Nat /\ nnz[t] \in Nat /\ low[t] + nnz[t] <= N
  <2>1. low[t] = BLOCK_LOW(Rank(t), NrSlaves, N) /\ nnz[t] = BLOCK_SIZE(Rank(t), NrSlaves, N)
    BY <1>1, <1>2 DEF IndInv, BlockInv, BlockOK
  <2>2. low[t] \in Nat /\ nnz[t] \in Nat /\ low[t] + nnz[t] <= N
    BY <1>1, <1>2, OwnBlock
  <2> QED BY <1>1, <2>1, <2>2 DEF Taken
<1>4. ASSUME NEW t \in Slaves, NEW i \in Taken(t)
      PROVE  i \in 0..(N - 1)
  BY <1>3
<1>5. ASSUME NEW i \in 0..(N - 1)
      PROVE  \E t \in Slaves : i \in Taken(t)
  <2>1. PICK t \in Slaves :
          i \in BLOCK_LOW(Rank(t), NrSlaves, N)
                ..(BLOCK_LOW(Rank(t), NrSlaves, N) + BLOCK_SIZE(Rank(t), NrSlaves, N) - 1)
    BY BlocksMeet
  <2> QED BY <1>3, <2>1
<1> QED BY <1>2, <1>4, <1>5

(* No item of a launch is handled twice, and none is left out.             *)
THEOREM EveryItemOnce == Spec => []ItemsOnce
<1>1. IndInv => ItemsOnce
  <2> SUFFICES ASSUME IndInv PROVE ItemsOnce
    OBVIOUS
  <2>1. \A i \in Items : served[i] = IF \E t \in Slaves : i \in Taken(t) THEN 1 ELSE 0
    BY DEF IndInv, ServedInv
  <2>2. ASSUME Done, index # NoSlot, NEW i \in Items
        PROVE  served[i] = 1 <=> i < ItemsOfLaunch
    <3>1. i \in Nat /\ ItemsOfLaunch \in Nat
      BY ItemsBound, TaskAssumption DEF IndInv, Items
    <3>2. i \in 0..(ItemsOfLaunch - 1) <=> \E t \in Slaves : i \in Taken(t)
      BY <2>2, <3>1, AllTaken
    <3> QED BY <2>1, <3>1, <3>2
  <2> QED BY <2>1, <2>2 DEF ItemsOnce
<1> QED BY <1>1, Invariance, PTL

(* A lookup reports a result for each key of its batch, once.              *)
THEOREM ResultsArriveWhole == Spec => []ResultsWhole
<1>1. IndInv => ResultsWhole
  <2> SUFFICES ASSUME IndInv, Done, query.type = "lookup"
               PROVE  /\ resultSize = IF index = NoSlot THEN 0 ELSE query.nnz
                      /\ {cooData[r] : r \in 0..(resultSize - 1)} = 0..(resultSize - 1)
    BY DEF ResultsWhole
  <2> USE SlavesTasklets
  <2>1. /\ Reported = UNION {Flushed(t) : t \in Slaves} /\ Cardinality(Reported) = cooNnz
        /\ resultSize = cooNnz /\ kvsdNnz = query.nnz /\ \A t \in Slaves : pc[t] = "done"
    BY DEF Done, IndInv, ReportedInv, GlobalsInv
  <2>2. ASSUME NEW t \in Slaves PROVE Flushed(t) = Taken(t)
    <3>1. cache[t] = <<>> /\ Len(cache[t]) = 0 /\ low[t] \in Nat /\ handled[t] \in Nat
      BY <2>1 DEF IndInv, BlockInv, BlockOK, TypeOK, LocalsOK
    <3>2. low[t] + handled[t] - Len(cache[t]) - 1 = low[t] + handled[t] - 1
      BY <3>1
    <3> QED BY <3>2 DEF Flushed, Taken
  <2>3. CASE index = NoSlot
    <3>1. \A t \in Slaves : handled[t] = 0
      BY <2>3 DEF IndInv, BlockInv, BlockOK
    <3>2. \A t \in Slaves : Taken(t) = {}
      BY <3>1, NothingTaken DEF IndInv
    <3>3. Reported = {} /\ cooNnz = 0
      BY <2>1, <2>2, <3>2, FS_EmptySet
    <3> QED BY <2>1, <2>3, <3>3 DEF Reported
  <2>4. CASE index # NoSlot
    <3>1. PICK N \in Nat : N = ItemsOfLaunch /\ N = query.nnz
      BY <2>1, ItemsBound DEF IndInv
    <3>2. \A x \in Reported : x \in 0..(N - 1)
      <4> SUFFICES ASSUME NEW t \in Slaves, NEW x \in Flushed(t) PROVE x \in 0..(N - 1)
        BY <2>1
      <4>1. x \in Taken(t) /\ x \in Int
        <5>1. low[t] \in Nat /\ handled[t] \in Nat
          BY DEF IndInv, TypeOK, LocalsOK
        <5> QED BY <2>2, <5>1 DEF Taken
      <4> QED BY <2>4, <3>1, <4>1, AllTaken
    <3>3. \A x \in 0..(N - 1) : x \in Reported
      <4> SUFFICES ASSUME NEW x \in 0..(N - 1) PROVE x \in Reported
        OBVIOUS
      <4>1. PICK t \in Slaves : x \in Taken(t)
        BY <2>4, <3>1, AllTaken
      <4> QED BY <2>1, <2>2, <4>1
    <3>4. Reported = 0..(N - 1)
      BY <3>2, <3>3
    <3>5. Cardinality(0..(N - 1)) = N
      <4>1. 0 \in Int /\ N - 1 \in Int
        OBVIOUS
      <4> QED BY <4>1, FS_Interval
    <3>6. cooNnz = N /\ resultSize = N
      BY <2>1, <3>4, <3>5
    <3> QED BY <2>4, <3>1, <3>4, <3>6 DEF Reported
  <2> QED BY <2>3, <2>4
<1> QED BY <1>1, Invariance, PTL
=============================================================================
