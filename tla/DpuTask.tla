------------------------------- MODULE DpuTask -------------------------------
(***************************************************************************)
(* One DPU program, launched again and again by the host (dpu/main.c,      *)
(* dpu/ops/): the master tasklet, number 0, prepares a launch, the slaves  *)
(* share out its items between barrier1 and barrier2, the master finishes  *)
(* it.  What an operation does to the index is the subject of              *)
(* PrimaryIndexDpu; here an item of a launch (a bucket to initialise, a    *)
(* pair to insert, a key to delete or look up) is its number, and the      *)
(* question is whether every item is handled once, by slaves that see what *)
(* the master prepared, and whether the results of a lookup arrive whole.  *)
(*                                                                         *)
(* Globals of the DPU keep their values from launch to launch, so a slave  *)
(* that ran ahead of the master would see those of the launch before.      *)
(*                                                                         *)
(* Definitions with a suffix, as BarrierSize_Slaves, are faulty variants   *)
(* for the runs that show what a property catches.                         *)
(***************************************************************************)
EXTENDS Integers, Sequences, FiniteSets, BlockDecomp

CONSTANTS
  NrSlaves,         \* NR_SLAVE_TASKLETS
  Ids,              \* index identifiers
  MaxIndexes,       \* PRIMARY_INDEX_MAX_NUM
  NrBuckets,        \* buckets of an index, the items of a create
  MaxItems,         \* largest batch a package carries
  ResultCacheSize   \* RESULT_CACHE_SIZE

ASSUME TaskAssumption ==
  /\ NrSlaves \in Nat \ {0}
  /\ MaxIndexes \in Nat \ {0}
  /\ NrBuckets \in Nat \ {0}
  /\ MaxItems \in Nat
  /\ ResultCacheSize \in Nat \ {0}

Master   == 0
Slaves   == 1..NrSlaves
Tasklets == {Master} \cup Slaves

Types  == {"create", "insert", "delete", "lookup"}
Items  == 0..((IF NrBuckets > MaxItems THEN NrBuckets ELSE MaxItems) - 1)
NoSlot == 0
Row    == 0..(MaxItems - 1)
NoRow  == -1

VARIABLES
  query,     \* the push package in MRAM: type, index id and kv nnz
  table,     \* index ids of global_prestored_primary_index, in order
  index,     \* global_primary_index: position in the table, or NoSlot
  kvsdNnz,   \* global_kvsd_nnz
  heap,      \* WRAM heap, in units of a seqread buffer
  cooNnz,    \* global_coo_result->nnz
  cooData,   \* rows of global_coo_result->data
  resultSize,\* global_pull_package_metadata->result_size
  mutex,     \* holder of result_cache_mutex, or Master when it is free
  pc,        \* where every tasklet is
  buffer,    \* local_cache: the seqread buffer of a slave, 0 for none
  low, nnz,  \* first item and number of items of a slave's block
  handled,   \* nnz_handled
  cache,     \* result_cache
  tmp,       \* register of coo->nnz += size
  served     \* history variable: how often each item of the launch was handled

mram    == <<query, cooNnz, cooData, resultSize>>
globals == <<table, index, kvsdNnz, heap>>
locals  == <<buffer, low, nnz, handled, cache, tmp>>
vars    == <<mram, globals, mutex, pc, locals, served>>

Labels == {"done", "start", "prepare", "barrier1", "run", "items", "lock", "write",
           "load", "store", "barrier2", "merge"}

MramOK ==
  /\ query \in [type : Types, id : Ids, nnz : 0..MaxItems]
  /\ cooNnz \in 0..MaxItems
  /\ cooData \in [Row -> Row \cup {NoRow}]
  /\ resultSize \in 0..MaxItems

GlobalsOK ==
  /\ table \in Seq(Ids) /\ Len(table) <= MaxIndexes
  /\ index \in 0..Len(table)
  /\ kvsdNnz \in 0..MaxItems
  /\ heap \in 0..NrSlaves

LocalsOK ==
  /\ buffer \in [Slaves -> 0..NrSlaves]
  /\ low \in [Slaves -> Nat]
  /\ nnz \in [Slaves -> Nat]
  /\ handled \in [Slaves -> Nat]
  /\ cache \in [Slaves -> Seq(Row)]
  /\ \A t \in Slaves : Len(cache[t]) <= ResultCacheSize
  /\ tmp \in [Slaves -> 0..MaxItems]

TypeOK ==
  /\ MramOK /\ GlobalsOK /\ LocalsOK
  /\ mutex \in Tasklets
  /\ pc \in [Tasklets -> Labels]
  /\ served \in [Items -> Nat]

Done == \A t \in Tasklets : pc[t] = "done"
Goto(t, l) == pc' = [pc EXCEPT ![t] = l]
Nothing(x) == [t \in Slaves |-> x]

(* Loaded, not launched yet. *)
Init ==
  /\ query \in [type : {"insert"}, id : Ids, nnz : {0}]
  /\ table = <<>>
  /\ index = NoSlot
  /\ kvsdNnz = 0
  /\ heap = 0
  /\ cooNnz = 0
  /\ cooData = [r \in Row |-> NoRow]
  /\ resultSize = 0
  /\ mutex = Master
  /\ pc = [t \in Tasklets |-> "done"]
  /\ buffer = Nothing(0)
  /\ low = Nothing(0)
  /\ nnz = Nothing(0)
  /\ handled = Nothing(0)
  /\ cache = Nothing(<<>>)
  /\ tmp = Nothing(0)
  /\ served = [i \in Items |-> 0]

-----------------------------------------------------------------------------
(* The host pushes a package and launches the DPU, which has ended its     *)
(* last launch: all tasklets start over.                                   *)
Launch(type, id, n) ==
  /\ Done
  /\ type = "create" => n = 0
  /\ query' = [type |-> type, id |-> id, nnz |-> n]
  /\ pc' = [t \in Tasklets |-> IF t = Master THEN "start" ELSE "barrier1"]
  /\ buffer' = Nothing(0)
  /\ low' = Nothing(0)
  /\ nnz' = Nothing(0)
  /\ handled' = Nothing(0)
  /\ cache' = Nothing(<<>>)
  /\ tmp' = Nothing(0)
  /\ served' = [i \in Items |-> 0]
  /\ UNCHANGED <<cooNnz, cooData, resultSize, globals, mutex>>

-----------------------------------------------------------------------------
(* The master.                                                             *)

(* initial(): mem_reset and the globals of the launch. *)
Initial ==
  /\ pc[Master] = "start"
  /\ heap' = 0
  /\ kvsdNnz' = query.nnz
  /\ Goto(Master, "prepare")
  /\ UNCHANGED <<mram, table, index, mutex, locals, served>>

(* The first entry of the table that carries the id. *)
Position(id) ==
  IF \E s \in DOMAIN table : table[s] = id
    THEN CHOOSE s \in DOMAIN table : table[s] = id /\ \A r \in 1..(s - 1) : table[r] # id
    ELSE NoSlot

(* coo_matrix_v_dpu_init. *)
ClearResults == cooNnz' = 0

(* The prepare functions; primary_index_dpu_create for a create. *)
Prepare ==
  /\ pc[Master] = "prepare"
  /\ \/ /\ query.type = "create" /\ Len(table) < MaxIndexes
        /\ table' = Append(table, query.id)
        /\ index' = Len(table) + 1
     \/ /\ query.type = "create" /\ Len(table) = MaxIndexes
        /\ index' = NoSlot /\ UNCHANGED table
     \/ /\ query.type # "create"
        /\ index' = Position(query.id) /\ UNCHANGED table
  /\ IF query.type = "lookup" THEN ClearResults ELSE UNCHANGED cooNnz
  /\ Goto(Master, "barrier1")
  /\ UNCHANGED <<query, kvsdNnz, heap, cooData, resultSize, mutex, locals, served>>

(* primary_index_lookup_merge; the other merges do nothing. *)
Merge ==
  /\ pc[Master] = "merge"
  /\ resultSize' = IF query.type = "lookup" THEN cooNnz ELSE resultSize
  /\ Goto(Master, "done")
  /\ UNCHANGED <<query, cooNnz, cooData, globals, mutex, locals, served>>

-----------------------------------------------------------------------------
(* The barriers.                                                           *)

BarrierSize_Slaves == NrSlaves       \* one short of all tasklets
BarrierSize == NrSlaves + 1          \* NR_TASKLETS

(* A barrier lets its waiters go when as many as it was set up for are     *)
(* there.  The slaves wait at barrier1 from the start of the launch, they  *)
(* do nothing before it but read the type of the query.                    *)
Waiters(b) == {t \in Tasklets : pc[t] = b}

Pass(b, master, slave) ==
  /\ Cardinality(Waiters(b)) >= BarrierSize
  /\ pc' = [t \in Tasklets |-> IF t \notin Waiters(b) THEN pc[t]
                               ELSE IF t = Master THEN master ELSE slave]
  /\ UNCHANGED <<mram, globals, mutex, locals, served>>

Barrier1 == Pass("barrier1", "barrier2", "run")
Barrier2 == Pass("barrier2", "merge", "done")

-----------------------------------------------------------------------------
(* The slaves.                                                             *)

ItemsOfLaunch == IF query.type = "create" THEN NrBuckets ELSE kvsdNnz

Rank_Tasklet(t) == t
Rank(t) == t - 1

(* The run functions up to their loop: a buffer for the sequential reader  *)
(* (a create reads no items) and, if there is an index, the slave's block. *)
Run(t) ==
  /\ pc[t] = "run"
  /\ \/ /\ query.type # "create"
        /\ buffer' = [buffer EXCEPT ![t] = heap + 1]
        /\ heap' = heap + 1
     \/ query.type = "create" /\ UNCHANGED <<buffer, heap>>
  /\ \/ /\ index = NoSlot
        /\ Goto(t, "barrier2")
        /\ UNCHANGED <<low, nnz>>
     \/ /\ index # NoSlot
        /\ low' = [low EXCEPT ![t] = BLOCK_LOW(Rank(t), NrSlaves, ItemsOfLaunch)]
        /\ nnz' = [nnz EXCEPT ![t] = BLOCK_SIZE(Rank(t), NrSlaves, ItemsOfLaunch)]
        /\ Goto(t, "items")
  /\ UNCHANGED <<mram, table, index, kvsdNnz, mutex, handled, cache, tmp, served>>

(* One round of the loop: an item is handled, its result cached if the     *)
(* launch is a lookup, and a full cache is to be flushed.                  *)
CacheFull_Late(c) == Len(c) > ResultCacheSize
CacheFull(c) == Len(c) >= ResultCacheSize

HandleItem(t) ==
  /\ pc[t] = "items"
  /\ handled[t] < nnz[t]
  /\ LET item == low[t] + handled[t]
     IN  /\ served' = [served EXCEPT ![item] = @ + 1]
         /\ cache' = IF query.type = "lookup"
                       THEN [cache EXCEPT ![t] = Append(@, item)] ELSE cache
  /\ handled' = [handled EXCEPT ![t] = @ + 1]
  /\ Goto(t, IF CacheFull(cache'[t]) THEN "lock" ELSE "items")
  /\ UNCHANGED <<mram, globals, mutex, buffer, low, nnz, tmp>>

(* After the loop what is left in the cache is flushed. *)
LastFlush(t) == IF cache[t] = <<>> THEN "barrier2" ELSE "lock"

EndOfBlock(t) ==
  /\ pc[t] = "items"
  /\ handled[t] = nnz[t]
  /\ Goto(t, LastFlush(t))
  /\ UNCHANGED <<mram, globals, mutex, locals, served>>

(* write_result_cache, under result_cache_mutex: the rows go behind those   *)
(* that are there, then coo->nnz += size, a read and a write of MRAM.      *)
LockResults_Free(t) == TRUE
LockResults(t) == mutex = Master

Lock(t) ==
  /\ pc[t] = "lock"
  /\ LockResults(t)
  /\ mutex' = t
  /\ Goto(t, "write")
  /\ UNCHANGED <<mram, globals, locals, served>>

WriteRows(t) ==
  /\ pc[t] = "write"
  /\ cooData' = [r \in Row |-> IF r \in cooNnz..(cooNnz + Len(cache[t]) - 1)
                               THEN cache[t][r - cooNnz + 1] ELSE cooData[r]]
  /\ Goto(t, "load")
  /\ UNCHANGED <<query, cooNnz, resultSize, globals, mutex, locals, served>>

LoadNnz(t) ==
  /\ pc[t] = "load"
  /\ tmp' = [tmp EXCEPT ![t] = cooNnz]
  /\ Goto(t, "store")
  /\ UNCHANGED <<mram, globals, mutex, buffer, low, nnz, handled, cache, served>>

Released_Never(t) == t
Released(t) == Master

StoreNnz(t) ==
  /\ pc[t] = "store"
  /\ cooNnz' = tmp[t] + Len(cache[t])
  /\ mutex' = Released(t)
  /\ cache' = [cache EXCEPT ![t] = <<>>]
  /\ tmp' = [tmp EXCEPT ![t] = 0]
  /\ Goto(t, "items")
  /\ UNCHANGED <<query, cooData, resultSize, globals, buffer, low, nnz, handled, served>>

-----------------------------------------------------------------------------
MasterStep == Initial \/ Prepare \/ Merge
Slave(t) ==
  \/ Run(t) \/ HandleItem(t) \/ EndOfBlock(t)
  \/ Lock(t) \/ WriteRows(t) \/ LoadNnz(t) \/ StoreNnz(t)

Next ==
  \/ \E type \in Types, id \in Ids, n \in 0..MaxItems : Launch(type, id, n)
  \/ MasterStep \/ Barrier1 \/ Barrier2
  \/ \E t \in Slaves : Slave(t)

Spec == Init /\ [][Next]_vars

(* Every tasklet that can run is issued by the pipeline in turn, a barrier  *)
(* wakes all its waiters.  Nothing makes the host launch again.            *)
FairSpec ==
  /\ Spec
  /\ WF_vars(MasterStep) /\ WF_vars(Barrier1) /\ WF_vars(Barrier2)
  /\ \A t \in Slaves : WF_vars(Slave(t))

-----------------------------------------------------------------------------
(* Properties.                                                             *)

Working(t) == pc[t] \in {"run", "items", "lock", "write", "load", "store"}

(* The slaves work on what the master prepared for this launch, never on   *)
(* the globals the launch before left behind.                              *)
PreparedFirst ==
  \A t \in Slaves : Working(t) =>
    /\ pc[Master] = "barrier2"
    /\ kvsdNnz = query.nnz
    /\ query.type # "create" => index = Position(query.id)
    /\ query.type = "create" /\ index # NoSlot => table[index] = query.id

(* No two slaves read their items through the same WRAM buffer: mem_reset   *)
(* comes before the first seqread_alloc of a launch.                       *)
BuffersApart ==
  \A t, u \in Slaves : t # u /\ buffer[t] # 0 => buffer[t] # buffer[u]

(* No item is handled twice, and when the launch has ended every item has   *)
(* been handled, unless there is no index to handle it on.                 *)
ItemsOnce ==
  /\ \A i \in Items : served[i] <= 1
  /\ Done /\ index # NoSlot =>
       \A i \in Items : served[i] = 1 <=> i < ItemsOfLaunch

(* A lookup on an index reports one result for each key of the batch, as    *)
(* many as it says, and a lookup on an unknown index reports none.          *)
ResultsWhole ==
  Done /\ query.type = "lookup" =>
    /\ resultSize = IF index = NoSlot THEN 0 ELSE query.nnz
    /\ {cooData[r] : r \in 0..(resultSize - 1)} = 0..(resultSize - 1)

(* Invariant of the proofs.  Master and slaves are in the same phase, ...  *)
PhaseInv ==
  /\ pc[Master] \in {"start", "prepare", "barrier1", "barrier2", "merge", "done"}
  /\ pc[Master] \in {"start", "prepare", "barrier1"} => \A t \in Slaves : pc[t] = "barrier1"
  /\ pc[Master] = "barrier2" => \A t \in Slaves : Working(t) \/ pc[t] = "barrier2"
  /\ pc[Master] \in {"merge", "done"} => \A t \in Slaves : pc[t] = "done"

(* ... from the master's barrier on the globals are those of the launch, ... *)
GlobalsInv ==
  /\ pc[Master] # "start" => kvsdNnz = query.nnz
  /\ pc[Master] \notin {"start", "prepare"} =>
       /\ query.type # "create" => index = Position(query.id)
       /\ query.type = "create" /\ index # NoSlot => table[index] = query.id

(* ... every buffer lies below the heap's top, ...                         *)
BufferInv ==
  /\ \A t \in Slaves : pc[t] \in {"barrier1", "run"} => buffer[t] = 0
  /\ pc[Master] # "start" =>
       /\ \A t \in Slaves : buffer[t] <= heap
       /\ heap = Cardinality({t \in Slaves : buffer[t] # 0})
  /\ BuffersApart

(* ... a slave has taken the first items of its block, ...                 *)
BlockOK(t) ==
  /\ pc[t] \in {"barrier1", "run"} \/ index = NoSlot => handled[t] = 0 /\ cache[t] = <<>>
  /\ pc[t] \notin {"barrier1", "run"} /\ index # NoSlot =>
       /\ low[t] = BLOCK_LOW(Rank(t), NrSlaves, ItemsOfLaunch)
       /\ nnz[t] = BLOCK_SIZE(Rank(t), NrSlaves, ItemsOfLaunch)
  /\ handled[t] <= nnz[t]
  /\ pc[t] \in {"items", "lock", "write", "load", "store"} => index # NoSlot
  /\ pc[t] \in {"barrier2", "done"} =>
       cache[t] = <<>> /\ (index # NoSlot => handled[t] = nnz[t])

BlockInv == \A t \in Slaves : BlockOK(t)

(* ... which are those that have been served, ...                          *)
Taken(t) == low[t]..(low[t] + handled[t] - 1)

ServedInv == \A i \in Items : served[i] = IF \E t \in Slaves : i \in Taken(t) THEN 1 ELSE 0

(* ... and whose last ones are in its cache, ...                           *)
CacheOK(t) ==
  /\ Len(cache[t]) <= handled[t]
  /\ \A k \in DOMAIN cache[t] : cache[t][k] = low[t] + handled[t] - Len(cache[t]) + k - 1
  /\ query.type # "lookup" => cache[t] = <<>>
  /\ pc[t] = "items" => Len(cache[t]) < ResultCacheSize
  /\ pc[t] \in {"lock", "write", "load", "store"} => cache[t] # <<>>

CacheInv == \A t \in Slaves : CacheOK(t)

(* ... one slave flushes at a time, ...                                    *)
MutexInv == \A t \in Slaves : mutex = t <=> pc[t] \in {"write", "load", "store"}

(* ... the result matrix holds all items that are served and not cached, ... *)
Flushed(t) == low[t]..(low[t] + handled[t] - Len(cache[t]) - 1)
Reported == {cooData[r] : r \in 0..(cooNnz - 1)}

ReportedInv ==
  query.type = "lookup" /\ pc[Master] \notin {"start", "prepare"} =>
    /\ Reported = UNION {Flushed(t) : t \in Slaves}
    /\ Cardinality(Reported) = cooNnz
    /\ pc[Master] = "done" => resultSize = cooNnz

(* ... and rows that are written, and not counted yet, lie behind it.      *)
WrittenOK(t) ==
  /\ pc[t] \in {"load", "store"} =>
       /\ cooNnz + Len(cache[t]) <= MaxItems
       /\ \A k \in DOMAIN cache[t] : cooData[cooNnz + k - 1] = cache[t][k]
  /\ pc[t] = "store" => tmp[t] = cooNnz

WrittenInv == \A t \in Slaves : WrittenOK(t)

(* All of it: what a step of the master, a barrier or a slave relies on, so *)
(* that the promises above hold whatever the interleaving of the slaves.    *)
IndInv ==
  /\ TypeOK /\ PhaseInv /\ GlobalsInv /\ BufferInv /\ BlockInv /\ ServedInv
  /\ CacheInv /\ MutexInv /\ ReportedInv /\ WrittenInv

(* A launch ends, so that dpu_launch returns to the host. *)
LaunchEnds == pc[Master] = "start" ~> Done
=============================================================================
