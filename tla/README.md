# gmdb-pim-index: TLA+ models of the PIM primary index

The repository is a primary (hash) index for a database that runs on processing-in-memory
hardware (UPMEM DPUs). The host hands batches of key-value pairs to *sets* of 64 DPUs; every DPU
keeps hash tables in its MRAM, which its tasklets fill, empty and search concurrently. This
directory holds TLA+ models of it, the TLC configurations that check them, and proofs that the TLA+
proof system checks. All definitions are read from the C source; `PROJECT.json` maps each to its
lines.

## 1. Inventory

### Components, state, operations

| part | code | state | operations |
|---|---|---|---|
| Primary index in a DPU | `dpu/sto/primary_index_dpu.c`, `global_mutex.c`, `global_var.c`, `mram_memory.h` | bucket arrays and overflow nodes in MRAM, table of indexes, `used`, a pool of bucket mutexes | create, init_buckets, insert, delete, lookup; get_or_insert and update_with_entry_addr, which no launch calls yet |
| Allocator of overflow nodes | `dpu/sto/linear_mram_alloc.c` | `cur`, `avail_size`, a mutex | alloc, reset (free is empty) |
| DPU program | `dpu/main.c`, `dpu/ops/*` | globals of the launch, two barriers, WRAM heap, result caches, result matrix | master: initial, prepare, merge; slaves: run |
| Block decomposition | `util/util.h` | none | BLOCK_LOW, BLOCK_HIGH, BLOCK_SIZE |
| Block allocator with bitmap | `dpu/sto/block_mram_alloc.c`, `bitmap.c` | bitmap in MRAM, its head and a window of it in WRAM, counters | init, alloc, free, save |
| Index manager | `host/dpu_index_manager.c`, `hash_map.c` | lock, count, hash map from index to set | create_index, get_dpu_set |
| DPU set pool and sets | `host/dpu_set_pool.c`, `dpu_set_context.c` | per set: lock, slot counter, packages, pull buffers, the DPUs | apply, run |
| Batches | `host/primary_index_host.c`, `dpu_push.c`, `dpu_pull.c`, `util/push_package.c`, `kv_set.c` | the buffers of a set | create, batch insert, delete, lookup |
| Sparse matrices | `util/coo_matrix.c`, `dpu/sto/coo_matrix_dpu.c` | matrices of elements with a capacity | create, init, reset, clear, insert, add, sub, merge, disorder, iterate |
| Helpers, timer, tests | `util/util.c`, `host/dpu_timer.c`, `test_case.c` | none that matters | align8, next_power, printing |
| PIM interface | `upmemInterface/upmem_direct_c.h` | external | allocate, SendToPIM, ReceiveFromPIM, Launch |

### How they interact

A client thread asks the manager for the set of an index (manager lock), then works on the set
under the set's lock: it builds one package per DPU from its batch, by the hash of each key, sends
the packages, launches all DPUs and waits. In a DPU the master tasklet reads the package and
prepares globals; barrier1 releases the slaves, each of which handles a contiguous block of the items
with one operation of the index per item, under the mutex of the item's bucket; barrier2 releases
the master to finish. An insert that collides takes a node from the allocator, which all
indexes of the DPU share. A lookup's results are cached per slave and flushed to one result matrix
under a mutex; the host receives metadata, then results, and merges them into the caller's
array by row. Everything (packages, DPU globals, MRAM, pull buffers) stays from call to call.

### What is hard

* Slaves of one launch on colliding buckets, shared nodes, a shared counter and a shared result
  matrix; client threads on two kinds of locks.
* Ordering: master before slaves in each launch, host before DPUs, merge after all results.
* Left-over state: globals of the last launch, elements of earlier packages, results of earlier
  lookups, a window of the bitmap that MRAM has not seen yet, a matrix's capacity after a reset.
* Limits: a full index table, a spent node region, a full result cache, a pull buffer too small, a
  package without room, a matrix that cannot take all that is inserted.
* Failure of a single step (a refused create, a refused allocation, a refused bitmap, results not
  received) that nobody looks at.
* Nothing outlives a crash, so there is no crash recovery; the block allocator has a save operation,
  but nothing reads what it saves. There are no timeouts and no retries.

`PROJECT.json` lists 38 hazards, each at its line, with the properties that watch it.

### What makes each part correct

* Index: one slave at a time in a bucket; chains end, share nothing and contain no unwritten node;
  an index is a bag of pairs and operations on it are linearizable.
* Allocator: blocks are disjoint and inside the region; null only if the region is spent.
* DPU program: slaves use this launch's globals; each item is handled exactly once; every result
  arrives; a launch ends.
* Manager: an index has one home; slots suffice; a call that starts after a create finds the index;
  results are the caller's own; every call returns.
* Batches: a batch takes effect once and as a whole on the index it names; every DPU is sent all of
  its package.
* `used`: it follows the entries as far as overlapping updates let it.
* Block allocator: marks in the bitmap and holders of blocks agree; block contents are left alone.
* Matrices: no element behind the memory of its matrix; sums and differences of sorted matrices are
  sorted and exact; as bags, the results are what the operations' names say.

## 2. Modules

| module | models | composed from |
|---|---|---|
| `BlockDecomp` | the block macros | |
| `BlockDecompProofs` | theorems: blocks cover, are disjoint, stay in bounds; arithmetic and induction over numbers other proofs use | BlockDecomp |
| `PrimaryIndexDpu` | the indexes of one DPU, one step per DMA transfer or lock operation | BlockDecomp |
| `PrimaryIndex` | abstract: a table of bags | |
| `PrimaryIndexDpuImpl` | the refinement mapping | both above |
| `UsedCount` | what overlapping updates leave of the counter `used`: history variables beside PrimaryIndexDpu | PrimaryIndexDpu |
| `PrimaryIndexDpuProofs` | theorems about PrimaryIndexDpu and UsedCount, with the refinement | PrimaryIndexDpuImpl, UsedCount, BlockDecompProofs |
| `LinearMramAlloc` | the node allocator, one step per field access | |
| `Arena` | abstract: an allocator that serves each request in one step | |
| `LinearMramAllocProofs` | theorems, with the refinement | both above |
| `DpuTask` | launches, barriers, item distribution, result cache | BlockDecomp |
| `DpuTaskProofs` | theorems about DpuTask | DpuTask, BlockDecompProofs |
| `BatchOps` | one set's batches: packages, transfer, runs, pull, merge | KeyValueBatches, as the abstraction |
| `KeyValueBatches` | abstract: each batch takes effect once | |
| `PushPackage` | sizes and offsets of packages, in bytes | |
| `BatchProofs` | theorems about BatchOps, with the refinement, and about PushPackage | BatchOps, PushPackage, BlockDecompProofs |
| `IndexManager` | client threads, manager with its hash map, sets | |
| `IndexManagerProofs` | theorems about IndexManager | IndexManager |
| `BlockMramAlloc` | the block allocator and its cached bitmap | |
| `BlockMramAllocProofs` | theorems about BlockMramAlloc | BlockMramAlloc, BlockDecompProofs |
| `CooMatrix` | the sparse matrices, add, sub, merge, disorder and dump turn by turn | |
| `MatrixBags` | abstract: matrices as bags of elements | |
| `CooMatrixProofs` | theorems about CooMatrix, with the refinement | CooMatrix, BlockDecompProofs |
| `MC...` | instances for TLC | |

Each layer abstracts from the one below: `PrimaryIndexDpu` has the steps of an operation, in `DpuTask`
an item is one step, in `BatchOps` a DPU's launch is one step, in `IndexManager` a set's launch is one
step. `InsertAlloc` of PrimaryIndexDpu takes a node in one step; `LinearMramAlloc` has that
operation's own steps and is proved to implement the one-step arena.

Definitions with a suffix after an underscore (`MyMutex_PerSlave`, `Rank_Tasklet`, ...) are faulty
variants of the definition they precede. No specification uses them; each property has one
that breaks it (`PROJECT.json`, "mutants").

### Correspondence to the code

**PrimaryIndexDpu.** `mem` is MRAM in units of one `primary_index_entry`: the bucket arrays
(`BucketHead(s, b)`), then the overflow nodes. `buf`, `last`, `ptr`, `tail`, `tmp` are the locals of the C
functions (`entry_buffer`, `last`, `cur`/`last_ptr`, `entry_buffer_next`, the register of `used++`).
`pc` names the next DMA transfer or lock operation. `BeginCreate`, `BeginOp` are the master's prepare
functions; the barriers appear as `AllIdle`. `key` stands for key bytes with their length. A
write through the null pointer (insert with the region spent) goes to offset 0, the push
package's header, and changes no index. get_or_insert and update_with_entry_addr are launches of
their own, in which every slave has such operations to do; the address of an update is that of any entry
of the index, or of one deleted since, as a caller has it from an earlier launch.

**UsedCount.** The actions are those of PrimaryIndexDpu, with three history variables: `used` and the number
of entries of each slot as the launch found them, and `crowded`, whether two slaves have since been at
the counter at once, between the write of their bucket and the store of `used` (pc `load` and `store`:
`used++` reads and writes the counter in two steps).

**LinearMramAlloc.** One action per statement of `linear_mram_alloc`. `Got` of the mapping: a request
is served when `cur` moves or the request is found too large. `Reset` needs a caller that is alone.

**DpuTask.** `query` is the package's head; `index`, `kvsdNnz`, `heap` the globals that survive a
launch; `pc` of every tasklet; `cooNnz`, `cooData`, `resultSize` the results in MRAM. Slaves begin a
launch at barrier1: all they do before it is to read the type from the package, which no
one writes during a launch. `LoadNnz`/`StoreNnz` are the two halves of `coo->nnz += size`.

**BatchOps.** `packages`, `mram`, `coo`, `size`, `metadatas`, `results` are the host's and the DPUs'
copies of the buffers, with the elements that earlier batches left. `Push` sends as many elements of
every package as the longest has, `PullResults` receives as many as the DPU with most results has.
`key_id` is the union of `key_id` and `val` in `kv_elem`. DPUs run in any order (`RunDpu`), rows of
results stand in any order. A DPU is one step; what it does to its own part of the table is `Inserted`,
`Deleted` or `Answers`, on the bags that `PrimaryIndexDpu` implements.

**PushPackage.** The fields of a package's head in the bytes the program uses: `kv_offset` (-1 for
none), `used_memory`, and `nonsense` for the byte of padding that `dpu_push_package` reads when it asks
for the `nnz` of a package without elements. `Used` counts the elements once more with each call, as
`push_package_size` does, and `Reset` begins anew. `BuildQuery`, `BuildBatch` and `PushPackages` are the
builds without and with elements and the transfer.

**IndexManager.** `pc` names the next lock operation or call of the `_v1` functions. `LockManager`,
`ApplyLock`, `ApplyCount`, `Register` are `dpu_index_manager_create_index` with `dpu_set_apply`
nested; `Enter` ... `Leave` the function on the set. `map` has the chain of every bucket.

**BlockMramAlloc.** `mram` is a function from words of the map on, `cache` the window with its offset,
`head` the WRAM copy of `bitmap_head`, `saved` MRAM's. Operations are single steps, since all but save
and block_free take the allocator's mutex and nothing calls those two concurrently. `Scan` says
without the loop where the search for the next free bit ends and which window it leaves. `Create` goes
on when `bitmap_dpu_init` refuses, as `block_mram_allocator_init` does: head and map are then what MRAM
held (`FoundHeads`). Windows are read and written in full, also where they reach behind the map into
blocks; `Write` is the holder of a block at work. MRAM past the region (`LastWord`) belongs to others: a window that
reaches there reads anything, and what it writes there is not followed.

**CooMatrix.** `coo` is the matrix behind every pointer with its `capacity`, the memory malloc gave it
(`size`) and its elements; `call` the arguments and locals of an operation with loops, whose turns are
steps. `ends` of a merge are the running sums of the elements of its matrices. The `_v` versions
and those for MRAM are the same functions and share the definitions.

## 3. Runs

| run | instance | shows |
|---|---|---|
| TwoBuckets | 2 slaves, 2 buckets under 2 mutexes, 2 keys, 2 nodes, counter modulo 3 | `BucketExclusive`, `NoUninitialisedRead`, the inductive invariant `FullInv`, `UsedFollowsEntries` (at rest the counter has moved with the entries and not past them, by their number if no two updates overlapped), `IndInvH` (its inductive form, at every moment) |
| TwoIndexes | 2 indexes of 1 bucket, 1 shared node, 1 key, values 0 and 1 | the DPU implements `PrimaryIndex` |
| OneBucket | 1 bucket, 2 colliding keys, 2 nodes, 2 slaves, fair | `MissMeansAbsent`, `FoundStaysFound` (an address found is valid after the unlock), `FullInv`, implements `PrimaryIndex` while the region runs out, `MutexReleased` (liveness) |
| Launches | 2 slaves, 0 to 5 items, cache of 2 results, 1 table slot, 2 ids, fair | `IndInv`, `PreparedFirst`, `BuffersApart`, `ItemsOnce`, `ResultsWhole`, `LaunchEnds` (liveness) |
| Requests | 3 tasklets, sizes 8, 12, 16, region of 40 | `BlocksApart`, `NullMeansFull`, `IndInv`, implements `Arena` |
| Clients | 2 threads, 5 calls, 2 ids in one map bucket, 2 sets with 1 slot, fair | `IndInv`, `TableNeverFull`, `OneHome`, `SlotsSuffice`, `LateCallsFindIndex`, `OwnResults`, `CallsReturn` (liveness) |
| Batches | 2 DPUs, 4 calls, batches of up to 2 of 2 keys, 2 values, 2 ids, pull buffers of 1 result | `IndInv`, `OneTable`, implements `KeyValueBatches` |
| Blocks | words of 2 bits, windows of 2 words, a map of 3 words, so that the second window reaches into the first of 5 blocks; a region with more blocks than a bitmap may have, and three heads found in MRAM | `IndInv`, `MarksAreHolders`, `HeadRight`, `BlockDataKept` |
| Matrices | 3 matrices, capacities 0 to 2, elements in 2 rows | `IndInv`, `CallsRight` (sums sorted, differences exact, merges and dumps in order and whole), implements `MatrixBags` |
| Packages | 2 packages of 2 MB, the smallest and the largest batches | `SentWhole` |
| BitmapSize | the code's own sizes, region of 1984 bytes | violated: `StorageHoldsMap` (finding 1) |
| PullOverflow | 3 DPUs, pull buffer of 1 result | violated: `RowsOfBatch` (finding 2) |

### Bounds, and why they are enough

* Two slaves make every pairwise race; what is proved holds for any number. Three tasklets
  where a queue at a lock matters (Requests).
* Chains of up to three entries have a first, a last and an inner node to delete, and the
  head. Every run reaches the end of the region of nodes. In TwoBuckets each bucket has a mutex and a
  key of its own that may come several times, so both slaves load and store at once; a counter modulo 3
  wraps. Buckets that share a mutex, as most do in the code, only keep slaves apart that
  would not have to be.
* Five items on two slaves give blocks of different sizes (2 and 3), a cache that is flushed inside
  a block and one with a rest; 0 and 1 items leave slaves without work.
* Five calls: two creates and three batches, or creates refused for want of a slot or for a
  known id. Both sets can be full.
* Four calls of a set: a create, an insert and two more, enough for a stale element to be
  sent, answered or merged. `MaxPairs` bounds an index's pairs. A lookup of both keys has one row for each DPU
  and fits the pull buffers, although the batch is larger than one; a lookup of one key twice does not. Batches fit a
  package here; in Packages they also fill it.
* The map of three words needs two windows, so that the window has to be written back and fetched,
  and the second shares its last word with the first block. The promises about marks and head are for an allocator
  whose bitmap was made and lies in front of the blocks (`Usable`), the one about contents for the blocks behind the
  windows; nothing in the code ensures either, and Blocks has regions where they fail. BitmapSize and the
  observations below say what happens then. In the code's sizes most regions are `Usable` (finding 1 hits those just
  above a multiple of 1024 blocks, and those of fewer than 32), while the first blocks are within a window
  unless the map ends with one.
* Three matrices are the two operands and the result; a matrix may also be both operands of a sum or
  stand in a merge twice. Elements in two rows and two columns tell the order by row from that by
  row and column. The matrices' symmetry is that of their names.

Counters: `MaxCalls` (IndexManager, BatchOps), `MaxPairs`, `LastWord`, `MaxItems`, `MaxMemory`,
`MaxElements`. `UsedModulus` stands for 2^32; where nothing
is said of the counter it is 1.

### Fairness

* DPU tasklets: weak fairness per slave, for the master and for each barrier. The pipeline of a
  DPU issues all tasklets that can run round robin; a barrier wakes all its waiters. Weak fairness
  suffices for mutexes here because a slave asks for a mutex finitely often in a launch. In OneBucket
  a slave may call for ever, so the property there is that a mutex once held is released.
* Client threads: weak fairness per thread (the operating system schedules threads that can run).
  Calls are bounded, so a lock becomes free for good sooner or later.
* No fairness on launches and calls: nothing makes a client call.

### Findings

1. `bitmap_dpu_size` (bitmap.c:13) takes the remainder of the number of words instead of the
   number of bits. For an allocator over 1984 bytes with 64-byte blocks it reserves no word for the
   map of 30 blocks, and block 0 overlaps the map. bitmap.h:55 says the function returns
   the total storage. The block allocator has no caller at present.
2. `dpu_pull_coo_results` (dpu_pull.c:76) returns without receiving when a DPU has more results than
   the pull buffer holds (8189), and `primary_index_batch_lookup` merges what the buffers still hold:
   results of an earlier batch, at that batch's rows, possibly behind the caller's array, which
   test_case.c:17 allocates with `batch_size` elements. The limit is per DPU: the 65536 keys of the
   repository's test are about 1024 rows for each of 64 DPUs, and fit.

Further observations:

* An insert whose allocation fails loses the bucket's chain and reports success
  (`PrimaryIndex!Overflow`); a refused create keeps its slot; a batch that overtakes a create is
  silently dropped; an absent key answers 0 like a stored 0; `used` loses updates when two slaves
  insert under different mutexes.
* update_with_entry_addr reads the entry before it takes the lock and writes the copy back, which is harmless only
  as long as a launch has updates alone, as all launches of the model do.
* Keys per package are not compared with the capacity (dpu_push.c:121). A package of exactly the
  capacity, 87380 elements, ends 8 bytes behind `COO_RESULT_OFFSET`, so that the initialisation of a
  lookup's results overwrites the row of its last element. push_package.h:7 calls the 2 MB of a package
  `64KB`.
* `coo_matrix_dump_head` (coo_matrix.c:202) goes on after the elements are at an end; nobody calls it.
* The window on the map is always transferred in `MAP_CACHE_SIZE` (32) words, also when the map is shorter
  (bitmap.c:147 and 79). For a region of 4096 bytes the map has 2 words, 4 are reserved, and a save writes 28
  words of blocks 0 and 1 back as they were when the window was read, over what their holder has written since.
* `block_mram_allocator_init` ignores that `bitmap_dpu_init` refuses more than `BITMAP_SIZE_MAX` bits
  (block_mram_alloc.c:22, bitmap.c:26). The allocator then runs on a head nobody has written: with zeros in MRAM
  every alloc hands out block 0.
* `block_mram_allocator_init` compares the region with the size of the bitmap before alignment, and subtracts the
  aligned one (line 16). With the code's 32-bit words no region lies between the two: those for which alignment
  adds anything have 64 blocks or more (`RegionAssumption`).

## 4. Proofs

All from the ASSUMEs of the modules (constants are positive numbers, sentinels differ from data),
for every value of the constants. TLC checked every invariant first: the runs that name an
`IndInv` or `FullInv` check the very formula that is proved inductive. `Spec => Abstract!Spec` is proved
for all four refinements.

**BlockDecompProofs.** From integer division alone: every item is in the block of some slave
(`BlocksCover`), in no two (`BlocksDisjoint`), and blocks stay within the items (`BlocksBounds`).

**PrimaryIndexDpuProofs.** `Invariance`: `Spec => []IndInv`. Types and mutual exclusion alone are not
inductive: that a write to the head keeps chains apart depends on what the writing slave
holds in its buffers, and those are right only because nobody else wrote the bucket since. `IndInv`
therefore joins types, the state of the launch (which slots are initialised and by whom), lock
ownership (a slave in its critical section holds the mutex of its bucket), the allocator (nodes
below `avail` have a `home`, a bucket head they were allocated for; others have none), the links (a
link stays in the chain's own home) and, per slave, what its buffers say about
MRAM, with those of get_or_insert and update. Each action is shown to preserve each part. From it
follow `TypeCorrect`, `MutualExclusion`, `ChainsWellFormed` and `ReadsInitialised`.

What the chains *hold* takes two more invariants; `FullInv` joins all three (`FullInvariance`).
`StoreInv` (`Stored`): entries that have been written hold values, buckets that have not been
initialised hold none, and a node on its way into a chain is not in it yet. `SearchInv`
(`SearchesRight`): while a slave searches, a key that it has not met can only lie in the `Rest` of the
chain, which its cursor still has to walk; after a miss that is nothing. With it come
`MissesAreRight` (no duplicate is ever added by get_or_insert, no present key is answered 0) and
`FoundsAreRight` (the entry whose address was returned stays where it is until a launch of another
type).

`used` is not the number of entries in the code: its buckets are under several mutexes, so that a slave may store
over the update of another. `CountersFollow` says what is left, for any slaves, buckets and mutexes, while there is
room for nodes: at rest the counter has moved the way the entries have (up in launches that add, down in those that
delete), by no more than there were updates and by one at least, and by their number when no two slaves
were at the counter at once; the other indexes keep theirs. Both bounds are met: TLC finds launches in which two
updates move the counter by one. `used` is modulo `UsedModulus`, and the lower bound is for fewer updates than
that. The inductive invariant is `IndInvH` (`UpdatesAreFollowed`): neither the counter nor any value a slave has
loaded is ahead of the updates stored so far (`Done`, the entries that have changed less the slaves still between
write and store), so the store of a stale value takes the counter back but not past where it began. The write
lemmas (`PutNumber`, `NodeNumber`, `HeadNumber`, `UnlinkNumber`) say that the chains of one slot gain or lose one
entry and all others keep theirs; `RemainderStep` that steps modulo a number add up.

`Chain(h)` is defined by recursion over the number of nodes; nothing about it can be proved by
induction over data here. The proofs go around it: `ChainWalk` shows, by a least counterexample over
numbers, that the recursion has a solution, `ChainUnique` that a set that has the
successor of each of its members and ends is the chain of its head, and for each action that
writes a link it is said outright what the chain is afterwards (one node more at its end or behind the
head, or one less).

`Refinement`: `Spec => ImplementsPrimaryIndex`. The abstract bag of a slot counts, for each pair, the
entries of its chains that hold it; a bucket nobody has initialised holds none (`StoreInv`). Each action is
shown to be a stutter or the one abstract step of its operation: an insert counts with the write of its entry
(`InsertPut`, `InsertNode`), a delete with the write that takes the entry out (`DeleteHead`, `DeleteUnlink`), an
update with `UpdatePatch`, and a lookup or get_or_insert answers at `LookupFetch`. An insert that links a node takes
two writes: after the first the chain leads past the node that is not written yet (`Behind`), so that no entry is
lost in between. `DeleteHead` overwrites the head with its successor, which leaves the chain in the same step,
so that only the deleted pair goes. Without room `InsertLink` is the abstract `Overflow`: of the entries of a
collision class the one in the head survives. The allocation of the last node is `Spend`.

**LinearMramAllocProofs.** `IndInv` adds to the types the balance `cur + avail = Start + RegionSize`
(but for the step between the two updates) and what each tasklet's locals are at each step. From it:
`TypeCorrect`, `BlocksDisjoint`, `RefusalJustified`; and `Refinement`, that every step, `Reset` too, is
a step of `Arena` or a stutter.

**DpuTaskProofs.** That every item is handled once needs more than the block theorems: `BlockInv` says
that a slave has taken the first items of *this* launch's block, which holds because the globals it
reads are the launch's own (`GlobalsInv`), because the master is ahead of the slaves (`PhaseInv`).
`ServedInv` ties `served` to the items taken; with `BlocksCover` and `BlocksDisjoint` it gives `ItemsOnce` at
the end. For the results, `CacheInv` says that the last items taken are those in the cache, `ReportedInv`
that the matrix holds exactly the others, each once, and `WrittenInv` what lies behind `nnz` while the
holder of the mutex (`MutexInv`) adds up. There is room behind `nnz` because cached items are not among the
reported ones and all are items of the launch. Theorems: `Invariance`, `PreparationComesFirst`,
`NoSharedBuffer`, `EveryItemOnce`, `ResultsArriveWhole`.

**IndexManagerProofs.** Between two locks a call relies on what it saw under the first. `IndInv` says who
holds which lock (`LockInv`), what a call knows by where it is (`CallInv`: its set is the home
of its index), that slots cover indexes and one more while a create has counted and not yet
registered (`MapInv`), that every table entry is of a registered index, and that creates on the way to
their set have no rival and no entry yet (`TableInv`), and where the results of a lookup are on their way
(`ResultInv`). Theorems: `Invariance`, `TablesNeverFull`, `EveryIndexHasOneHome`, `EveryIndexHasASlot`,
`LateCallsFind`, `ResultsAreOwn`.

**BlockMramAllocProofs.** Marks are read through the window or from MRAM, so the invariant has to say that
an unmodified window shows what MRAM holds in front of the blocks (`WindowInv`); behind, it may be stale, as it
carries words of blocks that their holders write. The lemma `HitGood` then says that moving the window changes no
mark and no block behind the windows, `EditedGood` that setting or
clearing a bit changes that bit alone, `ScanRight` that the search ends at the first clear bit; from
these each operation keeps `MarksAreHolders` and `HeadRight`. There is no assumption on the regions but that
alignment does not exceed them: what depends on a bitmap that was made, and in front of the blocks, has that as
the conditions `Initialised` and `Usable` of the properties, and an allocator that is neither is in the invariant
too. Theorems: `Invariance`, `MarksRight`, `HeadAgrees`, `HoldersUndisturbed`.

**CooMatrixProofs.** `IndInv`: no matrix has more elements than memory, the loops of add and sub
drop nothing and those of merge fit (`Invariance`, `ElementsInMemory`). `CallsAreRight` needs what each
loop has done so far. `SumInv`: every element already in a sum is behind none of the elements left
(`SumsSorted`). `Counted`: each element is in the result as often as among the elements of A and B
passed, for sub as often as among those of B passed, less those of A. `DifferenceInv`: when A is a sorted
part of B, all that was kept is smaller than the element of A that is waited for; were B at its end and
A not, `Counted` would therefore give that element once too often in A (`WaitedFor`). `JoinedInv`: a merge
has the parts it has copied in their order, a dump the elements up to its index. `FlattenSeq` and the fold of
the abstract merge are recursive functions; `FlattenWalk` and `TallyWalk` show by least
counterexamples that the recursions have solutions. `Refinement`: `Spec => ImplementsBags`, from `Counted`
(sums and differences), `JoinedInv` (merges) and lemmas on how often an element is in
a sequence after an append, a concatenation or a swap.

**BatchProofs.** `TablesAgree`: between launches the DPUs of a set have the same indexes in the same slots, and a
pair is with the DPU its key hashes to. This is not inductive: that a DPU inserts only its own keys depends on
the package it was sent, of which it reads as many elements as `nnz` says, whatever earlier batches left
behind them. `IndInv` (`BatchesInvariance`) therefore follows the call. `PhaseInv` says what is going on where the call is;
`PackagesInv` that each package, first the host's, then the DPU's copy, has the elements of this batch for this
DPU, each at its `Place`; `RunInv` that a DPU which has ended has done what the call says to its part (`Effect`)
and the others nothing; `TableInv` that the tables the launch began with agree; `RoomInv` that the bound on
pairs leaves room for the pending insert; `ResultsInv` that results, metadata and pull buffers answer the rows of this
lookup. One lemma per action. The arguments that carry it: the rows for a DPU and the places in its package correspond one
to one (`PlaceFacts`), so a DPU counts a key in its package as often as the batch has it (`CountKey`, `CountPair`); the
longest package is long enough for each (`DpusMax`); `Effect` keeps slots and ids the same in
all DPUs (`EffectShape`); and the merge gives each row an answer to it and leaves the others (`MergedRight`),
since two DPUs never answer the same row.

`OwnRowsOnly` (a lookup writes no row behind its batch) and `BatchesRefine` (`Spec => ImplementsBatches`) hold for
any batches and buffers. What they promise of a lookup they promise if its results can be received: `PullsFit`, no
DPU has more rows of the batch than a pull buffer holds. The code checks that only after the launch and ignores the
outcome; PullOverflow shows what happens to a lookup that does not fit (finding 2), and in `KeyValueBatches` its
array may hold anything. A batch after it is answered right again, since `Merge` reads no row that was not received in
its own call (`NotReceived`: only a lookup that does not fit merges old results). For the code's sizes a batch fits if
no DPU gets more than 8189 of its keys; the repository's test sends 65536 keys to 64 DPUs. The other parts of
`IndInv` and `OneTable` do not depend on it.

For the refinement the abstract bag of an id is the sum over all DPUs of what its first slot holds
(`IndexOf`). By `OneTable` that sum has one term (`BagAt`, `IndexFacts`), so that the bags of the DPUs change
like one bag (`AddedRight`, `RemovedRight`): a delete removes from the home of a key as many pairs as
the batch asks for, limited by what is there. Inserts, deletes and creates take effect when the last DPU
ends (`RefServe`), lookups with the merge (`RefMerge`), all else is a stutter. The sums are folds of the
community modules over functions of any size. `SumTurns` shows by a least counterexample that their recursion has a
solution, and `SumTakes` that any element may be taken out first, which gives `SumFacts`: a sum is a natural number,
has the one term that is not 0, and bounds each of its terms.

`PackagesSentWhole`: by arithmetic on the offsets, for any number of DPUs, any batches within the capacity and
any malloced memory.

**Model-checked only.** Liveness (`MutexReleased`, `LaunchEnds`, `CallsReturn`), since fairness and ENABLED are out
of the prover's reach. Every other property of the passing runs is a theorem.

## 5. Not modelled

* The PIM interface, which is external: it is taken to transfer the bytes asked for and to return
  when all DPUs are done. Failures of malloc, which the code does not look at.
* Setting up and tearing down the pool (nobody calls the release), reading the DPUs' log.
* Batches with more keys for a DPU than its package takes (87380): what they overwrite on the host depends on malloc, and what they
  overwrite in a DPU on the sizes of the packages behind them.
* save and block_free of the block allocator concurrently with others: they take no lock and have no
  caller.
* The hashes, which are parameters, and itoa_t. Timers, dumps to the console, logs, tests and
  main: no effect on state.

## 6. Plan

Done: all components above, nine inductive invariants with their proofs, four refinements checked and
proved.

1. `DpuTask` with `PrimaryIndexDpu` as the effect of an item, and `BatchOps` with `PushPackage` for sizes, on
   instances small enough for TLC.
2. Interleavings of the block allocator's operations, once something calls it.
