--------------------------- MODULE PrimaryIndexDpu ---------------------------
(***************************************************************************)
(* The primary indexes that live inside one DPU (dpu/sto/                  *)
(* primary_index_dpu.c) and the slave tasklets that create, fill, empty    *)
(* and search them concurrently.                                           *)
(*                                                                         *)
(* An index is a hash table in MRAM.  Every bucket has a head entry inside *)
(* the index's own bucket array; entries that collide with the head are    *)
(* overflow nodes, chained behind it, taken from one bump allocator that   *)
(* all indexes of the DPU share.  Operations on a bucket run under the     *)
(* mutex the bucket's number selects in a mutex pool.                      *)
(*                                                                         *)
(* One launch of the DPU program runs operations of one kind on one index: *)
(* the master tasklet prepares the launch, barriers separate its work from *)
(* the slaves'.  Here the barriers appear as their effect, a new launch    *)
(* begins only when every slave is idle.  That holds of the launches there *)
(* are; get_or_insert and update_with_entry_addr, which no launch calls    *)
(* yet, are modelled as further kinds of launches.                         *)
(*                                                                         *)
(* MRAM is a function from addresses to entries, in units of one entry,    *)
(* 0 being the null pointer: first the bucket arrays, then the region of   *)
(* the allocator, as in dpu/sto/mram_memory.h.  A key stands for the pair  *)
(* of key bytes and length, NoKey for length 0; val_meta is left out, no   *)
(* operation of a launch reads it.  One step is one DMA transfer, one lock *)
(* operation or one half of the read-modify-write of the used counter.     *)
(***************************************************************************)
EXTENDS Integers, FiniteSets, BlockDecomp

CONSTANTS
  NrSlaves,     \* NR_SLAVE_TASKLETS
  Ids,          \* index identifiers clients use
  NoId,         \* content of an unused slot of the index table
  Keys,         \* non-empty keys
  NoKey,        \* key of an entry with key_len = 0
  JunkKey,      \* marks MRAM nobody has written since the DPU was loaded
  Vals,         \* stored values, 0 among them or not
  Hash,         \* _hash_function: Keys -> Nat
  MaxIndexes,   \* PRIMARY_INDEX_MAX_NUM
  NrBuckets,    \* pid->buckets_size
  NrNodes,      \* overflow nodes that fit INDEX_ENTRY_BLOCKS_SIZE
  NrMutexes,    \* size of buckets_mutex_pool
  UsedModulus   \* 2^32, the range of the counter used

ASSUME SizeAssumption ==
  /\ NrSlaves \in Nat \ {0}
  /\ MaxIndexes \in Nat \ {0}
  /\ NrBuckets \in Nat \ {0}
  /\ NrNodes \in Nat
  /\ NrMutexes \in Nat \ {0}
  /\ UsedModulus \in Nat \ {0}

ASSUME DataAssumption ==
  /\ NoKey \notin Keys
  /\ JunkKey \notin Keys \cup {NoKey}
  /\ NoId \notin Ids
  /\ Vals \subseteq Nat
  /\ Hash \in [Keys -> Nat]

-----------------------------------------------------------------------------
(* Addresses and entries.                                                  *)

Slaves   == 1..NrSlaves            \* me() of the slave tasklets, 0 is the master
Slots    == 0..(MaxIndexes - 1)    \* positions in global_prestored_primary_index
NoSlot   == -1                     \* global_primary_index = NULL
Buckets  == 0..(NrBuckets - 1)
Mutexes  == 0..(NrMutexes - 1)
Null     == 0

(* Definitions with a suffix, as BucketHead_SameArray, are faulty variants  *)
(* of the definition they precede, for the runs that show what a property   *)
(* catches.  No specification uses them.                                   *)

BucketHead_SameArray(s, b) == b + 1    \* the offset of the slot is forgotten

(* pid->buckets + bucket of the index in slot s *)
BucketHead(s, b) == s * NrBuckets + b + 1

FirstNode == MaxIndexes * NrBuckets + 1
LastNode  == MaxIndexes * NrBuckets + NrNodes
Heads     == 1..(FirstNode - 1)
Nodes     == FirstNode..LastNode
Addrs     == 1..LastNode

(* _hash_function(key, key_len) & pid->sizemask *)
Bucket(k) == Hash[k] % NrBuckets

(* The mutex of the pool a bucket number selects. *)
MutexOf(b) == b % NrMutexes

Entry == [key : Keys \cup {NoKey, JunkKey}, val : Nat, next : 0..LastNode]
Junk  == [key |-> JunkKey, val |-> 0, next |-> Null]

-----------------------------------------------------------------------------
VARIABLES
  mem,      \* MRAM: address -> entry
  avail,    \* address the allocator hands out next (allocator->cur)
  num,      \* global_num_pre_load_primary_index
  indexId,  \* index_id of every slot of global_prestored_primary_index
  used,     \* the counter used of every slot
  pid,      \* slot global_primary_index points to, or NoSlot
  opType,   \* operation of the launch
  mutex,    \* the pool: holder of every mutex, 0 when it is free
  pc,       \* where every slave is
  key, val, \* arguments of the operation a slave runs
  buf,      \* entry_buffer
  last,     \* last, the entry before the one in entry_buffer (delete)
  ptr,      \* cur (insert), last_ptr (delete), last and then res (lookup,
            \* get_or_insert), entry (update)
  tail,     \* entry_buffer_next (insert)
  tmp,      \* register of the read-modify-write of used
  answer,   \* what the last lookup of a slave found, for its result cache
  home      \* history variable: the bucket head a node was allocated for

index  == <<num, indexId, pid, opType>>
locals == <<key, val, buf, last, ptr, tail, tmp>>
vars   == <<mem, avail, index, used, mutex, pc, locals, answer, home>>

Labels == {"idle", "init", "lock", "read", "put", "alloc", "link", "node", "pull",
           "head", "walk", "unlink", "load", "store", "unlock", "fetch", "reread",
           "peek", "patch"}

(* The operations a launch runs on an index that exists. *)
Operations == {"insert", "delete", "lookup", "get_or_insert", "update"}
Adding     == {"insert", "get_or_insert"}    \* may add an entry
Finding    == {"lookup", "get_or_insert"}    \* may return an entry's address

TypeOK ==
  /\ mem \in [Addrs -> Entry]
  /\ avail \in FirstNode..(LastNode + 1)
  /\ num \in 0..MaxIndexes
  /\ indexId \in [Slots -> Ids \cup {NoId}]
  /\ used \in [Slots -> 0..(UsedModulus - 1)]
  /\ pid \in Slots \cup {NoSlot}
  /\ opType \in Operations \cup {"none", "create"}
  /\ mutex \in [Mutexes -> Slaves \cup {0}]
  /\ pc \in [Slaves -> Labels]
  /\ key \in [Slaves -> Keys \cup {NoKey}]
  /\ val \in [Slaves -> Vals \cup {0}]
  /\ buf \in [Slaves -> Entry]
  /\ last \in [Slaves -> Entry]
  /\ ptr \in [Slaves -> 0..LastNode]
  /\ tail \in [Slaves -> 0..LastNode]
  /\ tmp \in [Slaves -> 0..(UsedModulus - 1)]
  /\ answer \in [Slaves -> [key : Keys \cup {NoKey}, val : Nat]]
  /\ home \in [Nodes -> Heads \cup {Null}]

NoAnswer == [t \in Slaves |-> [key |-> NoKey, val |-> 0]]

(* The DPU binary has been loaded: no index, MRAM as it was found. *)
Init ==
  /\ mem = [a \in Addrs |-> Junk]
  /\ avail = FirstNode
  /\ num = 0
  /\ indexId = [s \in Slots |-> NoId]
  /\ used = [s \in Slots |-> 0]
  /\ pid = NoSlot
  /\ opType = "none"
  /\ mutex = [m \in Mutexes |-> 0]
  /\ pc = [t \in Slaves |-> "idle"]
  /\ key = [t \in Slaves |-> NoKey]
  /\ val = [t \in Slaves |-> 0]
  /\ buf = [t \in Slaves |-> Junk]
  /\ last = [t \in Slaves |-> Junk]
  /\ ptr = [t \in Slaves |-> Null]
  /\ tail = [t \in Slaves |-> Null]
  /\ tmp = [t \in Slaves |-> 0]
  /\ answer = NoAnswer
  /\ home = [n \in Nodes |-> Null]

(* barrier2 is forgotten: the next launch begins under working slaves. *)
AllIdle_NoBarrier == TRUE

(* Barrier2 has been passed. *)
AllIdle == \A t \in Slaves : pc[t] = "idle"

-----------------------------------------------------------------------------
(* The master prepares a launch.                                           *)

(* primary_index_dpu_create, for a launch that creates index id; the slaves *)
(* then initialise one block of the buckets each.                          *)
Rank_Tasklet(t) == t      \* the master counted as a slave
Rank(t)  == t - 1
First(t) == BucketHead(num, BLOCK_LOW(Rank(t), NrSlaves, NrBuckets))
Count(t) == BLOCK_SIZE(Rank(t), NrSlaves, NrBuckets)

BeginCreate(id) ==
  /\ AllIdle
  /\ opType' = "create"
  /\ answer' = NoAnswer
  /\ \/ /\ num >= MaxIndexes
        /\ pid' = NoSlot
        /\ UNCHANGED <<num, indexId, used, pc, ptr>>
     \/ /\ num < MaxIndexes
        /\ pid' = num
        /\ indexId' = [indexId EXCEPT ![num] = id]
        /\ used' = [used EXCEPT ![num] = 0]
        /\ num' = num + 1
        /\ pc' = [t \in Slaves |-> IF Count(t) > 0 THEN "init" ELSE "idle"]
        /\ ptr' = [t \in Slaves |-> IF Count(t) > 0 THEN First(t) ELSE Null]
  /\ UNCHANGED <<mem, avail, mutex, key, val, buf, last, tail, tmp, home>>

(* The slot a launch on index id works on: the first that carries the id.  *)
SlotsOf(id) == {s \in Slots : s < num /\ indexId[s] = id}
IsFirst(s, id) == s \in SlotsOf(id) /\ \A r \in SlotsOf(id) : s <= r

(* The prepare functions of the operations on an index. *)
BeginOp(type, id) ==
  /\ AllIdle
  /\ opType' = type
  /\ answer' = NoAnswer
  /\ \/ SlotsOf(id) = {} /\ pid' = NoSlot
     \/ \E s \in Slots : IsFirst(s, id) /\ pid' = s
  /\ UNCHANGED <<mem, avail, num, indexId, used, mutex, pc, locals, home>>

-----------------------------------------------------------------------------
(* primary_index_dpu_init_buckets: an empty entry into every bucket of the  *)
(* slave's block.                                                          *)

EmptyEntry == [key |-> NoKey, val |-> 0, next |-> Null]

LastOfBlock(t) == BucketHead(pid, BLOCK_HIGH(Rank(t), NrSlaves, NrBuckets))

InitBucket(t) ==
  /\ pc[t] = "init"
  /\ mem' = [mem EXCEPT ![ptr[t]] = EmptyEntry]
  /\ \/ /\ ptr[t] < LastOfBlock(t)
        /\ ptr' = [ptr EXCEPT ![t] = @ + 1]
        /\ UNCHANGED pc
     \/ /\ ptr[t] = LastOfBlock(t)
        /\ ptr' = [ptr EXCEPT ![t] = Null]
        /\ pc' = [pc EXCEPT ![t] = "idle"]
  /\ UNCHANGED <<avail, index, used, mutex, key, val, buf, last, tail, tmp,
                 answer, home>>

-----------------------------------------------------------------------------
(* What the operations share.                                              *)

Goto(t, l) == pc' = [pc EXCEPT ![t] = l]

(* A slave takes the next item of its part of the batch and calls the      *)
(* operation of the launch on it; a launch on an unknown index skips all.  *)
Call(t, k, v) ==
  /\ pc[t] = "idle"
  /\ pid # NoSlot
  /\ opType \in Operations \ {"update"}
  /\ v \in IF opType \in Adding THEN Vals ELSE {0}
  /\ key' = [key EXCEPT ![t] = k]
  /\ val' = [val EXCEPT ![t] = v]
  /\ ptr' = [ptr EXCEPT ![t] = BucketHead(pid, Bucket(k))]
  /\ Goto(t, "lock")
  /\ UNCHANGED <<mem, avail, index, used, mutex, buf, last, tail, tmp, answer,
                 home>>

MyHead(t) == BucketHead(pid, Bucket(key[t]))

MyMutex_PerSlave(t) == MutexOf(t)      \* tasklet id in place of bucket id
MyMutex(t) == MutexOf(Bucket(key[t]))

(* buckets_mutex_lock *)
Lock(t) ==
  /\ pc[t] = "lock"
  /\ mutex[MyMutex(t)] = 0
  /\ mutex' = [mutex EXCEPT ![MyMutex(t)] = t]
  /\ Goto(t, IF opType = "update" THEN "patch" ELSE "read")
  /\ UNCHANGED <<mem, avail, index, used, locals, answer, home>>

(* The slave's locals are gone once the operation has returned. *)
ForgetLocals(t) ==
  /\ key' = [key EXCEPT ![t] = NoKey]
  /\ val' = [val EXCEPT ![t] = 0]
  /\ buf' = [buf EXCEPT ![t] = Junk]
  /\ last' = [last EXCEPT ![t] = Junk]
  /\ ptr' = [ptr EXCEPT ![t] = Null]
  /\ tail' = [tail EXCEPT ![t] = Null]
  /\ tmp' = [tmp EXCEPT ![t] = 0]

(* A return without buckets_mutex_unlock. *)
Unlock_Forgotten(t) ==
  /\ pc[t] = "unlock"
  /\ ForgetLocals(t) /\ Goto(t, "idle")
  /\ UNCHANGED <<mem, avail, index, used, mutex, answer, home>>

(* The operation returns an address its caller reads the entry through. *)
Returned(t) == opType = "lookup" \/ (opType = "get_or_insert" /\ ptr[t] # Null)

(* buckets_mutex_unlock and return; the caller keeps the address it was     *)
(* given.                                                                  *)
Unlock(t) ==
  /\ pc[t] = "unlock"
  /\ mutex' = [mutex EXCEPT ![MyMutex(t)] = 0]
  /\ \/ ~Returned(t) /\ ForgetLocals(t) /\ Goto(t, "idle")
     \/ Returned(t) /\ UNCHANGED locals /\ Goto(t, "fetch")
  /\ UNCHANGED <<mem, avail, index, used, answer, home>>

(* pid->used++ and pid->used--: the load, then the addition and the store. *)
(* Buckets under different mutexes share the counter: UsedCount has what is *)
(* left of it.                                                             *)
UsedLoad(t) ==
  /\ pc[t] = "load"
  /\ tmp' = [tmp EXCEPT ![t] = used[pid]]
  /\ Goto(t, "store")
  /\ UNCHANGED <<mem, avail, index, used, mutex, key, val, buf, last, ptr,
                 tail, answer, home>>

Counted_OnlyUp(t) == (tmp[t] + 1) % UsedModulus
Counted(t) ==
  (IF opType \in Adding THEN tmp[t] + 1 ELSE tmp[t] - 1) % UsedModulus

(* get_or_insert returns NULL for an entry it has made itself. *)
UsedStore(t) ==
  /\ pc[t] = "store"
  /\ used' = [used EXCEPT ![pid] = Counted(t)]
  /\ ptr' = IF opType = "get_or_insert" THEN [ptr EXCEPT ![t] = Null] ELSE ptr
  /\ Goto(t, "unlock")
  /\ UNCHANGED <<mem, avail, index, mutex, key, val, buf, last, tail, tmp, answer,
                 home>>

-----------------------------------------------------------------------------
(* primary_index_dpu_insert, and get_or_insert once it has not found the    *)
(* key and reads the head anew ("reread")                                  *)

InsertRead(t) ==
  /\ (pc[t] = "read" /\ opType = "insert") \/ pc[t] = "reread"
  /\ buf' = [buf EXCEPT ![t] = mem[ptr[t]]]
  /\ Goto(t, IF mem[ptr[t]].key = NoKey THEN "put" ELSE "alloc")
  /\ UNCHANGED <<mem, avail, index, used, mutex, key, val, last, ptr, tail,
                 tmp, answer, home>>

(* The head is empty: the new entry takes its place. *)
InsertPut(t) ==
  /\ pc[t] = "put"
  /\ mem' = [mem EXCEPT ![ptr[t]] =
               [key |-> key[t], val |-> val[t], next |-> Null]]
  /\ Goto(t, "load")
  /\ UNCHANGED <<avail, index, used, mutex, locals, answer, home>>

(* entry_buffer_next is read after the new node has overwritten it. *)
Successor_ReadLate(t) == IF avail <= LastNode THEN avail ELSE Null
Successor(t) == buf[t].next

RoomLeft == avail <= LastNode

(* linear_mram_alloc, atomic under the allocator's own mutex, returns NULL *)
(* when the region is spent (module LinearMramAlloc has its steps).        *)
InsertAlloc(t) ==
  /\ pc[t] = "alloc"
  /\ tail' = [tail EXCEPT ![t] = Successor(t)]
  /\ \/ /\ RoomLeft
        /\ buf' = [buf EXCEPT ![t] = [@ EXCEPT !.next = avail]]
        /\ avail' = avail + 1
        /\ home' = [home EXCEPT ![avail] = ptr[t]]
     \/ /\ ~RoomLeft
        /\ buf' = [buf EXCEPT ![t] = [@ EXCEPT !.next = Null]]
        /\ UNCHANGED <<avail, home>>
  /\ Goto(t, "link")
  /\ UNCHANGED <<mem, index, used, mutex, key, val, last, ptr, tmp, answer>>

(* The head is written back with the new node as its successor. *)
InsertLink(t) ==
  /\ pc[t] = "link"
  /\ mem' = [mem EXCEPT ![ptr[t]] = buf[t]]
  /\ ptr' = [ptr EXCEPT ![t] = buf[t].next]
  /\ Goto(t, "node")
  /\ UNCHANGED <<avail, index, used, mutex, key, val, buf, last, tail, tmp,
                 answer, home>>

NewNode(t) == [key |-> key[t], val |-> val[t], next |-> tail[t]]

(* The insert into a chain returns at once, without the counter. *)
InsertNode_Uncounted(t) ==
  /\ pc[t] = "node"
  /\ mem' = IF ptr[t] = Null THEN mem ELSE [mem EXCEPT ![ptr[t]] = NewNode(t)]
  /\ Goto(t, "unlock")
  /\ UNCHANGED <<avail, index, used, mutex, locals, answer, home>>

(* The new node is written.  The null pointer is MRAM offset 0, the header *)
(* of the push package: nobody reads it before the host writes it again,   *)
(* so a write through it changes nothing here.                             *)
InsertNode(t) ==
  /\ pc[t] = "node"
  /\ mem' = IF ptr[t] = Null
              THEN mem
              ELSE [mem EXCEPT ![ptr[t]] = NewNode(t)]
  /\ Goto(t, "load")
  /\ UNCHANGED <<avail, index, used, mutex, locals, answer, home>>

Insert(t) ==
  \/ InsertRead(t) \/ InsertPut(t)
  \/ InsertAlloc(t) \/ InsertLink(t) \/ InsertNode(t)

-----------------------------------------------------------------------------
(* primary_index_dpu_delete                                                *)

(* The head carries the key: it is marked empty in the buffer and, if it   *)
(* has a successor, replaced by a copy of that.                            *)
DeleteRead(t) ==
  /\ pc[t] = "read" /\ opType = "delete"
  /\ LET entry == mem[ptr[t]] IN
       \/ /\ entry.key = key[t]
          /\ buf' = [buf EXCEPT ![t] = [entry EXCEPT !.key = NoKey]]
          /\ Goto(t, IF entry.next = Null THEN "head" ELSE "pull")
       \/ /\ entry.key # key[t]
          /\ buf' = [buf EXCEPT ![t] = entry]
          /\ Goto(t, "walk")
  /\ UNCHANGED <<mem, avail, index, used, mutex, key, val, last, ptr, tail,
                 tmp, answer, home>>

DeletePull(t) ==
  /\ pc[t] = "pull"
  /\ buf' = [buf EXCEPT ![t] = mem[buf[t].next]]
  /\ Goto(t, "head")
  /\ UNCHANGED <<mem, avail, index, used, mutex, key, val, last, ptr, tail,
                 tmp, answer, home>>

DeleteHead(t) ==
  /\ pc[t] = "head"
  /\ mem' = [mem EXCEPT ![ptr[t]] = buf[t]]
  /\ Goto(t, "load")
  /\ UNCHANGED <<avail, index, used, mutex, locals, answer, home>>

(* One round of the loop that follows the chain. *)
DeleteWalk(t) ==
  /\ pc[t] = "walk" /\ opType = "delete"
  /\ \/ /\ buf[t].next = Null
        /\ Goto(t, "unlock")
        /\ UNCHANGED <<buf, last, ptr>>
     \/ /\ buf[t].next # Null
        /\ last' = [last EXCEPT ![t] = buf[t]]
        /\ buf' = [buf EXCEPT ![t] = mem[buf[t].next]]
        /\ \/ /\ mem[buf[t].next].key = key[t]
              /\ Goto(t, "unlink")
              /\ UNCHANGED ptr
           \/ /\ mem[buf[t].next].key # key[t]
              /\ ptr' = [ptr EXCEPT ![t] = buf[t].next]
              /\ UNCHANGED pc
  /\ UNCHANGED <<mem, avail, index, used, mutex, key, val, tail, tmp, answer,
                 home>>

(* linear_mram_free does nothing, the node is never used again. *)
DeleteUnlink(t) ==
  /\ pc[t] = "unlink"
  /\ mem' = [mem EXCEPT ![ptr[t]] = [last[t] EXCEPT !.next = buf[t].next]]
  /\ Goto(t, "load")
  /\ UNCHANGED <<avail, index, used, mutex, locals, answer, home>>

Delete(t) ==
  \/ DeleteRead(t) \/ DeletePull(t) \/ DeleteHead(t)
  \/ DeleteWalk(t) \/ DeleteUnlink(t)

-----------------------------------------------------------------------------
(* primary_index_dpu_lookup and its caller, and the search of              *)
(* primary_index_dpu_get_or_insert                                         *)

LookupRead(t) ==
  /\ pc[t] = "read" /\ opType \in Finding
  /\ buf' = [buf EXCEPT ![t] = mem[ptr[t]]]
  /\ Goto(t, "walk")
  /\ UNCHANGED <<mem, avail, index, used, mutex, key, val, last, ptr, tail,
                 tmp, answer, home>>

(* The key is not there: a lookup returns NULL, get_or_insert inserts it.   *)
Missed(t) ==
  /\ UNCHANGED buf
  /\ \/ /\ opType = "lookup"
        /\ ptr' = [ptr EXCEPT ![t] = Null] /\ Goto(t, "unlock")
     \/ /\ opType = "get_or_insert"
        /\ ptr' = [ptr EXCEPT ![t] = MyHead(t)] /\ Goto(t, "reread")

LookupWalk(t) ==
  /\ pc[t] = "walk" /\ opType \in Finding
  /\ \/ /\ buf[t].key = key[t]
        /\ Goto(t, "unlock")
        /\ UNCHANGED <<buf, ptr>>
     \/ buf[t].key # key[t] /\ buf[t].next = Null /\ Missed(t)
     \/ /\ buf[t].key # key[t] /\ buf[t].next # Null
        /\ ptr' = [ptr EXCEPT ![t] = buf[t].next]
        /\ buf' = [buf EXCEPT ![t] = mem[buf[t].next]]
        /\ UNCHANGED pc
  /\ UNCHANGED <<mem, avail, index, used, mutex, key, val, last, tail, tmp,
                 answer, home>>

(* primary_index_lookup_tasklets_run reads the entry through the address   *)
(* it was given, the mutex no longer held; an absent key answers 0.        *)
LookupFetch(t) ==
  /\ pc[t] = "fetch"
  /\ answer' = [answer EXCEPT ![t] =
                  [key |-> key[t],
                   val |-> IF ptr[t] = Null THEN 0 ELSE mem[ptr[t]].val]]
  /\ ForgetLocals(t)
  /\ Goto(t, "idle")
  /\ UNCHANGED <<mem, avail, index, used, mutex, home>>

Lookup(t) == LookupRead(t) \/ LookupWalk(t) \/ LookupFetch(t)

-----------------------------------------------------------------------------
(* primary_index_dpu_update_with_entry_addr                                *)

(* The address of an entry of the index, which the caller has from an       *)
(* earlier launch; the entry of an overflow node may have been deleted      *)
(* since.  home tells whose entry the address is.                          *)
Held(a) ==
  /\ mem[a].key \in Keys
  /\ LET h == BucketHead(pid, Bucket(mem[a].key)) IN a = h \/ (a \in Nodes /\ home[a] = h)

CallUpdate(t, a, v) ==
  /\ pc[t] = "idle"
  /\ pid # NoSlot /\ opType = "update"
  /\ Held(a)
  /\ ptr' = [ptr EXCEPT ![t] = a]
  /\ val' = [val EXCEPT ![t] = v]
  /\ Goto(t, "peek")
  /\ UNCHANGED <<mem, avail, index, used, mutex, key, buf, last, tail, tmp, answer,
                 home>>

(* The entry is copied before the mutex is taken: its key tells which one.  *)
UpdatePeek(t) ==
  /\ pc[t] = "peek"
  /\ buf' = [buf EXCEPT ![t] = mem[ptr[t]]]
  /\ key' = [key EXCEPT ![t] = mem[ptr[t]].key]
  /\ Goto(t, "lock")
  /\ UNCHANGED <<mem, avail, index, used, mutex, val, last, ptr, tail, tmp, answer,
                 home>>

(* The entry is made anew, without its successor. *)
Patched_EndsChain(t) == [key |-> key[t], val |-> val[t], next |-> Null]

(* The copy goes back as a whole, with the new value. *)
Patched(t) == [buf[t] EXCEPT !.val = val[t]]

UpdatePatch(t) ==
  /\ pc[t] = "patch"
  /\ mem' = [mem EXCEPT ![ptr[t]] = Patched(t)]
  /\ Goto(t, "unlock")
  /\ UNCHANGED <<avail, index, used, mutex, locals, answer, home>>

Update(t) == UpdatePeek(t) \/ UpdatePatch(t)

-----------------------------------------------------------------------------
Step(t) ==
  \/ InitBucket(t) \/ Lock(t) \/ Unlock(t) \/ UsedLoad(t) \/ UsedStore(t)
  \/ Insert(t) \/ Delete(t) \/ Lookup(t) \/ Update(t)

Begin ==
  \E id \in Ids :
    BeginCreate(id) \/ \E type \in Operations : BeginOp(type, id)

Work ==
  \E t \in Slaves :
    \/ Step(t)
    \/ \E k \in Keys, v \in Vals \cup {0} : Call(t, k, v)
    \/ \E a \in Addrs, v \in Vals : CallUpdate(t, a, v)

Next == Begin \/ Work

Spec == Init /\ [][Next]_vars

(* The DPU's pipeline issues the instructions of all runnable tasklets in  *)
(* turn, so a tasklet that can proceed does.                               *)
FairSpec == Spec /\ \A t \in Slaves : WF_vars(Step(t))
-----------------------------------------------------------------------------
(* Vocabulary of the properties.                                           *)

(* Between buckets_mutex_lock and buckets_mutex_unlock. *)
Critical == {"read", "put", "alloc", "link", "node", "pull", "head", "walk",
             "unlink", "load", "store", "unlock", "reread", "patch"}

(* A bucket the slaves of a creating launch have not initialised yet. *)
Fresh(a) == \E t \in Slaves : pc[t] = "init" /\ a \in ptr[t]..LastOfBlock(t)

LiveHeads == {a \in Heads : a <= num * NrBuckets /\ ~Fresh(a)}

(* Key k belongs into the bucket at address h. *)
Hosts(h, k) == k \in Keys /\ \E s \in Slots : h = BucketHead(s, Bucket(k))

(* x may follow the head h or a node of h's chain: it ends the chain or is  *)
(* a node allocated for h whose entry has been written.                    *)
Follows(h, x) == \/ x = Null
                 \/ x \in Nodes /\ home[x] = h /\ Hosts(h, mem[x].key)

(* x is a node allocated for h that nobody has written yet. *)
Unwritten(h, x) == x \in Nodes /\ home[x] = h /\ mem[x] = Junk

(* x is the head h or a written node that was allocated for it. *)
Belongs(h, x) == x = h \/ (x # Null /\ Follows(h, x))

(* The addresses reached from head h.  A node that is linked but not yet    *)
(* written is passed over: its slave holds what will follow it.            *)
Behind(a) ==
  LET x == mem[a].next
  IN  IF \E t \in Slaves : pc[t] = "node" /\ ptr[t] = x /\ x # Null
      THEN tail[CHOOSE t \in Slaves : pc[t] = "node" /\ ptr[t] = x]
      ELSE x

Chain(h) ==
  LET walk[n \in 0..NrNodes] ==
        IF n = 0 THEN {h}
                 ELSE walk[n - 1] \cup ({Behind(a) : a \in walk[n - 1]} \ {Null})
  IN walk[NrNodes]

(* The entries of slot s that hold key k. *)
Entries(s, k) == {a \in Chain(BucketHead(s, Bucket(k))) : mem[a].key = k}

-----------------------------------------------------------------------------
(* Properties.                                                             *)

(* Two slaves are never at work on the same bucket, whatever buckets share *)
(* a mutex of the pool.                                                    *)
BucketExclusive ==
  \A t, u \in Slaves :
    t # u /\ pc[t] \in Critical /\ pc[u] \in Critical => MyHead(t) # MyHead(u)

(* Every chain is well formed at every moment: an empty head has no         *)
(* successor, every entry lies in the bucket of its key, nodes belong to    *)
(* one bucket only, addresses fall along a chain, so that it ends, and the  *)
(* only unwritten node in a chain is the one its bucket's holder is about   *)
(* to write.                                                               *)
HeadShape(h) ==
  /\ mem[h].key = NoKey => mem[h].next = Null
  /\ mem[h].key # NoKey => Hosts(h, mem[h].key)
  /\ \/ Follows(h, mem[h].next)
     \/ \E t \in Slaves : /\ pc[t] = "node" /\ MyHead(t) = h
                          /\ ptr[t] = mem[h].next /\ Unwritten(h, ptr[t])

NodeShape(n) ==
  home[n] # Null =>
    /\ home[n] \in LiveHeads
    /\ mem[n] # Junk => /\ Hosts(home[n], mem[n].key)
                        /\ Follows(home[n], mem[n].next)
                        /\ mem[n].next < n

ChainShape ==
  /\ \A h \in LiveHeads : HeadShape(h)
  /\ \A n \in Nodes : NodeShape(n)

(* No operation works with MRAM nobody has written: not with a bucket of    *)
(* an index under construction, not with a node linked before its entry     *)
(* was written.                                                            *)
NoUninitialisedRead ==
  \A t \in Slaves : pc[t] \in Critical \ {"read"} => buf[t].key # JunkKey

(* A lookup answers that a key is absent, the loop of a delete gives it up  *)
(* and get_or_insert makes a new entry for it only when no entry of the     *)
(* index has the key.                                                      *)
MissMeansAbsent ==
  \A t \in Slaves :
    \/ /\ pc[t] \in {"reread", "put", "alloc", "link", "node"}
       /\ opType = "get_or_insert"
    \/ pc[t] \in {"unlock", "fetch"} /\ opType = "lookup" /\ ptr[t] = Null
    \/ /\ pc[t] = "walk" /\ opType = "delete"
       /\ buf[t].key # key[t] /\ buf[t].next = Null
    => Entries(pid, key[t]) = {}

(* The address a lookup or get_or_insert returns still holds the key when   *)
(* the caller reads it, although the mutex has been released and others may *)
(* insert into the bucket.  Without room for a node an insert may cut the   *)
(* entry off.                                                              *)
FoundStaysFound ==
  \A t \in Slaves :
    pc[t] = "fetch" /\ ptr[t] # Null /\ (opType = "lookup" \/ RoomLeft) =>
      ptr[t] \in Entries(pid, key[t])

(* A slave that holds a mutex of the pool lets it go. *)
MutexReleased ==
  \A m \in Mutexes, t \in Slaves : mutex[m] = t ~> mutex[m] # t

-----------------------------------------------------------------------------
(* The inductive invariant the safety properties follow from.              *)

(* Which operation slave t is in, and on what. *)
Launched(t) ==
  /\ pc[t] = "init" =>
       /\ opType = "create" /\ pid # NoSlot /\ num = pid + 1
       /\ ptr[t] \in BucketHead(pid, BLOCK_LOW(Rank(t), NrSlaves, NrBuckets))..LastOfBlock(t)
  /\ pc[t] \in Critical \cup {"lock", "fetch"} =>
       /\ opType \in Operations
       /\ pid # NoSlot /\ key[t] \in Keys
       /\ opType \in Adding => val[t] \in Vals
  /\ pc[t] \in {"read", "put", "alloc", "link", "pull", "head", "reread"} =>
       ptr[t] = MyHead(t)
  /\ pc[t] = "lock" /\ opType # "update" => ptr[t] = MyHead(t)
  /\ pc[t] = "pull" => buf[t].next # Null
  /\ pc[t] = "read" => opType # "update"
  /\ pc[t] \in {"put", "alloc", "link", "node"} => opType \in Adding
  /\ pc[t] = "reread" => opType = "get_or_insert"
  /\ pc[t] \in {"pull", "head", "unlink"} => opType = "delete"
  /\ pc[t] \in {"load", "store"} => opType \in Adding \cup {"delete"}
  /\ pc[t] = "walk" => opType \in Finding \cup {"delete"}
  /\ pc[t] = "fetch" => opType \in Finding
  /\ pc[t] \in {"peek", "patch"} => opType = "update"
  /\ pc[t] = "peek" => pid # NoSlot /\ ptr[t] \in Addrs /\ mem[ptr[t]].key \in Keys
  /\ pc[t] \in {"lock", "patch"} /\ opType = "update" => buf[t].key = key[t]

LaunchInv ==
  /\ pid # NoSlot => pid < num
  /\ \A t \in Slaves : Launched(t)

(* A mutex is held by a slave exactly while it is at work on a bucket that  *)
(* selects the mutex, so no mutex stays locked when a launch is over.      *)
LockInv ==
  \A t \in Slaves :
    /\ pc[t] \in Critical => mutex[MyMutex(t)] = t
    /\ \A m \in Mutexes :
         mutex[m] = t => pc[t] \in Critical /\ MyMutex(t) = m

(* Nodes are given out once, in the order of their addresses. *)
AllocInv ==
  \A n \in Nodes : /\ home[n] = Null <=> n >= avail
                   /\ home[n] = Null => mem[n] = Junk

(* How the buffers of a slave relate to the bucket it works on. *)
InsertRegisters(t, h) ==
  /\ pc[t] \in {"put", "alloc"} => buf[t] = mem[h]
  /\ pc[t] = "put" => mem[h].key = NoKey
  /\ pc[t] \in {"alloc", "link", "node"} => mem[h].key # NoKey
  /\ pc[t] = "link" =>
       /\ tail[t] = mem[h].next
       /\ buf[t] = [mem[h] EXCEPT !.next = buf[t].next]
       /\ buf[t].next # Null => Unwritten(h, buf[t].next) /\ tail[t] < buf[t].next
  /\ pc[t] = "node" =>
       /\ ptr[t] = mem[h].next
       /\ Follows(h, tail[t])
       /\ ptr[t] # Null => Unwritten(h, ptr[t]) /\ tail[t] < ptr[t]

DeleteRegisters(t, h) ==
  /\ pc[t] = "pull" => buf[t] = [mem[h] EXCEPT !.key = NoKey]
  /\ pc[t] = "head" => \/ buf[t].key = NoKey /\ buf[t].next = Null
                       \/ Hosts(h, buf[t].key) /\ Follows(h, buf[t].next)
  /\ pc[t] = "unlink" => /\ Belongs(h, ptr[t])
                         /\ last[t] = mem[ptr[t]]
                         /\ last[t].next # Null /\ Follows(h, last[t].next)
                         /\ buf[t] = mem[last[t].next]

WalkRegisters(t, h) ==
  /\ pc[t] = "walk" => Belongs(h, ptr[t]) /\ buf[t] = mem[ptr[t]]
  /\ (pc[t] = "fetch" \/ (pc[t] = "unlock" /\ opType \in Finding)) /\ ptr[t] # Null =>
       Belongs(h, ptr[t]) /\ mem[ptr[t]].key = key[t]

(* Nothing but the value changes between an update's copy of an entry and   *)
(* its return, so that writing back the copy loses nothing.                *)
UpdateRegisters(t, h) ==
  /\ pc[t] = "peek" => Held(ptr[t])
  /\ pc[t] \in {"lock", "patch"} /\ opType = "update" =>
       /\ Belongs(h, ptr[t]) /\ mem[ptr[t]].key = key[t]
       /\ buf[t].next = mem[ptr[t]].next

Registers(t) ==
  /\ pc[t] \in Critical \ {"read"} => buf[t].key # JunkKey
  /\ InsertRegisters(t, MyHead(t))
  /\ DeleteRegisters(t, MyHead(t))
  /\ WalkRegisters(t, MyHead(t))
  /\ UpdateRegisters(t, MyHead(t))

RegisterInv == \A t \in Slaves : Registers(t)

IndInv ==
  TypeOK /\ LaunchInv /\ LockInv /\ AllocInv /\ ChainShape /\ RegisterInv

-----------------------------------------------------------------------------
(* What holds besides, for the properties about the entries of an index.   *)

(* What a slave is about to write to the bucket at h, and why it may.       *)
Pending(t, h) ==
  /\ pc[t] \in {"peek", "lock", "patch"} /\ opType = "update" => val[t] \in Vals
  /\ pc[t] = "link" /\ buf[t].next = Null => ~RoomLeft
  /\ pc[t] = "node" /\ ptr[t] = Null => ~RoomLeft
  /\ pc[t] \in {"pull", "head"} => mem[h].key = key[t]
  /\ pc[t] = "head" => buf[t] = IF mem[h].next = Null
                                  THEN [mem[h] EXCEPT !.key = NoKey]
                                  ELSE mem[mem[h].next]
  /\ pc[t] = "unlink" => buf[t].key = key[t]
  /\ pc[t] = "fetch" /\ opType = "get_or_insert" => ptr[t] # Null

(* Before its bucket is initialised a head holds no entry; an entry holds a *)
(* value that was stored.                                                  *)
StoreInv ==
  /\ \A h \in Heads \ LiveHeads : mem[h].key \notin Keys /\ mem[h].next = Null
  /\ \A a \in Addrs : mem[a].key \in Keys => mem[a].val \in Vals
  /\ \A t \in Slaves : Pending(t, MyHead(t))

(* The part of h's chain that begins with p. *)
Rest(h, p) == {a \in Chain(h) : p = h \/ (a # h /\ a <= p)}

(* A search has left behind no entry with its key, and works in the chain.  *)
Searching(t, h) ==
  /\ pc[t] = "walk" => /\ ptr[t] \in Chain(h)
                       /\ Entries(pid, key[t]) \subseteq Rest(h, ptr[t])
                       /\ opType = "delete" => buf[t].key # key[t]
  /\ pc[t] = "unlink" => ptr[t] \in Chain(h)
  /\ pc[t] = "unlock" /\ opType \in Finding /\ ptr[t] # Null => ptr[t] \in Chain(h)

SearchInv ==
  /\ MissMeansAbsent
  /\ FoundStaysFound
  /\ \A t \in Slaves : Searching(t, MyHead(t))

(* The invariant proved inductive: the launch, the locks, the allocator and *)
(* the chains (IndInv), what is stored in them, what the searches found.    *)
FullInv == IndInv /\ StoreInv /\ SearchInv

=============================================================================
