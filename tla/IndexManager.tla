----------------------------- MODULE IndexManager -----------------------------
(***************************************************************************)
(* The calls client threads make on the host (host/primary_index_host.c,   *)
(* the functions with suffix _v1): create an index, insert into it, delete *)
(* from it, look up in it.  The index manager assigns every index to a DPU *)
(* set of a small pool and remembers the set in a hash map.  Two kinds of  *)
(* locks protect this: the manager's lock the map and the count, a set's   *)
(* lock its slot counter, its package, its DPUs and its pull buffers.      *)
(*                                                                         *)
(* A set's DPUs are one abstract table of indexes here (what they do is    *)
(* the subject of DpuTask, PrimaryIndexDpu and BatchOps).  A batch carries *)
(* one value; a lookup finds the values inserted and not deleted since.    *)
(*                                                                         *)
(* Definitions with a suffix, as SetFree_Ignored, are faulty variants for  *)
(* the runs that show what a property catches.                             *)
(***************************************************************************)
EXTENDS Integers, Sequences, FiniteSets, Functions

CONSTANTS
  Threads,     \* client threads
  Nobody,      \* holder of a free lock
  Ids,         \* index ids
  Vals,        \* values of batches
  NrSets,      \* dpu_set_pool_init's num_dpu_set
  MaxPerSet,   \* MAX_NUM_PRE_LOAD_PRIMARY_INDEX_PER_DPU_SET
  MaxIndexes,  \* MAX_NUM_PRE_LOAD_PRIMARY_INDEX
  DpuTable,    \* PRIMARY_INDEX_MAX_NUM of the DPU program
  Hash,        \* hash_function: id -> bucket of the manager's map
  MaxCalls     \* bound: calls all threads make together

ASSUME ManagerAssumption ==
  /\ Nobody \notin Threads
  /\ NrSets \in Nat \ {0} /\ MaxPerSet \in Nat \ {0}
  /\ DpuTable \in Nat /\ MaxPerSet <= DpuTable
  /\ MaxIndexes \in Nat /\ MaxCalls \in Nat

Sets == 1..NrSets
NoSet == 0
Ops  == {"create", "insert", "delete", "lookup"}
NoQuery == [op |-> "none"]

VARIABLES
  mlock,   \* _dpu_index_manager->lock
  nrIndex, \* global_nr_pre_load_index
  map,     \* dpu_set_map: chain of [id, set] of every bucket
  slock,   \* lock of every set
  nr,      \* nr_pre_load_index of every set
  push,    \* package of every set
  pull,    \* pull buffers of every set
  dpus,    \* the DPUs of every set: a sequence of [id, vals]
  pc,      \* where every thread is
  call,    \* arguments of a thread's call
  set,     \* dpu_set: i of dpu_set_apply, then the set a thread works on
  vals,    \* the caller's array a lookup fills
  calls,   \* calls made, for the bound
  created, \* history variable: ids whose create has returned
  late,    \* history variable: the call began after the create of its id returned
  seen     \* history variable: what the index held when the call was run

manager == <<mlock, nrIndex, map>>
sets    == <<slock, nr, push, pull, dpus>>
thread  == <<pc, call, set, vals, late, seen>>
vars    == <<manager, sets, thread, calls, created>>

Labels == {"idle", "create", "apply", "count", "register", "get", "find", "enter",
           "build", "run", "pull", "merge", "leave"}

Query == [op : Ops, id : Ids, val : Vals]

ManagerOK ==
  /\ mlock \in Threads \cup {Nobody}
  /\ nrIndex \in 0..MaxIndexes
  /\ \A b \in DOMAIN map : map[b] \in Seq([id : Ids, set : Sets])

SetsOK ==
  /\ slock \in [Sets -> Threads \cup {Nobody}]
  /\ nr \in [Sets -> 0..MaxPerSet]
  /\ push \in [Sets -> Query \cup {NoQuery}]
  /\ pull \in [Sets -> SUBSET Vals]
  /\ dpus \in [Sets -> Seq([id : Ids, vals : SUBSET Vals])]
  /\ \A s \in Sets : Len(dpus[s]) <= DpuTable

ThreadsOK ==
  /\ pc \in [Threads -> Labels]
  /\ call \in [Threads -> Query \cup {NoQuery}]
  /\ set \in [Threads -> Sets \cup {NoSet}]
  /\ vals \in [Threads -> SUBSET Vals]
  /\ late \in [Threads -> BOOLEAN]
  /\ seen \in [Threads -> SUBSET Vals]

TypeOK == ManagerOK /\ SetsOK /\ ThreadsOK /\ calls \in 0..MaxCalls /\ created \subseteq Ids

EmptyMap == [b \in {Hash[id] : id \in Ids} |-> <<>>]

ManagerInit == mlock = Nobody /\ nrIndex = 0 /\ map = EmptyMap

PoolInit ==
  /\ slock = [s \in Sets |-> Nobody]
  /\ nr = [s \in Sets |-> 0]
  /\ push = [s \in Sets |-> NoQuery]
  /\ pull = [s \in Sets |-> {}]
  /\ dpus = [s \in Sets |-> <<>>]

Init ==
  /\ PoolInit /\ ManagerInit
  /\ pc = [t \in Threads |-> "idle"]
  /\ call = [t \in Threads |-> NoQuery]
  /\ set = [t \in Threads |-> NoSet]
  /\ vals = [t \in Threads |-> {}]
  /\ calls = 0
  /\ created = {}
  /\ late = [t \in Threads |-> FALSE]
  /\ seen = [t \in Threads |-> {}]

Goto(t, l) == pc' = [pc EXCEPT ![t] = l]

-----------------------------------------------------------------------------
(* hash_map_find and hash_map_insert.                                      *)

Find(id) == {e \in Range(map[Hash[id]]) : e.id = id}

(* The first entry of a bucket stays its head, later ones go behind it. *)
Chained(chain, e) ==
  IF chain = <<>> THEN <<e>> ELSE <<Head(chain), e>> \o Tail(chain)

New_Unchecked(id) == TRUE
New(id) == Find(id) = {}

-----------------------------------------------------------------------------
(* A call.                                                                 *)

Begin(t, q) ==
  /\ pc[t] = "idle" /\ calls < MaxCalls
  /\ call' = [call EXCEPT ![t] = q]
  /\ calls' = calls + 1
  /\ late' = [late EXCEPT ![t] = q.id \in created]
  /\ Goto(t, IF q.op = "create" THEN "create" ELSE "get")
  /\ UNCHANGED <<manager, sets, set, vals, created, seen>>

(* dpu_index_manager_create_index: the manager is locked while              *)
(* dpu_set_apply looks for a set with a free slot.                         *)
LockManager(t) ==
  /\ mlock = Nobody
  /\ mlock' = t
  /\ \/ pc[t] = "create" /\ Goto(t, "apply") /\ set' = [set EXCEPT ![t] = 1]
     \/ pc[t] = "get" /\ Goto(t, "find") /\ UNCHANGED set
  /\ UNCHANGED <<nrIndex, map, sets, call, vals, calls, late, seen, created>>

SetFree_Ignored(s) == TRUE
SetFree(s) == slock[s] = Nobody

ApplyLock(t) ==
  /\ pc[t] = "apply"
  /\ SetFree(set[t])
  /\ slock' = [slock EXCEPT ![set[t]] = t]
  /\ Goto(t, "count")
  /\ UNCHANGED <<manager, nr, push, pull, dpus, call, set, vals, calls, late, seen,
                 created>>

SlotLeft_Unchecked(s) == TRUE
SlotLeft(s) == nr[s] < MaxPerSet

(* The slot is taken before the id is known to be new. *)
ApplyCount(t) ==
  /\ pc[t] = "count"
  /\ slock' = [slock EXCEPT ![set[t]] = Nobody]
  /\ \/ /\ SlotLeft(set[t])
        /\ nr' = [nr EXCEPT ![set[t]] = @ + 1]
        /\ Goto(t, "register") /\ UNCHANGED set
     \/ /\ ~SlotLeft(set[t]) /\ set[t] < NrSets
        /\ set' = [set EXCEPT ![t] = @ + 1]
        /\ Goto(t, "apply") /\ UNCHANGED nr
     \/ /\ ~SlotLeft(set[t]) /\ set[t] = NrSets
        /\ set' = [set EXCEPT ![t] = NoSet]
        /\ Goto(t, "register") /\ UNCHANGED nr
  /\ UNCHANGED <<manager, push, pull, dpus, call, vals, calls, late, seen, created>>

(* A thread's call returns; its vals are the caller's now. *)
Returned(t) ==
  /\ Goto(t, "idle")
  /\ call' = [call EXCEPT ![t] = NoQuery]
  /\ set' = [set EXCEPT ![t] = NoSet]
  /\ late' = [late EXCEPT ![t] = FALSE]
  /\ vals' = [vals EXCEPT ![t] = {}]
  /\ seen' = [seen EXCEPT ![t] = {}]

AfterRefusal_Held(t) == t
AfterRefusal(t) == Nobody

Register(t) ==
  /\ pc[t] = "register"
  /\ LET id == call[t].id
         ok == set[t] # NoSet /\ nrIndex < MaxIndexes /\ New(id)
     IN \/ /\ ok
           /\ map' = [map EXCEPT ![Hash[id]] = Chained(@, [id |-> id, set |-> set[t]])]
           /\ nrIndex' = nrIndex + 1
           /\ mlock' = Nobody
           /\ Goto(t, "get")
           /\ UNCHANGED <<call, set, vals, late, seen>>
        \/ /\ ~ok
           /\ mlock' = AfterRefusal(t)
           /\ Returned(t)
           /\ UNCHANGED <<map, nrIndex>>
  /\ UNCHANGED <<sets, calls, created>>

(* dpu_index_manager_get_dpu_set *)
FindSet(t) ==
  /\ pc[t] = "find"
  /\ mlock' = Nobody
  /\ \/ \E e \in Find(call[t].id) : /\ set' = [set EXCEPT ![t] = e.set]
                                    /\ Goto(t, "enter")
                                    /\ UNCHANGED <<call, vals, late, seen>>
     \/ Find(call[t].id) = {} /\ Returned(t)
  /\ UNCHANGED <<nrIndex, map, sets, calls, created>>

-----------------------------------------------------------------------------
(* The operations on the set, from pthread_mutex_lock to ..._unlock.       *)

Enter(t) ==
  /\ pc[t] = "enter"
  /\ SetFree(set[t])
  /\ slock' = [slock EXCEPT ![set[t]] = t]
  /\ Goto(t, "build")
  /\ UNCHANGED <<manager, nr, push, pull, dpus, call, set, vals, calls, late, seen,
                 created>>

Build(t) ==
  /\ pc[t] = "build"
  /\ push' = [push EXCEPT ![set[t]] = call[t]]
  /\ Goto(t, "run")
  /\ UNCHANGED <<manager, slock, nr, pull, dpus, call, set, vals, calls, late, seen,
                 created>>

(* The slots of set s that carry the id, and the first of them. *)
SlotsOf(s, id) == {i \in DOMAIN dpus[s] : dpus[s][i].id = id}
IsFirst(i, s, id) == i \in SlotsOf(s, id) /\ \A j \in SlotsOf(s, id) : i <= j

(* dpu_push_package and dpu_set_context_dpu_run: the DPUs carry out what    *)
(* the package says; without a slot for the index nothing happens.         *)
Run(t) ==
  /\ pc[t] = "run"
  /\ LET s == set[t]
         q == push[s]
     IN /\ \/ /\ q.op = "create"
              /\ dpus' = IF Len(dpus[s]) < DpuTable
                           THEN [dpus EXCEPT ![s] = Append(@, [id |-> q.id, vals |-> {}])]
                           ELSE dpus
           \/ q.op # "create" /\ SlotsOf(s, q.id) = {} /\ UNCHANGED dpus
           \/ \E i \in DOMAIN dpus[s] :
                /\ q.op # "create" /\ IsFirst(i, s, q.id)
                /\ dpus' = [dpus EXCEPT ![s][i].vals =
                             CASE q.op = "insert" -> @ \cup {q.val}
                               [] q.op = "delete" -> @ \ {q.val}
                               [] q.op = "lookup" -> @]
        /\ seen' = [seen EXCEPT ![t] = UNION {dpus[s][i].vals : i \in SlotsOf(s, call[t].id)}]
  /\ Goto(t, IF call[t].op = "lookup" THEN "pull" ELSE "leave")
  /\ UNCHANGED <<manager, slock, nr, push, pull, call, set, vals, calls, late, created>>

(* What the DPUs answer to the lookup they ran last. *)
Answer(s) == UNION {dpus[s][i].vals : i \in {j \in DOMAIN dpus[s] : IsFirst(j, s, push[s].id)}}

Pull(t) ==
  /\ pc[t] = "pull"
  /\ pull' = [pull EXCEPT ![set[t]] = Answer(set[t])]
  /\ Goto(t, "merge")
  /\ UNCHANGED <<manager, slock, nr, push, dpus, call, set, vals, calls, late, seen,
                 created>>

Merge(t) ==
  /\ pc[t] = "merge"
  /\ vals' = [vals EXCEPT ![t] = pull[set[t]]]
  /\ Goto(t, "leave")
  /\ UNCHANGED <<manager, sets, call, set, calls, late, seen, created>>

Leave(t) ==
  /\ pc[t] = "leave"
  /\ slock' = [slock EXCEPT ![set[t]] = Nobody]
  /\ created' = IF call[t].op = "create" THEN created \cup {call[t].id} ELSE created
  /\ Returned(t)
  /\ UNCHANGED <<manager, nr, push, pull, dpus, calls>>

-----------------------------------------------------------------------------
Step(t) ==
  \/ LockManager(t) \/ ApplyLock(t) \/ ApplyCount(t) \/ Register(t) \/ FindSet(t)
  \/ Enter(t) \/ Build(t) \/ Run(t) \/ Pull(t) \/ Merge(t) \/ Leave(t)

Finished == calls = MaxCalls /\ \A t \in Threads : pc[t] = "idle"

Next ==
  \/ \E t \in Threads : Step(t) \/ \E q \in Query : Begin(t, q)
  \/ Finished /\ UNCHANGED vars

Spec == Init /\ [][Next]_vars

(* The operating system runs every thread that can go on. *)
FairSpec == Spec /\ \A t \in Threads : WF_vars(Step(t))

-----------------------------------------------------------------------------
(* Properties.                                                             *)

Registered(s) == {id \in Ids : \E e \in Find(id) : e.set = s}
Known == {id \in Ids : Find(id) # {}}
Created(s) == {dpus[s][i].id : i \in DOMAIN dpus[s]}

(* The table of a DPU never refuses an index the manager has assigned to    *)
(* its set, the manager's limit is reached first.                          *)
TableNeverFull ==
  \A t \in Threads : pc[t] = "run" /\ call[t].op = "create" =>
    Len(dpus[set[t]]) < DpuTable

(* An index has one home: the map knows one set for it, only that set's     *)
(* DPUs hold it, and they hold it once, so that no slot shadows another.   *)
OneHome ==
  /\ \A id \in Ids : Cardinality(Find(id)) <= 1
  /\ \A s \in Sets : /\ Created(s) \subseteq Registered(s)
                     /\ Cardinality(Created(s)) = Len(dpus[s])

(* The counters never fall behind the indexes: every registered index has   *)
(* a slot of its set of its own.                                           *)
SlotsSuffice ==
  /\ \A s \in Sets : Cardinality(Registered(s)) <= nr[s]
  /\ nrIndex = Cardinality(Known)

(* A call that begins after the create of its index has returned finds the  *)
(* index in the DPUs when its batch is run.  A call that does not wait may  *)
(* find the set in the map already and yet be run before the create.       *)
LateCallsFindIndex ==
  \A t \in Threads : pc[t] = "run" /\ late[t] /\ call[t].op # "create" =>
    SlotsOf(set[t], call[t].id) # {}

(* A lookup returns what its own index held when its batch was run, never   *)
(* the results of another thread's batch.                                  *)
OwnResults ==
  \A t \in Threads : pc[t] = "leave" /\ call[t].op = "lookup" => vals[t] = seen[t]

(* Invariant of the proofs.  Who holds which lock, ...                     *)
LockOK(t) ==
  /\ mlock = t <=> pc[t] \in {"apply", "count", "register", "find"}
  /\ \A s \in Sets : slock[s] = t <=>
       set[t] = s /\ pc[t] \in {"count", "build", "run", "pull", "merge", "leave"}

LockInv == \A t \in Threads : LockOK(t)

(* ... what a call knows by where it is, ...                               *)
OnSet == {"enter", "build", "run", "pull", "merge", "leave"}

CallOK(t) ==
  /\ call[t] = NoQuery <=> pc[t] = "idle"
  /\ pc[t] \in {"create", "apply", "count", "register"} => call[t].op = "create"
  /\ pc[t] \in {"apply", "count"} => set[t] \in Sets
  /\ pc[t] \in OnSet => set[t] \in Sets /\ call[t].id \in Registered(set[t])
  /\ pc[t] \in {"run", "pull", "merge", "leave"} => push[set[t]] = call[t]
  /\ late[t] => call[t] # NoQuery /\ call[t].id \in created

CallInv == \A t \in Threads : CallOK(t)

(* ... a slot for every index, one more while one is being created, ...    *)
Reserved(s) == IF \E t \in Threads : pc[t] = "register" /\ set[t] = s THEN 1 ELSE 0

MapInv ==
  /\ DOMAIN map = DOMAIN EmptyMap
  /\ \A id \in Ids : \A e, f \in Find(id) : e = f
  /\ \A s \in Sets : IsFiniteSet(Registered(s))
                     /\ Cardinality(Registered(s)) + Reserved(s) <= nr[s]
  /\ IsFiniteSet(Known) /\ nrIndex = Cardinality(Known)

(* ... indexes in the DPUs and creates on the way to them, ...             *)
Creating(t) ==
  call[t] # NoQuery /\ call[t].op = "create" /\ pc[t] \in {"get", "find", "enter", "build", "run"}

TableInv ==
  /\ \A s \in Sets :
       /\ Created(s) \subseteq Registered(s)
       /\ \A i, j \in DOMAIN dpus[s] : dpus[s][i].id = dpus[s][j].id => i = j
       /\ IsFiniteSet(Created(s)) /\ Cardinality(Created(s)) = Len(dpus[s])
  /\ created \subseteq UNION {Created(s) : s \in Sets}
  /\ \A t \in Threads : Creating(t) =>
       /\ call[t].id \in Known /\ \A s \in Sets : call[t].id \notin Created(s)
       /\ \A u \in Threads : Creating(u) /\ call[u].id = call[t].id => u = t
  /\ \A t \in Threads : pc[t] = "leave" /\ call[t].op = "create" =>
       call[t].id \in Created(set[t])

(* ... and where the results of a lookup are.                              *)
ResultOK(t) ==
  /\ pc[t] \in {"pull", "merge"} => call[t].op = "lookup"
  /\ pc[t] = "pull" => Answer(set[t]) = seen[t]
  /\ pc[t] = "merge" => pull[set[t]] = seen[t]
  /\ pc[t] = "leave" /\ call[t].op = "lookup" => vals[t] = seen[t]

ResultInv == \A t \in Threads : ResultOK(t)

IndInv == TypeOK /\ LockInv /\ CallInv /\ MapInv /\ TableInv /\ ResultInv

(* Every call returns: no thread leaves a lock behind, and manager and set  *)
(* locks are taken in one order.                                           *)
CallsReturn == \A t \in Threads : pc[t] # "idle" ~> pc[t] = "idle"
=============================================================================
