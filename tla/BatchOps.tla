------------------------------- MODULE BatchOps -------------------------------
(***************************************************************************)
(* One DPU set at work on one batch after another, under the set's lock    *)
(* (the functions of host/primary_index_host.c without suffix).  The host  *)
(* sorts the keys of a batch into one package per DPU by their hash, sends *)
(* the packages, lets all DPUs run, and after a lookup receives their      *)
(* results and merges them into the caller's array by the rows the keys    *)
(* had in the batch.                                                       *)
(*                                                                         *)
(* Packages, the DPUs' memory and the pull buffers are used again for each *)
(* batch and keep what the batches before left in them.  What a DPU does   *)
(* with a package is the subject of DpuTask and PrimaryIndexDpu; a DPU is  *)
(* one step here, on a table of bags, with its overflow region not spent.  *)
(*                                                                         *)
(* Definitions with a suffix, as Pulled_First, are faulty variants for the *)
(* runs that show what a property catches.                                 *)
(***************************************************************************)
EXTENDS Integers, Sequences, FiniteSetsExt, SequencesExt

CONSTANTS
  NrDpus,        \* NR_DPUS
  Keys, NoKey,   \* keys, and what an element holds before it is written
  Hash,          \* _hash_function of dpu_push.c: Keys -> Nat
  Vals,          \* values, positive numbers
  Ids,           \* index ids
  MaxBatch,      \* largest batch; what it has for one DPU fits a package
  MaxIndexes,    \* PRIMARY_INDEX_MAX_NUM
  PullCapacity,  \* coo_results_capacity
  MaxPairs,      \* bound: pairs of an index
  MaxCalls,      \* bound: calls
  Unset          \* an element of the caller's array before the call

ASSUME BatchAssumption ==
  /\ NrDpus \in Nat \ {0}
  /\ IsFiniteSet(Keys) /\ Hash \in [Keys -> Nat]
  /\ IsFiniteSet(Vals) /\ Vals \subseteq Nat \ {0}
  /\ MaxBatch \in Nat \ {0} /\ PullCapacity \in Nat /\ MaxIndexes \in Nat
  /\ MaxPairs \in Nat /\ MaxCalls \in Nat

Dpus  == 0..(NrDpus - 1)
Slots == 0..(MaxBatch - 1)
Pairs == Keys \X Vals
NoCall == [op |-> "none"]

Batches == SeqOf(Keys, MaxBatch) \ {<<>>}
Calls ==
  [op : {"create"}, id : Ids]
    \cup [op : {"delete", "lookup"}, id : Ids, keys : Batches]
    \cup UNION {[op : {"insert"}, id : Ids, keys : {ks}, vals : [DOMAIN ks -> Vals]] :
                  ks \in Batches}

(* An element of a kv_set: its key, and the union of key_id and val. *)
Elem == [key : Keys \cup {NoKey}, key_id : Slots \cup Vals \cup {0}]
Package == [type : {"none", "create", "insert", "delete", "lookup"}, id : Ids \cup {NoKey},
            nnz : 0..MaxBatch, data : [Slots -> Elem]]
Results == [nnz : 0..MaxBatch, data : [Slots -> [row : Slots \cup Vals \cup {0},
                                                 val : Vals \cup {0}]]]
(* An index of a DPU, and the indexes of all of them. *)
IndexSlot == [id : Ids, bag : [Pairs -> 0..MaxPairs]]
Tables == [Dpus -> Seq(IndexSlot)]

VARIABLES
  call,      \* the call, with its arguments
  calls,     \* calls made, for the bound
  pc,        \* where the call is
  packages,  \* push_info->packages
  mram,      \* the packages as the DPUs have them
  running,   \* DPUs that have not ended the launch
  table,     \* indexes of every DPU, in order: [id, bag]
  coo,       \* global_coo_result of every DPU
  size,      \* result_size in the metadata of every DPU
  metadatas, \* pull_info->coo_metadatas
  results,   \* pull_info->coo_results
  vals,      \* the caller's array
  before     \* history variable: table when the launch began

host == <<packages, metadatas, results>>
dpu  == <<mram, table, coo, size>>
vars == <<call, calls, pc, host, running, dpu, vals, before>>

TypeOK ==
  /\ call \in Calls \cup {NoCall}
  /\ calls \in 0..MaxCalls
  /\ pc \in {"idle", "push", "run", "metadatas", "results", "merge"}
  /\ packages \in [Dpus -> Package] /\ mram \in [Dpus -> Package]
  /\ running \subseteq Dpus
  /\ table \in Tables /\ before \in Tables
  /\ \A d \in Dpus : Len(table[d]) <= MaxIndexes
  /\ coo \in [Dpus -> Results] /\ results \in [Dpus -> Results]
  /\ size \in [Dpus -> 0..MaxBatch] /\ metadatas \in [Dpus -> 0..MaxBatch]
  /\ vals \in [Slots -> Vals \cup {0, Unset}]

NoElem == [key |-> NoKey, key_id |-> 0]
NoPackage == [type |-> "none", id |-> NoKey, nnz |-> 0, data |-> [i \in Slots |-> NoElem]]
NoResults == [nnz |-> 0, data |-> [i \in Slots |-> [row |-> 0, val |-> 0]]]
Everywhere(x) == [d \in Dpus |-> x]

(* A buffer whose first elements are written anew. *)
Overwritten(old, new) == [i \in DOMAIN old |-> IF i \in DOMAIN new THEN new[i] ELSE old[i]]
First(n, data) == [i \in 0..(n - 1) |-> data[i]]

(* dpu_set_context_create: all DPUs loaded, buffers initialised. *)
Init ==
  /\ call = NoCall
  /\ calls = 0
  /\ pc = "idle"
  /\ packages = Everywhere(NoPackage) /\ mram = Everywhere(NoPackage)
  /\ running = {}
  /\ table = Everywhere(<<>>) /\ before = Everywhere(<<>>)
  /\ coo = Everywhere(NoResults) /\ results = Everywhere(NoResults)
  /\ size = Everywhere(0) /\ metadatas = Everywhere(0)
  /\ vals = [r \in Slots |-> Unset]

-----------------------------------------------------------------------------
(* dpu_push_build_package_...                                              *)

Home_Turns(i, k) == i % NrDpus
Home(i, k) == Hash[k] % NrDpus

(* The rows of the batch that go to DPU d, counted from 0, and the place of *)
(* one among them: they are dealt out in order.                            *)
RowsFor(q, d) == {r \in 0..(Len(q.keys) - 1) : Home(r, q.keys[r + 1]) = d}
Place(r, rows) == Cardinality({s \in rows : s < r})

(* The element for row r, where old is: a delete leaves the union as it was. *)
InsertElem(q, r, old) == [key |-> q.keys[r + 1], key_id |-> q.vals[r + 1]]
DeleteElem(q, r, old) == [old EXCEPT !.key = q.keys[r + 1]]
LookupElem(q, r, old) == [key |-> q.keys[r + 1], key_id |-> r]

(* A package without a kv_set. *)
BuiltQuery(q, d) ==
  [type |-> q.op, id |-> q.id, nnz |-> packages[d].nnz, data |-> packages[d].data]

(* A package anew, but for what its elements held before. *)
Built(q, d) ==
  LET rows == RowsFor(q, d)
      ElemOf(r, e) == CASE q.op = "insert" -> InsertElem(q, r, e)
                        [] q.op = "delete" -> DeleteElem(q, r, e)
                        [] q.op = "lookup" -> LookupElem(q, r, e)
      Filled(i, e) == IF i < Cardinality(rows)
                        THEN ElemOf(CHOOSE r \in rows : Place(r, rows) = i, e) ELSE e
  IN [type |-> q.op, id |-> q.id, nnz |-> Cardinality(rows),
      data |-> [i \in Slots |-> Filled(i, packages[d].data[i])]]

Size(bag) == SumFunction(bag)
RoomForPairs(n) ==
  \A i \in DOMAIN table[0] :
    SumFunction([d \in Dpus |-> Size(table[d][i].bag)]) + n <= MaxPairs

Call(q) ==
  /\ pc = "idle" /\ calls < MaxCalls
  /\ call' = q
  /\ calls' = calls + 1
  /\ vals' = [r \in Slots |-> Unset]
  /\ pc' = "push"
  /\ UNCHANGED <<metadatas, results, running, dpu, before>>

CallCreate(q) ==
  /\ q.op = "create" /\ Call(q)
  /\ packages' = [d \in Dpus |-> BuiltQuery(q, d)]

CallInsert(q) ==
  /\ q.op = "insert" /\ Call(q) /\ RoomForPairs(Len(q.keys))
  /\ packages' = [d \in Dpus |-> Built(q, d)]

CallDelete(q) ==
  /\ q.op = "delete" /\ Call(q)
  /\ packages' = [d \in Dpus |-> Built(q, d)]

CallLookup(q) ==
  /\ q.op = "lookup" /\ Call(q)
  /\ packages' = [d \in Dpus |-> Built(q, d)]

-----------------------------------------------------------------------------
(* dpu_push_package: as much of every package as the largest one has.  The  *)
(* size of a package without a kv_set is taken from other fields, and is    *)
(* more than that of any small batch.                                      *)
Length_FirstPackage == packages[0].nnz
Length == IF call.op = "create" THEN MaxBatch ELSE Max({packages[d].nnz : d \in Dpus})

Push ==
  /\ pc = "push"
  /\ mram' = [d \in Dpus |->
       [packages[d] EXCEPT !.data = Overwritten(mram[d].data, First(Length, @))]]
  /\ running' = Dpus
  /\ before' = table
  /\ pc' = "run"
  /\ UNCHANGED <<call, calls, host, table, coo, size, vals>>

-----------------------------------------------------------------------------
(* dpu_set_context_dpu_run: the DPUs run, each by itself.                   *)

Places(d) == 0..(mram[d].nnz - 1)
Items(d) == {mram[d].data[i] : i \in Places(d)}
Count(d, P(_)) == Cardinality({i \in Places(d) : P(mram[d].data[i])})
PairsOf(k, bag) == SumFunction([v \in Vals |-> bag[<<k, v>>]])

Found(bag, k) ==
  IF PairsOf(k, bag) = 0 THEN {0} ELSE {v \in Vals : bag[<<k, v>>] > 0}

Inserted(d, bag) ==
  [p \in Pairs |-> bag[p] + Count(d, LAMBDA e : e.key = p[1] /\ e.key_id = p[2])]

(* Of several pairs with the key of a delete any may be the one that goes.  *)
Deleted(d, bag) ==
  {b \in [Pairs -> 0..MaxPairs] :
     /\ \A p \in Pairs : b[p] <= bag[p]
     /\ \A k \in Keys :
          PairsOf(k, b) = Max({0, PairsOf(k, bag) - Count(d, LAMBDA e : e.key = k)})}

Here(d) == {i \in DOMAIN table[d] : table[d][i].id = mram[d].id}

RoomInTable(d) == Len(table[d]) < MaxIndexes

DpuCreate(d) ==
  /\ mram[d].type = "create"
  /\ table' = IF RoomInTable(d)
                THEN [table EXCEPT ![d] = Append(@, [id |-> mram[d].id,
                                                     bag |-> [p \in Pairs |-> 0]])]
                ELSE table
  /\ UNCHANGED <<coo, size>>

DpuInsert(d, i) ==
  /\ mram[d].type = "insert"
  /\ table' = [table EXCEPT ![d][i].bag = Inserted(d, @)]
  /\ UNCHANGED <<coo, size>>

DpuDelete(d, i) ==
  /\ mram[d].type = "delete"
  /\ \E b \in Deleted(d, table[d][i].bag) : table' = [table EXCEPT ![d][i].bag = b]
  /\ UNCHANGED <<coo, size>>

(* The results stand in the order in which the slaves flush them. *)
Answers(d, bag) ==
  UNION {{[row |-> e.key_id, val |-> v] : v \in Found(bag, e.key)} : e \in Items(d)}

DpuLookup(d, i) ==
  /\ mram[d].type = "lookup"
  /\ \E data \in [Places(d) -> Answers(d, table[d][i].bag)] :
       /\ {data[j].row : j \in DOMAIN data} = {e.key_id : e \in Items(d)}
       /\ coo' = [coo EXCEPT ![d] = [nnz |-> mram[d].nnz,
                                    data |-> Overwritten(@.data, data)]]
  /\ size' = [size EXCEPT ![d] = mram[d].nnz]
  /\ UNCHANGED table

DpuNoIndex(d) ==
  /\ mram[d].type # "create" /\ Here(d) = {}
  /\ \/ /\ mram[d].type = "lookup"
        /\ coo' = [coo EXCEPT ![d].nnz = 0] /\ size' = [size EXCEPT ![d] = 0]
     \/ mram[d].type # "lookup" /\ UNCHANGED <<coo, size>>
  /\ UNCHANGED table

AfterRun == IF call.op = "lookup" THEN "metadatas" ELSE "idle"

RunDpu(d) ==
  /\ pc = "run" /\ d \in running
  /\ \/ DpuCreate(d) \/ DpuNoIndex(d)
     \/ \E i \in Here(d) : /\ \A j \in Here(d) : i <= j
                           /\ DpuInsert(d, i) \/ DpuDelete(d, i) \/ DpuLookup(d, i)
  /\ running' = running \ {d}
  /\ pc' = IF running' = {} THEN AfterRun ELSE "run"
  /\ UNCHANGED <<call, calls, host, mram, vals, before>>

-----------------------------------------------------------------------------
(* dpu_pull_coo_metadatas, dpu_pull_coo_results, dpu_pull_merge_results.     *)

PullMetadatas ==
  /\ pc = "metadatas"
  /\ metadatas' = size
  /\ pc' = "results"
  /\ UNCHANGED <<call, calls, packages, results, running, dpu, vals, before>>

Pulled_First == metadatas[0]
Pulled == Max({metadatas[d] : d \in Dpus})

(* When the results of some DPU exceed the buffer none are received, and    *)
(* the call goes on with those of a batch before.                          *)
PullResults ==
  /\ pc = "results"
  /\ results' = IF PullCapacity < Pulled THEN results
                ELSE [d \in Dpus |->
                        [nnz |-> coo[d].nnz,
                         data |-> Overwritten(results[d].data, First(Pulled, coo[d].data))]]
  /\ pc' = "merge"
  /\ UNCHANGED <<call, calls, packages, metadatas, running, dpu, vals, before>>

(* DPU by DPU, so that of several results for a row the last one stays. *)
Merged(r) ==
  LET at == {n \in 0..(NrDpus * MaxBatch - 1) :
               LET d == n \div MaxBatch  j == n % MaxBatch
               IN j < results[d].nnz /\ results[d].data[j].row = r}
  IN IF at = {} THEN vals[r]
     ELSE results[Max(at) \div MaxBatch].data[Max(at) % MaxBatch].val

Merge ==
  /\ pc = "merge"
  /\ vals' = [r \in Slots |-> Merged(r)]
  /\ pc' = "idle"
  /\ UNCHANGED <<call, calls, host, running, dpu, before>>

Finished == pc = "idle" /\ calls = MaxCalls

Next ==
  \/ \E q \in Calls : CallCreate(q) \/ CallInsert(q) \/ CallDelete(q) \/ CallLookup(q)
  \/ Finished /\ UNCHANGED vars
  \/ Push \/ PullMetadatas \/ PullResults \/ Merge
  \/ \E d \in Dpus : RunDpu(d)

Spec == Init /\ [][Next]_vars

-----------------------------------------------------------------------------
(* Properties.                                                             *)

(* Between launches all DPUs of the set have the same indexes in the same   *)
(* slots, and a pair is held by the DPU its key hashes to and no other, so  *)
(* that the DPU a delete or lookup asks is the one that has it.            *)
SameTables(t) ==
  \A d, e \in Dpus :
    /\ Len(t[d]) = Len(t[e])
    /\ \A i \in DOMAIN t[d] :
         /\ t[d][i].id = t[e][i].id
         /\ \A p \in Pairs : t[d][i].bag[p] > 0 => Hash[p[1]] % NrDpus = d

OneTable == running = {} => SameTables(table)

(* The set is one table of bags on which each batch takes effect once and   *)
(* as a whole, whatever earlier batches left in the buffers.               *)
TableOf == IF running = {} THEN table ELSE before
FirstSlot(t, id) == Min({i \in DOMAIN t[0] : t[0][i].id = id})

(* The bags of a table of all DPUs, by the ids that have been created.      *)
IndexOf(t) ==
  [id \in {t[0][i].id : i \in DOMAIN t[0]} |->
     [p \in Pairs |-> SumFunction([d \in Dpus |-> t[d][FirstSlot(t, id)].bag[p]])]]

Pending ==
  IF pc \in {"push", "run"} \/ (pc # "idle" /\ call.op = "lookup") THEN call ELSE NoCall

(* A lookup whose results the pull buffers have room for: they are as large *)
(* for each DPU, whatever the size of the batch.                           *)
PullsFit(q) == \A d \in Dpus : Cardinality(RowsFor(q, d)) <= PullCapacity

Abstract == INSTANCE KeyValueBatches WITH
  Received <- {q \in Calls : q.op = "lookup" /\ PullsFit(q)},
  Rows <- Slots, index <- IndexOf(TableOf), room <- MaxIndexes - Len(TableOf[0]),
  pending <- Pending, array <- vals

ImplementsBatches == Abstract!BSpec

(* A lookup writes to the rows of its own batch only: the caller's array    *)
(* has no more.  It holds of the lookups whose results fit; ...            *)
OthersUnset == \A r \in Slots : r >= Len(call.keys) => vals[r] = Unset

OwnRows == call # NoCall /\ call.op = "lookup" /\ PullsFit(call) => OthersUnset

(* ... of the others it does not.                                          *)
RowsOfBatch == call # NoCall /\ call.op = "lookup" => OthersUnset

-----------------------------------------------------------------------------
(* The inductive invariant.                                                *)

(* What a call is doing where it is. *)
PhaseInv ==
  /\ running # {} <=> pc = "run"
  /\ pc # "idle" => call # NoCall /\ \A r \in Slots : vals[r] = Unset
  /\ pc \in {"metadatas", "results", "merge"} => call.op = "lookup"

(* A package has the elements of the call that are for its DPU, each at its *)
(* place, whatever stands behind them.                                     *)
Carries(p, d) ==
  /\ p.type = call.op /\ p.id = call.id
  /\ call.op # "create" =>
       LET rows == RowsFor(call, d) IN
       /\ p.nnz = Cardinality(rows)
       /\ \A r \in rows :
            LET e == p.data[Place(r, rows)] IN
            /\ e.key = call.keys[r + 1]
            /\ call.op = "insert" => e.key_id = call.vals[r + 1]
            /\ call.op = "lookup" => e.key_id = r

PackagesInv ==
  \A d \in Dpus :
    /\ pc = "push" => Carries(packages[d], d)
    /\ pc \notin {"idle", "push"} => Carries(mram[d], d)

(* Also while the DPUs run: they have left one table.                      *)
TableInv == SameTables(TableOf)

(* By the bound on pairs, the pending insert has room. *)
RoomInv ==
  pc \in {"push", "run"} /\ call.op = "insert" =>
    \A d \in Dpus : \A i \in DOMAIN TableOf[d] : \A p \in Pairs :
      TableOf[d][i].bag[p] + Len(call.keys) <= MaxPairs

IsFirst(i, slots, id) ==
  /\ i \in DOMAIN slots /\ slots[i].id = id
  /\ \A j \in DOMAIN slots : slots[j].id = id => i <= j

Unknown(slots, id) == \A i \in DOMAIN slots : slots[i].id # id

(* What the call does to the part s of DPU d: it becomes t.                *)
Effect(d, s, t) ==
  CASE call.op = "create" ->
         t = IF Len(s) < MaxIndexes
               THEN Append(s, [id |-> call.id, bag |-> [p \in Pairs |-> 0]]) ELSE s
    [] call.op # "create" /\ (call.op = "lookup" \/ Unknown(s, call.id)) -> t = s
    [] OTHER ->
         \E i \in DOMAIN s :
           /\ IsFirst(i, s, call.id)
           /\ \E b \in IF call.op = "insert" THEN {Inserted(d, s[i].bag)} ELSE Deleted(d, s[i].bag) :
                t = [s EXCEPT ![i].bag = b]

(* A DPU that has ended has done so.                                       *)
RunInv ==
  pc = "run" =>
    \A d \in Dpus : IF d \in running THEN table[d] = before[d]
                  ELSE Effect(d, before[d], table[d])

(* Its results answer each of its rows from its own part of the index.     *)
Answered(d) ==
  \/ Unknown(table[d], call.id) /\ coo[d].nnz = 0
  \/ \E i \in DOMAIN table[d] :
       /\ IsFirst(i, table[d], call.id)
       /\ coo[d].nnz = mram[d].nnz
       /\ \A j \in Places(d) : coo[d].data[j] \in Answers(d, table[d][i].bag)
       /\ \A e \in Items(d) : \E j \in Places(d) : coo[d].data[j].row = e.key_id

ResultsInv ==
  \A d \in Dpus :
    /\ pc \in {"run", "metadatas", "results", "merge"} /\ call.op = "lookup" /\ d \notin running =>
         Answered(d) /\ size[d] = coo[d].nnz
    /\ pc \in {"results", "merge"} => metadatas[d] = size[d]
    /\ pc = "merge" /\ Pulled <= PullCapacity =>
         /\ results[d].nnz = coo[d].nnz
         /\ \A j \in 0..(coo[d].nnz - 1) : results[d].data[j] = coo[d].data[j]

(* A batch takes effect once and as a whole because each buffer on its way  *)
(* has this call's elements and the DPUs together do what the call says;   *)
(* when its results have been received the rows behind a lookup's own stay *)
(* as they were.                                                           *)
IndInv ==
  /\ TypeOK /\ PhaseInv /\ PackagesInv /\ TableInv /\ RoomInv /\ RunInv /\ ResultsInv
  /\ OwnRows
=============================================================================
