--------------------------- MODULE KeyValueBatches ---------------------------
(***************************************************************************)
(* What a DPU set promises to the client that holds its lock: a batch      *)
(* takes effect once and as a whole, on the one index it names.            *)
(*                                                                         *)
(* An index is a bag of pairs.  An insert adds its pairs, a delete removes *)
(* one pair for each of its keys as far as there are any, a lookup writes  *)
(* for each of its keys the value of some pair, or 0, to the caller's      *)
(* array, and nothing else, if its results can be received; else the array *)
(* may hold anything.  A batch on an unknown index has no effect.          *)
(***************************************************************************)
EXTENDS Integers, Sequences, FiniteSetsExt

CONSTANTS
  Ids, Keys, Vals,
  Calls,      \* the calls clients make: [op, id, keys, vals]
  Received,   \* the lookups among them whose results can be received
  NoCall,     \* no call is pending
  Rows,       \* elements of the caller's array, from 0
  Unset,      \* what they hold before the call
  MaxIndexes  \* indexes a set can hold

VARIABLES
  index,      \* id -> bag of pairs, for the ids that have been created
  room,       \* how many more indexes can be created
  pending,    \* the call that has not taken effect
  array       \* the caller's array

Pairs == Keys \X Vals
Times(x, seq) == Cardinality({i \in DOMAIN seq : seq[i] = x})
PairsOf(k, bag) == SumFunction([v \in Vals |-> bag[<<k, v>>]])

Added(bag, q) ==
  [p \in Pairs |-> bag[p] + Cardinality({i \in DOMAIN q.keys : <<q.keys[i], q.vals[i]>> = p})]

Removed(bag, q) ==
  {b \in [Pairs -> 0..Max({bag[p] : p \in Pairs})] :
     /\ \A p \in Pairs : b[p] <= bag[p]
     /\ \A k \in Keys : PairsOf(k, b) = Max({0, PairsOf(k, bag) - Times(k, q.keys)})}

Found(bag, k) ==
  IF PairsOf(k, bag) = 0 THEN {0} ELSE {v \in Vals : bag[<<k, v>>] > 0}

BInit ==
  /\ index = [id \in {} |-> <<>>]
  /\ room = MaxIndexes
  /\ pending = NoCall
  /\ array = [r \in Rows |-> Unset]

Ask ==
  /\ pending = NoCall
  /\ pending' \in Calls
  /\ array' = [r \in Rows |-> Unset]
  /\ UNCHANGED <<index, room>>

Known == pending.id \in DOMAIN index

Create ==
  /\ pending.op = "create"
  /\ room' = IF room > 0 THEN room - 1 ELSE 0
  /\ index' = IF Known \/ room = 0 THEN index
              ELSE [id \in DOMAIN index \cup {pending.id} |->
                      IF id = pending.id THEN [p \in Pairs |-> 0] ELSE index[id]]
  /\ UNCHANGED array

Change(bags) ==
  /\ \E b \in bags : index' = [index EXCEPT ![pending.id] = b]
  /\ UNCHANGED <<room, array>>

Insert == Known /\ pending.op = "insert" /\ Change({Added(index[pending.id], pending)})
Delete == Known /\ pending.op = "delete" /\ Change(Removed(index[pending.id], pending))

Answer(r) ==
  IF r < Len(pending.keys) THEN Found(index[pending.id], pending.keys[r + 1]) ELSE {Unset}

Lookup ==
  /\ Known /\ pending.op = "lookup"
  /\ array' \in [Rows -> Vals \cup {0, Unset}]
  /\ pending \in Received => \A r \in Rows : array'[r] \in Answer(r)
  /\ UNCHANGED <<index, room>>

Ignore == ~Known /\ pending.op # "create" /\ UNCHANGED <<index, room, array>>

Serve ==
  /\ pending # NoCall /\ pending' = NoCall
  /\ Create \/ Insert \/ Delete \/ Lookup \/ Ignore

BSpec == BInit /\ [][Ask \/ Serve]_<<index, room, pending, array>>
=============================================================================
