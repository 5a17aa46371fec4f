---------------------------- MODULE PrimaryIndex ----------------------------
(***************************************************************************)
(* What the primary indexes of one DPU promise to the batches of the host: *)
(* a table of at most MaxIndexes indexes, each a bag of key-value pairs.   *)
(*                                                                         *)
(* An insert adds a pair, whether or not the key is there already; a       *)
(* delete removes one pair of its key; a lookup answers the value of some  *)
(* pair of its key, and 0 when there is none; get_or_insert does the one   *)
(* or the other, so that it never adds a second pair of a key; an update   *)
(* gives a pair another value.  Once the overflow region is spent an       *)
(* insert may instead cost all pairs that collide with its key but one.    *)
(* Work on one index never touches another.                                *)
(***************************************************************************)
EXTENDS Integers, Sequences

CONSTANTS
  Ids,         \* index identifiers
  Keys, Vals,  \* keys and stored values
  NoKey,       \* no key: the answer of a client that has asked nothing
  Clients,     \* those who run the items of a batch
  Class,       \* which keys collide: Keys -> Nat
  MaxIndexes   \* capacity of the table

VARIABLES
  ids,         \* identifiers of the indexes, in the order of creation
  bag,         \* the pairs of every index: position -> Keys \X Vals -> Nat
  kind,        \* operation of the current launch
  current,     \* position of the index the launch works on, 0 for none
  spent,       \* the overflow region has been used up
  answer       \* what every client's last lookup of the launch found

vars == <<ids, bag, kind, current, spent, answer>>

NoPairs   == [p \in Keys \X Vals |-> 0]
NoAnswer  == [c \in Clients |-> [key |-> NoKey, val |-> 0]]
Positions == 1..MaxIndexes
Kinds     == {"insert", "delete", "lookup", "get_or_insert", "update"}

Init ==
  /\ ids = <<>>
  /\ bag = [i \in Positions |-> NoPairs]
  /\ kind = "none"
  /\ current = 0
  /\ spent \in BOOLEAN      \* the region may be empty from the start
  /\ answer = NoAnswer

Create(id) ==
  /\ kind' = "create"
  /\ answer' = NoAnswer
  /\ \/ /\ Len(ids) < MaxIndexes
        /\ ids' = Append(ids, id)
        /\ current' = Len(ids) + 1
     \/ /\ Len(ids) = MaxIndexes
        /\ current' = 0
        /\ UNCHANGED ids
  /\ UNCHANGED <<bag, spent>>

(* A launch of another kind works on the first index with its identifier.  *)
Open(type, id) ==
  /\ kind' = type
  /\ answer' = NoAnswer
  /\ LET found == {i \in DOMAIN ids : ids[i] = id} IN
       \/ found = {} /\ current' = 0
       \/ \E i \in found : (\A j \in found : i <= j) /\ current' = i
  /\ UNCHANGED <<ids, bag, spent>>

Adding == {"insert", "get_or_insert"}
Absent(k) == \A v \in Vals : bag[current][<<k, v>>] = 0

Insert(k, v) ==
  /\ kind \in Adding /\ current # 0
  /\ kind = "get_or_insert" => Absent(k)
  /\ bag' = [bag EXCEPT ![current][<<k, v>>] = @ + 1]
  /\ UNCHANGED <<ids, kind, current, spent, answer>>

Spend ==
  /\ kind \in Adding /\ spent' = TRUE
  /\ UNCHANGED <<ids, bag, kind, current, answer>>

(* Of the pairs in collision class c one pair, kept, survives.             *)
Overflow(c, kept) ==
  /\ kind \in Adding /\ current # 0 /\ spent
  /\ Class[kept[1]] = c
  /\ bag[current][kept] > 0
  /\ bag' = [bag EXCEPT ![current] =
               [p \in Keys \X Vals |->
                  IF Class[p[1]] # c THEN @[p] ELSE IF p = kept THEN 1 ELSE 0]]
  /\ UNCHANGED <<ids, kind, current, spent, answer>>

Delete(k, v) ==
  /\ kind = "delete" /\ current # 0
  /\ bag[current][<<k, v>>] > 0
  /\ bag' = [bag EXCEPT ![current][<<k, v>>] = @ - 1]
  /\ UNCHANGED <<ids, kind, current, spent, answer>>

(* A pair found by get_or_insert may have been lost to an overflow by the   *)
(* time the answer is taken from it.                                       *)
Lookup(c, k) ==
  /\ kind \in {"lookup", "get_or_insert"} /\ current # 0
  /\ \/ \E v \in Vals :
          /\ bag[current][<<k, v>>] > 0 \/ (kind = "get_or_insert" /\ spent)
          /\ answer' = [answer EXCEPT ![c] = [key |-> k, val |-> v]]
     \/ /\ kind = "lookup" /\ Absent(k)
        /\ answer' = [answer EXCEPT ![c] = [key |-> k, val |-> 0]]
  /\ UNCHANGED <<ids, bag, kind, current, spent>>

Update(k, v, new) ==
  /\ kind = "update" /\ current # 0
  /\ bag[current][<<k, v>>] > 0
  /\ bag' = IF v = new THEN bag
            ELSE [bag EXCEPT ![current][<<k, v>>] = @ - 1,
                             ![current][<<k, new>>] = @ + 1]
  /\ UNCHANGED <<ids, kind, current, spent, answer>>

Next ==
  \/ \E id \in Ids : Create(id)
  \/ \E id \in Ids, type \in Kinds : Open(type, id)
  \/ \E k \in Keys, v \in Vals : Insert(k, v) \/ Delete(k, v)
  \/ \E c \in {Class[k] : k \in Keys}, kept \in Keys \X Vals : Overflow(c, kept)
  \/ \E c \in Clients, k \in Keys : Lookup(c, k)
  \/ \E k \in Keys, v, new \in Vals : Update(k, v, new)
  \/ Spend

Spec == Init /\ [][Next]_vars
=============================================================================
