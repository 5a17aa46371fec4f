--------------------------- MODULE LinearMramAlloc ---------------------------
(***************************************************************************)
(* The bump allocator of dpu/sto/linear_mram_alloc.c, from which all       *)
(* indexes of a DPU take their overflow nodes.  Slaves that work on        *)
(* different buckets allocate at the same time; the allocator's mutex is   *)
(* all that orders their steps.  A step is a lock operation or an access   *)
(* to one field of the allocator.                                          *)
(*                                                                         *)
(* linear_mram_free does nothing, so that there is no action for it.       *)
(* Sizes are far from 2^32, callers ask for entries of an index.           *)
(*                                                                         *)
(* Definitions with a suffix, as Rounded_Down, are faulty variants for the *)
(* runs that show what a property catches.                                 *)
(***************************************************************************)
EXTENDS Integers

CONSTANTS
  Tasklets,   \* those that allocate
  NoTasklet,  \* nobody, the holder of a free mutex
  Sizes,      \* sizes they ask for
  Start,      \* first address of the region
  RegionSize  \* bytes of the region

ASSUME ArenaAssumption ==
  /\ NoTasklet \notin Tasklets
  /\ Sizes \subseteq Nat \ {0}
  /\ Start \in Nat \ {0}
  /\ RegionSize \in Nat

Null    == 0
Waiting == -1

VARIABLES
  cur,     \* allocator->cur
  avail,   \* allocator->avail_size
  mutex,   \* holder of linear_allocator_mutex
  pc,      \* where every tasklet is
  size,    \* argument and local size
  ptr,     \* local ptr
  want,    \* history variable: the size as it was asked for
  blocks   \* history variable: the blocks handed out, [addr, len]

vars == <<cur, avail, mutex, pc, size, ptr, want, blocks>>

Labels == {"idle", "lock", "round", "check", "take", "bump", "shrink", "unlock",
           "return"}

TypeOK ==
  /\ cur \in Nat
  /\ avail \in Nat
  /\ mutex \in Tasklets \cup {NoTasklet}
  /\ pc \in [Tasklets -> Labels]
  /\ size \in [Tasklets -> Nat]
  /\ ptr \in [Tasklets -> Nat \cup {Waiting}]
  /\ want \in [Tasklets -> Sizes \cup {0}]
  /\ blocks \subseteq [addr : Nat, len : Sizes]

Goto(t, l) == pc' = [pc EXCEPT ![t] = l]

(* linear_mram_allocator_initial *)
Init ==
  /\ cur = Start
  /\ avail = RegionSize
  /\ mutex = NoTasklet
  /\ pc = [t \in Tasklets |-> "idle"]
  /\ size = [t \in Tasklets |-> 0]
  /\ ptr = [t \in Tasklets |-> Waiting]
  /\ want = [t \in Tasklets |-> 0]
  /\ blocks = {}

Call(t, n) ==
  /\ pc[t] = "idle"
  /\ size' = [size EXCEPT ![t] = n]
  /\ want' = [want EXCEPT ![t] = n]
  /\ Goto(t, "lock")
  /\ UNCHANGED <<cur, avail, mutex, ptr, blocks>>

MutexFree_Ignored == TRUE
MutexFree == mutex = NoTasklet

Lock(t) ==
  /\ pc[t] = "lock"
  /\ MutexFree
  /\ mutex' = t
  /\ Goto(t, "round")
  /\ UNCHANGED <<cur, avail, size, ptr, want, blocks>>

Rounded_Down(n) == 8 * (n \div 8)
Rounded_Not(n) == n
Rounded(n) == IF n % 8 # 0 THEN (n \div 8 + 1) * 8 ELSE n

Round(t) ==
  /\ pc[t] = "round"
  /\ size' = [size EXCEPT ![t] = Rounded(@)]
  /\ Goto(t, "check")
  /\ UNCHANGED <<cur, avail, mutex, ptr, want, blocks>>

(* A request that does not fit leaves with the null pointer. *)
TooLarge_NeedsRest(t) == avail <= size[t]
TooLarge(t) == avail < size[t]

Check(t) ==
  /\ pc[t] = "check"
  /\ \/ /\ TooLarge(t)
        /\ ptr' = [ptr EXCEPT ![t] = Null]
        /\ Goto(t, "unlock")
     \/ /\ ~TooLarge(t)
        /\ Goto(t, "take")
        /\ UNCHANGED ptr
  /\ UNCHANGED <<cur, avail, mutex, size, want, blocks>>

Take(t) ==
  /\ pc[t] = "take"
  /\ ptr' = [ptr EXCEPT ![t] = cur]
  /\ Goto(t, "bump")
  /\ UNCHANGED <<cur, avail, mutex, size, want, blocks>>

Bump(t) ==
  /\ pc[t] = "bump"
  /\ cur' = cur + size[t]
  /\ Goto(t, "shrink")
  /\ UNCHANGED <<avail, mutex, size, ptr, want, blocks>>

Shrink(t) ==
  /\ pc[t] = "shrink"
  /\ avail' = avail - size[t]
  /\ Goto(t, "unlock")
  /\ UNCHANGED <<cur, mutex, size, ptr, want, blocks>>

Unlock(t) ==
  /\ pc[t] = "unlock"
  /\ mutex' = NoTasklet
  /\ Goto(t, "return")
  /\ UNCHANGED <<cur, avail, size, ptr, want, blocks>>

(* The caller has its block, or null. *)
Return(t) ==
  /\ pc[t] = "return"
  /\ blocks' = IF ptr[t] = Null THEN blocks
               ELSE blocks \cup {[addr |-> ptr[t], len |-> want[t]]}
  /\ size' = [size EXCEPT ![t] = 0]
  /\ ptr' = [ptr EXCEPT ![t] = Waiting]
  /\ want' = [want EXCEPT ![t] = 0]
  /\ Goto(t, "idle")
  /\ UNCHANGED <<cur, avail, mutex>>

Step(t) ==
  \/ Lock(t) \/ Round(t) \/ Check(t) \/ Take(t) \/ Bump(t) \/ Shrink(t)
  \/ Unlock(t) \/ Return(t)

(* linear_mram_allocator_reset takes no lock: it is for a caller that is    *)
(* alone and gives up all blocks.  No operation of the DPU is one yet.     *)
Reset ==
  /\ \A t \in Tasklets : pc[t] = "idle"
  /\ cur' = Start
  /\ avail' = RegionSize
  /\ blocks' = {}
  /\ UNCHANGED <<mutex, pc, size, ptr, want>>

Next ==
  \/ \E t \in Tasklets : Step(t) \/ \E n \in Sizes : Call(t, n)
  \/ Reset

Spec == Init /\ [][Next]_vars

-----------------------------------------------------------------------------
(* Properties.                                                             *)

(* The block tasklet t has been given and is about to return with. *)
Holds(t) == pc[t] \in {"shrink", "unlock", "return"} /\ ptr[t] # Null
Block(t) == [addr |-> ptr[t], len |-> want[t]]

Inside(b)   == Start <= b.addr /\ b.addr + b.len <= Start + RegionSize
Apart(a, b) == a.addr + a.len <= b.addr \/ b.addr + b.len <= a.addr

(* No two blocks share a byte, and none leaves the region, whatever the     *)
(* order in which tasklets ask and are served.                             *)
BlocksApart ==
  /\ \A b \in blocks : Inside(b)
  /\ \A a, b \in blocks : a # b => Apart(a, b)
  /\ \A t \in Tasklets : Holds(t) =>
       /\ Inside(Block(t))
       /\ \A b \in blocks : Apart(Block(t), b)
       /\ \A u \in Tasklets \ {t} : Holds(u) => Apart(Block(t), Block(u))

(* A block is a multiple of 8 bytes from the start of the region, as a DMA  *)
(* transfer needs it.                                                      *)
BlocksAligned ==
  /\ \A b \in blocks : (b.addr - Start) % 8 = 0
  /\ \A t \in Tasklets : Holds(t) => (ptr[t] - Start) % 8 = 0

(* A request is refused only if the region cannot hold it any more.         *)
NullMeansFull ==
  \A t \in Tasklets :
    ptr[t] = Null => cur + Rounded(want[t]) > Start + RegionSize

(* The allocator serves requests one at a time, as Arena says.  A request   *)
(* is served when cur moves on or when it is found too large.              *)
Got == [t \in Tasklets |-> IF pc[t] \in {"shrink", "unlock", "return"}
                             THEN ptr[t] ELSE Waiting]

Abstract == INSTANCE Arena WITH next <- cur, want <- want, got <- Got

ImplementsArena == Abstract!ASpec

-----------------------------------------------------------------------------
(* The inductive invariant the safety properties follow from.              *)

Critical == {"round", "check", "take", "bump", "shrink", "unlock"}

(* Where tasklet t is with its request. *)
Request(t) ==
  /\ pc[t] \in Critical <=> mutex = t
  /\ pc[t] = "idle" <=> want[t] = 0
  /\ pc[t] \in {"lock", "round"} => size[t] = want[t]
  /\ pc[t] \in (Critical \cup {"return"}) \ {"round"} => size[t] = Rounded(want[t])
  /\ pc[t] \in {"idle", "lock", "round", "check", "take"} <=> ptr[t] = Waiting
  /\ pc[t] \in {"take", "bump", "shrink"} => size[t] <= avail
  /\ pc[t] = "bump" => ptr[t] = cur
  /\ pc[t] = "shrink" => ptr[t] + size[t] = cur
  /\ ptr[t] = Null => avail < size[t] /\ pc[t] \in {"unlock", "return"}
  /\ Holds(t) => Start <= ptr[t] /\ ptr[t] + size[t] <= cur

(* cur and avail_size add up, but for the moment between their updates. *)
Balance ==
  cur + avail = Start + RegionSize
                  + (IF mutex # NoTasklet /\ pc[mutex] = "shrink" THEN size[mutex] ELSE 0)

IndInv ==
  /\ TypeOK
  /\ Balance
  /\ Start <= cur /\ (cur - Start) % 8 = 0
  /\ \A b \in blocks : b.addr + b.len <= cur
  /\ \A t \in Tasklets : Request(t)
  /\ BlocksApart
  /\ BlocksAligned
=============================================================================
