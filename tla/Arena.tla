-------------------------------- MODULE Arena --------------------------------
(***************************************************************************)
(* What linear_mram_alloc promises: a request is served at one moment, in  *)
(* which it is given the next bytes of the region, its size rounded up to  *)
(* the 8 bytes MRAM transfers need, or the null pointer if the region      *)
(* cannot hold it any more.  Blocks are only given back all at once, while *)
(* nobody has a request.                                                   *)
(***************************************************************************)
EXTENDS Integers

CONSTANTS
  Tasklets,   \* those that allocate
  Sizes,      \* sizes they ask for
  Start,      \* first address of the region
  RegionSize  \* bytes of the region

VARIABLES
  next,    \* first address that was not given out
  want,    \* size a tasklet has asked for, 0 if it has no request
  got      \* address a tasklet was served, Waiting before it is

Null    == 0
Waiting == -1

RoundUp(n) == 8 * ((n + 7) \div 8)

AInit ==
  /\ next = Start
  /\ want = [t \in Tasklets |-> 0]
  /\ got = [t \in Tasklets |-> Waiting]

Ask(t, n) ==
  /\ want[t] = 0
  /\ want' = [want EXCEPT ![t] = n]
  /\ UNCHANGED <<next, got>>

Serve(t) ==
  /\ want[t] # 0 /\ got[t] = Waiting
  /\ \/ /\ next + RoundUp(want[t]) <= Start + RegionSize
        /\ got' = [got EXCEPT ![t] = next]
        /\ next' = next + RoundUp(want[t])
     \/ /\ next + RoundUp(want[t]) > Start + RegionSize
        /\ got' = [got EXCEPT ![t] = Null]
        /\ UNCHANGED next
  /\ UNCHANGED want

Return(t) ==
  /\ want[t] # 0 /\ got[t] # Waiting
  /\ want' = [want EXCEPT ![t] = 0]
  /\ got' = [got EXCEPT ![t] = Waiting]
  /\ UNCHANGED next

Clear ==
  /\ \A t \in Tasklets : want[t] = 0
  /\ next' = Start
  /\ UNCHANGED <<want, got>>

ANext ==
  \/ \E t \in Tasklets : Serve(t) \/ Return(t) \/ \E n \in Sizes : Ask(t, n)
  \/ Clear

ASpec == AInit /\ [][ANext]_<<next, want, got>>
=============================================================================
