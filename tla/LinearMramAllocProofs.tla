------------------------ MODULE LinearMramAllocProofs ------------------------
(***************************************************************************)
(* Proofs about the bump allocator, for any number of tasklets, any sizes  *)
(* and any region.                                                         *)
(***************************************************************************)
EXTENDS LinearMramAlloc, TLAPS

(* Rounding keeps a size whole, adds less than 8 bytes and gives a multiple *)
(* of 8; Arena's formula says the same.                                    *)
LEMMA RoundedFacts ==
  ASSUME NEW n \in Nat \ {0}
  PROVE  /\ Rounded(n) \in Nat /\ n <= Rounded(n) /\ Rounded(n) < n + 8
         /\ Rounded(n) % 8 = 0
         /\ Abstract!RoundUp(n) = Rounded(n)
<1>1. n \in Nat /\ n \div 8 \in Nat
  OBVIOUS
<1>2. CASE n % 8 = 0
  <2>1. Rounded(n) = n
    BY <1>2 DEF Rounded
  <2>2. (n + 7) \div 8 = n \div 8
    BY <1>1, <1>2
  <2>3. 8 * (n \div 8) = n
    BY <1>1, <1>2
  <2> QED BY <1>1, <1>2, <2>1, <2>2, <2>3 DEF Abstract!RoundUp
<1>3. CASE n % 8 # 0
  <2>1. Rounded(n) = (n \div 8 + 1) * 8
    BY <1>3 DEF Rounded
  <2>2. (n + 7) \div 8 = n \div 8 + 1
    BY <1>1, <1>3
  <2>3. 8 * (n \div 8) < n /\ n < 8 * (n \div 8) + 8
    BY <1>1, <1>3
  <2>4. (8 * (n \div 8 + 1)) % 8 = 0
    BY <1>1
  <2>5. (n \div 8 + 1) * 8 = 8 * (n \div 8 + 1)
    BY <1>1
  <2> QED BY <1>1, <2>1, <2>2, <2>3, <2>4, <2>5 DEF Abstract!RoundUp
<1> QED BY <1>2, <1>3

(* Addresses stay aligned when a rounded size is added. *)
LEMMA AlignedSum ==
  ASSUME NEW a \in Nat, NEW n \in Nat, a % 8 = 0, n % 8 = 0
  PROVE  (a + n) % 8 = 0
OBVIOUS

(* A size that was asked for is positive. *)
LEMMA Asked ==
  ASSUME TypeOK, NEW t \in Tasklets, want[t] # 0
  PROVE  want[t] \in Sizes /\ want[t] \in Nat \ {0}
BY ArenaAssumption DEF TypeOK

LEMMA InitInv == Init => IndInv
<1> SUFFICES ASSUME Init PROVE IndInv
  OBVIOUS
<1>1. TypeOK
  BY ArenaAssumption DEF Init, TypeOK, Labels
<1>2. Balance
  BY ArenaAssumption DEF Init, Balance
<1>3. (cur - Start) % 8 = 0
  BY ArenaAssumption DEF Init
<1>4. ASSUME NEW t \in Tasklets PROVE Request(t)
  <2>1. /\ pc[t] = "idle" /\ mutex # t /\ want[t] = 0
        /\ ptr[t] = Waiting /\ ptr[t] # Null
    BY ArenaAssumption DEF Init, Waiting, Null
  <2> QED BY <2>1 DEF Request, Holds, Critical
<1>5. BlocksApart /\ BlocksAligned
  BY DEF Init, BlocksApart, BlocksAligned, Holds
<1> QED BY <1>1, <1>2, <1>3, <1>4, <1>5, ArenaAssumption DEF IndInv, Init

LEMMA TypeInv ==
  ASSUME IndInv, NEW t \in Tasklets, Step(t) \/ (\E n \in Sizes : Call(t, n))
  PROVE  TypeOK'
<1> USE DEF IndInv, TypeOK
<1>2. ASSUME NEW n \in Sizes, Call(t, n) PROVE TypeOK'
  BY <1>2, ArenaAssumption DEF Call, Goto, Labels
<1>3. CASE Lock(t)
  BY <1>3 DEF Lock, Goto, Labels
<1>4. CASE Round(t)
  <2>1. want[t] \in Nat \ {0} /\ size[t] = want[t]
    BY <1>4, Asked DEF Round, Request
  <2>2. Rounded(size[t]) \in Nat
    BY <2>1, RoundedFacts
  <2> QED BY <1>4, <2>2 DEF Round, Goto, Labels
<1>5. CASE Check(t)
  BY <1>5 DEF Check, Goto, Labels, Null
<1>6. CASE Take(t)
  BY <1>6 DEF Take, Goto, Labels
<1>7. CASE Bump(t)
  BY <1>7 DEF Bump, Goto, Labels
<1>8. CASE Shrink(t)
  BY <1>8 DEF Shrink, Goto, Labels, Request
<1>9. CASE Unlock(t)
  BY <1>9 DEF Unlock, Goto, Labels
<1>10. CASE Return(t)
  <2>1. want[t] \in Sizes /\ ptr[t] \in Nat
    BY <1>10, Asked DEF Return, Request, Waiting
  <2> QED BY <1>10, <2>1 DEF Return, Goto, Labels, Waiting
<1> QED BY <1>2, <1>3, <1>4, <1>5, <1>6, <1>7, <1>8, <1>9, <1>10 DEF Step

-----------------------------------------------------------------------------
(* The step of one tasklet and the requests of the others.  Only the holder *)
(* of the mutex changes the allocator, and whoever else has its block       *)
(* already is content with any later cur.                                  *)
LEMMA OtherRequests ==
  ASSUME IndInv, NEW t \in Tasklets, Step(t) \/ (\E n \in Sizes : Call(t, n)),
         NEW u \in Tasklets \ {t}
  PROVE  Request(u)'
<1> USE DEF IndInv, TypeOK, Goto
<1>1. /\ pc'[u] = pc[u] /\ size'[u] = size[u] /\ ptr'[u] = ptr[u] /\ want'[u] = want[u]
      /\ mutex' = u <=> mutex = u
  <2>1. Request(t) /\ u # NoTasklet /\ (mutex = u => pc[t] \notin Critical)
    BY ArenaAssumption DEF Request
  <2> QED BY <2>1 DEF Step, Call, Lock, MutexFree, Round, Check, Take, Bump, Shrink,
                      Unlock, Return, Critical
<1>2. CASE mutex = t
  <2>1. pc[u] \notin Critical
    BY <1>2 DEF Request
  <2>2. cur <= cur' /\ avail' <= avail /\ cur' \in Nat /\ avail' \in Nat
    <3>1. TypeOK' /\ size[t] \in Nat
      BY TypeInv
    <3> QED BY <3>1 DEF Step, Call, Lock, MutexFree, Round, Check, Take, Bump, Shrink,
                   Unlock, Return
  <2>3. Request(u) /\ size[u] \in Nat /\ ptr[u] \in Nat \cup {Waiting}
    OBVIOUS
  <2> QED BY <1>1, <2>1, <2>2, <2>3, ArenaAssumption DEF Request, Holds, Critical, Null, Waiting
<1>3. CASE mutex # t
  <2>1. pc[t] \notin Critical
    BY <1>3 DEF Request
  <2>2. cur' = cur /\ avail' = avail
    BY <2>1 DEF Step, Call, Lock, MutexFree, Round, Check, Take, Bump, Shrink,
                Unlock, Return, Critical
  <2> QED BY <1>1, <2>2 DEF Request, Holds
<1> QED BY <1>2, <1>3

(* The step of a tasklet and its own request. *)
LEMMA OwnRequest ==
  ASSUME IndInv, NEW t \in Tasklets, Step(t) \/ (\E n \in Sizes : Call(t, n))
  PROVE  Request(t)'
<1> USE DEF IndInv, TypeOK, Goto
<1>1. Request(t) /\ t # NoTasklet
  BY ArenaAssumption
<1>2. ASSUME NEW n \in Sizes, Call(t, n) PROVE Request(t)'
  <2>1. /\ pc'[t] = "lock" /\ pc[t] = "idle" /\ size'[t] = n /\ want'[t] = n /\ n # 0
        /\ ptr'[t] = ptr[t] /\ mutex' = mutex
    BY <1>2, ArenaAssumption DEF Call
  <2>2. ptr[t] = Waiting /\ ptr[t] # Null /\ mutex # t
    BY <1>1, <2>1 DEF Request, Holds, Critical, Waiting, Null
  <2> QED BY <2>1, <2>2 DEF Request, Holds, Critical
<1>3. CASE Lock(t)
  BY <1>1, <1>3 DEF Lock, Request, Holds, Critical, Waiting, Null
<1>4. CASE Round(t)
  BY <1>1, <1>4 DEF Round, Request, Holds, Critical, Waiting, Null
<1>5. CASE Check(t)
  BY <1>1, <1>5 DEF Check, TooLarge, Request, Holds, Critical, Waiting, Null
<1>6. CASE Take(t)
  BY <1>1, <1>6, ArenaAssumption DEF Take, Request, Holds, Critical, Waiting, Null
<1>7. CASE Bump(t)
  BY <1>1, <1>7 DEF Bump, Request, Holds, Critical, Waiting, Null
<1>8. CASE Shrink(t)
  BY <1>1, <1>8 DEF Shrink, Request, Holds, Critical, Waiting, Null
<1>9. CASE Unlock(t)
  BY <1>1, <1>9 DEF Unlock, Request, Holds, Critical, Waiting, Null
<1>10. CASE Return(t)
  BY <1>1, <1>10 DEF Return, Request, Holds, Critical, Waiting, Null
<1> QED BY <1>2, <1>3, <1>4, <1>5, <1>6, <1>7, <1>8, <1>9, <1>10 DEF Step

-----------------------------------------------------------------------------
(* cur and avail_size. *)
LEMMA BalanceInv ==
  ASSUME IndInv, NEW t \in Tasklets, Step(t) \/ (\E n \in Sizes : Call(t, n))
  PROVE  Balance' /\ (Start <= cur /\ (cur - Start) % 8 = 0)'
<1> USE DEF IndInv, TypeOK, Goto
<1>1. /\ Request(t) /\ t # NoTasklet /\ mutex \in Tasklets \cup {NoTasklet}
      /\ size[t] \in Nat /\ Start \in Nat /\ RegionSize \in Nat
      /\ cur \in Nat /\ avail \in Nat
  BY ArenaAssumption
<1>2. CASE Bump(t)
  <2>1. /\ mutex = t /\ mutex' = t /\ pc[t] = "bump" /\ pc'[t] = "shrink"
        /\ size' = size /\ avail' = avail /\ cur' = cur + size[t]
    BY <1>1, <1>2 DEF Bump, Request, Critical
  <2>2. want[t] \in Nat \ {0} /\ size[t] = Rounded(want[t])
    BY <1>1, <2>1, Asked DEF Request, Critical
  <2>3. size[t] % 8 = 0
    BY <2>2, RoundedFacts
  <2>4. cur - Start \in Nat /\ cur' - Start = (cur - Start) + size[t]
    BY <1>1, <2>1
  <2>5. (cur' - Start) % 8 = 0
    BY <1>1, <2>3, <2>4, AlignedSum
  <2>6. cur + avail = Start + RegionSize
    BY <1>1, <2>1 DEF Balance
  <2>7. mutex' # NoTasklet /\ pc'[mutex'] = "shrink" /\ size'[mutex'] = size[t]
    BY <1>1, <2>1
  <2>8. cur' + avail' = Start + RegionSize + size[t]
    <3> HIDE DEF IndInv, TypeOK
    <3> QED BY <1>1, <2>1, <2>6
  <2>9. Balance'
    BY <2>7, <2>8 DEF Balance
  <2> QED BY <1>1, <2>1, <2>5, <2>9
<1>3. CASE Shrink(t)
  <2>1. /\ mutex = t /\ mutex' = t /\ pc[t] = "shrink" /\ pc'[t] = "unlock"
        /\ cur' = cur /\ avail' = avail - size[t]
    BY <1>1, <1>3 DEF Shrink, Request, Critical
  <2> QED BY <1>1, <2>1 DEF Balance
<1>4. CASE ~Bump(t) /\ ~Shrink(t)
  <2>1. cur' = cur /\ avail' = avail
    BY <1>4 DEF Step, Call, Lock, Round, Check, Take, Unlock, Return
  <2>2. pc[t] # "shrink" /\ pc'[t] # "shrink"
    BY <1>4 DEF Step, Call, Lock, Round, Check, Take, Unlock, Return, Shrink, Bump
  <2>3. \/ mutex' = mutex
        \/ mutex = NoTasklet /\ mutex' = t
        \/ mutex = t /\ mutex' = NoTasklet
    BY <1>1, <1>4
       DEF Step, Call, Lock, MutexFree, Round, Check, Take, Unlock, Return, Request, Critical
  <2>4. \A u \in Tasklets \ {t} : pc'[u] = pc[u] /\ size'[u] = size[u]
    BY <1>4 DEF Step, Call, Lock, Round, Check, Take, Unlock, Return
  <2> QED BY <1>1, <2>1, <2>2, <2>3, <2>4, ArenaAssumption DEF Balance
<1> QED BY <1>2, <1>3, <1>4

(* A block that is moved on from the allocator lies between its start and   *)
(* cur.                                                                    *)
LEMMA HeldBelow ==
  ASSUME IndInv, NEW t \in Tasklets, Holds(t)
  PROVE  /\ ptr[t] \in Nat /\ want[t] \in Sizes /\ want[t] \in Nat
         /\ Start <= ptr[t] /\ ptr[t] + want[t] <= cur
<1>1. Request(t) /\ ptr[t] \in Nat \cup {Waiting} /\ want[t] \in Sizes \cup {0}
  BY DEF IndInv, TypeOK
<1>2. ptr[t] # Waiting /\ want[t] # 0 /\ size[t] = Rounded(want[t])
  BY <1>1 DEF Holds, Request, Critical
<1>3. want[t] \in Nat \ {0} /\ want[t] \in Sizes
  BY <1>2, Asked DEF IndInv
<1>4. Rounded(want[t]) \in Nat /\ want[t] <= Rounded(want[t])
  BY <1>3, RoundedFacts
<1> QED BY <1>1, <1>2, <1>3, <1>4 DEF Request, IndInv, TypeOK

(* A step that neither moves cur nor hands a block over leaves the blocks.  *)
LEMMA SameBlocks ==
  ASSUME IndInv, NEW t \in Tasklets,
         \/ \E n \in Sizes : Call(t, n)
         \/ Lock(t) \/ Round(t) \/ Check(t) \/ Take(t) \/ Shrink(t) \/ Unlock(t)
  PROVE  /\ blocks' = blocks /\ cur' = cur
         /\ \A u \in Tasklets : Holds(u)' <=> Holds(u)
         /\ \A u \in Tasklets : Holds(u) => ptr'[u] = ptr[u] /\ want'[u] = want[u]
<1> USE DEF IndInv, TypeOK, Goto, Holds
<1>1. blocks' = blocks /\ cur' = cur
  BY DEF Call, Lock, Round, Check, Take, Shrink, Unlock
<1>2. ASSUME NEW u \in Tasklets \ {t}
      PROVE  pc'[u] = pc[u] /\ ptr'[u] = ptr[u] /\ want'[u] = want[u]
  BY DEF Call, Lock, Round, Check, Take, Shrink, Unlock
<1>3. (Holds(t)' <=> Holds(t)) /\ (Holds(t) => ptr'[t] = ptr[t] /\ want'[t] = want[t])
  <2>1. Request(t)
    OBVIOUS
  <2> QED BY <2>1 DEF Call, Lock, Round, Check, Take, Shrink, Unlock, Request, Critical,
                      Waiting, Null
<1> QED BY <1>1, <1>2, <1>3

BlocksBelow == \A b \in blocks : b.addr + b.len <= cur

LEMMA BlocksInv ==
  ASSUME IndInv, NEW t \in Tasklets, Step(t) \/ (\E n \in Sizes : Call(t, n))
  PROVE  BlocksApart' /\ BlocksAligned' /\ BlocksBelow'
<1>0. /\ BlocksApart /\ BlocksAligned /\ BlocksBelow /\ Request(t)
      /\ cur \in Nat /\ avail \in Nat /\ Start \in Nat /\ RegionSize \in Nat
      /\ \A b \in blocks : b.addr \in Nat /\ b.len \in Nat
  BY ArenaAssumption DEF IndInv, TypeOK, BlocksBelow
<1>1. CASE ~Bump(t) /\ ~Return(t)
  <2>1. /\ blocks' = blocks /\ cur' = cur
        /\ \A u \in Tasklets : Holds(u)' <=> Holds(u)
        /\ \A u \in Tasklets : Holds(u) => ptr'[u] = ptr[u] /\ want'[u] = want[u]
    BY <1>1, SameBlocks DEF Step
  <2>2. \A u \in Tasklets : Holds(u)' => Block(u)' = Block(u)
    BY <2>1 DEF Block
  <2>3. BlocksApart'
    BY <1>0, <2>1, <2>2 DEF BlocksApart, Inside, Apart
  <2> QED BY <1>0, <2>1, <2>3 DEF BlocksAligned, BlocksBelow
<1>2. CASE Bump(t)
  <2>1. /\ blocks' = blocks /\ ptr' = ptr /\ want' = want /\ cur' = cur + size[t]
        /\ pc' = [pc EXCEPT ![t] = "shrink"] /\ pc[t] = "bump" /\ mutex = t
    BY <1>0, <1>2 DEF Bump, Goto, Request, Critical
  <2>2. /\ ptr[t] = cur /\ want[t] \in Nat \ {0}
        /\ size[t] \in Nat /\ want[t] <= size[t] /\ size[t] <= avail
    <3>1. ptr[t] = cur /\ size[t] = Rounded(want[t]) /\ want[t] # 0 /\ size[t] <= avail
      BY <1>0, <2>1 DEF Request, Critical
    <3>2. want[t] \in Nat \ {0}
      BY <3>1, Asked DEF IndInv
    <3> QED BY <3>1, <3>2, RoundedFacts
  <2>3. cur + avail = Start + RegionSize /\ t # NoTasklet
    BY <1>0, <2>1, ArenaAssumption DEF IndInv, Balance
  <2>4. \A u \in Tasklets \ {t} : (Holds(u)' <=> Holds(u)) /\ Block(u)' = Block(u)
    BY <2>1 DEF Holds, Block, IndInv, TypeOK
  <2>5. Block(t)' = [addr |-> cur, len |-> want[t]]
    BY <2>1, <2>2 DEF Block
  <2>6. Inside(Block(t)')
    BY <1>0, <2>2, <2>3, <2>5 DEF Inside, IndInv
  <2>7. \A b \in blocks : Apart(Block(t)', b)
    BY <1>0, <2>5 DEF Apart, BlocksBelow
  <2>8. \A u \in Tasklets \ {t} : Holds(u) =>
          Apart(Block(t)', Block(u)) /\ Apart(Block(u), Block(t)')
    BY <1>0, <2>2, <2>5, HeldBelow DEF Apart, Block
  <2>9. BlocksApart'
    BY <1>0, <2>1, <2>4, <2>6, <2>7, <2>8 DEF BlocksApart, Inside, Apart
  <2>10. BlocksAligned'
    BY <1>0, <2>1, <2>2, <2>4 DEF BlocksAligned, IndInv
  <2>11. BlocksBelow'
    BY <1>0, <2>1, <2>2 DEF BlocksBelow
  <2> QED BY <2>9, <2>10, <2>11
<1>3. CASE Return(t)
  <2>1. /\ cur' = cur /\ ~Holds(t)' /\ pc[t] = "return"
        /\ blocks' = IF Holds(t) THEN blocks \cup {Block(t)} ELSE blocks
    BY <1>3 DEF Return, Goto, Holds, Block, IndInv, TypeOK
  <2>2. \A u \in Tasklets \ {t} : (Holds(u)' <=> Holds(u)) /\ Block(u)' = Block(u)
                                  /\ ptr'[u] = ptr[u]
    BY <1>3 DEF Return, Goto, Holds, Block, IndInv, TypeOK
  <2>3. BlocksApart'
    <3>1. ASSUME NEW b \in blocks' PROVE Inside(b)
      BY <1>0, <2>1 DEF BlocksApart
    <3>2. ASSUME NEW a \in blocks', NEW b \in blocks', a # b PROVE Apart(a, b)
      BY <1>0, <2>1, <3>2 DEF BlocksApart, Apart
    <3>3. ASSUME NEW u \in Tasklets \ {t}, Holds(u)
          PROVE  /\ Inside(Block(u))
                 /\ \A b \in blocks' : Apart(Block(u), b)
                 /\ \A v \in Tasklets \ {t, u} : Holds(v) => Apart(Block(u), Block(v))
      BY <1>0, <2>1, <3>3 DEF BlocksApart
    <3>4. \A u \in Tasklets : Holds(u)' => u # t
      BY <2>1
    <3>5. \A u \in Tasklets : Holds(u)' => Holds(u) /\ Block(u)' = Block(u)
      BY <2>2, <3>4
    <3> QED BY <3>1, <3>2, <3>3, <3>4, <3>5 DEF BlocksApart, Inside, Apart
  <2>4. BlocksAligned'
    <3>1. ASSUME NEW b \in blocks' PROVE (b.addr - Start) % 8 = 0
      BY <1>0, <2>1 DEF BlocksAligned, Block
    <3>2. ASSUME NEW u \in Tasklets, Holds(u)' PROVE (ptr'[u] - Start) % 8 = 0
      <4>1. u # t
        BY <2>1, <3>2
      <4>2. Holds(u) /\ ptr'[u] = ptr[u]
        BY <2>2, <3>2, <4>1
      <4> QED BY <1>0, <4>2 DEF BlocksAligned
    <3> QED BY <3>1, <3>2 DEF BlocksAligned
  <2>5. BlocksBelow'
    BY <1>0, <2>1, HeldBelow DEF BlocksBelow, Block
  <2> QED BY <2>3, <2>4, <2>5
<1> QED BY <1>1, <1>2, <1>3

-----------------------------------------------------------------------------
(* A reset: no tasklet has a request, and no block is left. *)
LEMMA ResetInv ==
  ASSUME IndInv, Reset
  PROVE  IndInv'
<1> USE DEF IndInv, TypeOK
<1>1. /\ cur' = Start /\ avail' = RegionSize /\ blocks' = {}
      /\ pc' = pc /\ size' = size /\ ptr' = ptr /\ want' = want /\ mutex' = mutex
      /\ \A t \in Tasklets : pc[t] = "idle"
  BY DEF Reset
<1>2. TypeOK'
  BY <1>1, ArenaAssumption DEF Labels
<1>3. Balance'
  BY <1>1, ArenaAssumption DEF Balance
<1>4. (Start <= cur /\ (cur - Start) % 8 = 0)'
  BY <1>1, ArenaAssumption
<1>5. ASSUME NEW t \in Tasklets PROVE Request(t)'
  <2>1. Request(t) /\ ptr[t] # Null
    BY <1>1 DEF Request, Waiting, Null
  <2> QED BY <1>1, <2>1 DEF Request, Holds, Critical
<1>6. BlocksApart' /\ BlocksAligned'
  BY <1>1 DEF BlocksApart, BlocksAligned, Holds
<1> QED BY <1>1, <1>2, <1>3, <1>4, <1>5, <1>6

-----------------------------------------------------------------------------
(* Results.                                                                *)

(* The inductive invariant holds in every state: the fields of the          *)
(* allocator, the mutex and every tasklet's registers agree.               *)
THEOREM Invariance == Spec => []IndInv
<1>1. IndInv /\ [Next]_vars => IndInv'
  <2> SUFFICES ASSUME IndInv, [Next]_vars PROVE IndInv'
    OBVIOUS
  <2>1. CASE \E t \in Tasklets : Step(t) \/ \E n \in Sizes : Call(t, n)
    <3>1. PICK t \in Tasklets : Step(t) \/ \E n \in Sizes : Call(t, n)
      BY <2>1
    <3>2. TypeOK'
      BY <3>1, TypeInv
    <3>3. \A u \in Tasklets : Request(u)'
      BY <3>1, OwnRequest, OtherRequests
    <3>4. Balance' /\ (Start <= cur /\ (cur - Start) % 8 = 0)'
      BY <3>1, BalanceInv
    <3>5. BlocksApart' /\ BlocksAligned' /\ BlocksBelow'
      BY <3>1, BlocksInv
    <3> QED BY <3>2, <3>3, <3>4, <3>5 DEF IndInv, BlocksBelow
  <2>2. CASE UNCHANGED vars
    BY <2>2 DEF vars, IndInv, TypeOK, Balance, Request, Holds, Block, BlocksApart,
                BlocksAligned, Inside, Apart
  <2>3. CASE Reset
    BY <2>3, ResetInv
  <2> QED BY <2>1, <2>2, <2>3 DEF Next
<1> QED BY InitInv, <1>1, PTL DEF Spec

(* The fields of the allocator stay in their types: avail_size, an unsigned *)
(* number in linear_mram_alloc, never wraps below zero.                     *)
THEOREM TypeCorrect == Spec => []TypeOK
<1>1. IndInv => TypeOK
  BY DEF IndInv
<1> QED BY Invariance, <1>1, PTL

(* No block overlaps another or leaves the region, for any number of        *)
(* tasklets that call linear_mram_alloc.                                   *)
THEOREM BlocksDisjoint == Spec => []BlocksApart
<1>1. IndInv => BlocksApart
  BY DEF IndInv
<1> QED BY Invariance, <1>1, PTL

(* linear_mram_alloc answers null only when the region is spent.            *)
THEOREM RefusalJustified == Spec => []NullMeansFull
<1>1. ASSUME IndInv PROVE NullMeansFull
  <2> SUFFICES ASSUME NEW t \in Tasklets, ptr[t] = Null
               PROVE  cur + Rounded(want[t]) > Start + RegionSize
    BY DEF NullMeansFull
  <2>1. Request(t) /\ size[t] \in Nat /\ cur \in Nat /\ avail \in Nat
    BY <1>1 DEF IndInv, TypeOK
  <2>2. avail < size[t] /\ size[t] = Rounded(want[t]) /\ pc[t] \in {"unlock", "return"}
    BY <2>1 DEF Request, Critical
  <2>3. cur + avail >= Start + RegionSize
    BY <1>1, ArenaAssumption DEF IndInv, TypeOK, Balance
  <2> QED BY <2>1, <2>2, <2>3, ArenaAssumption
<1> QED BY Invariance, <1>1, PTL

(* One step of the allocator is a step of the arena or none. *)
LEMMA StepRefines ==
  ASSUME IndInv, NEW t \in Tasklets, Step(t) \/ (\E n \in Sizes : Call(t, n))
  PROVE  Abstract!ANext \/ UNCHANGED <<cur, want, Got>>
<1> USE DEF Goto
<1>0. /\ Request(t) /\ cur \in Nat /\ avail \in Nat /\ Start \in Nat /\ RegionSize \in Nat
      /\ pc \in [Tasklets -> Labels] /\ ptr \in [Tasklets -> Nat \cup {Waiting}]
      /\ want \in [Tasklets -> Sizes \cup {0}]
  BY ArenaAssumption DEF IndInv, TypeOK
<1>1. ASSUME NEW n \in Sizes, Call(t, n) PROVE Abstract!ANext
  <2>1. want[t] = 0 /\ Got' = Got
    BY <1>0, <1>1 DEF Call, Request, Got
  <2>2. Abstract!Ask(t, n)
    BY <1>1, <2>1 DEF Call, Abstract!Ask
  <2> QED BY <2>2 DEF Abstract!ANext
<1>2. CASE Lock(t) \/ Round(t) \/ Take(t) \/ Shrink(t) \/ Unlock(t)
  <2>1. cur' = cur /\ want' = want
    BY <1>2 DEF Lock, Round, Take, Shrink, Unlock
  <2>2. Got' = Got
    BY <1>0, <1>2 DEF Lock, Round, Take, Shrink, Unlock, Got
  <2> QED BY <2>1, <2>2
<1>3. CASE Check(t) \/ Bump(t)
  <2>1. /\ want[t] # 0 /\ size[t] = Rounded(want[t]) /\ size[t] \in Nat
        /\ mutex = t /\ t # NoTasklet /\ pc[t] \in {"check", "bump"}
    BY <1>0, <1>3, ArenaAssumption DEF Check, Bump, Request, Critical, IndInv, TypeOK
  <2>2. Abstract!RoundUp(want[t]) = size[t]
    BY <2>1, Asked, RoundedFacts DEF IndInv
  <2>3. cur + avail = Start + RegionSize
    BY <1>0, <2>1 DEF IndInv, Balance
  <2>4. Got[t] = Abstract!Waiting
    BY <2>1 DEF Got, Waiting, Abstract!Waiting
  <2>5. CASE Check(t) /\ ~TooLarge(t)
    <3>1. cur' = cur /\ want' = want /\ Got' = Got
      BY <1>0, <2>5 DEF Check, Got
    <3> QED BY <3>1
  <2>6. CASE Check(t) /\ TooLarge(t)
    <3>1. Got' = [Got EXCEPT ![t] = Abstract!Null] /\ cur' = cur /\ want' = want
      BY <1>0, <2>6 DEF Check, Got, Null, Abstract!Null
    <3>2. cur + Abstract!RoundUp(want[t]) > Start + RegionSize
      BY <1>0, <2>1, <2>2, <2>3, <2>6 DEF TooLarge
    <3>3. Abstract!Serve(t)
      BY <2>1, <2>4, <3>1, <3>2 DEF Abstract!Serve
    <3> QED BY <3>3 DEF Abstract!ANext
  <2>7. CASE Bump(t)
    <3>1. ptr[t] = cur /\ size[t] <= avail
      BY <1>0, <2>7 DEF Bump, Request
    <3>2. Got' = [Got EXCEPT ![t] = cur] /\ cur' = cur + size[t] /\ want' = want
      BY <1>0, <2>7, <3>1 DEF Bump, Got
    <3>3. cur + Abstract!RoundUp(want[t]) <= Start + RegionSize
      BY <1>0, <2>1, <2>2, <2>3, <3>1
    <3>4. Abstract!Serve(t)
      BY <2>1, <2>2, <2>4, <3>2, <3>3 DEF Abstract!Serve
    <3> QED BY <3>4 DEF Abstract!ANext
  <2> QED BY <1>3, <2>5, <2>6, <2>7
<1>4. CASE Return(t)
  <2>1. want[t] # 0 /\ Got[t] # Abstract!Waiting
    BY <1>0, <1>4 DEF Return, Request, Got, Waiting, Abstract!Waiting
  <2>2. /\ Got' = [Got EXCEPT ![t] = Abstract!Waiting]
        /\ want' = [want EXCEPT ![t] = 0] /\ cur' = cur
    BY <1>0, <1>4 DEF Return, Got, Waiting, Abstract!Waiting
  <2>3. Abstract!Return(t)
    BY <2>1, <2>2 DEF Abstract!Return
  <2> QED BY <2>3 DEF Abstract!ANext
<1> QED BY <1>1, <1>2, <1>3, <1>4 DEF Step

(* The allocator is an arena that serves one request at a time.             *)
THEOREM Refinement == Spec => ImplementsArena
<1>1. Init => Abstract!AInit
  BY DEF Init, Abstract!AInit, Waiting, Abstract!Waiting, Got
<1>2. IndInv /\ [Next]_vars => [Abstract!ANext]_<<cur, want, Got>>
  <2> SUFFICES ASSUME IndInv, [Next]_vars
               PROVE  Abstract!ANext \/ UNCHANGED <<cur, want, Got>>
    OBVIOUS
  <2>1. CASE \E t \in Tasklets : Step(t) \/ \E n \in Sizes : Call(t, n)
    BY <2>1, StepRefines
  <2>2. CASE UNCHANGED vars
    BY <2>2 DEF vars, Got
  <2>3. CASE Reset
    <3>1. \A t \in Tasklets : want[t] = 0
      BY <2>3 DEF Reset, IndInv, Request
    <3> QED BY <2>3, <3>1 DEF Reset, Got, Abstract!Clear, Abstract!ANext
  <2> QED BY <2>1, <2>2, <2>3 DEF Next
<1> QED BY Invariance, <1>1, <1>2, PTL DEF Spec, ImplementsArena, Abstract!ASpec
=============================================================================
