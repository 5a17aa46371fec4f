--------------------------- MODULE IndexManagerProofs ---------------------------
(***************************************************************************)
(* Proofs about the index manager, for any number of client threads, sets, *)
(* ids and calls.                                                          *)
(***************************************************************************)
EXTENDS IndexManager, FiniteSetTheorems, SequenceTheorems, TLAPS

Entry == [id : Ids, set : Sets]
Index == [id : Ids, vals : SUBSET Vals]

(* What does not change the map keeps every index where it is, ... *)
LEMMA SameMap ==
  ASSUME map' = map
  PROVE  /\ \A id : Find(id)' = Find(id)
         /\ \A s : Registered(s)' = Registered(s)
         /\ Known' = Known
BY DEF Find, Range, Registered, Known

(* ... and what does not change the DPUs keeps what they hold. *)
LEMMA SameTables ==
  ASSUME dpus' = dpus
  PROVE  /\ \A s : Created(s)' = Created(s)
         /\ \A s, id : SlotsOf(s, id)' = SlotsOf(s, id)
         /\ \A i, s, id : IsFirst(i, s, id)' = IsFirst(i, s, id)
BY DEF Created, SlotsOf, IsFirst

LEMMA CallTypes ==
  ASSUME TypeOK, NEW t \in Threads, call[t] # NoQuery
  PROVE  /\ call[t] \in Query /\ call[t].id \in Ids /\ call[t].val \in Vals
         /\ call[t].op \in Ops
BY DEF TypeOK, ThreadsOK, Query

LEMMA FindTypes ==
  ASSUME TypeOK, MapInv, NEW id \in Ids
  PROVE  /\ Hash[id] \in DOMAIN map /\ map[Hash[id]] \in Seq(Entry)
         /\ Find(id) \subseteq Entry
<1>1. Hash[id] \in DOMAIN map
  BY DEF MapInv, EmptyMap
<1>2. map[Hash[id]] \in Seq(Entry)
  BY <1>1 DEF TypeOK, ManagerOK, Entry
<1>3. Range(map[Hash[id]]) \subseteq Entry
  BY <1>2, ElementOfSeq DEF Range
<1> QED BY <1>1, <1>2, <1>3 DEF Find

LEMMA DpusTypes ==
  ASSUME SetsOK
  PROVE  /\ dpus \in [Sets -> Seq(Index)]
         /\ \A s \in Sets : /\ Len(dpus[s]) \in Nat /\ DOMAIN dpus[s] = 1..Len(dpus[s])
                           /\ \A i \in DOMAIN dpus[s] : dpus[s][i] \in Index
<1>1. dpus \in [Sets -> Seq(Index)]
  BY DEF SetsOK, Index
<1>2. ASSUME NEW s \in Sets
      PROVE  /\ Len(dpus[s]) \in Nat /\ DOMAIN dpus[s] = 1..Len(dpus[s])
             /\ \A i \in DOMAIN dpus[s] : dpus[s][i] \in Index
  <2>1. dpus[s] \in Seq(Index)
    BY <1>1
  <2>2. Len(dpus[s]) \in Nat /\ DOMAIN dpus[s] = 1..Len(dpus[s])
    BY <2>1, LenProperties
  <2> QED BY <2>1, <2>2, ElementOfSeq
<1> QED BY <1>1, <1>2

(* A set that is locked belongs to one thread. *)
LEMMA OneOnSet ==
  ASSUME TypeOK, LockInv, NEW t \in Threads, NEW u \in Threads, NEW s \in Sets,
         set[t] = s, set[u] = s,
         pc[t] \in {"count", "build", "run", "pull", "merge", "leave"},
         pc[u] \in {"count", "build", "run", "pull", "merge", "leave"}
  PROVE  t = u
BY DEF LockInv, LockOK

(* Types of the variables a step does not change. *)
LEMMA SameManager == ManagerOK /\ UNCHANGED manager => ManagerOK'
BY DEF ManagerOK, manager

LEMMA SameSets == SetsOK /\ UNCHANGED sets => SetsOK'
BY DEF SetsOK, sets

LEMMA InitInv == Init => IndInv
<1> SUFFICES ASSUME Init PROVE IndInv
  OBVIOUS
<1> USE ManagerAssumption DEF Init, PoolInit, ManagerInit
<1>1. \A id \in Ids : Find(id) = {}
  BY DEF Find, Range, EmptyMap
<1>2. Known = {} /\ \A s \in Sets : Registered(s) = {}
  BY <1>1 DEF Known, Registered
<1>3. \A s \in Sets : Created(s) = {}
  BY DEF Created
<1>4. TypeOK
  BY DEF TypeOK, ManagerOK, SetsOK, ThreadsOK, EmptyMap, Labels, Query, Sets
<1>5. LockInv
  BY DEF LockInv, LockOK
<1>6. CallInv
  BY DEF CallInv, CallOK, OnSet
<1>7. MapInv
  <2>1. IsFiniteSet({}) /\ Cardinality({}) = 0
    BY FS_EmptySet
  <2>2. \A s \in Sets : Reserved(s) = 0 /\ nr[s] = 0
    BY DEF Reserved
  <2>3. ASSUME NEW s \in Sets
        PROVE  IsFiniteSet(Registered(s)) /\ Cardinality(Registered(s)) + Reserved(s) <= nr[s]
    <3>1. Registered(s) = {} /\ Reserved(s) = 0 /\ nr[s] = 0
      BY <1>2, <2>2
    <3>2. IsFiniteSet(Registered(s)) /\ Cardinality(Registered(s)) = 0
      BY <2>1, <3>1
    <3> HIDE DEF Init, PoolInit, ManagerInit
    <3> QED BY <3>1, <3>2
  <2>4. IsFiniteSet(Known) /\ nrIndex = Cardinality(Known)
    BY <1>2, <2>1
  <2>5. DOMAIN map = DOMAIN EmptyMap
    OBVIOUS
  <2> QED BY <1>1, <2>3, <2>4, <2>5 DEF MapInv
<1>8. TableInv
  <2>1. IsFiniteSet({}) /\ Cardinality({}) = 0
    BY FS_EmptySet
  <2>2. \A s \in Sets : dpus[s] = <<>> /\ Len(dpus[s]) = 0 /\ DOMAIN dpus[s] = {}
    OBVIOUS
  <2>3. \A t \in Threads : ~Creating(t)
    BY DEF Creating
  <2> QED BY <1>3, <2>1, <2>2, <2>3 DEF TableInv
<1>9. ResultInv
  BY DEF ResultInv, ResultOK
<1> QED BY <1>4, <1>5, <1>6, <1>7, <1>8, <1>9 DEF IndInv

-----------------------------------------------------------------------------
(* What steps of one thread leave alone.                                   *)

Others(t) ==
  \A u \in Threads \ {t} :
    /\ pc'[u] = pc[u] /\ call'[u] = call[u] /\ set'[u] = set[u]
    /\ vals'[u] = vals[u] /\ late'[u] = late[u] /\ seen'[u] = seen[u]

LEMMA MapFrame ==
  ASSUME IndInv, UNCHANGED <<map, nrIndex>>,
         \A s \in Sets : nr'[s] \in Nat /\ Reserved(s)' + nr[s] <= Reserved(s) + nr'[s]
  PROVE  MapInv'
<1>1. /\ \A id : Find(id)' = Find(id)
      /\ \A s : Registered(s)' = Registered(s)
      /\ Known' = Known
  BY SameMap
<1>2. ASSUME NEW s \in Sets
      PROVE  IsFiniteSet(Registered(s)') /\ Cardinality(Registered(s)') + Reserved(s)' <= nr'[s]
  <2>1. Reserved(s) \in Nat /\ Reserved(s)' \in Nat
    BY DEF Reserved
  <2>2. IsFiniteSet(Registered(s)) /\ Cardinality(Registered(s)) + Reserved(s) <= nr[s]
    BY DEF IndInv, MapInv
  <2>3. Cardinality(Registered(s)) \in Nat /\ nr[s] \in Nat
    BY <2>2, FS_CardinalityType, ManagerAssumption DEF IndInv, TypeOK, SetsOK
  <2> QED BY <1>1, <2>1, <2>2, <2>3
<1>3. DOMAIN map' = DOMAIN EmptyMap
  BY DEF IndInv, MapInv
<1>4. \A id \in Ids : \A e, f \in Find(id)' : e = f
  BY <1>1 DEF IndInv, MapInv
<1>5. IsFiniteSet(Known') /\ nrIndex' = Cardinality(Known')
  BY <1>1 DEF IndInv, MapInv
<1> QED BY <1>2, <1>3, <1>4, <1>5 DEF MapInv, EmptyMap

(* Most steps do not touch a counter or reserve a slot. *)
LEMMA NoSlot ==
  ASSUME IndInv, NEW t \in Threads, Others(t), pc'[t] # "register",
         UNCHANGED <<map, nrIndex, nr>>
  PROVE  MapInv'
<1>1. \A s \in Sets : nr[s] \in Nat
  BY ManagerAssumption DEF IndInv, TypeOK, SetsOK
<1>2. \A s \in Sets : Reserved(s)' <= Reserved(s) /\ Reserved(s) \in Nat /\ Reserved(s)' \in Nat
  BY DEF Reserved, Others
<1> QED BY <1>1, <1>2, MapFrame

LEMMA CallFrame ==
  ASSUME IndInv, NEW t \in Threads, Others(t),
         \A s \in Sets : Registered(s) \subseteq Registered(s)',
         created \subseteq created',
         \A u \in Threads \ {t} :
           pc[u] \in {"run", "pull", "merge", "leave"} => push'[set[u]] = push[set[u]],
         CallOK(t)'
  PROVE  CallInv'
<1> SUFFICES ASSUME NEW u \in Threads \ {t} PROVE CallOK(u)'
  BY DEF CallInv
<1>1. /\ pc'[u] = pc[u] /\ call'[u] = call[u] /\ set'[u] = set[u] /\ late'[u] = late[u]
  BY DEF Others
<1>2. CallOK(u)
  BY DEF IndInv, CallInv
<1>3. pc[u] \in OnSet => (call[u].id \in Registered(set[u]))'
  BY <1>1, <1>2 DEF CallOK
<1> QED BY <1>1, <1>2, <1>3 DEF CallOK

LEMMA TableFrame ==
  ASSUME IndInv, NEW t \in Threads, Others(t),
         UNCHANGED <<map, dpus>>,
         created' \subseteq UNION {Created(s) : s \in Sets},
         Creating(t)' => Creating(t) /\ call'[t] = call[t],
         pc'[t] = "leave" => call'[t].op # "create"
  PROVE  TableInv'
<1>1. /\ \A s : Registered(s)' = Registered(s)
      /\ \A s : Created(s)' = Created(s)
      /\ Known' = Known
  BY SameMap, SameTables
<1>2. \A s \in Sets :
        /\ Created(s)' \subseteq Registered(s)'
        /\ \A i, j \in DOMAIN dpus'[s] : dpus'[s][i].id = dpus'[s][j].id => i = j
        /\ IsFiniteSet(Created(s)') /\ Cardinality(Created(s)') = Len(dpus'[s])
  BY <1>1 DEF IndInv, TableInv
<1>3. created' \subseteq UNION {Created(s)' : s \in Sets}
  BY <1>1
<1>4. \A u \in Threads : Creating(u)' => Creating(u) /\ call'[u] = call[u]
  BY DEF Others, Creating
<1>5. ASSUME NEW u \in Threads, Creating(u)'
      PROVE  /\ call'[u].id \in Known' /\ \A s \in Sets : call'[u].id \notin Created(s)'
             /\ \A v \in Threads : Creating(v)' /\ call'[v].id = call'[u].id => v = u
  BY <1>1, <1>4, <1>5 DEF IndInv, TableInv
<1>6. ASSUME NEW u \in Threads, pc'[u] = "leave", call'[u].op = "create"
      PROVE  (call[u].id \in Created(set[u]))'
  <2>1. u # t /\ pc[u] = "leave" /\ call[u].op = "create" /\ call'[u] = call[u] /\ set'[u] = set[u]
    BY <1>6 DEF Others
  <2>2. call[u].id \in Created(set[u])
    BY <2>1 DEF IndInv, TableInv
  <2> QED BY <1>1, <2>1, <2>2
<1> QED BY <1>2, <1>3, <1>5, <1>6 DEF TableInv

LEMMA ResultFrame ==
  ASSUME IndInv, NEW t \in Threads, Others(t),
         \A u \in Threads \ {t} :
           pc[u] \in {"pull", "merge"} => /\ push'[set[u]] = push[set[u]]
                                         /\ pull'[set[u]] = pull[set[u]]
                                         /\ dpus'[set[u]] = dpus[set[u]],
         ResultOK(t)'
  PROVE  ResultInv'
<1> SUFFICES ASSUME NEW u \in Threads \ {t} PROVE ResultOK(u)'
  BY DEF ResultInv
<1>1. /\ pc'[u] = pc[u] /\ call'[u] = call[u] /\ set'[u] = set[u]
      /\ vals'[u] = vals[u] /\ seen'[u] = seen[u]
  BY DEF Others
<1>2. ResultOK(u)
  BY DEF IndInv, ResultInv
<1>3. pc[u] = "pull" => (Answer(set[u]) = seen[u])'
  <2>1. pc[u] = "pull" => Answer(set[u])' = Answer(set[u])
    BY <1>1 DEF Answer, IsFirst, SlotsOf
  <2> QED BY <1>1, <1>2, <2>1 DEF ResultOK
<1> QED BY <1>1, <1>2, <1>3 DEF ResultOK

(* The locks of the other threads are theirs before and after a step. *)
LEMMA LockFrame ==
  ASSUME IndInv, NEW t \in Threads, Others(t),
         \A u \in Threads \ {t} : /\ mlock' = u <=> mlock = u
                                 /\ \A s \in Sets : slock'[s] = u <=> slock[s] = u,
         LockOK(t)'
  PROVE  LockInv'
<1> SUFFICES ASSUME NEW u \in Threads \ {t} PROVE LockOK(u)'
  BY DEF LockInv
<1>1. pc'[u] = pc[u] /\ set'[u] = set[u]
  BY DEF Others
<1> QED BY <1>1 DEF IndInv, LockInv, LockOK

-----------------------------------------------------------------------------
(* The steps of a call before it works on a set.                           *)

LEMMA BeginInv ==
  ASSUME IndInv, NEW t \in Threads, NEW q \in Query, Begin(t, q)
  PROVE  IndInv'
<1> USE DEF Begin, Goto
<1>0. ThreadsOK
  BY DEF IndInv, TypeOK
<1>1. Others(t)
  BY <1>0 DEF Others, ThreadsOK
<1>2. /\ pc[t] = "idle" /\ pc'[t] = IF q.op = "create" THEN "create" ELSE "get"
      /\ call'[t] = q /\ set'[t] = set[t] /\ (late'[t] => q.id \in created')
  BY <1>0 DEF ThreadsOK
<1>3. TypeOK'
  <2>1. ThreadsOK'
    BY <1>0 DEF ThreadsOK, Labels
  <2>2. calls' \in 0..MaxCalls
    BY ManagerAssumption DEF IndInv, TypeOK
  <2> QED BY <2>1, <2>2, SameManager, SameSets DEF IndInv, TypeOK
<1>4. LockInv'
  <2>0. LockOK(t)
    BY DEF IndInv, LockInv
  <2>1. LockOK(t)'
    BY <1>2, <2>0 DEF LockOK, manager, sets
  <2> QED BY <1>1, <2>1, LockFrame DEF manager, sets
<1>5. CallInv'
  <2>1. q # NoQuery
    BY DEF NoQuery, Query
  <2>2. CallOK(t)'
    BY <1>2, <2>1 DEF CallOK, OnSet
  <2> QED BY <1>1, <2>2, CallFrame, SameMap DEF manager, sets
<1>6. MapInv'
  BY <1>1, <1>2, NoSlot DEF manager, sets
<1>7. TableInv'
  <2>1. ~Creating(t)' /\ pc'[t] # "leave"
    BY <1>2 DEF Creating
  <2> QED BY <1>1, <2>1, TableFrame DEF IndInv, TableInv, manager, sets
<1>8. ResultInv'
  <2>1. ResultOK(t)'
    BY <1>2 DEF ResultOK
  <2> QED BY <1>1, <2>1, ResultFrame DEF sets
<1> QED BY <1>3, <1>4, <1>5, <1>6, <1>7, <1>8 DEF IndInv

LEMMA LockManagerInv ==
  ASSUME IndInv, NEW t \in Threads, LockManager(t)
  PROVE  IndInv'
<1> USE DEF LockManager, Goto
<1>0. ThreadsOK
  BY DEF IndInv, TypeOK
<1>1. Others(t)
  BY <1>0 DEF Others, ThreadsOK
<1>2. /\ call'[t] = call[t] /\ late'[t] = late[t]
      /\ \/ pc[t] = "create" /\ pc'[t] = "apply" /\ set'[t] = 1
         \/ pc[t] = "get" /\ pc'[t] = "find" /\ set'[t] = set[t]
  BY <1>0 DEF ThreadsOK
<1>9. 1 \in Sets
  BY ManagerAssumption DEF Sets
<1>3. TypeOK'
  <2>1. pc' \in [Threads -> Labels]
    BY <1>0 DEF ThreadsOK, Labels
  <2>2. set' \in [Threads -> Sets \cup {NoSet}]
    BY <1>0, <1>9 DEF ThreadsOK
  <2>3. ThreadsOK'
    BY <1>0, <2>1, <2>2 DEF ThreadsOK
  <2>4. ManagerOK'
    BY DEF IndInv, TypeOK, ManagerOK
  <2> QED BY <2>3, <2>4, SameSets DEF IndInv, TypeOK
<1>4. LockInv'
  <2>0. LockOK(t)
    BY DEF IndInv, LockInv
  <2>1. LockOK(t)'
    BY <1>2, <2>0 DEF LockOK, sets
  <2>2. \A u \in Threads \ {t} : mlock' # u /\ mlock # u
    BY ManagerAssumption
  <2> QED BY <1>1, <2>1, <2>2, LockFrame DEF sets
<1>5. CallInv'
  <2>1. CallOK(t)
    BY DEF IndInv, CallInv
  <2>2. CallOK(t)'
    BY <1>2, <1>9, <2>1 DEF CallOK, OnSet
  <2> QED BY <1>1, <2>2, CallFrame, SameMap DEF sets
<1>6. MapInv'
  BY <1>1, <1>2, NoSlot DEF sets
<1>7. TableInv'
  <2>1. (Creating(t)' => Creating(t)) /\ pc'[t] # "leave"
    BY <1>2 DEF Creating, IndInv, CallInv, CallOK
  <2> QED BY <1>1, <1>2, <2>1, TableFrame DEF IndInv, TableInv, sets
<1>8. ResultInv'
  <2>1. ResultOK(t)'
    BY <1>2 DEF ResultOK
  <2> QED BY <1>1, <2>1, ResultFrame DEF sets
<1> QED BY <1>3, <1>4, <1>5, <1>6, <1>7, <1>8 DEF IndInv

LEMMA ApplyLockInv ==
  ASSUME IndInv, NEW t \in Threads, ApplyLock(t)
  PROVE  IndInv'
<1> USE DEF ApplyLock, Goto, SetFree
<1>0. ThreadsOK
  BY DEF IndInv, TypeOK
<1>1. Others(t)
  BY <1>0 DEF Others, ThreadsOK
<1>2. /\ pc[t] = "apply" /\ pc'[t] = "count" /\ set[t] \in Sets
      /\ call'[t] = call[t] /\ late'[t] = late[t] /\ set'[t] = set[t]
  BY <1>0 DEF ThreadsOK, IndInv, CallInv, CallOK
<1>9. slock \in [Sets -> Threads \cup {Nobody}]
  BY DEF IndInv, TypeOK, SetsOK
<1>3. TypeOK'
  <2>1. ThreadsOK'
    BY <1>0 DEF ThreadsOK, Labels
  <2>2. SetsOK'
    BY <1>2 DEF IndInv, TypeOK, SetsOK
  <2> QED BY <2>1, <2>2, SameManager DEF IndInv, TypeOK
<1>4. LockInv'
  <2>0. LockOK(t)
    BY DEF IndInv, LockInv
  <2>1. LockOK(t)'
    BY <1>2, <1>9, <2>0, ManagerAssumption DEF LockOK, manager
  <2>2. \A u \in Threads \ {t} : \A s \in Sets : slock'[s] = u <=> slock[s] = u
    BY <1>2, <1>9, ManagerAssumption
  <2> QED BY <1>1, <2>1, <2>2, LockFrame DEF manager
<1>5. CallInv'
  <2>1. CallOK(t)
    BY DEF IndInv, CallInv
  <2>2. CallOK(t)'
    BY <1>2, <2>1 DEF CallOK, OnSet
  <2> QED BY <1>1, <2>2, CallFrame, SameMap DEF manager
<1>6. MapInv'
  BY <1>1, <1>2, NoSlot DEF manager
<1>7. TableInv'
  <2>1. ~Creating(t)' /\ pc'[t] # "leave"
    BY <1>2 DEF Creating
  <2> QED BY <1>1, <1>2, <2>1, TableFrame DEF IndInv, TableInv, manager
<1>8. ResultInv'
  <2>1. ResultOK(t)'
    BY <1>2 DEF ResultOK
  <2> QED BY <1>1, <2>1, ResultFrame
<1> QED BY <1>3, <1>4, <1>5, <1>6, <1>7, <1>8 DEF IndInv

LEMMA ApplyCountInv ==
  ASSUME IndInv, NEW t \in Threads, ApplyCount(t)
  PROVE  IndInv'
<1> USE DEF ApplyCount, Goto
<1>0. ThreadsOK /\ SetsOK
  BY DEF IndInv, TypeOK
<1>1. Others(t)
  BY <1>0 DEF Others, ThreadsOK
<1>2. /\ pc[t] = "count" /\ set[t] \in Sets /\ call'[t] = call[t] /\ late'[t] = late[t]
      /\ \/ pc'[t] = "register" /\ set'[t] = set[t] /\ SlotLeft(set[t])
            /\ nr' = [nr EXCEPT ![set[t]] = @ + 1]
         \/ pc'[t] = "register" /\ set'[t] = NoSet /\ nr' = nr
         \/ pc'[t] = "apply" /\ set'[t] = set[t] + 1 /\ set[t] < NrSets /\ nr' = nr
  BY <1>0 DEF ThreadsOK, IndInv, CallInv, CallOK
<1>9. set[t] < NrSets => set[t] + 1 \in Sets
  BY <1>2, ManagerAssumption DEF Sets
<1>10. nr' \in [Sets -> 0..MaxPerSet]
  BY <1>0, <1>2, ManagerAssumption DEF SetsOK, SlotLeft
<1>3. TypeOK'
  <2>1. pc' \in [Threads -> Labels]
    BY <1>0 DEF ThreadsOK, Labels
  <2>2. set' \in [Threads -> Sets \cup {NoSet}]
    BY <1>0, <1>2, <1>9 DEF ThreadsOK
  <2>3. ThreadsOK'
    BY <1>0, <2>1, <2>2 DEF ThreadsOK
  <2>4. slock' \in [Sets -> Threads \cup {Nobody}]
    BY <1>0, <1>2 DEF SetsOK
  <2>5. SetsOK'
    BY <1>0, <1>10, <2>4 DEF SetsOK
  <2> QED BY <2>3, <2>5, SameManager DEF IndInv, TypeOK
<1>4. LockInv'
  <2>0. LockOK(t)
    BY DEF IndInv, LockInv
  <2>1. slock[set[t]] = t
    BY <1>2, <2>0 DEF LockOK
  <2>2. LockOK(t)'
    BY <1>0, <1>2, <2>0, ManagerAssumption DEF LockOK, manager, SetsOK
  <2>3. \A u \in Threads \ {t} : \A s \in Sets : slock'[s] = u <=> slock[s] = u
    BY <1>0, <1>2, <2>1, ManagerAssumption DEF SetsOK
  <2> QED BY <1>1, <2>2, <2>3, LockFrame DEF manager
<1>5. CallInv'
  <2>1. CallOK(t)
    BY DEF IndInv, CallInv
  <2>2. CallOK(t)'
    BY <1>2, <1>9, <2>1 DEF CallOK, OnSet
  <2> QED BY <1>1, <2>2, CallFrame, SameMap DEF manager
<1>6. MapInv'
  <2>1. \A u \in Threads \ {t} : pc[u] # "register" /\ pc'[u] # "register"
    BY <1>1, <1>2 DEF IndInv, LockInv, LockOK, Others
  <2>2. ASSUME NEW s \in Sets
        PROVE  nr'[s] \in Nat /\ Reserved(s)' + nr[s] <= Reserved(s) + nr'[s]
    <3>1. nr[s] \in Nat /\ nr'[s] \in Nat
      BY <1>0, <1>10, ManagerAssumption DEF SetsOK
    <3>2. Reserved(s) = 0
      BY <1>2, <2>1 DEF Reserved
    <3>3. CASE nr' = nr /\ (pc'[t] = "apply" \/ set'[t] = NoSet)
      <4>1. Reserved(s)' = 0
        BY <2>1, <3>3 DEF Reserved, Sets, NoSet
      <4> QED BY <3>1, <3>2, <3>3, <4>1
    <3>4. CASE nr' = [nr EXCEPT ![set[t]] = @ + 1] /\ pc'[t] = "register" /\ set'[t] = set[t]
      <4>1. s = set[t] => Reserved(s)' = 1 /\ nr'[s] = nr[s] + 1
        BY <1>0, <3>4 DEF Reserved, SetsOK
      <4>2. s # set[t] => Reserved(s)' = 0 /\ nr'[s] = nr[s]
        BY <1>0, <2>1, <3>4 DEF Reserved, SetsOK
      <4> QED BY <3>1, <3>2, <4>1, <4>2
    <3> QED BY <1>2, <3>3, <3>4
  <2> QED BY <2>2, MapFrame DEF manager
<1>7. TableInv'
  <2>1. ~Creating(t)' /\ pc'[t] # "leave"
    BY <1>2 DEF Creating
  <2> QED BY <1>1, <1>2, <2>1, TableFrame DEF IndInv, TableInv, manager
<1>8. ResultInv'
  <2>1. ResultOK(t)'
    BY <1>2 DEF ResultOK
  <2> QED BY <1>1, <2>1, ResultFrame
<1> QED BY <1>3, <1>4, <1>5, <1>6, <1>7, <1>8 DEF IndInv

(* A call that returns leaves nothing behind in the thread. *)
LEMMA ReturnedTypes == ThreadsOK /\ (\E t \in Threads : Returned(t)) => ThreadsOK'
<1> SUFFICES ASSUME ThreadsOK, NEW t \in Threads, Returned(t) PROVE ThreadsOK'
  OBVIOUS
<1>1. pc' \in [Threads -> Labels]
  BY DEF ThreadsOK, Labels, Returned, Goto
<1> QED BY <1>1 DEF ThreadsOK, Returned

(* A new entry of a chain joins the others. *)
LEMMA ChainedRange ==
  ASSUME NEW S, NEW chain \in Seq(S), NEW e \in S
  PROVE  Chained(chain, e) \in Seq(S) /\ Range(Chained(chain, e)) = Range(chain) \cup {e}
<1>1. CASE chain = <<>>
  <2>1. Chained(chain, e) = <<e>>
    BY <1>1 DEF Chained
  <2>2. Range(chain) = {} /\ Range(<<e>>) = {e}
    BY <1>1 DEF Range
  <2> QED BY <2>1, <2>2
<1>2. CASE chain # <<>>
  <2> DEFINE n == Len(chain)
             c == <<Head(chain), e>> \o Tail(chain)
  <2>1. Head(chain) \in S /\ Tail(chain) \in Seq(S) /\ n \in Nat \ {0} /\ Len(Tail(chain)) = n - 1
    BY <1>2, EmptySeq, HeadTailProperties, LenProperties
  <2>2. c \in Seq(S) /\ Len(c) = n + 1
    BY <2>1, ConcatProperties
  <2>3. /\ c[1] = chain[1] /\ c[2] = e
        /\ \A i \in 3..(n + 1) : c[i] = chain[i - 1]
    BY <2>1, <1>2
  <2>4. DOMAIN c = 1..(n + 1) /\ DOMAIN chain = 1..n
    BY <2>2, LenProperties
  <2>5. ASSUME NEW i \in DOMAIN chain PROVE \E j \in DOMAIN c : c[j] = chain[i]
    <3>1. i = 1 => 1 \in DOMAIN c
      BY <2>4, <2>1
    <3>2. i # 1 => i + 1 \in DOMAIN c /\ c[i + 1] = chain[i]
      BY <2>4, <2>3, <2>1
    <3> QED BY <3>1, <3>2, <2>3
  <2>6. ASSUME NEW j \in DOMAIN c PROVE c[j] = e \/ \E i \in DOMAIN chain : c[j] = chain[i]
    <3>1. j = 1 \/ j = 2 \/ j \in 3..(n + 1)
      BY <2>4, <2>1
    <3>2. j = 1 => 1 \in DOMAIN chain
      BY <2>4, <2>1
    <3>3. j \in 3..(n + 1) => j - 1 \in DOMAIN chain
      BY <2>4, <2>1
    <3> QED BY <3>1, <3>2, <3>3, <2>3
  <2>7. 2 \in DOMAIN c
    BY <2>4, <2>1
  <2>8. Range(c) = Range(chain) \cup {e}
    <3> HIDE DEF c
    <3>1. \A y \in Range(chain) \cup {e} : y \in Range(c)
      BY <2>3, <2>5, <2>7 DEF Range
    <3>2. \A y \in Range(c) : y \in Range(chain) \cup {e}
      BY <2>6 DEF Range
    <3> QED BY <3>1, <3>2
  <2> QED BY <1>2, <2>2, <2>8 DEF Chained
<1> QED BY <1>1, <1>2

LEMMA RefusedInv ==
  ASSUME IndInv, NEW t \in Threads, pc[t] = "register", mlock' = Nobody, Returned(t),
         UNCHANGED <<map, nrIndex, sets, calls, created>>
  PROVE  IndInv'
<1>0. ThreadsOK
  BY DEF IndInv, TypeOK
<1>1. Others(t)
  BY <1>0 DEF Others, ThreadsOK, Returned, Goto
<1>2. pc'[t] = "idle" /\ call'[t] = NoQuery /\ late'[t] = FALSE
  BY <1>0 DEF ThreadsOK, Returned, Goto
<1>3. TypeOK'
  BY <1>0, ReturnedTypes, SameSets DEF IndInv, TypeOK, ManagerOK
<1>4. LockInv'
  <2>0. LockOK(t) /\ mlock = t
    BY DEF IndInv, LockInv, LockOK
  <2>1. LockOK(t)'
    BY <1>2, <2>0, ManagerAssumption DEF LockOK, sets
  <2> QED BY <1>1, <2>0, <2>1, ManagerAssumption, LockFrame DEF sets
<1>5. CallInv'
  <2>1. CallOK(t)'
    BY <1>2 DEF CallOK, OnSet
  <2> QED BY <1>1, <2>1, CallFrame, SameMap DEF sets
<1>6. MapInv'
  BY <1>1, <1>2, NoSlot DEF sets
<1>7. TableInv'
  <2>1. ~Creating(t)' /\ pc'[t] # "leave"
    BY <1>2 DEF Creating
  <2> QED BY <1>1, <2>1, TableFrame DEF IndInv, TableInv, sets
<1>8. ResultInv'
  <2>1. ResultOK(t)'
    BY <1>2 DEF ResultOK
  <2> QED BY <1>1, <2>1, ResultFrame DEF sets
<1> QED BY <1>3, <1>4, <1>5, <1>6, <1>7, <1>8 DEF IndInv

LEMMA RegisterInv ==
  ASSUME IndInv, NEW t \in Threads, Register(t)
  PROVE  IndInv'
<1> DEFINE id == call[t].id
           e  == [id |-> id, set |-> set[t]]
<1>1. CASE mlock' = AfterRefusal(t) /\ Returned(t) /\ UNCHANGED <<map, nrIndex>>
  BY <1>1, RefusedInv DEF Register, AfterRefusal
<1>2. CASE /\ set[t] # NoSet /\ nrIndex < MaxIndexes /\ New(id)
           /\ map' = [map EXCEPT ![Hash[id]] = Chained(@, e)]
           /\ nrIndex' = nrIndex + 1
           /\ mlock' = Nobody
           /\ Goto(t, "get")
           /\ UNCHANGED <<call, set, vals, late, seen>>
  <2> USE <1>2 DEF Goto
  <2>0. ThreadsOK /\ ManagerOK /\ pc[t] = "register"
    BY DEF IndInv, TypeOK, Register
  <2>1. Others(t) /\ pc'[t] = "get"
    BY <2>0 DEF Others, ThreadsOK
  <2>2. set[t] \in Sets /\ id \in Ids /\ call[t].op = "create" /\ call[t] # NoQuery
    <3>1. set[t] \in Sets
      BY <2>0 DEF ThreadsOK
    <3> QED BY <2>0, <3>1, CallTypes DEF IndInv, CallInv, CallOK
  <2>3. e \in Entry
    BY <2>2 DEF Entry
  <2>4. Find(id)' = {e} /\ \A x \in Ids \ {id} : Find(x)' = Find(x)
    <3>1. Hash[id] \in DOMAIN map /\ map[Hash[id]] \in Seq(Entry)
      BY <2>2, FindTypes DEF IndInv
    <3>2. Range(map'[Hash[id]]) = Range(map[Hash[id]]) \cup {e}
      BY <3>1, <2>3, ChainedRange
    <3>3. Find(id) = {}
      BY DEF New
    <3>4. Find(id)' = {e}
      BY <3>2, <3>3 DEF Find
    <3>5. ASSUME NEW x \in Ids \ {id} PROVE Find(x)' = Find(x)
      <4>1. CASE Hash[x] = Hash[id]
        BY <3>2, <4>1 DEF Find
      <4>2. CASE Hash[x] # Hash[id]
        BY <4>2 DEF Find
      <4> QED BY <4>1, <4>2
    <3> QED BY <3>4, <3>5
  <2>5. id \notin Known /\ Known' = Known \cup {id}
    BY <2>2, <2>4 DEF Known, New
  <2>6. /\ \A s \in Sets : id \notin Registered(s)
        /\ \A s \in Sets : Registered(s)' = IF s = set[t] THEN Registered(s) \cup {id} ELSE Registered(s)
    BY <2>2, <2>4 DEF Registered, New
  <2>7. TypeOK'
    <3>1. ThreadsOK'
      BY <2>0 DEF ThreadsOK, Labels
    <3>2. \A b \in DOMAIN map' : map'[b] \in Seq(Entry)
      BY <2>0, <2>3, ChainedRange DEF ManagerOK, Entry
    <3>3. ManagerOK'
      <4>1. nrIndex' \in 0..MaxIndexes
        BY <2>0, ManagerAssumption DEF ManagerOK
      <4> QED BY <3>2, <4>1 DEF ManagerOK, Entry
    <3> QED BY <3>1, <3>3, SameSets DEF IndInv, TypeOK, Register
  <2>8. LockInv'
    <3>0. LockOK(t) /\ mlock = t
      BY <2>0 DEF IndInv, LockInv, LockOK
    <3>1. LockOK(t)'
      BY <2>0, <2>1, <3>0, ManagerAssumption DEF LockOK, Register, sets
    <3> QED BY <2>1, <3>0, <3>1, ManagerAssumption, LockFrame DEF Register, sets
  <2>9. CallInv'
    <3>1. CallOK(t)
      BY DEF IndInv, CallInv
    <3>2. CallOK(t)'
      BY <2>0, <2>1, <2>2, <3>1 DEF CallOK, OnSet, Register
    <3> QED BY <2>1, <2>6, <3>2, CallFrame DEF Register, sets
  <2>10. MapInv'
    <3>1. DOMAIN map' = DOMAIN EmptyMap
      BY DEF IndInv, MapInv
    <3>2. \A x \in Ids : \A f, g \in Find(x)' : f = g
      BY <2>4 DEF IndInv, MapInv
    <3>3. IsFiniteSet(Known') /\ nrIndex' = Cardinality(Known')
      BY <2>5, FS_AddElement DEF IndInv, MapInv
    <3>4. \A u \in Threads : pc'[u] # "register"
      BY <2>0, <2>1 DEF IndInv, LockInv, LockOK, Others
    <3>5. ASSUME NEW s \in Sets
          PROVE  IsFiniteSet(Registered(s)') /\ Cardinality(Registered(s)') + Reserved(s)' <= nr'[s]
      <4>1. IsFiniteSet(Registered(s)) /\ Cardinality(Registered(s)) + Reserved(s) <= nr[s] /\ nr' = nr
        BY DEF IndInv, MapInv, Register, sets
      <4>2. Cardinality(Registered(s)) \in Nat /\ nr[s] \in Nat
        BY <4>1, FS_CardinalityType, ManagerAssumption DEF IndInv, TypeOK, SetsOK
      <4>3. Reserved(s)' = 0
        BY <3>4 DEF Reserved
      <4>4. CASE s = set[t]
        <5>1. Reserved(s) = 1
          BY <2>0, <4>4 DEF Reserved
        <5>2. IsFiniteSet(Registered(s)') /\ Cardinality(Registered(s)') = Cardinality(Registered(s)) + 1
          BY <2>6, <4>1, <4>4, FS_AddElement
        <5> QED BY <4>1, <4>2, <4>3, <5>1, <5>2
      <4>5. CASE s # set[t]
        <5>1. Registered(s)' = Registered(s) /\ Reserved(s) \in Nat
          BY <2>6, <4>5 DEF Reserved
        <5> QED BY <4>1, <4>2, <4>3, <5>1
      <4> QED BY <4>4, <4>5
    <3> QED BY <3>1, <3>2, <3>3, <3>5 DEF MapInv, EmptyMap
  <2>11. TableInv'
    <3>1. /\ \A s : Created(s)' = Created(s)
          /\ UNCHANGED <<dpus, created, call, set>>
      BY SameTables DEF Register, sets
    <3>2. \A s \in Sets : id \notin Created(s)
      BY <2>6 DEF IndInv, TableInv
    <3>3. \A s \in Sets :
            /\ Created(s)' \subseteq Registered(s)'
            /\ \A i, j \in DOMAIN dpus'[s] : dpus'[s][i].id = dpus'[s][j].id => i = j
            /\ IsFiniteSet(Created(s)') /\ Cardinality(Created(s)') = Len(dpus'[s])
      BY <2>6, <3>1 DEF IndInv, TableInv
    <3>4. created' \subseteq UNION {Created(s)' : s \in Sets}
      BY <3>1 DEF IndInv, TableInv
    <3>5. \A u \in Threads : Creating(u)' => u = t \/ Creating(u)
      BY <2>1, <3>1 DEF Creating, Others
    <3>6. \A u \in Threads \ {t} : Creating(u) => call[u].id # id
      BY <2>5 DEF IndInv, TableInv
    <3>7. ASSUME NEW u \in Threads, Creating(u)'
          PROVE  /\ call'[u].id \in Known' /\ \A s \in Sets : call'[u].id \notin Created(s)'
                 /\ \A v \in Threads : Creating(v)' /\ call'[v].id = call'[u].id => v = u
      <4>1. CASE u = t
        BY <4>1, <2>5, <3>1, <3>2, <3>5, <3>6
      <4>2. CASE u # t
        BY <4>2, <2>5, <3>1, <3>5, <3>6, <3>7 DEF IndInv, TableInv
      <4> QED BY <4>1, <4>2
    <3>8. ASSUME NEW u \in Threads, pc'[u] = "leave", call'[u].op = "create"
          PROVE  (call[u].id \in Created(set[u]))'
      <4>1. pc[u] = "leave" /\ call[u].op = "create"
        BY <2>1, <3>1, <3>8 DEF Others
      <4>2. call[u].id \in Created(set[u])
        BY <4>1 DEF IndInv, TableInv
      <4> QED BY <3>1, <4>2
    <3> QED BY <3>3, <3>4, <3>7, <3>8 DEF TableInv
  <2>12. ResultInv'
    <3>1. ResultOK(t)'
      BY <2>1 DEF ResultOK
    <3> QED BY <2>1, <3>1, ResultFrame DEF Register, sets
  <2> QED BY <2>7, <2>8, <2>9, <2>10, <2>11, <2>12 DEF IndInv
<1> QED BY <1>1, <1>2 DEF Register

LEMMA FindSetInv ==
  ASSUME IndInv, NEW t \in Threads, FindSet(t)
  PROVE  IndInv'
<1>0. ThreadsOK
  BY DEF IndInv, TypeOK
<1>1. Others(t)
  BY <1>0 DEF Others, ThreadsOK, FindSet, Goto, Returned
<1>8. call[t] # NoQuery /\ call[t].id \in Ids
  BY CallTypes DEF IndInv, CallInv, CallOK, FindSet
<1>2. /\ pc[t] = "find" /\ mlock' = Nobody
      /\ \/ /\ pc'[t] = "enter" /\ call'[t] = call[t] /\ late'[t] = late[t]
            /\ set'[t] \in Sets /\ call[t].id \in Registered(set'[t])
         \/ Returned(t) /\ pc'[t] = "idle" /\ call'[t] = NoQuery /\ late'[t] = FALSE
  <2>1. ASSUME NEW e \in Find(call[t].id), set' = [set EXCEPT ![t] = e.set]
        PROVE  set'[t] \in Sets /\ call[t].id \in Registered(set'[t])
    <3>1. e \in Entry
      BY <1>8, FindTypes DEF IndInv
    <3> QED BY <1>0, <1>8, <2>1, <3>1 DEF ThreadsOK, Entry, Registered
  <2> QED BY <1>0, <2>1 DEF ThreadsOK, FindSet, Goto, Returned
<1>3. TypeOK'
  <2>1. CASE Returned(t)
    BY <1>0, <2>1, ReturnedTypes, SameSets DEF IndInv, TypeOK, ManagerOK, FindSet
  <2>2. CASE pc'[t] = "enter"
    <3>1. set' \in [Threads -> Sets \cup {NoSet}]
      BY <1>0, <1>1, <1>2, <2>2 DEF ThreadsOK, FindSet, Others, Returned
    <3>2. pc' \in [Threads -> Labels]
      BY <1>0 DEF ThreadsOK, Labels, FindSet, Goto, Returned
    <3>3. UNCHANGED <<call, vals, late, seen>>
      BY <1>0, <2>2 DEF ThreadsOK, FindSet, Goto, Returned
    <3>4. ThreadsOK'
      BY <1>0, <3>1, <3>2, <3>3 DEF ThreadsOK
    <3> QED BY <3>4, SameSets DEF IndInv, TypeOK, ManagerOK, FindSet
  <2> QED BY <1>2, <2>1, <2>2
<1>4. LockInv'
  <2>0. LockOK(t) /\ mlock = t
    BY <1>2 DEF IndInv, LockInv, LockOK
  <2>1. LockOK(t)'
    BY <1>2, <2>0, ManagerAssumption DEF LockOK, FindSet, sets
  <2> QED BY <1>1, <1>2, <2>0, <2>1, ManagerAssumption, LockFrame DEF FindSet, sets
<1>5. CallInv'
  <2>1. CallOK(t)
    BY DEF IndInv, CallInv
  <2>3. map' = map
    BY DEF FindSet
  <2>4. pc'[t] = "enter" => (call[t].id \in Registered(set[t]))'
    BY <1>2, <2>3 DEF Registered, Find, Range
  <2>2. CallOK(t)'
    BY <1>2, <1>8, <2>1, <2>4 DEF CallOK, OnSet, FindSet
  <2> QED BY <1>1, <2>2, CallFrame, SameMap DEF FindSet, sets
<1>6. MapInv'
  BY <1>1, <1>2, NoSlot DEF FindSet, sets
<1>7. TableInv'
  <2>1. (Creating(t)' => Creating(t) /\ call'[t] = call[t]) /\ pc'[t] # "leave"
    BY <1>2 DEF Creating
  <2> QED BY <1>1, <2>1, TableFrame DEF IndInv, TableInv, FindSet, sets
<1>9. ResultInv'
  <2>1. ResultOK(t)'
    BY <1>2 DEF ResultOK
  <2> QED BY <1>1, <2>1, ResultFrame DEF FindSet, sets
<1> QED BY <1>3, <1>4, <1>5, <1>6, <1>7, <1>9 DEF IndInv

-----------------------------------------------------------------------------
(* The steps of a call that works on a set.                                *)

LEMMA EnterInv ==
  ASSUME IndInv, NEW t \in Threads, Enter(t)
  PROVE  IndInv'
<1> USE DEF Enter, Goto, SetFree
<1>0. ThreadsOK /\ SetsOK
  BY DEF IndInv, TypeOK
<1>1. Others(t)
  BY <1>0 DEF Others, ThreadsOK
<1>2. /\ pc[t] = "enter" /\ pc'[t] = "build" /\ set[t] \in Sets
      /\ call'[t] = call[t] /\ late'[t] = late[t] /\ set'[t] = set[t]
  BY <1>0 DEF ThreadsOK, IndInv, CallInv, CallOK, OnSet
<1>3. TypeOK'
  <2>1. ThreadsOK'
    BY <1>0 DEF ThreadsOK, Labels
  <2>2. SetsOK'
    BY <1>0, <1>2 DEF SetsOK
  <2> QED BY <2>1, <2>2, SameManager DEF IndInv, TypeOK
<1>4. LockInv'
  <2>0. LockOK(t)
    BY DEF IndInv, LockInv
  <2>1. LockOK(t)'
    BY <1>0, <1>2, <2>0, ManagerAssumption DEF LockOK, manager, SetsOK
  <2>2. \A u \in Threads \ {t} : \A s \in Sets : slock'[s] = u <=> slock[s] = u
    BY <1>0, <1>2, ManagerAssumption DEF SetsOK
  <2> QED BY <1>1, <2>1, <2>2, LockFrame DEF manager
<1>5. CallInv'
  <2>1. CallOK(t)
    BY DEF IndInv, CallInv
  <2>2. (call[t].id \in Registered(set[t]))'
    BY <1>2, <2>1 DEF CallOK, OnSet, Registered, Find, Range, manager
  <2>3. CallOK(t)'
    BY <1>2, <2>1, <2>2 DEF CallOK, OnSet
  <2> QED BY <1>1, <2>3, CallFrame, SameMap DEF manager
<1>6. MapInv'
  BY <1>1, <1>2, NoSlot DEF manager
<1>7. TableInv'
  <2>1. (Creating(t)' => Creating(t)) /\ pc'[t] # "leave"
    BY <1>2 DEF Creating
  <2> QED BY <1>1, <1>2, <2>1, TableFrame DEF IndInv, TableInv, manager
<1>8. ResultInv'
  <2>1. ResultOK(t)'
    BY <1>2 DEF ResultOK
  <2> QED BY <1>1, <2>1, ResultFrame
<1> QED BY <1>3, <1>4, <1>5, <1>6, <1>7, <1>8 DEF IndInv

(* While a thread holds its set, no other works on it. *)
LEMMA Alone ==
  ASSUME IndInv, NEW t \in Threads, set[t] \in Sets,
         pc[t] \in {"build", "run", "pull", "merge", "leave"},
         NEW u \in Threads \ {t}, pc[u] \in {"build", "run", "pull", "merge", "leave"}
  PROVE  set[u] # set[t]
BY OneOnSet DEF IndInv

LEMMA BuildInv ==
  ASSUME IndInv, NEW t \in Threads, Build(t)
  PROVE  IndInv'
<1> USE DEF Build, Goto
<1>0. ThreadsOK /\ SetsOK
  BY DEF IndInv, TypeOK
<1>1. Others(t)
  BY <1>0 DEF Others, ThreadsOK
<1>2. /\ pc[t] = "build" /\ pc'[t] = "run" /\ set[t] \in Sets
      /\ call'[t] = call[t] /\ late'[t] = late[t] /\ set'[t] = set[t]
      /\ push'[set[t]] = call[t]
  BY <1>0 DEF ThreadsOK, SetsOK, IndInv, CallInv, CallOK, OnSet
<1>9. \A u \in Threads \ {t} :
        pc[u] \in {"run", "pull", "merge", "leave"} => push'[set[u]] = push[set[u]]
  BY <1>0, <1>2, Alone DEF SetsOK, IndInv, CallInv, CallOK, OnSet
<1>3. TypeOK'
  <2>1. ThreadsOK'
    BY <1>0 DEF ThreadsOK, Labels
  <2>2. SetsOK'
    BY <1>0, <1>2 DEF SetsOK, ThreadsOK
  <2> QED BY <2>1, <2>2, SameManager DEF IndInv, TypeOK
<1>4. LockInv'
  <2>0. LockOK(t)
    BY DEF IndInv, LockInv
  <2>1. LockOK(t)'
    BY <1>2, <2>0 DEF LockOK, manager
  <2> QED BY <1>1, <2>1, LockFrame DEF manager
<1>5. CallInv'
  <2>1. CallOK(t)
    BY DEF IndInv, CallInv
  <2>2. (call[t].id \in Registered(set[t]))'
    BY <1>2, <2>1 DEF CallOK, OnSet, Registered, Find, Range, manager
  <2>3. CallOK(t)'
    BY <1>2, <2>1, <2>2 DEF CallOK, OnSet
  <2> QED BY <1>1, <1>9, <2>3, CallFrame, SameMap DEF manager
<1>6. MapInv'
  BY <1>1, <1>2, NoSlot DEF manager
<1>7. TableInv'
  <2>1. (Creating(t)' => Creating(t)) /\ pc'[t] # "leave"
    BY <1>2 DEF Creating
  <2> QED BY <1>1, <1>2, <2>1, TableFrame DEF IndInv, TableInv, manager
<1>8. ResultInv'
  <2>1. ResultOK(t)'
    BY <1>2 DEF ResultOK
  <2> QED BY <1>1, <1>9, <2>1, ResultFrame
<1> QED BY <1>3, <1>4, <1>5, <1>6, <1>7, <1>8 DEF IndInv

(* What a run of a batch keeps whatever the batch does to the DPUs: the    *)
(* rest of the state.                                                      *)
LEMMA RunRest ==
  ASSUME IndInv, NEW t \in Threads, Run(t)
  PROVE  /\ Others(t) /\ ThreadsOK' /\ LockInv' /\ CallInv' /\ MapInv'
         /\ pc'[t] = IF call[t].op = "lookup" THEN "pull" ELSE "leave"
         /\ seen'[t] = UNION {dpus[set[t]][i].vals : i \in SlotsOf(set[t], call[t].id)}
<1> USE DEF Run, Goto
<1>0. ThreadsOK /\ SetsOK
  BY DEF IndInv, TypeOK
<1>1. Others(t)
  BY <1>0 DEF Others, ThreadsOK
<1>2. /\ pc[t] = "run" /\ set[t] \in Sets
      /\ pc'[t] = IF call[t].op = "lookup" THEN "pull" ELSE "leave"
      /\ call'[t] = call[t] /\ late'[t] = late[t] /\ set'[t] = set[t]
  BY <1>0 DEF ThreadsOK, IndInv, CallInv, CallOK, OnSet
<1>9. pc'[t] \in {"pull", "leave"}
  BY <1>2
<1>10. seen'[t] = UNION {dpus[set[t]][i].vals : i \in SlotsOf(set[t], call[t].id)}
  BY <1>0 DEF ThreadsOK
<1>3. ThreadsOK'
  <2>1. pc' \in [Threads -> Labels]
    BY <1>0 DEF ThreadsOK, Labels
  <2>2. seen'[t] \in SUBSET Vals
    <3>1. \A i \in DOMAIN dpus[set[t]] : dpus[set[t]][i] \in Index
      BY <1>0, <1>2, DpusTypes
    <3>2. \A i \in SlotsOf(set[t], call[t].id) : dpus[set[t]][i].vals \in SUBSET Vals
      BY <3>1 DEF SlotsOf, Index
    <3> QED BY <1>10, <3>2
  <2>3. seen' \in [Threads -> SUBSET Vals]
    BY <1>0, <1>10, <2>2 DEF ThreadsOK
  <2> QED BY <1>0, <2>1, <2>3 DEF ThreadsOK
<1>4. LockInv'
  <2>0. LockOK(t)
    BY DEF IndInv, LockInv
  <2>1. LockOK(t)'
    BY <1>2, <1>9, <2>0 DEF LockOK, manager
  <2> QED BY <1>1, <2>1, LockFrame DEF manager
<1>5. CallInv'
  <2>1. CallOK(t)
    BY DEF IndInv, CallInv
  <2>2. (call[t].id \in Registered(set[t]))'
    BY <1>2, <2>1 DEF CallOK, OnSet, Registered, Find, Range, manager
  <2>3. CallOK(t)'
    BY <1>2, <1>9, <2>1, <2>2 DEF CallOK, OnSet
  <2> QED BY <1>1, <2>3, CallFrame, SameMap DEF manager
<1>6. MapInv'
  BY <1>1, <1>9, NoSlot DEF manager
<1> QED BY <1>1, <1>2, <1>3, <1>4, <1>5, <1>6, <1>10

(* What a thread that runs a batch knows: its package is its call, and      *)
(* whoever waits for results works on another set.                         *)
LEMMA Running ==
  ASSUME IndInv, NEW t \in Threads, pc[t] = "run"
  PROVE  /\ set[t] \in Sets /\ push[set[t]] = call[t] /\ call[t] # NoQuery
         /\ call[t] \in Query /\ call[t].id \in Registered(set[t])
         /\ \A u \in Threads \ {t} : pc[u] \in {"run", "pull", "merge", "leave"} => set[u] # set[t]
         /\ \A i \in DOMAIN dpus[set[t]] : dpus[set[t]][i] \in Index
<1>1. /\ set[t] \in Sets /\ push[set[t]] = call[t] /\ call[t] # NoQuery
      /\ call[t].id \in Registered(set[t])
  BY DEF IndInv, CallInv, CallOK, OnSet
<1>2. call[t] \in Query
  BY <1>1, CallTypes DEF IndInv
<1>3. \A u \in Threads \ {t} : pc[u] \in {"run", "pull", "merge", "leave"} => set[u] # set[t]
  BY <1>1, Alone
<1>4. \A i \in DOMAIN dpus[set[t]] : dpus[set[t]][i] \in Index
  BY <1>1, DpusTypes DEF IndInv, TypeOK
<1> QED BY <1>1, <1>2, <1>3, <1>4

(* A set the manager has assigned an index to that is not yet in the DPUs   *)
(* has a slot left there.                                                  *)
LEMMA SlotForCreate ==
  ASSUME IndInv, NEW t \in Threads, pc[t] = "run", call[t].op = "create"
  PROVE  /\ Len(dpus[set[t]]) < DpuTable
         /\ \A s \in Sets : call[t].id \notin Created(s)
<1> DEFINE s == set[t]
           id == call[t].id
<1>1. s \in Sets /\ id \in Registered(s) /\ call[t] # NoQuery
  BY Running
<1>2. \A x \in Sets : id \notin Created(x)
  BY <1>1 DEF Creating, IndInv, TableInv
<1>3. /\ Created(s) \subseteq Registered(s) /\ IsFiniteSet(Registered(s))
      /\ Cardinality(Registered(s)) + Reserved(s) <= nr[s]
      /\ Cardinality(Created(s)) = Len(dpus[s])
  BY <1>1 DEF IndInv, TableInv, MapInv
<1>4. Cardinality(Created(s)) < Cardinality(Registered(s))
  <2>1. Created(s) # Registered(s)
    BY <1>1, <1>2
  <2>2. /\ Cardinality(Created(s)) <= Cardinality(Registered(s))
        /\ Cardinality(Created(s)) # Cardinality(Registered(s))
    <3> HIDE DEF s
    <3> QED BY <1>3, <2>1, FS_Subset
  <2>3. Cardinality(Created(s)) \in Nat /\ Cardinality(Registered(s)) \in Nat
    BY <1>1, <1>3, FS_CardinalityType DEF IndInv, TableInv
  <2> QED BY <2>2, <2>3
<1>5. /\ Cardinality(Registered(s)) \in Nat /\ Len(dpus[s]) \in Nat
      /\ nr[s] \in Nat /\ nr[s] <= MaxPerSet /\ Reserved(s) \in Nat
  <2>1. nr[s] \in 0..MaxPerSet /\ Len(dpus[s]) \in Nat
    BY <1>1, LenProperties DEF IndInv, TypeOK, SetsOK
  <2> QED BY <1>3, <2>1, FS_CardinalityType, ManagerAssumption DEF Reserved
<1> QED BY <1>2, <1>3, <1>4, <1>5, ManagerAssumption

LEMMA RunCreateInv ==
  ASSUME IndInv, NEW t \in Threads, Run(t), call[t].op = "create"
  PROVE  IndInv'
<1>s. PICK s \in Sets, id \in Ids : s = set[t] /\ id = call[t].id
  BY Running DEF Run, Query
<1> DEFINE new == [id |-> id, vals |-> {}]
<1>0. SetsOK /\ ThreadsOK /\ pc[t] = "run"
  BY DEF IndInv, TypeOK, Run
<1>1. /\ Others(t) /\ ThreadsOK' /\ LockInv' /\ CallInv' /\ MapInv' /\ pc'[t] = "leave"
  BY RunRest
<1>2. /\ s \in Sets /\ push[s] = call[t] /\ call[t] # NoQuery /\ call[t] \in Query
      /\ id \in Registered(s)
      /\ \A u \in Threads \ {t} : pc[u] \in {"run", "pull", "merge", "leave"} => set[u] # s
  BY <1>s, <1>0, Running
<1>3. Len(dpus[s]) < DpuTable /\ \A x \in Sets : id \notin Created(x)
  BY <1>s, <1>0, SlotForCreate
<1>4. dpus' = [dpus EXCEPT ![s] = Append(@, new)]
  BY <1>s, <1>2, <1>3 DEF Run
<1>5. new \in Index /\ id \in Ids
  BY DEF Index
<1>6. dpus[s] \in Seq(Index) /\ DOMAIN dpus[s] = 1..Len(dpus[s]) /\ Len(dpus[s]) \in Nat
  BY <1>0, DpusTypes
<1>7. /\ dpus'[s] = Append(dpus[s], new) /\ \A x \in Sets \ {s} : dpus'[x] = dpus[x]
  BY <1>0, <1>2, <1>4 DEF SetsOK
<1>8. /\ dpus'[s] \in Seq(Index) /\ Len(dpus'[s]) = Len(dpus[s]) + 1
      /\ DOMAIN dpus'[s] = 1..(Len(dpus[s]) + 1)
      /\ \A i \in DOMAIN dpus[s] : dpus'[s][i] = dpus[s][i]
      /\ dpus'[s][Len(dpus[s]) + 1] = new
  <2>1. /\ dpus'[s] \in Seq(Index) /\ Len(dpus'[s]) = Len(dpus[s]) + 1
        /\ \A i \in 1..Len(dpus[s]) : dpus'[s][i] = dpus[s][i]
        /\ dpus'[s][Len(dpus[s]) + 1] = new
    BY <1>5, <1>6, <1>7, AppendProperties
  <2> QED BY <1>6, <2>1, LenProperties
<1>9. /\ Created(s)' = Created(s) \cup {id}
      /\ \A x \in Sets \ {s} : Created(x)' = Created(x)
  <2>1. \A x \in Sets \ {s} : Created(x)' = Created(x)
    BY <1>7 DEF Created
  <2>2. Created(s)' = {dpus'[s][i].id : i \in DOMAIN dpus'[s]}
    BY DEF Created, Run
  <2>3. {dpus'[s][i].id : i \in DOMAIN dpus'[s]} = {dpus[s][i].id : i \in DOMAIN dpus[s]} \cup {id}
    <3>1. DOMAIN dpus'[s] = DOMAIN dpus[s] \cup {Len(dpus[s]) + 1}
      BY <1>6, <1>8
    <3>2. dpus'[s][Len(dpus[s]) + 1].id = id
      BY <1>8
    <3> QED BY <1>8, <3>1, <3>2
  <2> QED BY <2>1, <2>2, <2>3 DEF Created
<1>10. /\ \A x : Registered(x)' = Registered(x)
       /\ Known' = Known
       /\ UNCHANGED <<call, set, created, push, pull, slock, nr, calls>>
  BY SameMap DEF Run, manager
<1>11. TypeOK'
  <2>1. dpus' \in [Sets -> Seq(Index)]
    BY <1>0, <1>4, <1>7, <1>8, DpusTypes
  <2>2. \A x \in Sets : Len(dpus'[x]) <= DpuTable
    <3>1. Len(dpus'[s]) <= DpuTable
      BY <1>3, <1>6, <1>8, ManagerAssumption
    <3>2. \A x \in Sets \ {s} : dpus'[x] = dpus[x] /\ Len(dpus[x]) <= DpuTable
      BY <1>0, <1>7 DEF SetsOK
    <3> QED BY <3>1, <3>2
  <2>3. SetsOK'
    BY <1>0, <1>10, <2>1, <2>2 DEF SetsOK, Index
  <2> QED BY <1>1, <1>10, <2>3, SameManager DEF IndInv, TypeOK, Run
<1>12. TableInv'
  <2>1. ASSUME NEW x \in Sets
        PROVE  /\ Created(x)' \subseteq Registered(x)'
               /\ \A i, j \in DOMAIN dpus'[x] : dpus'[x][i].id = dpus'[x][j].id => i = j
               /\ IsFiniteSet(Created(x)') /\ Cardinality(Created(x)') = Len(dpus'[x])
    <3>1. /\ Created(x) \subseteq Registered(x)
          /\ \A i, j \in DOMAIN dpus[x] : dpus[x][i].id = dpus[x][j].id => i = j
          /\ IsFiniteSet(Created(x)) /\ Cardinality(Created(x)) = Len(dpus[x])
      BY DEF IndInv, TableInv
    <3>2. CASE x # s
      BY <1>7, <1>9, <1>10, <3>1, <3>2
    <3>3. CASE x = s
      <4>1. \A i \in DOMAIN dpus[s] : dpus[s][i].id # id
        BY <1>2, <1>3 DEF Created
      <4>2. \A i, j \in DOMAIN dpus'[s] : dpus'[s][i].id = dpus'[s][j].id => i = j
        <5>1. ASSUME NEW i \in DOMAIN dpus'[s]
              PROVE  \/ i \in DOMAIN dpus[s] /\ dpus'[s][i].id = dpus[s][i].id
                     \/ i = Len(dpus[s]) + 1 /\ dpus'[s][i].id = id
          <6>1. i \in DOMAIN dpus[s] \/ i = Len(dpus[s]) + 1
            BY <1>6, <1>8
          <6> QED BY <1>8, <6>1
        <5>2. \A i, j \in DOMAIN dpus[s] : dpus[s][i].id = dpus[s][j].id => i = j
          BY <3>1, <3>3
        <5> QED BY <4>1, <5>1, <5>2
      <4>3. IsFiniteSet(Created(s)') /\ Cardinality(Created(s)') = Len(dpus[s]) + 1
        <5>1. IsFiniteSet(Created(s)) /\ Cardinality(Created(s)) = Len(dpus[s])
          BY <3>1, <3>3
        <5>2. /\ IsFiniteSet(Created(s) \cup {id})
              /\ Cardinality(Created(s) \cup {id}) = Len(dpus[s]) + 1
          BY <1>3, <5>1, FS_AddElement
        <5> QED BY <1>9, <5>2
      <4> QED BY <1>2, <1>8, <1>9, <1>10, <3>1, <3>3, <4>2, <4>3
    <3> QED BY <3>2, <3>3
  <2>2. created' \subseteq UNION {Created(x)' : x \in Sets}
    <3>1. \A x \in Sets : Created(x) \subseteq Created(x)'
      BY <1>9
    <3> QED BY <1>10, <3>1 DEF IndInv, TableInv
  <2>3. Creating(t)
    BY <1>s, <1>0, <1>2 DEF Creating
  <2>4. \A u \in Threads : Creating(u)' => u # t /\ Creating(u) /\ call[u].id # id
    BY <1>s, <1>1, <1>10, <2>3 DEF Creating, Others, IndInv, TableInv
  <2>5. ASSUME NEW u \in Threads, Creating(u)'
        PROVE  /\ call'[u].id \in Known' /\ \A x \in Sets : call'[u].id \notin Created(x)'
               /\ \A v \in Threads : Creating(v)' /\ call'[v].id = call'[u].id => v = u
    <3>1. /\ call[u].id \in Known /\ \A x \in Sets : call[u].id \notin Created(x)
          /\ \A v \in Threads : Creating(v) /\ call[v].id = call[u].id => v = u
      BY <2>4, <2>5 DEF IndInv, TableInv
    <3> QED BY <1>9, <1>10, <2>4, <2>5, <3>1
  <2>6. ASSUME NEW u \in Threads, pc'[u] = "leave", call'[u].op = "create"
        PROVE  (call[u].id \in Created(set[u]))'
    <3>1. CASE u = t
      <4>1. id \in {dpus'[s][i].id : i \in DOMAIN dpus'[s]}
        BY <1>6, <1>8
      <4> QED BY <1>s, <1>10, <3>1, <4>1 DEF Created
    <3>2. CASE u # t
      <4>1. pc[u] = "leave" /\ call[u].op = "create" /\ set[u] # s /\ set[u] \in Sets
        BY <1>1, <1>2, <1>10, <2>6, <3>2 DEF Others, IndInv, CallInv, CallOK, OnSet
      <4>2. call[u].id \in Created(set[u]) /\ dpus'[set[u]] = dpus[set[u]]
        BY <1>7, <4>1 DEF IndInv, TableInv
      <4> QED BY <1>10, <4>2 DEF Created
    <3> QED BY <3>1, <3>2
  <2> QED BY <2>1, <2>2, <2>5, <2>6 DEF TableInv
<1>13. ResultInv'
  <2>1. ResultOK(t)'
    BY <1>1, <1>10 DEF ResultOK
  <2>2. \A u \in Threads \ {t} : pc[u] \in {"pull", "merge"} => dpus'[set[u]] = dpus[set[u]]
    BY <1>2, <1>7 DEF IndInv, CallInv, CallOK, OnSet
  <2> QED BY <1>1, <1>10, <2>1, <2>2, ResultFrame
<1> QED BY <1>1, <1>11, <1>12, <1>13 DEF IndInv

(* A batch that creates no index keeps the slots of the DPUs and their ids, *)
(* a lookup all that is in them.                                           *)
LEMMA RunKeepsSlots ==
  ASSUME IndInv, NEW t \in Threads, Run(t), call[t].op # "create"
  PROVE  /\ dpus' \in [Sets -> Seq(Index)]
         /\ \A x \in Sets \ {set[t]} : dpus'[x] = dpus[x]
         /\ \A x \in Sets : /\ Len(dpus'[x]) = Len(dpus[x])
                           /\ DOMAIN dpus'[x] = DOMAIN dpus[x]
                           /\ \A i \in DOMAIN dpus[x] : dpus'[x][i].id = dpus[x][i].id
         /\ call[t].op = "lookup" => dpus' = dpus
<1>s. PICK s \in Sets, id \in Ids : s = set[t] /\ id = call[t].id
  BY Running DEF Run, Query
<1>0. SetsOK /\ pc[t] = "run"
  BY DEF IndInv, TypeOK, Run
<1>1. /\ dpus \in [Sets -> Seq(Index)]
      /\ dpus[s] \in Seq(Index) /\ DOMAIN dpus[s] = 1..Len(dpus[s])
      /\ \A i \in DOMAIN dpus[s] : dpus[s][i] \in Index
  BY <1>0, DpusTypes
<1>2. push[s] = call[t] /\ call[t] \in Query
  BY <1>s, <1>0, Running
<1>3. CASE dpus' = dpus
  BY <1>1, <1>3
<1>4. ASSUME NEW i \in DOMAIN dpus[s], NEW v \in SUBSET Vals,
             dpus' = [dpus EXCEPT ![s] = [dpus[s] EXCEPT ![i] = [dpus[s][i] EXCEPT !.vals = v]]],
             call[t].op = "lookup" => v = dpus[s][i].vals
      PROVE  /\ dpus' \in [Sets -> Seq(Index)]
             /\ \A x \in Sets \ {s} : dpus'[x] = dpus[x]
             /\ \A x \in Sets : /\ Len(dpus'[x]) = Len(dpus[x])
                               /\ DOMAIN dpus'[x] = DOMAIN dpus[x]
                               /\ \A j \in DOMAIN dpus[x] : dpus'[x][j].id = dpus[x][j].id
             /\ call[t].op = "lookup" => dpus' = dpus
  <2> DEFINE e == [dpus[s][i] EXCEPT !.vals = v]
             c == [dpus[s] EXCEPT ![i] = e]
  <2>1. e \in Index /\ e.id = dpus[s][i].id /\ (call[t].op = "lookup" => e = dpus[s][i])
    BY <1>1, <1>4 DEF Index
  <2>2. /\ c \in Seq(Index) /\ Len(c) = Len(dpus[s])
        /\ \A j \in DOMAIN dpus[s] : c[j] = IF j = i THEN e ELSE dpus[s][j]
    <3> HIDE DEF e
    <3> QED BY <1>1, <2>1, ExceptSeq
  <2>3. DOMAIN c = DOMAIN dpus[s] /\ \A j \in DOMAIN dpus[s] : c[j].id = dpus[s][j].id
    BY <2>1, <2>2
  <2>4. call[t].op = "lookup" => c = dpus[s]
    BY <1>1, <2>1
  <2> HIDE DEF c
  <2>5. dpus' = [dpus EXCEPT ![s] = c]
    BY <1>4 DEF c
  <2> QED BY <1>1, <2>2, <2>3, <2>4, <2>5
<1>5. ASSUME NEW i \in DOMAIN dpus[s],
             dpus' = [dpus EXCEPT ![s][i].vals =
                        CASE push[s].op = "insert" -> @ \cup {push[s].val}
                          [] push[s].op = "delete" -> @ \ {push[s].val}
                          [] push[s].op = "lookup" -> @]
      PROVE  \E v \in SUBSET Vals :
               /\ dpus' = [dpus EXCEPT ![s] = [dpus[s] EXCEPT ![i] = [dpus[s][i] EXCEPT !.vals = v]]]
               /\ call[t].op = "lookup" => v = dpus[s][i].vals
  <2> DEFINE v == CASE push[s].op = "insert" -> dpus[s][i].vals \cup {push[s].val}
                    [] push[s].op = "delete" -> dpus[s][i].vals \ {push[s].val}
                    [] push[s].op = "lookup" -> dpus[s][i].vals
  <2>1. dpus[s][i].vals \in SUBSET Vals /\ push[s].val \in Vals
    BY <1>1, <1>2 DEF Index, Query
  <2>2. push[s].op \in {"insert", "delete", "lookup"}
    BY <1>2 DEF Query, Ops
  <2>3. v \in SUBSET Vals /\ (call[t].op = "lookup" => v = dpus[s][i].vals)
    BY <1>2, <2>1, <2>2
  <2>4. dpus' = [dpus EXCEPT ![s] = [dpus[s] EXCEPT ![i] = [dpus[s][i] EXCEPT !.vals = v]]]
    BY <1>5
  <2> QED BY <2>3, <2>4
<1>6. \/ dpus' = dpus
      \/ \E i \in DOMAIN dpus[s] :
           dpus' = [dpus EXCEPT ![s][i].vals =
                      CASE push[s].op = "insert" -> @ \cup {push[s].val}
                        [] push[s].op = "delete" -> @ \ {push[s].val}
                        [] push[s].op = "lookup" -> @]
  BY <1>s, <1>2 DEF Run
<1> QED BY <1>s, <1>3, <1>4, <1>5, <1>6

LEMMA RunOtherInv ==
  ASSUME IndInv, NEW t \in Threads, Run(t), call[t].op # "create"
  PROVE  IndInv'
<1>s. PICK s \in Sets, id \in Ids : s = set[t] /\ id = call[t].id
  BY Running DEF Run, Query
<1>0. SetsOK /\ ThreadsOK /\ pc[t] = "run"
  BY DEF IndInv, TypeOK, Run
<1>1. /\ Others(t) /\ ThreadsOK' /\ LockInv' /\ CallInv' /\ MapInv'
      /\ pc'[t] = IF call[t].op = "lookup" THEN "pull" ELSE "leave"
      /\ seen'[t] = UNION {dpus[s][i].vals : i \in SlotsOf(s, id)}
  BY <1>s, RunRest
<1>2. /\ push[s] = call[t] /\ call[t] # NoQuery /\ call[t] \in Query
      /\ \A u \in Threads \ {t} : pc[u] \in {"run", "pull", "merge", "leave"} => set[u] # s
  BY <1>s, <1>0, Running
<1>3. /\ dpus' \in [Sets -> Seq(Index)]
      /\ \A x \in Sets \ {s} : dpus'[x] = dpus[x]
      /\ \A x \in Sets : /\ Len(dpus'[x]) = Len(dpus[x])
                        /\ DOMAIN dpus'[x] = DOMAIN dpus[x]
                        /\ \A i \in DOMAIN dpus[x] : dpus'[x][i].id = dpus[x][i].id
      /\ call[t].op = "lookup" => dpus' = dpus
  BY <1>s, RunKeepsSlots
<1>4. /\ \A x : Registered(x)' = Registered(x)
      /\ Known' = Known
      /\ UNCHANGED <<call, set, created, push, pull, slock, nr, calls>>
  BY SameMap DEF Run, manager
<1>5. \A x \in Sets : Created(x)' = Created(x)
  BY <1>3 DEF Created
<1>6. TypeOK'
  <2>1. SetsOK'
    BY <1>0, <1>3, <1>4 DEF SetsOK, Index
  <2> QED BY <1>1, <1>4, <2>1, SameManager DEF IndInv, TypeOK, Run
<1>7. TableInv'
  <2>1. ASSUME NEW x \in Sets
        PROVE  /\ Created(x)' \subseteq Registered(x)'
               /\ \A i, j \in DOMAIN dpus'[x] : dpus'[x][i].id = dpus'[x][j].id => i = j
               /\ IsFiniteSet(Created(x)') /\ Cardinality(Created(x)') = Len(dpus'[x])
    <3>1. /\ Created(x) \subseteq Registered(x)
          /\ \A i, j \in DOMAIN dpus[x] : dpus[x][i].id = dpus[x][j].id => i = j
          /\ IsFiniteSet(Created(x)) /\ Cardinality(Created(x)) = Len(dpus[x])
      BY DEF IndInv, TableInv
    <3> QED BY <1>3, <1>4, <1>5, <3>1
  <2>2. created' \subseteq UNION {Created(x)' : x \in Sets}
    BY <1>4, <1>5 DEF IndInv, TableInv
  <2>3. \A u \in Threads : Creating(u)' => Creating(u)
    BY <1>1, <1>4 DEF Creating, Others
  <2>4. ASSUME NEW u \in Threads, Creating(u)'
        PROVE  /\ call'[u].id \in Known' /\ \A x \in Sets : call'[u].id \notin Created(x)'
               /\ \A v \in Threads : Creating(v)' /\ call'[v].id = call'[u].id => v = u
    BY <1>4, <1>5, <2>3, <2>4 DEF IndInv, TableInv
  <2>5. ASSUME NEW u \in Threads, pc'[u] = "leave", call'[u].op = "create"
        PROVE  (call[u].id \in Created(set[u]))'
    <3>1. u # t /\ pc[u] = "leave" /\ call[u].op = "create" /\ set[u] \in Sets
      BY <1>1, <1>4, <2>5 DEF Others, IndInv, CallInv, CallOK, OnSet
    <3>2. call[u].id \in Created(set[u]) /\ dpus'[set[u]] = dpus[set[u]]
      BY <1>2, <1>3, <3>1 DEF IndInv, TableInv
    <3> QED BY <1>4, <3>2 DEF Created
  <2> QED BY <2>1, <2>2, <2>4, <2>5 DEF TableInv
<1>8. ResultInv'
  <2>1. call[t].op = "lookup" => Answer(s) = UNION {dpus[s][i].vals : i \in SlotsOf(s, id)}
    <3>1. \A i, j \in DOMAIN dpus[s] : dpus[s][i].id = dpus[s][j].id => i = j
      BY DEF IndInv, TableInv
    <3>2. DOMAIN dpus[s] = 1..Len(dpus[s])
      BY <1>0, DpusTypes
    <3>3. \A i \in DOMAIN dpus[s] : IsFirst(i, s, id) <=> i \in SlotsOf(s, id)
      BY <3>1, <3>2 DEF IsFirst, SlotsOf
    <3>4. {j \in DOMAIN dpus[s] : IsFirst(j, s, id)} = SlotsOf(s, id)
      BY <3>3 DEF SlotsOf
    <3> QED BY <1>s, <1>2, <3>4 DEF Answer
  <2>2. call[t].op = "lookup" => (Answer(set[t]) = seen[t])'
    <3>1. call[t].op = "lookup" => Answer(set[t])' = Answer(s)
      BY <1>s, <1>3, <1>4 DEF Answer, IsFirst, SlotsOf
    <3> QED BY <1>1, <2>1, <3>1
  <2>3. ResultOK(t)'
    BY <1>1, <1>4, <2>2 DEF ResultOK
  <2>4. \A u \in Threads \ {t} : pc[u] \in {"pull", "merge"} => dpus'[set[u]] = dpus[set[u]]
    BY <1>2, <1>3 DEF IndInv, CallInv, CallOK, OnSet
  <2> QED BY <1>1, <1>4, <2>3, <2>4, ResultFrame
<1> QED BY <1>1, <1>6, <1>7, <1>8 DEF IndInv

LEMMA PullInv ==
  ASSUME IndInv, NEW t \in Threads, Pull(t)
  PROVE  IndInv'
<1> USE DEF Pull, Goto
<1>0. ThreadsOK /\ SetsOK
  BY DEF IndInv, TypeOK
<1>1. Others(t)
  BY <1>0 DEF Others, ThreadsOK
<1>2. /\ pc[t] = "pull" /\ pc'[t] = "merge" /\ set[t] \in Sets
      /\ call'[t] = call[t] /\ late'[t] = late[t] /\ set'[t] = set[t] /\ seen'[t] = seen[t]
      /\ call[t].op = "lookup" /\ Answer(set[t]) = seen[t] /\ pull'[set[t]] = Answer(set[t])
  BY <1>0 DEF ThreadsOK, SetsOK, IndInv, CallInv, CallOK, OnSet, ResultInv, ResultOK
<1>3. TypeOK'
  <2>1. ThreadsOK'
    BY <1>0 DEF ThreadsOK, Labels
  <2>2. seen[t] \in SUBSET Vals
    BY <1>0 DEF ThreadsOK
  <2>3. pull' \in [Sets -> SUBSET Vals]
    BY <1>0, <1>2, <2>2 DEF SetsOK
  <2>4. SetsOK'
    BY <1>0, <2>3 DEF SetsOK
  <2> QED BY <2>1, <2>4, SameManager DEF IndInv, TypeOK
<1>4. LockInv'
  <2>0. LockOK(t)
    BY DEF IndInv, LockInv
  <2>1. LockOK(t)'
    BY <1>2, <2>0 DEF LockOK, manager
  <2> QED BY <1>1, <2>1, LockFrame DEF manager
<1>5. CallInv'
  <2>1. CallOK(t)
    BY DEF IndInv, CallInv
  <2>2. (call[t].id \in Registered(set[t]))'
    BY <1>2, <2>1 DEF CallOK, OnSet, Registered, Find, Range, manager
  <2>3. CallOK(t)'
    BY <1>2, <2>1, <2>2 DEF CallOK, OnSet
  <2> QED BY <1>1, <2>3, CallFrame, SameMap DEF manager
<1>6. MapInv'
  BY <1>1, <1>2, NoSlot DEF manager
<1>7. TableInv'
  <2>1. (Creating(t)' => Creating(t)) /\ pc'[t] # "leave"
    BY <1>2 DEF Creating
  <2> QED BY <1>1, <1>2, <2>1, TableFrame DEF IndInv, TableInv, manager
<1>8. ResultInv'
  <2>1. \A u \in Threads \ {t} : pc[u] \in {"pull", "merge"} => pull'[set[u]] = pull[set[u]]
    BY <1>0, <1>2, Alone DEF SetsOK, IndInv, CallInv, CallOK, OnSet
  <2>2. ResultOK(t)'
    BY <1>2 DEF ResultOK
  <2> QED BY <1>1, <2>1, <2>2, ResultFrame
<1> QED BY <1>3, <1>4, <1>5, <1>6, <1>7, <1>8 DEF IndInv

LEMMA MergeInv ==
  ASSUME IndInv, NEW t \in Threads, Merge(t)
  PROVE  IndInv'
<1> USE DEF Merge, Goto
<1>0. ThreadsOK /\ SetsOK
  BY DEF IndInv, TypeOK
<1>1. Others(t)
  BY <1>0 DEF Others, ThreadsOK
<1>2. /\ pc[t] = "merge" /\ pc'[t] = "leave" /\ set[t] \in Sets
      /\ call'[t] = call[t] /\ late'[t] = late[t] /\ set'[t] = set[t] /\ seen'[t] = seen[t]
      /\ call[t].op = "lookup" /\ pull[set[t]] = seen[t] /\ vals'[t] = pull[set[t]]
  BY <1>0 DEF ThreadsOK, IndInv, CallInv, CallOK, OnSet, ResultInv, ResultOK
<1>3. TypeOK'
  <2>1. pc' \in [Threads -> Labels]
    BY <1>0 DEF ThreadsOK, Labels
  <2>2. vals' \in [Threads -> SUBSET Vals]
    BY <1>0, <1>2 DEF ThreadsOK, SetsOK
  <2>3. ThreadsOK'
    BY <1>0, <2>1, <2>2 DEF ThreadsOK
  <2> QED BY <2>3, SameManager, SameSets DEF IndInv, TypeOK
<1>4. LockInv'
  <2>0. LockOK(t)
    BY DEF IndInv, LockInv
  <2>1. LockOK(t)'
    BY <1>2, <2>0 DEF LockOK, manager, sets
  <2> QED BY <1>1, <2>1, LockFrame DEF manager, sets
<1>5. CallInv'
  <2>1. CallOK(t)
    BY DEF IndInv, CallInv
  <2>2. (call[t].id \in Registered(set[t]))'
    BY <1>2, <2>1 DEF CallOK, OnSet, Registered, Find, Range, manager
  <2>3. CallOK(t)'
    BY <1>2, <2>1, <2>2 DEF CallOK, OnSet, sets
  <2> QED BY <1>1, <2>3, CallFrame, SameMap DEF manager, sets
<1>6. MapInv'
  BY <1>1, <1>2, NoSlot DEF manager, sets
<1>7. TableInv'
  <2>1. ~Creating(t)' /\ call'[t].op # "create"
    BY <1>2 DEF Creating
  <2> QED BY <1>1, <1>2, <2>1, TableFrame DEF IndInv, TableInv, manager, sets
<1>8. ResultInv'
  <2>1. ResultOK(t)'
    BY <1>2 DEF ResultOK
  <2> QED BY <1>1, <2>1, ResultFrame DEF sets
<1> QED BY <1>3, <1>4, <1>5, <1>6, <1>7, <1>8 DEF IndInv

LEMMA LeaveInv ==
  ASSUME IndInv, NEW t \in Threads, Leave(t)
  PROVE  IndInv'
<1> USE DEF Leave
<1>0. ThreadsOK /\ SetsOK
  BY DEF IndInv, TypeOK
<1>1. Others(t)
  BY <1>0 DEF Others, ThreadsOK, Returned, Goto
<1>2. /\ pc[t] = "leave" /\ pc'[t] = "idle" /\ set[t] \in Sets
      /\ call'[t] = NoQuery /\ late'[t] = FALSE /\ set'[t] = NoSet
  BY <1>0 DEF ThreadsOK, Returned, Goto, IndInv, CallInv, CallOK, OnSet
<1>3. TypeOK'
  <2>1. ThreadsOK'
    BY <1>0, ReturnedTypes
  <2>2. SetsOK'
    BY <1>0, <1>2 DEF SetsOK
  <2>3. created' \subseteq Ids
    BY <1>2, CallTypes DEF IndInv, TypeOK, CallInv, CallOK
  <2> QED BY <2>1, <2>2, <2>3, SameManager DEF IndInv, TypeOK
<1>4. LockInv'
  <2>0. LockOK(t)
    BY DEF IndInv, LockInv
  <2>1. slock[set[t]] = t
    BY <1>2, <2>0 DEF LockOK
  <2>2. LockOK(t)'
    BY <1>0, <1>2, <2>0, ManagerAssumption DEF LockOK, manager, SetsOK
  <2>3. \A u \in Threads \ {t} : \A s \in Sets : slock'[s] = u <=> slock[s] = u
    BY <1>0, <1>2, <2>1, ManagerAssumption DEF SetsOK
  <2> QED BY <1>1, <2>2, <2>3, LockFrame DEF manager
<1>5. CallInv'
  <2>1. CallOK(t)'
    BY <1>2 DEF CallOK, OnSet
  <2> QED BY <1>1, <2>1, CallFrame, SameMap DEF manager
<1>6. MapInv'
  BY <1>1, <1>2, NoSlot DEF manager
<1>7. TableInv'
  <2>1. ~Creating(t)' /\ pc'[t] # "leave"
    BY <1>2 DEF Creating
  <2>2. call[t].op = "create" => call[t].id \in Created(set[t])
    BY <1>2 DEF IndInv, TableInv
  <2>3. created' \subseteq UNION {Created(s) : s \in Sets}
    BY <1>2, <2>2 DEF IndInv, TableInv
  <2> QED BY <1>1, <2>1, <2>3, TableFrame DEF manager
<1>8. ResultInv'
  <2>1. ResultOK(t)'
    BY <1>2 DEF ResultOK
  <2> QED BY <1>1, <2>1, ResultFrame
<1> QED BY <1>3, <1>4, <1>5, <1>6, <1>7, <1>8 DEF IndInv

-----------------------------------------------------------------------------
(* The locks, the map, the counters, the DPUs and the results on their way  *)
(* fit together whatever calls the threads make and however they interleave: *)
(* no handler between pthread_mutex_lock and pthread_mutex_unlock needs more *)
(* than the lock it holds.                                                  *)
THEOREM Invariance == Spec => []IndInv
<1>1. IndInv /\ [Next]_vars => IndInv'
  <2> SUFFICES ASSUME IndInv, [Next]_vars PROVE IndInv'
    OBVIOUS
  <2>1. ASSUME NEW t \in Threads, Step(t) PROVE IndInv'
    BY <2>1, LockManagerInv, ApplyLockInv, ApplyCountInv, RegisterInv, FindSetInv, EnterInv,
       BuildInv, RunCreateInv, RunOtherInv, PullInv, MergeInv, LeaveInv DEF Step
  <2>2. ASSUME NEW t \in Threads, NEW q \in Query, Begin(t, q) PROVE IndInv'
    BY <2>2, BeginInv
  <2>3. CASE UNCHANGED vars
    <3>1. /\ UNCHANGED <<manager, sets, pc, call, set, vals, late, seen, calls, created>>
          /\ UNCHANGED <<mlock, nrIndex, map, slock, nr, push, pull, dpus>>
      BY <2>3 DEF vars, manager, sets, thread
    <3>2. TypeOK'
      BY <3>1, SameManager, SameSets DEF IndInv, TypeOK, ThreadsOK
    <3>3. LockInv'
      BY <3>1 DEF IndInv, LockInv, LockOK
    <3>4. CallInv'
      BY <3>1 DEF IndInv, CallInv, CallOK, Registered, Find, Range
    <3>5. MapInv'
      <4>1. \A s \in Sets : nr[s] \in Nat
        BY ManagerAssumption DEF IndInv, TypeOK, SetsOK
      <4>2. \A s : Reserved(s)' = Reserved(s) /\ Reserved(s) \in Nat
        BY <3>1 DEF Reserved
      <4> QED BY <3>1, <4>1, <4>2, MapFrame
    <3>6. TableInv'
      <4>1. /\ \A s : Registered(s)' = Registered(s) /\ Created(s)' = Created(s)
            /\ Known' = Known /\ \A t : Creating(t)' = Creating(t)
        BY <3>1, SameMap, SameTables DEF Creating
      <4>2. \A t \in Threads : pc'[t] = "leave" /\ call'[t].op = "create" =>
              (call[t].id \in Created(set[t]))'
        BY <3>1 DEF IndInv, TableInv, Created
      <4> QED BY <3>1, <4>1, <4>2 DEF IndInv, TableInv
    <3>7. ResultInv'
      BY <3>1 DEF IndInv, ResultInv, ResultOK, Answer, IsFirst, SlotsOf
    <3> QED BY <3>2, <3>3, <3>4, <3>5, <3>6, <3>7 DEF IndInv
  <2> QED BY <2>1, <2>2, <2>3 DEF Next
<1> QED BY <1>1, InitInv, PTL DEF Spec

(* A DPU never refuses an index for want of a slot in its table: the manager *)
(* gives out no more slots of a set than the DPUs have.                     *)
THEOREM TablesNeverFull == Spec => []TableNeverFull
<1>1. IndInv => TableNeverFull
  BY SlotForCreate DEF TableNeverFull
<1> QED BY <1>1, Invariance, PTL

(* The map never names two sets for an index, and no DPU table holds an      *)
(* index twice or one the map places elsewhere, although the slot is counted *)
(* long before the index is created.                                        *)
THEOREM EveryIndexHasOneHome == Spec => []OneHome
<1>1. IndInv => OneHome
  <2> SUFFICES ASSUME IndInv PROVE OneHome
    OBVIOUS
  <2>1. ASSUME NEW id \in Ids PROVE Cardinality(Find(id)) <= 1
    <3>1. CASE Find(id) = {}
      BY <3>1, FS_EmptySet
    <3>2. ASSUME NEW e \in Find(id) PROVE Cardinality(Find(id)) <= 1
      <4>1. Find(id) = {e}
        BY <3>2 DEF IndInv, MapInv
      <4> QED BY <4>1, FS_Singleton
    <3> QED BY <3>1, <3>2
  <2>2. \A s \in Sets : Created(s) \subseteq Registered(s) /\ Cardinality(Created(s)) = Len(dpus[s])
    BY DEF IndInv, TableInv
  <2> QED BY <2>1, <2>2 DEF OneHome
<1> QED BY <1>1, Invariance, PTL

(* The counters never fall behind: a refused create may waste a slot, none   *)
(* is given out twice.                                                      *)
THEOREM EveryIndexHasASlot == Spec => []SlotsSuffice
<1>1. IndInv => SlotsSuffice
  <2> SUFFICES ASSUME IndInv PROVE SlotsSuffice
    OBVIOUS
  <2>1. nrIndex = Cardinality(Known)
    BY DEF IndInv, MapInv
  <2>2. ASSUME NEW s \in Sets PROVE Cardinality(Registered(s)) <= nr[s]
    <3>1. IsFiniteSet(Registered(s)) /\ Cardinality(Registered(s)) + Reserved(s) <= nr[s]
      BY DEF IndInv, MapInv
    <3>2. Cardinality(Registered(s)) \in Nat /\ nr[s] \in Nat /\ Reserved(s) \in Nat
      BY <3>1, FS_CardinalityType, ManagerAssumption DEF IndInv, TypeOK, SetsOK, Reserved
    <3> QED BY <3>1, <3>2
  <2> QED BY <2>1, <2>2 DEF SlotsSuffice
<1> QED BY <1>1, Invariance, PTL

(* A call that starts after the create of its index has returned meets the   *)
(* index in the DPUs: the map leads it to the set where the create went.     *)
THEOREM LateCallsFind == Spec => []LateCallsFindIndex
<1>1. IndInv => LateCallsFindIndex
  <2> SUFFICES ASSUME IndInv, NEW t \in Threads, pc[t] = "run", late[t], call[t].op # "create"
               PROVE  SlotsOf(set[t], call[t].id) # {}
    BY DEF LateCallsFindIndex
  <2>1. /\ set[t] \in Sets /\ call[t].id \in Registered(set[t])
        /\ call[t].id \in created /\ call[t].id \in Ids
    BY Running DEF IndInv, CallInv, CallOK, Query
  <2>2. PICK s \in Sets : call[t].id \in Created(s)
    BY <2>1 DEF IndInv, TableInv
  <2>3. call[t].id \in Registered(s)
    BY <2>2 DEF IndInv, TableInv
  <2>4. s = set[t]
    BY <2>1, <2>3 DEF Registered, IndInv, MapInv
  <2> QED BY <2>2, <2>4 DEF Created, SlotsOf
<1> QED BY <1>1, Invariance, PTL

(* The pull buffers of a set are shared by all threads, yet a lookup returns *)
(* what its own batch found.                                                *)
THEOREM ResultsAreOwn == Spec => []OwnResults
<1>1. IndInv => OwnResults
  BY DEF IndInv, ResultInv, ResultOK, OwnResults
<1> QED BY <1>1, Invariance, PTL
=============================================================================
