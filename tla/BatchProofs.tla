------------------------------ MODULE BatchProofs ------------------------------
(***************************************************************************)
(* Proofs about the batches of a DPU set: the sizes of their packages, for *)
(* any number of DPUs, any buffer and any batches that fit it, and what    *)
(* they do to the indexes and to the caller's array, for any number of     *)
(* DPUs, any keys and hash, and any sequence of batches.                   *)
(***************************************************************************)
EXTENDS BatchOps, PushPackage, BlockDecompProofs, SequenceTheorems

PackageTypeOK ==
  /\ step \in {"idle", "push"}
  /\ type \in 0..CREATE
  /\ kv_offset \in [Packages -> {-1, QueryParam}]
  /\ used_memory \in [Packages -> Nat]
  /\ nonsense \in [Packages -> Junk]
  /\ nnz \in [Packages -> Nat]
  /\ sent \in Nat

(* What the build of a package leaves for its transfer.  A kv_set is there  *)
(* in all packages or in none.                                             *)
PackageReady ==
  step = "push" =>
    /\ type # 0
    /\ used_memory = InEach(QueryParam)
    /\ \/ type = CREATE /\ kv_offset = InEach(-1)
       \/ type # CREATE /\ kv_offset = InEach(QueryParam) /\ nnz \in [Packages -> Lengths]

PackageInv == PackageTypeOK /\ PackageReady /\ SentWhole

(* The lengths of a package, by the numbers that sizeof stands for. *)
LEMMA PackageSizes ==
  /\ PackageHead = 16 /\ QueryParam = 16 /\ KvHead = 8 /\ KvElem = 24 /\ CREATE = 4
BY DEF PackageHead, QueryParam, KvHead, KvElem, CREATE

(* As many elements as the capacity says end inside the buffer.             *)
LEMMA ElementsFit ==
  ASSUME NEW n \in Nat, n <= Capacity(QueryParam)
  PROVE  24 * n + 24 <= MaxPushBuf
<1>1. MaxPushBuf \in Nat /\ MaxPushBuf - 24 \in Int
  BY PackageAssumption
<1>2. Capacity(QueryParam) = (MaxPushBuf - 24) \div 24
  <2>1. MaxPushBuf - QueryParam - KvHead = MaxPushBuf - 24
    BY <1>1, PackageSizes
  <2> QED BY <2>1, PackageSizes DEF Capacity
<1>3. 24 * ((MaxPushBuf - 24) \div 24) <= MaxPushBuf - 24
  BY <1>1
<1>4. (MaxPushBuf - 24) \div 24 \in Int
  BY <1>1
<1> QED BY <1>1, <1>2, <1>3, <1>4

(* A size of a package needs no rounding. *)
LEMMA SizeAligned ==
  ASSUME NEW n \in Nat
  PROVE  Align8(40 + 24 * n) = 40 + 24 * n
<1>1. (40 + 24 * n + 7) \div 8 = 5 + 3 * n
  OBVIOUS
<1> QED BY <1>1 DEF Align8

(* Before the first batch the packages are as Init leaves them. *)
LEMMA PackageInitInv == PackageInit => PackageInv
<1> SUFFICES ASSUME PackageInit PROVE PackageInv
  OBVIOUS
<1>1. PackageTypeOK
  BY PackageSizes DEF PackageInit, PackageTypeOK, InEach
<1> QED BY <1>1 DEF PackageInit, PackageInv, PackageReady, SentWhole

(* A built package is ready; what was sent before is forgotten.             *)
LEMMA PackageBuildInv ==
  ASSUME PackageInv, BuildQuery \/ BuildBatch
  PROVE  PackageInv'
<1> USE PackageSizes DEF PackageInv, PackageTypeOK, InEach
<1>1. used_memory' = InEach(QueryParam) /\ step' = "push"
  BY DEF BuildQuery, BuildBatch, Reset
<1>2. CASE BuildQuery
  <2>1. PackageTypeOK'
    BY <1>1, <1>2 DEF BuildQuery
  <2>2. PackageReady'
    BY <1>1, <1>2 DEF BuildQuery, PackageReady
  <2> QED BY <1>1, <2>1, <2>2 DEF SentWhole
<1>3. CASE BuildBatch
  <2>1. nnz' \in [Packages -> Lengths] /\ Lengths \subseteq Nat
    BY <1>3, PackageAssumption DEF BuildBatch
  <2>2. nnz' \in [Packages -> Nat]
    BY <2>1
  <2>3. PackageTypeOK'
    BY <1>1, <1>3, <2>2 DEF BuildBatch
  <2>4. PackageReady'
    BY <1>1, <1>3, <2>1 DEF BuildBatch, PackageReady
  <2> QED BY <1>1, <2>3, <2>4 DEF SentWhole
<1> QED BY <1>2, <1>3

(* A transfer takes all packages along whole: their size counts as many     *)
(* elements as they have, and for a package without elements a number that  *)
(* is small enough.                                                        *)
LEMMA PackagePushInv ==
  ASSUME PackageInv, PushPackages
  PROVE  PackageInv'
<1> USE PackageSizes DEF PackageInv, PackageTypeOK
<1>1. /\ step = "push" /\ step' = "idle" /\ type # 0
      /\ type' = type /\ kv_offset' = kv_offset /\ nonsense' = nonsense /\ nnz' = nnz
      /\ used_memory' = [d \in Packages |-> Used(d)]
  BY DEF PushPackages, PackageReady
<1>2. ASSUME NEW d \in Packages
      PROVE  Nnz(d) \in Nat /\ Nnz(d) <= Capacity(QueryParam)
  <2>1. CASE type = CREATE
    <3>1. kv_offset[d] = -1 /\ nonsense[d] \in 0..255
      BY <1>1, <2>1, PackageAssumption DEF PackageReady, InEach
    <3>2. Nnz(d) = nonsense[d] + 256 * CREATE
      BY <2>1, <3>1 DEF Nnz
    <3>3. 256 * CREATE + 255 <= Capacity(QueryParam) /\ Capacity(QueryParam) \in Int
      BY PackageAssumption DEF Capacity
    <3> QED BY <3>1, <3>2, <3>3
  <2>2. CASE type # CREATE
    <3>1. kv_offset[d] = QueryParam /\ nnz[d] \in Lengths
      BY <1>1, <2>2 DEF PackageReady, InEach
    <3>2. Nnz(d) = nnz[d]
      BY <3>1 DEF Nnz
    <3>3. Lengths \subseteq 0..Capacity(QueryParam) /\ Capacity(QueryParam) \in Int
      BY PackageAssumption DEF Capacity
    <3> QED BY <3>1, <3>2, <3>3
  <2> QED BY <2>1, <2>2
<1>3. ASSUME NEW d \in Packages
      PROVE  /\ Used(d) = 24 + 24 * Nnz(d) /\ Used(d) \in Nat
             /\ PackageSize(d) = 40 + 24 * Nnz(d) /\ Align8(PackageSize(d)) = PackageSize(d)
             /\ EndOf(d)' <= PackageSize(d)
  <2>1. Used(d) = 24 + 24 * Nnz(d)
    BY <1>1, <1>2 DEF Used, PackageReady, InEach
  <2>2. PackageSize(d) = 40 + 24 * Nnz(d)
    BY <1>2, <2>1 DEF PackageSize
  <2>3. Align8(PackageSize(d)) = PackageSize(d)
    BY <1>2, <2>2, SizeAligned
  <2>4. EndOf(d)' <= PackageSize(d)
    <3>1. CASE kv_offset[d] = -1
      BY <1>1, <1>2, <2>2, <3>1 DEF EndOf
    <3>2. CASE kv_offset[d] = QueryParam
      <4>1. Nnz(d) = nnz[d]
        BY <3>2 DEF Nnz
      <4> QED BY <1>1, <1>2, <2>2, <3>2, <4>1 DEF EndOf
    <3> QED BY <3>1, <3>2
  <2> QED BY <1>2, <2>1, <2>2, <2>3, <2>4
<1>4. PICK d \in Packages : (\A e \in Packages : PackageSize(e) <= PackageSize(d)) /\ sent' = Align8(PackageSize(d))
  BY DEF PushPackages
<1>5. sent' = 40 + 24 * Nnz(d) /\ sent' = PackageSize(d) /\ sent' \in Nat
  BY <1>2, <1>3, <1>4
<1>6. PackageTypeOK'
  BY <1>1, <1>3, <1>5
<1>7. PackageReady'
  BY <1>1 DEF PackageReady
<1>8. sent' <= PackageHead + MaxPushBuf
  BY <1>2, <1>5, ElementsFit, PackageAssumption
<1>9. ASSUME NEW e \in Packages PROVE EndOf(e)' <= sent'
  <2>1. EndOf(e)' <= PackageSize(e) /\ PackageSize(e) <= PackageSize(d) /\ EndOf(e)' \in Int
    <3>1. EndOf(e)' \in Int
      BY <1>6 DEF EndOf
    <3> QED BY <1>3, <1>4, <3>1
  <2> QED BY <1>2, <1>3, <1>5, <2>1
<1>10. ASSUME NEW e \in Packages
       PROVE  EndOf(e)' <= CooResult \/ nnz[e]' = Capacity(QueryParam)
  <2>1. CASE kv_offset[e] = -1
    <3>1. EndOf(e)' = 32
      BY <1>1, <2>1 DEF EndOf
    <3>2. 1 <= Capacity(QueryParam)
      BY PackageAssumption DEF Capacity
    <3> QED BY <3>1, <3>2, ElementsFit, PackageAssumption
  <2>2. CASE kv_offset[e] = QueryParam
    <3>1. EndOf(e)' = 40 + 24 * nnz[e] /\ Nnz(e) = nnz[e] /\ nnz[e] \in Nat
      BY <1>1, <2>2 DEF EndOf, Nnz
    <3>2. nnz[e] <= Capacity(QueryParam) /\ Capacity(QueryParam) \in Int
      BY <1>2, <3>1, PackageAssumption DEF Capacity
    <3>3. CASE nnz[e] # Capacity(QueryParam)
      <4>1. nnz[e] + 1 \in Nat /\ nnz[e] + 1 <= Capacity(QueryParam)
        BY <3>1, <3>2, <3>3
      <4>2. 24 * (nnz[e] + 1) + 24 <= MaxPushBuf
        BY <4>1, ElementsFit
      <4> QED BY <3>1, <4>2, PackageAssumption
    <3> QED BY <1>1, <3>3
  <2> QED BY <2>1, <2>2
<1> QED BY <1>6, <1>7, <1>8, <1>9, <1>10 DEF SentWhole

-----------------------------------------------------------------------------
(* dpu_push_package sends every package whole and reads no byte behind one, *)
(* and at most a full package reaches into the results of its DPU, for any  *)
(* number of DPUs and any batches within the capacity.                      *)
THEOREM PackagesSentWhole == PackageSpec => []SentWhole
<1>1. PackageInv /\ [PackageNext]_packageVars => PackageInv'
  <2> SUFFICES ASSUME PackageInv, [PackageNext]_packageVars PROVE PackageInv'
    OBVIOUS
  <2>1. CASE UNCHANGED packageVars
    BY <2>1 DEF packageVars, PackageInv, PackageTypeOK, PackageReady, SentWhole, EndOf
  <2> QED BY <2>1, PackageBuildInv, PackagePushInv DEF PackageNext
<1>2. PackageInv => SentWhole
  BY DEF PackageInv
<1> QED BY PackageInitInv, <1>1, <1>2, PTL DEF PackageSpec
-----------------------------------------------------------------------------
(* Sums over finite sets.                                                  *)

(* One turn of the recursion by which SumFunction adds up f. *)
Turn(f, g, T) ==
  IF T = {} THEN 0 ELSE f[CHOOSE x \in T : TRUE] + g[T \ {CHOOSE x \in T : TRUE}]

SumWalk(f) == CHOOSE g : g = [T \in SUBSET DOMAIN f |-> Turn(f, g, T)]

(* The sum of f over T. *)
SumOver(f, T) == SumWalk(f)[T]

(* The community modules' sum is that recursion. *)
LEMMA SumIsWalk ==
  ASSUME NEW f
  PROVE  SumFunction(f) = SumOver(f, DOMAIN f)
BY DEF SumFunction, SumFunctionOnSet, FoldFunctionOnSet, MapThenFoldSet, SumOver, SumWalk, Turn

(* The recursion has a solution. *)
LEMMA SumTurns ==
  ASSUME NEW f, IsFiniteSet(DOMAIN f), NEW T \in SUBSET DOMAIN f
  PROVE  SumOver(f, T) = Turn(f, SumWalk(f), T)
<1> PICK S : S = DOMAIN f
  OBVIOUS
<1> DEFINE Small(n) == {U \in SUBSET S : Cardinality(U) <= n}
           Walk(g, n) == g = [U \in Small(n) |-> Turn(f, g, U)]
           Done == {n \in Nat : \E g : Walk(g, n)}
<1>1. ASSUME NEW U \in SUBSET S PROVE IsFiniteSet(U) /\ Cardinality(U) \in Nat
  BY FS_Subset, FS_CardinalityType
<1>2. ASSUME NEW n \in Nat, NEW U \in Small(n + 1), U # {}
      PROVE  U \ {CHOOSE x \in U : TRUE} \in Small(n)
  <2> PICK x \in U : x = CHOOSE y \in U : TRUE
    BY <1>2
  <2>1. Cardinality(U \ {x}) = Cardinality(U) - 1
    BY <1>1, FS_RemoveElement
  <2>2. Cardinality(U) \in Nat /\ Cardinality(U) <= n + 1
    BY <1>1
  <2> QED BY <2>1, <2>2
<1>3. 0 \in Done
  <2> DEFINE g == [U \in Small(0) |-> 0]
  <2>1. ASSUME NEW U \in Small(0) PROVE Turn(f, g, U) = 0
    <3>1. Cardinality(U) = 0
      BY <1>1
    <3>2. U = {}
      BY <1>1, <3>1, FS_EmptySet
    <3> QED BY <3>2 DEF Turn
  <2>2. Walk(g, 0)
    BY <2>1
  <2> QED BY <2>2
<1>4. ASSUME NEW n \in Nat, NEW g, Walk(g, n)
      PROVE  \E h : Walk(h, n + 1)
  <2> DEFINE h == [U \in Small(n + 1) |-> Turn(f, g, U)]
  <2>1. ASSUME NEW U \in Small(n) PROVE h[U] = g[U]
    <3>1. U \in Small(n + 1)
      BY <1>1
    <3>2. h[U] = Turn(f, g, U)
      BY <3>1
    <3>3. g[U] = Turn(f, g, U)
      BY <1>4
    <3> QED BY <3>2, <3>3
  <2> HIDE DEF h
  <2>2. ASSUME NEW U \in Small(n + 1) PROVE Turn(f, h, U) = Turn(f, g, U)
    <3>1. CASE U = {}
      BY <3>1 DEF Turn
    <3>2. CASE U # {}
      <4>1. h[U \ {CHOOSE x \in U : TRUE}] = g[U \ {CHOOSE x \in U : TRUE}]
        <5> HIDE DEF Small
        <5> QED BY <1>2, <2>1, <3>2
      <4> QED BY <4>1 DEF Turn
    <3> QED BY <3>1, <3>2
  <2> HIDE DEF Small
  <2>3. Walk(h, n + 1)
    BY <2>2 DEF h
  <2> QED BY <2>3
<1> PICK m \in Nat : m = Cardinality(S)
  BY FS_CardinalityType
<1>5. m \in Done
  <2>1. \A n \in 1..m : n - 1 \in Done => n \in Done
    <3> SUFFICES ASSUME NEW n \in 1..m, n - 1 \in Done PROVE n \in Done
      OBVIOUS
    <3>1. PICK k \in Nat : k = n - 1
      OBVIOUS
    <3>2. PICK g : Walk(g, k)
      BY <3>1
    <3> HIDE DEF Walk
    <3>3. \E h : Walk(h, k + 1)
      BY <1>4, <3>2
    <3> QED BY <3>1, <3>3
  <2> HIDE DEF Done
  <2> QED BY <1>3, <2>1, UpTo
<1>6. Small(m) = SUBSET DOMAIN f
  BY FS_Subset
<1>7. SumWalk(f) = [U \in SUBSET DOMAIN f |-> Turn(f, SumWalk(f), U)]
  <2> HIDE DEF Small
  <2>1. \E g : g = [U \in SUBSET DOMAIN f |-> Turn(f, g, U)]
    BY <1>5, <1>6
  <2> QED BY <2>1 DEF SumWalk
<1> QED BY <1>7 DEF SumOver

(* A sum of naturals is a natural number, made up element by element. *)
LEMMA SumNat ==
  ASSUME NEW S, IsFiniteSet(S), NEW f \in [S -> Nat]
  PROVE  /\ \A T \in SUBSET S : SumOver(f, T) \in Nat
         /\ \A T \in SUBSET S : T # {} =>
              \E x \in T : SumOver(f, T) = f[x] + SumOver(f, T \ {x})
         /\ SumOver(f, {}) = 0
<1> DEFINE Sum(T) == SumOver(f, T)
           Done == {n \in Nat : \A T \in SUBSET S : Cardinality(T) = n => Sum(T) \in Nat}
<1>1. ASSUME NEW T \in SUBSET S
      PROVE  /\ IsFiniteSet(T) /\ Cardinality(T) \in Nat
             /\ \A x \in T : Cardinality(T \ {x}) = Cardinality(T) - 1
  BY FS_Subset, FS_CardinalityType, FS_RemoveElement
<1>2. Sum({}) = 0
  BY SumTurns DEF Turn
<1>3. ASSUME NEW T \in SUBSET S, T # {}
      PROVE  \E x \in T : Sum(T) = f[x] + Sum(T \ {x})
  <2>1. Sum(T) = Turn(f, SumWalk(f), T)
    BY SumTurns
  <2> QED BY <1>3, <2>1 DEF Turn, SumOver
<1>4. 0 \in Done
  <2> SUFFICES ASSUME NEW T \in SUBSET S, Cardinality(T) = 0 PROVE Sum(T) \in Nat
    OBVIOUS
  <2>1. T = {}
    BY <1>1, FS_EmptySet
  <2> QED BY <1>2, <2>1
<1>5. ASSUME NEW n \in Nat, n \in Done PROVE n + 1 \in Done
  <2> SUFFICES ASSUME NEW T \in SUBSET S, Cardinality(T) = n + 1 PROVE Sum(T) \in Nat
    OBVIOUS
  <2>1. T # {}
    BY FS_EmptySet
  <2>2. PICK c \in T : Sum(T) = f[c] + Sum(T \ {c})
    BY <1>3, <2>1
  <2>3. T \ {c} \in SUBSET S /\ Cardinality(T \ {c}) = n
    BY <1>1
  <2>4. Sum(T \ {c}) \in Nat
    BY <1>5, <2>3
  <2> HIDE DEF Sum
  <2> QED BY <2>2, <2>4
<1>6. ASSUME NEW T \in SUBSET S PROVE Sum(T) \in Nat
  <2> PICK m \in Nat : m = Cardinality(T)
    BY <1>1
  <2>1. \A n \in 1..m : n - 1 \in Done => n \in Done
    <3> SUFFICES ASSUME NEW n \in 1..m, n - 1 \in Done PROVE n \in Done
      OBVIOUS
    <3>1. PICK k \in Nat : k = n - 1
      OBVIOUS
    <3>2. k + 1 = n /\ k \in Done
      BY <3>1
    <3> HIDE DEF Done
    <3> QED BY <1>5, <3>2
  <2>2. m \in Done
    <3> HIDE DEF Done
    <3> QED BY <1>4, <2>1, UpTo
  <2> QED BY <2>2
<1> QED BY <1>2, <1>3, <1>6

(* Any element may be taken out first. *)
LEMMA SumTakes ==
  ASSUME NEW S, IsFiniteSet(S), NEW f \in [S -> Nat], NEW T \in SUBSET S, NEW x \in T
  PROVE  SumOver(f, T) = f[x] + SumOver(f, T \ {x})
<1> DEFINE Sum(U) == SumOver(f, U)
           Right(U) == \A y \in U : Sum(U) = f[y] + Sum(U \ {y})
           Done == {n \in Nat : \A U \in SUBSET S : Cardinality(U) = n => Right(U)}
<1>1. ASSUME NEW U \in SUBSET S
      PROVE  /\ IsFiniteSet(U) /\ Cardinality(U) \in Nat
             /\ \A y \in U : Cardinality(U \ {y}) = Cardinality(U) - 1
  BY FS_Subset, FS_CardinalityType, FS_RemoveElement
<1>2. \A U \in SUBSET S : Sum(U) \in Nat
  BY SumNat
<1>3. 0 \in Done
  <2> SUFFICES ASSUME NEW U \in SUBSET S, Cardinality(U) = 0 PROVE Right(U)
    OBVIOUS
  <2> QED BY <1>1, FS_EmptySet
<1>4. ASSUME NEW n \in Nat, n \in Done PROVE n + 1 \in Done
  <2> SUFFICES ASSUME NEW U \in SUBSET S, Cardinality(U) = n + 1, NEW y \in U
               PROVE  Sum(U) = f[y] + Sum(U \ {y})
    OBVIOUS
  <2>1. PICK c \in U : Sum(U) = f[c] + Sum(U \ {c})
    BY SumNat
  <2>2. ASSUME NEW z \in U PROVE Right(U \ {z})
    <3>1. U \ {z} \in SUBSET S /\ Cardinality(U \ {z}) = n
      BY <1>1
    <3> QED BY <1>4, <3>1
  <2> HIDE DEF Done, Sum
  <2>3. CASE y = c
    BY <2>1, <2>3
  <2>4. CASE y # c
    <3>1. Sum(U \ {c}) = f[y] + Sum((U \ {c}) \ {y})
      BY <2>2, <2>4
    <3>2. Sum(U \ {y}) = f[c] + Sum((U \ {y}) \ {c})
      BY <2>2, <2>4
    <3>3. (U \ {c}) \ {y} = (U \ {y}) \ {c} /\ (U \ {c}) \ {y} \in SUBSET S
      OBVIOUS
    <3>4. Sum((U \ {c}) \ {y}) \in Nat /\ f[y] \in Nat /\ f[c] \in Nat
      BY <1>2, <3>3
    <3> PICK a, b, r : a = f[c] /\ b = f[y] /\ r = Sum((U \ {c}) \ {y})
      OBVIOUS
    <3>5. a \in Nat /\ b \in Nat /\ r \in Nat
      BY <3>4
    <3>6. Sum(U) = a + (b + r) /\ f[y] + Sum(U \ {y}) = b + (a + r)
      BY <2>1, <3>1, <3>2, <3>3
    <3> QED BY <3>5, <3>6
  <2> QED BY <2>3, <2>4
<1> PICK m \in Nat : m = Cardinality(T)
  BY <1>1
<1>5. \A n \in 1..m : n - 1 \in Done => n \in Done
  <2> SUFFICES ASSUME NEW n \in 1..m, n - 1 \in Done PROVE n \in Done
    OBVIOUS
  <2>1. PICK k \in Nat : k = n - 1
    OBVIOUS
  <2>2. k + 1 = n /\ k \in Done
    BY <2>1
  <2> HIDE DEF Done
  <2> QED BY <1>4, <2>2
<1>6. m \in Done
  <2> HIDE DEF Done
  <2> QED BY <1>3, <1>5, UpTo
<1> QED BY <1>6

(* A sum of naturals is a natural number, is no less than any of its terms, *)
(* and is equal to one of them if all others are 0.                        *)
LEMMA SumFacts ==
  ASSUME NEW S, IsFiniteSet(S), NEW f \in [S -> Nat]
  PROVE  /\ SumFunction(f) \in Nat
         /\ \A x \in S : f[x] <= SumFunction(f)
         /\ \A x \in S : (\A y \in S \ {x} : f[y] = 0) => SumFunction(f) = f[x]
<1>1. SumFunction(f) = SumOver(f, S) /\ S \in SUBSET S
  BY SumIsWalk
<1>2. \A T \in SUBSET S : SumOver(f, T) \in Nat
  BY SumNat
<1>3. ASSUME NEW x \in S
      PROVE  SumOver(f, S) = f[x] + SumOver(f, S \ {x}) /\ SumOver(f, S \ {x}) \in Nat /\ f[x] \in Nat
  BY <1>2, SumTakes
<1>4. ASSUME NEW x \in S, \A y \in S \ {x} : f[y] = 0
      PROVE  SumOver(f, S \ {x}) = 0
  <2> DEFINE Sum(U) == SumOver(f, U)
             Done == {n \in Nat : \A U \in SUBSET (S \ {x}) : Cardinality(U) = n => Sum(U) = 0}
  <2>1. ASSUME NEW U \in SUBSET S
        PROVE  /\ IsFiniteSet(U) /\ Cardinality(U) \in Nat
               /\ \A y \in U : Cardinality(U \ {y}) = Cardinality(U) - 1
    BY FS_Subset, FS_CardinalityType, FS_RemoveElement
  <2>2. 0 \in Done
    <3> SUFFICES ASSUME NEW U \in SUBSET (S \ {x}), Cardinality(U) = 0 PROVE Sum(U) = 0
      OBVIOUS
    <3>1. U = {}
      BY <2>1, FS_EmptySet
    <3> QED BY <3>1, SumNat
  <2>3. ASSUME NEW n \in Nat, n \in Done PROVE n + 1 \in Done
    <3> SUFFICES ASSUME NEW U \in SUBSET (S \ {x}), Cardinality(U) = n + 1 PROVE Sum(U) = 0
      OBVIOUS
    <3>1. U # {}
      BY FS_EmptySet
    <3>2. PICK y \in U : Sum(U) = f[y] + Sum(U \ {y})
      <4>1. U \in SUBSET S
        OBVIOUS
      <4> QED BY <3>1, <4>1, SumNat
    <3>3. U \ {y} \in SUBSET (S \ {x}) /\ Cardinality(U \ {y}) = n
      BY <2>1
    <3>4. Sum(U \ {y}) = 0 /\ f[y] = 0
      BY <1>4, <2>3, <3>3
    <3> HIDE DEF Sum
    <3> QED BY <3>2, <3>4
  <2> PICK m \in Nat : m = Cardinality(S \ {x})
    BY <2>1
  <2>4. \A n \in 1..m : n - 1 \in Done => n \in Done
    <3> SUFFICES ASSUME NEW n \in 1..m, n - 1 \in Done PROVE n \in Done
      OBVIOUS
    <3>1. PICK k \in Nat : k = n - 1
      OBVIOUS
    <3>2. k + 1 = n /\ k \in Done
      BY <3>1
    <3> HIDE DEF Done
    <3> QED BY <2>3, <3>2
  <2>5. m \in Done
    <3> HIDE DEF Done
    <3>1. 0..m \subseteq Done
      BY <2>2, <2>4, UpTo
    <3> QED BY <3>1
  <2> QED BY <2>5
<1>5. ASSUME NEW x \in S
      PROVE  \E r \in Nat : SumFunction(f) = f[x] + r /\ f[x] \in Nat /\ r = SumOver(f, S \ {x})
  BY <1>1, <1>3
<1>6. ASSUME NEW x \in S PROVE f[x] <= SumFunction(f)
  <2>1. PICK r \in Nat : SumFunction(f) = f[x] + r /\ f[x] \in Nat
    BY <1>5
  <2>2. PICK a \in Nat : a = f[x]
    BY <2>1
  <2>3. a <= a + r
    OBVIOUS
  <2> QED BY <2>1, <2>2, <2>3
<1>7. ASSUME NEW x \in S, \A y \in S \ {x} : f[y] = 0 PROVE SumFunction(f) = f[x]
  <2>1. SumOver(f, S \ {x}) = 0
    BY <1>4, <1>7
  <2> QED BY <1>5, <2>1
<1> QED BY <1>1, <1>2, <1>6, <1>7

-----------------------------------------------------------------------------
(* Counting.                                                               *)

(* There are n numbers below n. *)
LEMMA IntervalCount ==
  ASSUME NEW n \in Nat
  PROVE  IsFiniteSet(0..(n - 1)) /\ Cardinality(0..(n - 1)) = n
<1>1. n - 1 \in Int /\ 0 \in Int
  OBVIOUS
<1>2. /\ IsFiniteSet(0..(n - 1))
      /\ Cardinality(0..(n - 1)) = IF 0 > n - 1 THEN 0 ELSE (n - 1) - 0 + 1
  BY <1>1, FS_Interval
<1> QED BY <1>2

(* The places of numbers among a finite set of them. *)
LEMMA PlaceFacts ==
  ASSUME NEW S \in SUBSET Nat, IsFiniteSet(S)
  PROVE  /\ Cardinality(S) \in Nat
         /\ \A r \in S : Place(r, S) \in 0..(Cardinality(S) - 1)
         /\ \A r, s \in S : Place(r, S) = Place(s, S) => r = s
         /\ \A i \in 0..(Cardinality(S) - 1) : \E r \in S : Place(r, S) = i
<1> DEFINE Below(r) == {s \in S : s < r}
           n == Cardinality(S)
<1>1. n \in Nat
  BY FS_CardinalityType
<1>2. ASSUME NEW r \in S
      PROVE  IsFiniteSet(Below(r)) /\ Cardinality(Below(r)) \in Nat /\ Cardinality(Below(r)) < n
  <2>1. Below(r) \in SUBSET S /\ Below(r) # S
    OBVIOUS
  <2>2. IsFiniteSet(Below(r)) /\ Cardinality(Below(r)) <= n /\ (n = Cardinality(Below(r)) => S = Below(r))
    BY <2>1, FS_Subset
  <2>3. Cardinality(Below(r)) \in Nat
    BY <2>2, FS_CardinalityType
  <2> HIDE DEF Below
  <2> QED BY <1>1, <2>1, <2>2, <2>3
<1>3. ASSUME NEW r \in S, NEW s \in S, r < s
      PROVE  Cardinality(Below(r)) < Cardinality(Below(s))
  <2>1. Below(r) \in SUBSET Below(s) /\ Below(r) # Below(s)
    <3>1. \A t \in S : t < r => t < s
      BY <1>3
    <3>2. r \in Below(s) /\ r \notin Below(r)
      BY <1>3
    <3> QED BY <3>1, <3>2
  <2>2. Cardinality(Below(r)) <= Cardinality(Below(s))
        /\ (Cardinality(Below(s)) = Cardinality(Below(r)) => Below(s) = Below(r))
    <3> HIDE DEF Below
    <3> QED BY <1>2, <2>1, FS_Subset
  <2>3. Cardinality(Below(r)) \in Nat /\ Cardinality(Below(s)) \in Nat
    BY <1>2
  <2> HIDE DEF Below
  <2> QED BY <2>1, <2>2, <2>3
<1>4. \A r \in S : Place(r, S) = Cardinality(Below(r))
  BY DEF Place
<1>5. \A r \in S : Place(r, S) \in 0..(n - 1)
  <2> HIDE DEF Below
  <2> QED BY <1>1, <1>2, <1>4
<1>6. ASSUME NEW r \in S, NEW s \in S, Place(r, S) = Place(s, S) PROVE r = s
  <2>1. ~(r < s) /\ ~(s < r)
    <3>1. Cardinality(Below(r)) \in Nat /\ Cardinality(Below(r)) = Cardinality(Below(s))
      BY <1>2, <1>4, <1>6
    <3> HIDE DEF Below
    <3> QED BY <1>3, <3>1
  <2> QED BY <2>1
<1>7. ASSUME NEW i \in 0..(n - 1) PROVE \E r \in S : Place(r, S) = i
  <2> DEFINE f == [r \in S |-> Place(r, S)]
  <2>1. f \in Injection(S, 0..(n - 1))
    BY <1>5, <1>6 DEF Injection, IsInjective
  <2>2. IsFiniteSet(0..(n - 1)) /\ Cardinality(0..(n - 1)) = n
    BY <1>1, IntervalCount
  <2>3. f \in Surjection(S, 0..(n - 1))
    <3> HIDE DEF f, n
    <3> QED BY <2>1, <2>2, FS_Injection DEF n
  <2> QED BY <2>3 DEF Surjection
<1> QED BY <1>1, <1>5, <1>6, <1>7

(* As many places as numbers. *)
LEMMA PlacesCount ==
  ASSUME NEW S \in SUBSET Nat, IsFiniteSet(S), NEW R \in SUBSET S
  PROVE  Cardinality({Place(r, S) : r \in R}) = Cardinality(R)
<1> DEFINE T == {Place(r, S) : r \in R}
           f == [r \in R |-> Place(r, S)]
<1>1. IsFiniteSet(R)
  BY FS_Subset
<1>2. f \in Bijection(R, T)
  BY PlaceFacts DEF Bijection, Injection, IsInjective, Surjection
<1>3. ExistsBijection(R, T)
  BY <1>2 DEF ExistsBijection
<1> QED BY <1>1, <1>3, FS_Bijection

(* As many numbers as successors. *)
LEMMA ShiftCount ==
  ASSUME NEW R \in SUBSET Nat, IsFiniteSet(R)
  PROVE  Cardinality({r + 1 : r \in R}) = Cardinality(R)
<1> DEFINE T == {r + 1 : r \in R}
           f == [r \in R |-> r + 1]
<1>1. f \in Bijection(R, T)
  BY DEF Bijection, Injection, IsInjective, Surjection
<1>2. ExistsBijection(R, T)
  BY <1>1 DEF ExistsBijection
<1> QED BY <1>2, FS_Bijection

(* A finite set of naturals has a maximum. *)
LEMMA MaxFacts ==
  ASSUME NEW S \in SUBSET Nat, S # {}, IsFiniteSet(S)
  PROVE  Max(S) \in S /\ \A x \in S : x <= Max(S)
<1>1. \E x \in S : \A y \in S : x >= y
  <2>1. Cardinality(S) \in Nat /\ Cardinality(S) # 0
    BY PlaceFacts, FS_EmptySet
  <2>2. PICK r \in S : Place(r, S) = Cardinality(S) - 1
    BY <2>1, PlaceFacts
  <2>3. ASSUME NEW y \in S, r < y PROVE FALSE
    <3>1. {s \in S : s < r} \cup {r} \in SUBSET {s \in S : s < y}
      <4>1. \A t \in S : t < r => t < y
        BY <2>3
      <4> QED BY <2>3, <4>1
    <3>2. IsFiniteSet({s \in S : s < y}) /\ IsFiniteSet({s \in S : s < r})
      <4>1. {s \in S : s < y} \in SUBSET S /\ {s \in S : s < r} \in SUBSET S
        OBVIOUS
      <4> QED BY <4>1, FS_Subset
    <3>3. Cardinality({s \in S : s < r} \cup {r}) = Place(r, S) + 1
      <4>1. r \notin {s \in S : s < r}
        OBVIOUS
      <4> QED BY <3>2, <4>1, FS_AddElement DEF Place
    <3>4. Place(r, S) + 1 <= Place(y, S)
      BY <3>1, <3>2, <3>3, FS_Subset DEF Place
    <3>5. Place(y, S) \in 0..(Cardinality(S) - 1)
      BY PlaceFacts
    <3> QED BY <2>1, <2>2, <3>4, <3>5
  <2> QED BY <2>3
<1> QED BY <1>1 DEF Max

(* The maximum over all DPUs. *)
LEMMA DpusMax ==
  ASSUME NEW f \in [Dpus -> Nat]
  PROVE  /\ Max({f[d] : d \in Dpus}) \in {f[d] : d \in Dpus}
         /\ \A d \in Dpus : f[d] <= Max({f[e] : e \in Dpus})
<1> DEFINE T == {f[d] : d \in Dpus}
<1>1. f \in Surjection(Dpus, T)
  BY DEF Surjection
<1>2. IsFiniteSet(Dpus)
  BY FS_Interval, BatchAssumption DEF Dpus
<1>3. IsFiniteSet(T)
  BY <1>1, <1>2, FS_Surjection
<1>4. T \in SUBSET Nat /\ T # {}
  BY BatchAssumption DEF Dpus
<1>5. Max(T) \in T /\ \A x \in T : x <= Max(T)
  <2> HIDE DEF T
  <2> QED BY <1>3, <1>4, MaxFacts
<1> QED BY <1>5

-----------------------------------------------------------------------------
(* Calls and packages.                                                     *)

(* The parts of a call. *)
LEMMA CallShape ==
  ASSUME NEW q \in Calls
  PROVE  /\ q.op \in {"create", "insert", "delete", "lookup"} /\ q.id \in Ids /\ q # NoCall
         /\ q.op # "create" =>
              /\ Len(q.keys) \in 1..MaxBatch /\ DOMAIN q.keys = 1..Len(q.keys)
              /\ \A i \in 1..Len(q.keys) : q.keys[i] \in Keys
         /\ q.op = "insert" => \A i \in 1..Len(q.keys) : q.vals[i] \in Vals
<1>1. ASSUME NEW ks \in Batches
      PROVE  /\ Len(ks) \in 1..MaxBatch /\ DOMAIN ks = 1..Len(ks)
             /\ \A i \in 1..Len(ks) : ks[i] \in Keys
  <2>1. PICK m \in 0..MaxBatch : ks \in [1..m -> Keys]
    BY DEF Batches, SeqOf
  <2>2. ks \in Seq(Keys) /\ m \in Nat /\ MaxBatch \in Nat
    BY <2>1, SeqDef, BatchAssumption
  <2>3. Len(ks) = m /\ DOMAIN ks = 1..m
    BY <2>1, <2>2, LenProperties
  <2>4. m # 0
    <3> SUFFICES ASSUME m = 0 PROVE FALSE
      OBVIOUS
    <3>1. ks = <<>>
      BY <2>2, <2>3, EmptySeq
    <3> QED BY <3>1 DEF Batches
  <2> QED BY <2>1, <2>2, <2>3, <2>4
<1>2. CASE q \in [op : {"create"}, id : Ids]
  BY <1>2 DEF NoCall
<1>3. CASE q \in [op : {"delete", "lookup"}, id : Ids, keys : Batches]
  BY <1>1, <1>3 DEF NoCall
<1>4. CASE q \in UNION {[op : {"insert"}, id : Ids, keys : {ks}, vals : [DOMAIN ks -> Vals]] :
                          ks \in Batches}
  <2>1. PICK ks \in Batches :
          q \in [op : {"insert"}, id : Ids, keys : {ks}, vals : [DOMAIN ks -> Vals]]
    BY <1>4
  <2> QED BY <1>1, <2>1 DEF NoCall
<1> QED BY <1>2, <1>3, <1>4 DEF Calls

(* Every key has a home among the DPUs. *)
LEMMA DpusFacts ==
  /\ IsFiniteSet(Dpus) /\ 0 \in Dpus /\ Dpus \in SUBSET Nat
  /\ \A r : \A k \in Keys : Home(r, k) \in Dpus
<1>1. IsFiniteSet(Dpus)
  BY FS_Interval, BatchAssumption DEF Dpus
<1>2. ASSUME NEW r, NEW k \in Keys PROVE Home(r, k) \in Dpus
  <2>1. Hash[k] \in Nat /\ NrDpus \in Nat \ {0}
    BY BatchAssumption
  <2>2. Hash[k] % NrDpus \in 0..(NrDpus - 1)
    BY <2>1
  <2> QED BY <2>2 DEF Home, Dpus
<1> QED BY <1>1, <1>2, BatchAssumption DEF Dpus

(* The rows of a batch for one DPU. *)
LEMMA RowsFacts ==
  ASSUME NEW q \in Calls, q.op # "create", NEW d
  PROVE  /\ RowsFor(q, d) \in SUBSET Nat /\ IsFiniteSet(RowsFor(q, d))
         /\ Cardinality(RowsFor(q, d)) \in 0..Len(q.keys) /\ Len(q.keys) \in 1..MaxBatch
         /\ \A r \in RowsFor(q, d) :
              /\ r \in Slots /\ r < Len(q.keys) /\ r + 1 \in 1..Len(q.keys)
              /\ q.keys[r + 1] \in Keys /\ Home(r, q.keys[r + 1]) = d
              /\ Place(r, RowsFor(q, d)) \in 0..(Cardinality(RowsFor(q, d)) - 1)
              /\ Place(r, RowsFor(q, d)) \in Slots
<1> PICK n : n = Len(q.keys)
  OBVIOUS
<1>1. n \in 1..MaxBatch /\ MaxBatch \in Nat /\ \A i \in 1..n : q.keys[i] \in Keys
  BY CallShape, BatchAssumption
<1> DEFINE R == RowsFor(q, d)
<1>2. R \in SUBSET (0..(n - 1)) /\ \A r \in R : Home(r, q.keys[r + 1]) = d
  BY DEF RowsFor
<1>3. IsFiniteSet(0..(n - 1)) /\ Cardinality(0..(n - 1)) = n
  BY <1>1, IntervalCount
<1> HIDE DEF R
<1>4. IsFiniteSet(R) /\ Cardinality(R) <= n /\ R \in SUBSET Nat
  <2>1. IsFiniteSet(R) /\ Cardinality(R) <= n
    BY <1>2, <1>3, FS_Subset
  <2>2. 0..(n - 1) \in SUBSET Nat
    BY <1>1
  <2> QED BY <1>2, <2>1, <2>2
<1>5. Cardinality(R) \in 0..n
  BY <1>1, <1>4, FS_CardinalityType
<1>6. ASSUME NEW r \in R
      PROVE  /\ r \in Slots /\ r < n /\ r + 1 \in 1..n
             /\ Place(r, R) \in 0..(Cardinality(R) - 1) /\ Place(r, R) \in Slots
  <2>1. Place(r, R) \in 0..(Cardinality(R) - 1)
    BY <1>4, PlaceFacts
  <2>2. r \in 0..(n - 1)
    BY <1>2
  <2> QED BY <1>1, <1>5, <2>1, <2>2 DEF Slots
<1> QED BY <1>1, <1>2, <1>4, <1>5, <1>6 DEF R

(* A package without elements. *)
LEMMA QueryRight ==
  ASSUME NEW q \in Calls, NEW d \in Dpus, packages \in [Dpus -> Package]
  PROVE  /\ BuiltQuery(q, d) \in Package
         /\ BuiltQuery(q, d).type = q.op /\ BuiltQuery(q, d).id = q.id
BY CallShape DEF BuiltQuery, Package

(* A package has the elements of its batch, each at its place. *)
LEMMA BuiltRight ==
  ASSUME TypeOK, NEW q \in Calls, q.op # "create", NEW d \in Dpus
  PROVE  /\ Built(q, d) \in Package
         /\ Built(q, d).type = q.op /\ Built(q, d).id = q.id
         /\ Built(q, d).nnz = Cardinality(RowsFor(q, d))
         /\ \A r \in RowsFor(q, d) :
              LET e == Built(q, d).data[Place(r, RowsFor(q, d))] IN
              /\ e.key = q.keys[r + 1]
              /\ q.op = "insert" => e.key_id = q.vals[r + 1]
              /\ q.op = "lookup" => e.key_id = r
<1> DEFINE rows == RowsFor(q, d)
           ElemOf(r, e) == CASE q.op = "insert" -> InsertElem(q, r, e)
                             [] q.op = "delete" -> DeleteElem(q, r, e)
                             [] q.op = "lookup" -> LookupElem(q, r, e)
           Filled(i, e) == IF i < Cardinality(rows)
                             THEN ElemOf(CHOOSE r \in rows : Place(r, rows) = i, e) ELSE e
           data == [i \in Slots |-> Filled(i, packages[d].data[i])]
<1>1. Built(q, d) = [type |-> q.op, id |-> q.id, nnz |-> Cardinality(rows), data |-> data]
  BY DEF Built
<1>2. /\ q.op \in {"insert", "delete", "lookup"} /\ q.id \in Ids
      /\ q.op = "insert" => \A i \in 1..Len(q.keys) : q.vals[i] \in Vals
  BY CallShape
<1>3. /\ rows \in SUBSET Nat /\ IsFiniteSet(rows) /\ Cardinality(rows) \in 0..MaxBatch
      /\ \A r \in rows :
           /\ r \in Slots /\ r + 1 \in 1..Len(q.keys) /\ q.keys[r + 1] \in Keys
           /\ Place(r, rows) \in 0..(Cardinality(rows) - 1) /\ Place(r, rows) \in Slots
  <2>1. Cardinality(rows) \in 0..Len(q.keys) /\ Len(q.keys) \in 1..MaxBatch /\ MaxBatch \in Nat
    BY RowsFacts, BatchAssumption
  <2>2. Cardinality(rows) \in 0..MaxBatch
    <3> HIDE DEF rows
    <3> QED BY <2>1
  <2> QED BY <2>2, RowsFacts
<1> HIDE DEF rows
<1>4. packages[d].data \in [Slots -> Elem]
  BY DEF TypeOK, Package
<1>5. ASSUME NEW r \in rows, NEW e \in Elem
      PROVE  /\ ElemOf(r, e) \in Elem /\ ElemOf(r, e).key = q.keys[r + 1]
             /\ q.op = "insert" => ElemOf(r, e).key_id = q.vals[r + 1]
             /\ q.op = "lookup" => ElemOf(r, e).key_id = r
  <2>1. /\ r \in Slots /\ q.keys[r + 1] \in Keys
        /\ q.op = "insert" => q.vals[r + 1] \in Vals
    BY <1>2, <1>3
  <2>2. CASE q.op = "insert"
    BY <2>1, <2>2 DEF Elem, InsertElem
  <2>3. CASE q.op = "delete"
    BY <2>1, <2>3 DEF Elem, DeleteElem
  <2>4. CASE q.op = "lookup"
    BY <2>1, <2>4 DEF Elem, LookupElem
  <2> QED BY <1>2, <2>2, <2>3, <2>4
<1> HIDE DEF ElemOf
<1>6. ASSUME NEW r \in rows
      PROVE  data[Place(r, rows)] = ElemOf(r, packages[d].data[Place(r, rows)])
  <2>1. (CHOOSE s \in rows : Place(s, rows) = Place(r, rows)) = r
    BY <1>3, PlaceFacts
  <2>2. Place(r, rows) \in Slots /\ Place(r, rows) < Cardinality(rows)
    BY <1>3
  <2> QED BY <2>1, <2>2
<1>7. data \in [Slots -> Elem]
  <2> SUFFICES ASSUME NEW i \in Slots PROVE Filled(i, packages[d].data[i]) \in Elem
    OBVIOUS
  <2>1. CASE i < Cardinality(rows)
    <3>1. i \in 0..(Cardinality(rows) - 1)
      BY <1>3, <2>1, BatchAssumption DEF Slots
    <3>2. \E r \in rows : Place(r, rows) = i
      BY <1>3, <3>1, PlaceFacts
    <3>3. (CHOOSE r \in rows : Place(r, rows) = i) \in rows
      BY <3>2
    <3> QED BY <1>4, <1>5, <2>1, <3>3
  <2>2. CASE ~(i < Cardinality(rows))
    BY <1>4, <2>2
  <2> QED BY <2>1, <2>2
<1> HIDE DEF data
<1>8. Built(q, d) \in Package
  BY <1>1, <1>2, <1>3, <1>7 DEF Package
<1>9. ASSUME NEW r \in rows
      PROVE  LET e == Built(q, d).data[Place(r, rows)] IN
             /\ e.key = q.keys[r + 1]
             /\ q.op = "insert" => e.key_id = q.vals[r + 1]
             /\ q.op = "lookup" => e.key_id = r
  <2>1. packages[d].data[Place(r, rows)] \in Elem
    BY <1>3, <1>4
  <2> QED BY <1>1, <1>5, <1>6, <2>1
<1> QED BY <1>1, <1>8, <1>9 DEF rows

-----------------------------------------------------------------------------
(* The inductive invariant: the first state and the host's steps before    *)
(* the launch.                                                             *)

(* A DPU's part of a table is a sequence of indexes. *)
LEMMA TableShape ==
  ASSUME NEW t \in Tables, NEW d \in Dpus
  PROVE  /\ t[d] \in Seq(IndexSlot)
         /\ Len(t[d]) \in Nat /\ DOMAIN t[d] = 1..Len(t[d])
         /\ \A i \in DOMAIN t[d] :
              /\ t[d][i] \in IndexSlot
              /\ t[d][i].id \in Ids /\ t[d][i].bag \in [Pairs -> 0..MaxPairs]
<1>1. t[d] \in Seq(IndexSlot)
  BY DEF Tables
<1>2. \A i \in 1..Len(t[d]) : t[d][i] \in IndexSlot
  BY <1>1, ElementOfSeq
<1> QED BY <1>1, <1>2, LenProperties DEF IndexSlot

(* There are finitely many pairs. *)
LEMMA PairsFinite == IsFiniteSet(Pairs)
BY FS_Product, BatchAssumption DEF Pairs

(* What the bound on the pairs of an index says of one of them. *)
LEMMA PairsFit ==
  ASSUME TypeOK, SameTables(table), NEW n \in Nat, RoomForPairs(n),
         NEW d \in Dpus, NEW i \in DOMAIN table[d], NEW p \in Pairs
  PROVE  table[d][i].bag[p] + n <= MaxPairs
<1> DEFINE f == [e \in Dpus |-> Size(table[e][i].bag)]
<1>1. table \in Tables
  BY DEF TypeOK
<1>2. \A e \in Dpus : DOMAIN table[e] = 1..Len(table[e]) /\ Len(table[e]) = Len(table[d])
  BY <1>1, TableShape DEF SameTables
<1>3. ASSUME NEW e \in Dpus
      PROVE  Size(table[e][i].bag) \in Nat /\ \A x \in Pairs : table[e][i].bag[x] <= Size(table[e][i].bag)
  <2>1. table[e][i].bag \in [Pairs -> 0..MaxPairs]
    BY <1>1, <1>2, TableShape
  <2>2. table[e][i].bag \in [Pairs -> Nat]
    BY <2>1
  <2> QED BY <2>2, PairsFinite, SumFacts DEF Size
<1>4. f \in [Dpus -> Nat]
  BY <1>3
<1>5. SumFunction(f) \in Nat /\ f[d] <= SumFunction(f)
  <2> HIDE DEF f
  <2> QED BY <1>4, DpusFacts, SumFacts
<1>6. SumFunction(f) + n <= MaxPairs
  <2>1. i \in DOMAIN table[0]
    BY <1>2, DpusFacts
  <2> QED BY <2>1 DEF RoomForPairs
<1>7. f[d] = Size(table[d][i].bag)
  OBVIOUS
<1> HIDE DEF f
<1>8. table[d][i].bag \in [Pairs -> 0..MaxPairs] /\ MaxPairs \in Nat
  BY <1>1, TableShape, BatchAssumption
<1>9. table[d][i].bag[p] \in Nat
  BY <1>8
<1> QED BY <1>3, <1>5, <1>6, <1>7, <1>8, <1>9

(* The loaded DPUs and the new buffers. *)
LEMMA InitInv ==
  ASSUME Init
  PROVE  IndInv
<1> USE DEF Init, Everywhere
<1>1. NoElem \in Elem /\ NoPackage \in Package /\ NoResults \in Results
  <2>1. NoElem \in Elem
    BY DEF NoElem, Elem
  <2>2. 0 \in 0..MaxBatch
    BY BatchAssumption
  <2> QED BY <2>1, <2>2 DEF NoPackage, Package, NoResults, Results
<1>2. <<>> \in Seq(IndexSlot) /\ Len(<<>>) = 0 /\ DOMAIN <<>> = {}
  OBVIOUS
<1>3. TypeOK
  <2>1. 0 \in 0..MaxBatch /\ 0 \in 0..MaxCalls /\ 0 <= MaxIndexes
    BY BatchAssumption
  <2> QED BY <1>1, <1>2, <2>1 DEF TypeOK, Tables
<1>4. TableInv
  BY <1>2 DEF TableInv, TableOf, SameTables
<1>5. OwnRows
  BY DEF OwnRows
<1> QED BY <1>3, <1>4, <1>5 DEF IndInv, PhaseInv, PackagesInv, RoomInv, RunInv, ResultsInv

(* The rows behind the batch depend on the call and the array only. *)
LEMMA OwnRowsKept ==
  ASSUME OwnRows, call' = call, vals' = vals
  PROVE  OwnRows'
BY DEF OwnRows, OthersUnset, PullsFit, RowsFor, Home

(* A call has built its packages. *)
LEMMA CallInv ==
  ASSUME IndInv, NEW q \in Calls,
         CallCreate(q) \/ CallInsert(q) \/ CallDelete(q) \/ CallLookup(q)
  PROVE  IndInv'
<1>0. /\ Call(q) /\ q.op \in {"create", "insert", "delete", "lookup"}
      /\ q.op = "create" =>
           packages' = [d \in Dpus |-> BuiltQuery(q, d)]
      /\ q.op # "create" => packages' = [d \in Dpus |-> Built(q, d)]
      /\ q.op = "insert" => RoomForPairs(Len(q.keys))
  <2>1. CASE CallCreate(q)
    BY <2>1 DEF CallCreate
  <2>2. CASE CallInsert(q)
    BY <2>2 DEF CallInsert
  <2>3. CASE CallDelete(q)
    BY <2>3 DEF CallDelete
  <2>4. CASE CallLookup(q)
    BY <2>4 DEF CallLookup
  <2> QED BY <2>1, <2>2, <2>3, <2>4
<1>1. /\ pc = "idle" /\ calls < MaxCalls /\ call' = q /\ calls' = calls + 1
      /\ vals' = [r \in Slots |-> Unset] /\ pc' = "push"
      /\ metadatas' = metadatas /\ results' = results /\ running' = running
      /\ mram' = mram /\ table' = table /\ coo' = coo /\ size' = size /\ before' = before
  BY <1>0 DEF Call, dpu
<1>2. TypeOK /\ SameTables(TableOf) /\ running = {}
  BY <1>1 DEF IndInv, TableInv, PhaseInv
<1>3. TableOf = table /\ TableOf' = table
  BY <1>1, <1>2 DEF TableOf
<1>4. packages' \in [Dpus -> Package] /\ \A d \in Dpus : Carries(packages[d], d)'
  <2>1. CASE q.op = "create"
    <3>1. packages' = [d \in Dpus |-> BuiltQuery(q, d)]
      BY <1>0, <2>1
    <3>2. packages \in [Dpus -> Package] /\ q.id \in Ids
      BY <1>2, CallShape DEF TypeOK
    <3>3. ASSUME NEW d \in Dpus
          PROVE  packages'[d] \in Package /\ packages'[d].type = q.op /\ packages'[d].id = q.id
      BY <3>1, <3>2, QueryRight
    <3>4. packages' \in [Dpus -> Package]
      BY <3>1, <3>3
    <3> QED BY <1>1, <2>1, <3>3, <3>4 DEF Carries
  <2>2. CASE q.op # "create"
    <3>1. packages' = [d \in Dpus |-> Built(q, d)]
      BY <1>0, <2>2
    <3>2. packages' \in [Dpus -> Package]
      BY <1>2, <2>2, <3>1, BuiltRight
    <3>3. ASSUME NEW d \in Dpus PROVE Carries(packages[d], d)'
      <4>1. RowsFor(call, d)' = RowsFor(q, d)
        BY <1>1 DEF RowsFor, Home
      <4>2. packages'[d] = Built(q, d)
        BY <3>1
      <4> QED BY <1>1, <1>2, <2>2, <4>1, <4>2, BuiltRight DEF Carries
    <3> QED BY <3>2, <3>3
  <2> QED BY <2>1, <2>2
<1>5. TypeOK'
  <2>1. calls' \in 0..MaxCalls
    BY <1>1, <1>2, BatchAssumption DEF TypeOK
  <2>2. Unset \in Vals \cup {0, Unset}
    OBVIOUS
  <2> QED BY <1>1, <1>2, <1>4, <2>1, <2>2 DEF TypeOK
<1>6. PhaseInv'
  BY <1>1, <1>2, CallShape DEF PhaseInv
<1>7. PackagesInv'
  BY <1>1, <1>4 DEF PackagesInv
<1>8. TableInv'
  BY <1>1, <1>2, <1>3 DEF TableInv, SameTables
<1>9. RoomInv'
  <2> SUFFICES ASSUME q.op = "insert", NEW d \in Dpus, NEW i \in DOMAIN table[d], NEW p \in Pairs
               PROVE  table[d][i].bag[p] + Len(q.keys) <= MaxPairs
    BY <1>1, <1>3 DEF RoomInv
  <2>1. RoomForPairs(Len(q.keys)) /\ Len(q.keys) \in Nat
    BY <1>0, CallShape
  <2> QED BY <1>2, <1>3, <2>1, PairsFit
<1>10. RunInv' /\ ResultsInv'
  BY <1>1 DEF RunInv, ResultsInv
<1>11. OwnRows'
  BY <1>1 DEF OwnRows, OthersUnset
<1> QED BY <1>5, <1>6, <1>7, <1>8, <1>9, <1>10, <1>11 DEF IndInv

(* The packages have arrived. *)
LEMMA PushInv ==
  ASSUME IndInv, Push
  PROVE  IndInv'
<1>1. /\ pc = "push" /\ pc' = "run" /\ running' = Dpus /\ before' = table
      /\ call' = call /\ calls' = calls /\ packages' = packages /\ metadatas' = metadatas
      /\ results' = results /\ table' = table /\ coo' = coo /\ size' = size /\ vals' = vals
      /\ mram' = [d \in Dpus |->
            [packages[d] EXCEPT !.data = Overwritten(mram[d].data, First(Length, @))]]
  BY DEF Push, host
<1>2. /\ TypeOK /\ SameTables(TableOf) /\ running = {} /\ call \in Calls /\ call # NoCall
      /\ \A d \in Dpus : Carries(packages[d], d)
      /\ \A r \in Slots : vals[r] = Unset
  BY <1>1 DEF IndInv, TableInv, PhaseInv, PackagesInv, TypeOK
<1>3. TableOf = table /\ TableOf' = table
  BY <1>1, <1>2, DpusFacts DEF TableOf
<1>4. \A d \in Dpus : packages[d].nnz \in 0..MaxBatch
  BY <1>2 DEF TypeOK, Package
<1>5. Length \in 0..MaxBatch /\ (call.op # "create" => \A d \in Dpus : packages[d].nnz <= Length)
  <2>1. CASE call.op = "create"
    BY <2>1, BatchAssumption DEF Length
  <2>2. CASE call.op # "create"
    <3> DEFINE f == [d \in Dpus |-> packages[d].nnz]
    <3>1. f \in [Dpus -> Nat]
      BY <1>4, BatchAssumption
    <3>2. {f[d] : d \in Dpus} = {packages[d].nnz : d \in Dpus}
      OBVIOUS
    <3>3. Length = Max({f[d] : d \in Dpus})
      BY <2>2, <3>2 DEF Length
    <3>4. Length \in {f[d] : d \in Dpus} /\ \A d \in Dpus : f[d] <= Length
      <4> HIDE DEF f
      <4> QED BY <3>1, <3>3, DpusMax
    <3> QED BY <1>4, <3>4
  <2> QED BY <2>1, <2>2
<1>6. ASSUME NEW d \in Dpus
      PROVE  /\ mram'[d].type = packages[d].type /\ mram'[d].id = packages[d].id
             /\ mram'[d].nnz = packages[d].nnz
             /\ \A i \in Slots : i < Length => mram'[d].data[i] = packages[d].data[i]
             /\ mram'[d] \in Package
  <2>1. packages[d] \in Package /\ mram[d].data \in [Slots -> Elem] /\ packages[d].data \in [Slots -> Elem]
    BY <1>2 DEF TypeOK, Package
  <2>2. PICK data : data = Overwritten(mram[d].data, First(Length, packages[d].data))
    OBVIOUS
  <2>3. mram'[d] = [packages[d] EXCEPT !.data = data]
    BY <1>1, <2>2
  <2>4. DOMAIN First(Length, packages[d].data) = 0..(Length - 1)
    BY DEF First
  <2>5. ASSUME NEW i \in Slots
        PROVE  data[i] = IF i < Length THEN packages[d].data[i] ELSE mram[d].data[i]
    <3>1. i \in 0..(Length - 1) <=> i < Length
      BY <1>5, BatchAssumption DEF Slots
    <3> QED BY <2>1, <2>2, <2>4, <3>1 DEF Overwritten, First
  <2>6. data = [i \in Slots |-> IF i < Length THEN packages[d].data[i] ELSE mram[d].data[i]]
    BY <2>1, <2>2, <2>5 DEF Overwritten
  <2>7. data \in [Slots -> Elem]
    BY <2>1, <2>6
  <2> QED BY <2>1, <2>3, <2>5, <2>7 DEF Package
<1>7. ASSUME NEW d \in Dpus PROVE Carries(mram[d], d)'
  <2>1. RowsFor(call, d)' = RowsFor(call, d)
    BY <1>1 DEF RowsFor, Home
  <2>2. CASE call.op = "create"
    BY <1>1, <1>2, <1>6, <2>2 DEF Carries
  <2>3. CASE call.op # "create"
    <3> DEFINE rows == RowsFor(call, d)
    <3>1. packages[d].nnz = Cardinality(rows) /\ packages[d].nnz <= Length /\ Length \in Nat
      BY <1>2, <1>5, <2>3 DEF Carries
    <3>2. ASSUME NEW r \in rows
          PROVE  mram'[d].data[Place(r, rows)] = packages[d].data[Place(r, rows)]
      <4>1. Place(r, rows) \in Slots /\ Place(r, rows) \in 0..(Cardinality(rows) - 1)
            /\ Cardinality(rows) \in 0..Len(call.keys)
        BY <1>2, <2>3, RowsFacts
      <4>2. Place(r, rows) < Length
        <5> HIDE DEF rows
        <5> QED BY <1>4, <3>1, <4>1
      <4> QED BY <1>6, <4>1, <4>2
    <3>3. \A r \in rows :
            LET e == packages[d].data[Place(r, rows)] IN
            /\ e.key = call.keys[r + 1]
            /\ call.op = "insert" => e.key_id = call.vals[r + 1]
            /\ call.op = "lookup" => e.key_id = r
      BY <1>2, <2>3 DEF Carries
    <3>4. mram'[d].type = call.op /\ mram'[d].id = call.id /\ mram'[d].nnz = Cardinality(rows)
      BY <1>2, <1>6, <3>1 DEF Carries
    <3> HIDE DEF rows
    <3>5. \A r \in rows :
            LET e == mram'[d].data[Place(r, rows)] IN
            /\ e.key = call.keys[r + 1]
            /\ call.op = "insert" => e.key_id = call.vals[r + 1]
            /\ call.op = "lookup" => e.key_id = r
      BY <3>2, <3>3
    <3> QED BY <1>1, <2>1, <2>3, <3>4, <3>5 DEF Carries, rows
  <2> QED BY <2>2, <2>3
<1>8. TypeOK'
  <2>1. mram' \in [Dpus -> Package]
    BY <1>1, <1>6
  <2> QED BY <1>1, <1>2, <2>1 DEF TypeOK
<1>9. PhaseInv'
  BY <1>1, <1>2, DpusFacts DEF PhaseInv
<1>10. PackagesInv'
  BY <1>1, <1>7 DEF PackagesInv
<1>11. TableInv'
  BY <1>1, <1>2, <1>3 DEF TableInv, SameTables
<1>12. RoomInv'
  BY <1>1, <1>3 DEF IndInv, RoomInv
<1>13. RunInv' /\ ResultsInv'
  BY <1>1 DEF RunInv, ResultsInv
<1>14. OwnRows'
  BY <1>1, OwnRowsKept DEF IndInv
<1> QED BY <1>8, <1>9, <1>10, <1>11, <1>12, <1>13, <1>14 DEF IndInv

-----------------------------------------------------------------------------
(* The launch.                                                             *)

(* What a DPU counts in its package is what the batch has in its rows. *)
LEMMA ItemsRight ==
  ASSUME TypeOK, call \in Calls, call.op # "create", NEW d \in Dpus, Carries(mram[d], d)
  PROVE  /\ mram[d].nnz = Cardinality(RowsFor(call, d)) /\ mram[d].nnz \in 0..Len(call.keys)
         /\ Places(d) = {Place(r, RowsFor(call, d)) : r \in RowsFor(call, d)}
         /\ Places(d) \in SUBSET Slots
         /\ \A r \in RowsFor(call, d) :
              LET e == mram[d].data[Place(r, RowsFor(call, d))] IN
              /\ e.key = call.keys[r + 1]
              /\ call.op = "insert" => e.key_id = call.vals[r + 1]
              /\ call.op = "lookup" => e.key_id = r
<1> DEFINE rows == RowsFor(call, d)
<1>1. mram[d].nnz = Cardinality(rows)
      /\ \A r \in rows :
           LET e == mram[d].data[Place(r, rows)] IN
           /\ e.key = call.keys[r + 1]
           /\ call.op = "insert" => e.key_id = call.vals[r + 1]
           /\ call.op = "lookup" => e.key_id = r
  BY DEF Carries
<1>2. /\ rows \in SUBSET Nat /\ IsFiniteSet(rows) /\ Cardinality(rows) \in 0..Len(call.keys)
      /\ \A r \in rows :
           Place(r, rows) \in 0..(Cardinality(rows) - 1) /\ Place(r, rows) \in Slots
  BY RowsFacts
<1> HIDE DEF rows
<1>3. \A i \in 0..(Cardinality(rows) - 1) : \E r \in rows : Place(r, rows) = i
  BY <1>2, PlaceFacts
<1>4. Places(d) = 0..(Cardinality(rows) - 1)
  BY <1>1 DEF Places
<1>5. Places(d) = {Place(r, rows) : r \in rows}
  BY <1>2, <1>3, <1>4
<1>6. Places(d) \in SUBSET Slots
  BY <1>2, <1>5
<1> QED BY <1>1, <1>2, <1>5, <1>6 DEF rows

(* Some rows of a DPU take as many places in its package. *)
LEMMA CountRows ==
  ASSUME TypeOK, call \in Calls, call.op # "create", NEW d \in Dpus, Carries(mram[d], d),
         NEW R \in SUBSET RowsFor(call, d),
         NEW I, I = {Place(r, RowsFor(call, d)) : r \in R}
  PROVE  Cardinality(I) = Cardinality(R) /\ Cardinality(R) \in 0..Len(call.keys)
<1>1. /\ RowsFor(call, d) \in SUBSET Nat /\ IsFiniteSet(RowsFor(call, d))
      /\ Cardinality(RowsFor(call, d)) \in 0..Len(call.keys) /\ Len(call.keys) \in Nat
  BY RowsFacts
<1>2. Cardinality(I) = Cardinality(R)
  BY <1>1, PlacesCount
<1>3. IsFiniteSet(R) /\ Cardinality(R) <= Cardinality(RowsFor(call, d))
  BY <1>1, FS_Subset
<1>4. Cardinality(R) \in Nat
  BY <1>3, FS_CardinalityType
<1> QED BY <1>1, <1>2, <1>3, <1>4

(* The elements with a key, or with a key and a value, in a package and in  *)
(* the batch.                                                              *)
KeyPlaces(d, k) == {i \in Places(d) : mram[d].data[i].key = k}
KeyRows(d, k) == {r \in RowsFor(call, d) : call.keys[r + 1] = k}
PairPlaces(d, k, v) == {i \in KeyPlaces(d, k) : mram[d].data[i].key_id = v}
PairRows(d, k, v) == {r \in KeyRows(d, k) : call.vals[r + 1] = v}

(* A key has as many places in the package as rows in the batch. *)
LEMMA CountKey ==
  ASSUME TypeOK, call \in Calls, call.op # "create", NEW d \in Dpus, Carries(mram[d], d), NEW k
  PROVE  /\ Cardinality(KeyPlaces(d, k)) = Cardinality(KeyRows(d, k))
         /\ Cardinality(KeyRows(d, k)) \in 0..Len(call.keys)
<1>1. KeyPlaces(d, k) = {Place(r, RowsFor(call, d)) : r \in KeyRows(d, k)}
  BY ItemsRight DEF KeyPlaces, KeyRows
<1>2. KeyRows(d, k) \in SUBSET RowsFor(call, d)
  BY DEF KeyRows
<1> QED BY <1>1, <1>2, CountRows

(* So has a pair. *)
LEMMA CountPair ==
  ASSUME TypeOK, call \in Calls, call.op = "insert", NEW d \in Dpus, Carries(mram[d], d),
         NEW k, NEW v
  PROVE  /\ Cardinality(PairPlaces(d, k, v)) = Cardinality(PairRows(d, k, v))
         /\ Cardinality(PairRows(d, k, v)) \in 0..Len(call.keys)
<1>1. PairPlaces(d, k, v) = {Place(r, RowsFor(call, d)) : r \in PairRows(d, k, v)}
  BY ItemsRight DEF PairPlaces, PairRows, KeyPlaces, KeyRows
<1>2. PairRows(d, k, v) \in SUBSET RowsFor(call, d) /\ call.op # "create"
  BY DEF PairRows, KeyRows
<1> QED BY <1>1, <1>2, CountRows

(* A bag has the keys of its DPU only. *)
HasOwnKeys(bag, d) == \A p \in Pairs : bag[p] > 0 => Hash[p[1]] % NrDpus = d

(* What a DPU inserts has room, and are pairs with its own keys. *)
LEMMA InsertedRight ==
  ASSUME TypeOK, call \in Calls, call.op = "insert", NEW d \in Dpus, Carries(mram[d], d),
         NEW bag \in [Pairs -> 0..MaxPairs], HasOwnKeys(bag, d),
         \A p \in Pairs : bag[p] + Len(call.keys) <= MaxPairs
  PROVE  Inserted(d, bag) \in [Pairs -> 0..MaxPairs] /\ HasOwnKeys(Inserted(d, bag), d)
<1> DEFINE C(p) == Cardinality(PairPlaces(d, p[1], p[2]))
<1>1. Inserted(d, bag) = [p \in Pairs |-> bag[p] + C(p)]
  <2>1. ASSUME NEW p \in Pairs
        PROVE  Count(d, LAMBDA e : e.key = p[1] /\ e.key_id = p[2]) = C(p)
    <3>1. {i \in Places(d) : mram[d].data[i].key = p[1] /\ mram[d].data[i].key_id = p[2]}
            = PairPlaces(d, p[1], p[2])
      BY DEF PairPlaces, KeyPlaces
    <3> QED BY <3>1 DEF Count
  <2>2. Inserted(d, bag)
          = [p \in Pairs |-> bag[p] + Count(d, LAMBDA e : e.key = p[1] /\ e.key_id = p[2])]
    BY DEF Inserted
  <2> QED BY <2>1, <2>2 DEF Inserted
<1>2. ASSUME NEW p \in Pairs
      PROVE  C(p) = Cardinality(PairRows(d, p[1], p[2])) /\ C(p) \in 0..Len(call.keys)
  BY CountPair
<1> HIDE DEF C
<1>3. Len(call.keys) \in Nat /\ MaxPairs \in Nat
  BY CallShape, BatchAssumption
<1>4. ASSUME NEW p \in Pairs PROVE bag[p] + C(p) \in 0..MaxPairs
  <2>0. bag[p] \in Nat /\ C(p) \in Nat /\ C(p) <= Len(call.keys)
    BY <1>2, <1>3
  <2>1. PICK a, c \in Nat : a = bag[p] /\ c = C(p) /\ c <= Len(call.keys)
    BY <2>0
  <2>2. a + Len(call.keys) <= MaxPairs
    BY <2>1
  <2> QED BY <1>3, <2>1, <2>2
<1>5. ASSUME NEW p \in Pairs, bag[p] + C(p) > 0 PROVE Hash[p[1]] % NrDpus = d
  <2>1. CASE bag[p] > 0
    BY <2>1 DEF HasOwnKeys
  <2>2. CASE ~(bag[p] > 0)
    <3>1. C(p) # 0
      BY <1>5, <2>2
    <3>2. PairRows(d, p[1], p[2]) # {}
      BY <1>2, <3>1, FS_EmptySet
    <3>3. PICK r \in RowsFor(call, d) : call.keys[r + 1] = p[1]
      BY <3>2 DEF PairRows, KeyRows
    <3> QED BY <3>3, RowsFacts DEF Home
  <2> QED BY <2>1, <2>2
<1> QED BY <1>1, <1>4, <1>5 DEF HasOwnKeys

(* What a delete leaves has its own keys still. *)
LEMMA DeletedRight ==
  ASSUME NEW d \in Dpus, NEW bag \in [Pairs -> 0..MaxPairs], HasOwnKeys(bag, d),
         NEW b \in Deleted(d, bag)
  PROVE  b \in [Pairs -> 0..MaxPairs] /\ HasOwnKeys(b, d)
<1>1. b \in [Pairs -> 0..MaxPairs] /\ \A p \in Pairs : b[p] <= bag[p]
  BY DEF Deleted
<1> QED BY <1>1, BatchAssumption DEF HasOwnKeys

(* One bag of a table is another one. *)
WithBag(s, i, b) == [s EXCEPT ![i].bag = b]

(* All else stays as it is. *)
LEMMA Changed ==
  ASSUME NEW s \in Seq(IndexSlot), NEW i \in DOMAIN s,
         NEW b \in [Pairs -> 0..MaxPairs], NEW t, t = WithBag(s, i, b)
  PROVE  /\ t \in Seq(IndexSlot)
         /\ Len(t) = Len(s) /\ DOMAIN t = DOMAIN s
         /\ \A j \in DOMAIN s : t[j].id = s[j].id /\ t[j].bag = IF j = i THEN b ELSE s[j].bag
<1>0. s \in Seq(IndexSlot) /\ DOMAIN s = 1..Len(s)
  BY LenProperties
<1>1. s[i] \in IndexSlot /\ \A j \in DOMAIN s : s[j] \in IndexSlot
  <2> QED BY <1>0, ElementOfSeq
<1> PICK u : u = [s[i] EXCEPT !.bag = b]
  OBVIOUS
<1>2. u \in IndexSlot /\ u.id = s[i].id /\ u.bag = b
  BY <1>1 DEF IndexSlot
<1>3. t = [s EXCEPT ![i] = u]
  BY DEF WithBag
<1>4. t \in Seq(IndexSlot) /\ Len(t) = Len(s)
  <2>1. i \in 1..Len(s)
    BY LenProperties
  <2> QED BY <1>2, <1>3, <2>1, ExceptSeq
<1>5. DOMAIN t = DOMAIN s /\ \A j \in DOMAIN s : t[j] = IF j = i THEN u ELSE s[j]
  BY <1>3
<1> QED BY <1>1, <1>2, <1>4, <1>5

(* What a call makes of the part of one DPU. *)
LEMMA EffectShape ==
  ASSUME TypeOK, call \in Calls, NEW d \in Dpus, Carries(mram[d], d),
         NEW s \in Seq(IndexSlot), Len(s) <= MaxIndexes,
         \A i \in DOMAIN s : HasOwnKeys(s[i].bag, d),
         call.op = "insert" =>
           \A i \in DOMAIN s : \A p \in Pairs : s[i].bag[p] + Len(call.keys) <= MaxPairs,
         NEW t, Effect(d, s, t)
  PROVE  /\ t \in Seq(IndexSlot) /\ Len(t) <= MaxIndexes
         /\ Len(t) = IF call.op = "create" /\ Len(s) < MaxIndexes THEN Len(s) + 1 ELSE Len(s)
         /\ \A i \in DOMAIN t : /\ t[i].id = IF i <= Len(s) THEN s[i].id ELSE call.id
                                /\ HasOwnKeys(t[i].bag, d)
<1> DEFINE new == [id |-> call.id, bag |-> [p \in Pairs |-> 0]]
<1>1. /\ DOMAIN s = 1..Len(s) /\ Len(s) \in Nat /\ MaxIndexes \in Nat
      /\ \A i \in DOMAIN s : s[i] \in IndexSlot
  <2>1. s \in Seq(IndexSlot)
    OBVIOUS
  <2>2. DOMAIN s = 1..Len(s) /\ Len(s) \in Nat
    BY <2>1, LenProperties
  <2> QED BY <2>1, <2>2, ElementOfSeq, BatchAssumption
<1>2. call.op \in {"create", "insert", "delete", "lookup"} /\ new \in IndexSlot
  BY CallShape, BatchAssumption DEF IndexSlot
<1>3. CASE t = s
  <2>1. ~(call.op = "create" /\ Len(s) < MaxIndexes)
    <3> SUFFICES ASSUME call.op = "create", Len(s) < MaxIndexes PROVE FALSE
      OBVIOUS
    <3>1. s = Append(s, new)
      BY <1>3 DEF Effect
    <3>2. Len(Append(s, new)) = Len(s) + 1
      <4> HIDE DEF new
      <4> QED BY <1>2, AppendProperties
    <3> QED BY <1>1, <3>1, <3>2
  <2>2. \A i \in DOMAIN s : i <= Len(s)
    BY <1>1
  <2> HIDE DEF new
  <2> QED BY <1>3, <2>1, <2>2
<1>4. CASE call.op = "create" /\ t # s
  <2>1. t = Append(s, new) /\ Len(s) < MaxIndexes
    BY <1>4 DEF Effect
  <2>2. /\ t \in Seq(IndexSlot) /\ Len(t) = Len(s) + 1
        /\ \A i \in 1..Len(s) : t[i] = s[i]
        /\ t[Len(s) + 1] = new
    <3>1. s \in Seq(IndexSlot)
      OBVIOUS
    <3> HIDE DEF new
    <3> QED BY <1>2, <2>1, <3>1, AppendProperties
  <2>3. DOMAIN t = 1..Len(t)
    <3> QED BY <2>2, LenProperties
  <2>4. HasOwnKeys(new.bag, d)
    BY DEF HasOwnKeys
  <2>5. ASSUME NEW i \in DOMAIN t
        PROVE  /\ t[i].id = IF i <= Len(s) THEN s[i].id ELSE call.id
               /\ HasOwnKeys(t[i].bag, d)
    <3>1. CASE i \in 1..Len(s)
      BY <1>1, <2>2, <3>1
    <3>2. CASE i = Len(s) + 1
      BY <1>1, <2>2, <2>4, <3>2
    <3> QED BY <1>1, <2>2, <2>3, <3>1, <3>2
  <2>6. Len(t) <= MaxIndexes
    BY <1>1, <2>1, <2>2
  <2> HIDE DEF new
  <2> QED BY <1>4, <2>1, <2>2, <2>5, <2>6
<1>5. CASE call.op # "create" /\ t # s
  <2>1. call.op \in {"insert", "delete"} /\ call.op # "lookup" /\ ~Unknown(s, call.id)
    BY <1>2, <1>5 DEF Effect
  <2>2. \E i \in DOMAIN s :
          \E b \in IF call.op = "insert" THEN {Inserted(d, s[i].bag)} ELSE Deleted(d, s[i].bag) :
            t = WithBag(s, i, b)
    BY <1>5, <2>1 DEF Effect, WithBag
  <2>3. \A i \in DOMAIN s :
          /\ s[i].bag \in [Pairs -> 0..MaxPairs] /\ HasOwnKeys(s[i].bag, d)
          /\ call.op = "insert" => \A p \in Pairs : s[i].bag[p] + Len(call.keys) <= MaxPairs
    BY <1>1 DEF IndexSlot
  <2>4. \A i \in DOMAIN s :
          \A b \in IF call.op = "insert" THEN {Inserted(d, s[i].bag)} ELSE Deleted(d, s[i].bag) :
            b \in [Pairs -> 0..MaxPairs] /\ HasOwnKeys(b, d)
    <3>1. CASE call.op = "insert"
      BY <2>3, <3>1, InsertedRight
    <3>2. CASE call.op # "insert"
      BY <2>3, <3>2, DeletedRight
    <3> QED BY <3>1, <3>2
  <2> PICK i \in DOMAIN s, b \in [Pairs -> 0..MaxPairs] : t = WithBag(s, i, b) /\ HasOwnKeys(b, d)
    BY <2>2, <2>4
  <2>5. /\ t \in Seq(IndexSlot) /\ Len(t) = Len(s) /\ DOMAIN t = DOMAIN s
        /\ \A j \in DOMAIN s : t[j].id = s[j].id /\ t[j].bag = IF j = i THEN b ELSE s[j].bag
    BY Changed
  <2>6. \A j \in DOMAIN s : HasOwnKeys(t[j].bag, d) /\ j <= Len(s)
    BY <1>1, <2>5
  <2> QED BY <1>5, <2>5, <2>6
<1> QED BY <1>3, <1>4, <1>5

(* What has been said of a package, a part and a result stays so while the *)
(* call and the packages stay.                                             *)
LEMMA CarriesKept ==
  ASSUME call' = call, NEW d, NEW p, Carries(p, d)
  PROVE  Carries(p, d)'
<1>1. RowsFor(call, d)' = RowsFor(call, d)
  BY DEF RowsFor, Home
<1> QED BY <1>1 DEF Carries

(* What a DPU has done stays done while another one runs. *)
LEMMA EffectKept ==
  ASSUME call' = call, mram' = mram, NEW e, NEW s, NEW t, Effect(e, s, t)
  PROVE  Effect(e, s, t)'
<1>1. \A b : Inserted(e, b)' = Inserted(e, b)
  BY DEF Inserted, Count, Places
<1>2. \A b : Deleted(e, b)' = Deleted(e, b)
  BY DEF Deleted, PairsOf, Count, Places
<1>3. Unknown(s, call.id)' = Unknown(s, call.id)
      /\ \A i : IsFirst(i, s, call.id)' = IsFirst(i, s, call.id)
  BY DEF Unknown, IsFirst
<1>4. CASE call.op = "create"
  BY <1>4 DEF Effect
<1>5. CASE call.op # "create" /\ (call.op = "lookup" \/ Unknown(s, call.id))
  BY <1>3, <1>5 DEF Effect
<1>6. CASE ~(call.op = "create") /\ ~(call.op # "create" /\ (call.op = "lookup" \/ Unknown(s, call.id)))
  <2>1. PICK i \in DOMAIN s :
          /\ IsFirst(i, s, call.id)
          /\ \E b \in IF call.op = "insert" THEN {Inserted(e, s[i].bag)}
                       ELSE Deleted(e, s[i].bag) : t = [s EXCEPT ![i].bag = b]
    BY <1>6 DEF Effect
  <2>2. (\E b \in IF call.op = "insert" THEN {Inserted(e, s[i].bag)}
                   ELSE Deleted(e, s[i].bag) : t = [s EXCEPT ![i].bag = b])'
    BY <1>1, <1>2, <2>1
  <2> QED BY <1>3, <1>6, <2>1, <2>2 DEF Effect
<1> QED BY <1>4, <1>5, <1>6

(* Its results stay answers. *)
LEMMA AnsweredKept ==
  ASSUME call' = call, mram' = mram, table' = table, NEW d, coo'[d] = coo[d], Answered(d)
  PROVE  Answered(d)'
<1>1. Places(d)' = Places(d) /\ Items(d)' = Items(d)
      /\ \A i \in DOMAIN table[d] :
           Answers(d, table[d][i].bag)' = Answers(d, table[d][i].bag)
  BY DEF Answers, Items, Places, Found, PairsOf
<1> QED BY <1>1 DEF Answered, IsFirst, Unknown

(* A DPU that ends has done what the call says to its own part.            *)
LEMMA RunTable ==
  ASSUME TypeOK, call \in Calls, NEW d \in Dpus, Carries(mram[d], d), RunDpu(d)
  PROVE  /\ Effect(d, table[d], table'[d])
         /\ table' = [table EXCEPT ![d] = table'[d]]
         /\ call.op # "lookup" => coo' = coo /\ size' = size
         /\ call.op = "lookup" => table' = table
<1>1. mram[d].type = call.op /\ mram[d].id = call.id
  BY DEF Carries
<1>2. table \in [Dpus -> Seq(IndexSlot)]
  BY DEF TypeOK, Tables
<1>3. CASE DpuCreate(d)
  BY <1>1, <1>2, <1>3 DEF DpuCreate, RoomInTable, Effect
<1>4. CASE DpuNoIndex(d)
  <2>1. Unknown(table[d], call.id) /\ call.op # "create"
    BY <1>1, <1>4 DEF DpuNoIndex, Here, Unknown
  <2>2. table' = table
    BY <1>4 DEF DpuNoIndex
  <2>3. Effect(d, table[d], table'[d])
    BY <2>1, <2>2 DEF Effect
  <2> QED BY <1>1, <1>2, <1>4, <2>2, <2>3 DEF DpuNoIndex
<1>5. ASSUME NEW i \in Here(d), \A j \in Here(d) : i <= j,
             DpuInsert(d, i) \/ DpuDelete(d, i) \/ DpuLookup(d, i)
      PROVE  /\ Effect(d, table[d], table'[d])
             /\ table' = [table EXCEPT ![d] = table'[d]]
             /\ call.op # "lookup" => coo' = coo /\ size' = size
             /\ call.op = "lookup" => table' = table
  <2>1. i \in DOMAIN table[d] /\ IsFirst(i, table[d], call.id) /\ ~Unknown(table[d], call.id)
    BY <1>1, <1>5 DEF Here, IsFirst, Unknown
  <2>2. CASE DpuInsert(d, i)
    <3>1. call.op = "insert" /\ coo' = coo /\ size' = size
      BY <1>1, <2>2 DEF DpuInsert
    <3>2. table' = [table EXCEPT ![d] = [table[d] EXCEPT ![i].bag = Inserted(d, table[d][i].bag)]]
      BY <2>2 DEF DpuInsert
    <3>3. table'[d] = [table[d] EXCEPT ![i].bag = Inserted(d, table[d][i].bag)]
      BY <1>2, <3>2
    <3>4. Effect(d, table[d], table'[d])
      BY <2>1, <3>1, <3>3 DEF Effect
    <3> QED BY <1>2, <3>1, <3>2, <3>4
  <2>3. CASE DpuDelete(d, i)
    <3>1. call.op = "delete" /\ coo' = coo /\ size' = size
      BY <1>1, <2>3 DEF DpuDelete
    <3>2. PICK b \in Deleted(d, table[d][i].bag) :
            table' = [table EXCEPT ![d] = [table[d] EXCEPT ![i].bag = b]]
      BY <2>3 DEF DpuDelete
    <3>3. table'[d] = [table[d] EXCEPT ![i].bag = b]
      BY <1>2, <3>2
    <3>4. Effect(d, table[d], table'[d])
      BY <2>1, <3>1, <3>3 DEF Effect
    <3> QED BY <1>2, <3>1, <3>2, <3>4
  <2>4. CASE DpuLookup(d, i)
    <3>1. call.op = "lookup" /\ table' = table
      BY <1>1, <2>4 DEF DpuLookup
    <3>2. Effect(d, table[d], table'[d])
      BY <3>1 DEF Effect
    <3> QED BY <1>2, <3>1, <3>2
  <2> QED BY <1>5, <2>2, <2>3, <2>4
<1> QED BY <1>3, <1>4, <1>5 DEF RunDpu, DpuCreate

(* Answers are results. *)
LEMMA AnswersShape ==
  ASSUME TypeOK, NEW d \in Dpus, NEW bag
  PROVE  /\ Places(d) \in SUBSET Slots /\ mram[d].nnz \in 0..MaxBatch
         /\ Items(d) \in SUBSET Elem
         /\ Answers(d, bag) \in SUBSET [row : Slots \cup Vals \cup {0}, val : Vals \cup {0}]
<1>1. mram[d] \in Package
  BY DEF TypeOK
<1>2. mram[d].nnz \in 0..MaxBatch /\ mram[d].data \in [Slots -> Elem]
  BY <1>1 DEF Package
<1>3. Places(d) \in SUBSET Slots
  BY <1>2, BatchAssumption DEF Places, Slots
<1>4. Items(d) \in SUBSET Elem
  BY <1>2, <1>3 DEF Items
<1>5. ASSUME NEW k PROVE Found(bag, k) \in SUBSET (Vals \cup {0})
  BY DEF Found
<1>6. ASSUME NEW a \in Answers(d, bag)
      PROVE  a \in [row : Slots \cup Vals \cup {0}, val : Vals \cup {0}]
  <2>1. PICK e \in Items(d) : a \in {[row |-> e.key_id, val |-> v] : v \in Found(bag, e.key)}
    BY <1>6 DEF Answers
  <2>2. PICK v \in Found(bag, e.key) : a = [row |-> e.key_id, val |-> v]
    BY <2>1
  <2>3. v \in Vals \cup {0} /\ e.key_id \in Slots \cup Vals \cup {0}
    BY <1>4, <1>5 DEF Elem
  <2> QED BY <2>2, <2>3
<1> QED BY <1>2, <1>3, <1>4, <1>6

(* After a lookup its results answer its rows. *)
LEMMA RunResults ==
  ASSUME TypeOK, call \in Calls, NEW d \in Dpus, Carries(mram[d], d), RunDpu(d),
         call.op = "lookup"
  PROVE  /\ coo' \in [Dpus -> Results] /\ size' \in [Dpus -> 0..MaxBatch]
         /\ \A e \in Dpus \ {d} : coo'[e] = coo[e] /\ size'[e] = size[e]
         /\ Answered(d)' /\ size'[d] = coo'[d].nnz
<1>1. mram[d].type = call.op /\ mram[d].id = call.id
  BY DEF Carries
<1>2. /\ mram' = mram /\ call' = call /\ table' = table
      /\ coo \in [Dpus -> Results] /\ size \in [Dpus -> 0..MaxBatch]
  BY RunTable DEF RunDpu, TypeOK
<1>3. /\ coo[d].nnz \in 0..MaxBatch
      /\ coo[d].data \in [Slots -> [row : Slots \cup Vals \cup {0}, val : Vals \cup {0}]]
  BY <1>2 DEF Results
<1>4. CASE DpuNoIndex(d)
  <2>1. coo' = [coo EXCEPT ![d].nnz = 0] /\ size' = [size EXCEPT ![d] = 0]
    BY <1>1, <1>4 DEF DpuNoIndex
  <2>2. Unknown(table[d], call.id)
    BY <1>1, <1>4 DEF DpuNoIndex, Here, Unknown
  <2>3. Unknown(table[d], call.id)'
    BY <1>2, <2>2 DEF Unknown
  <2>4. coo'[d] = [coo[d] EXCEPT !.nnz = 0] /\ size'[d] = 0
    BY <1>2, <2>1
  <2>5. 0 \in 0..MaxBatch
    BY BatchAssumption
  <2>6. coo'[d] \in Results /\ coo'[d].nnz = 0
    BY <1>2, <2>4, <2>5 DEF Results
  <2>7. coo' \in [Dpus -> Results] /\ size' \in [Dpus -> 0..MaxBatch]
    <3>1. coo' = [coo EXCEPT ![d] = coo'[d]]
      BY <1>2, <2>1
    <3> QED BY <1>2, <2>1, <2>5, <2>6, <3>1
  <2>8. \A e \in Dpus \ {d} : coo'[e] = coo[e] /\ size'[e] = size[e]
    BY <1>2, <2>1
  <2>9. Answered(d)'
    BY <2>3, <2>6 DEF Answered
  <2> QED BY <2>4, <2>6, <2>7, <2>8, <2>9
<1>5. ASSUME NEW i \in Here(d), \A j \in Here(d) : i <= j, DpuLookup(d, i)
      PROVE  /\ coo' \in [Dpus -> Results] /\ size' \in [Dpus -> 0..MaxBatch]
             /\ \A e \in Dpus \ {d} : coo'[e] = coo[e] /\ size'[e] = size[e]
             /\ Answered(d)' /\ size'[d] = coo'[d].nnz
  <2> DEFINE bag == table[d][i].bag
  <2>1. i \in DOMAIN table[d] /\ IsFirst(i, table[d], call.id)
    BY <1>1, <1>5 DEF Here, IsFirst
  <2>2. PICK data \in [Places(d) -> Answers(d, bag)] :
          /\ {data[j].row : j \in DOMAIN data} = {e.key_id : e \in Items(d)}
          /\ coo' = [coo EXCEPT ![d] = [nnz |-> mram[d].nnz,
                                       data |-> Overwritten(coo[d].data, data)]]
    BY <1>5 DEF DpuLookup
  <2>3. size' = [size EXCEPT ![d] = mram[d].nnz]
    BY <1>5 DEF DpuLookup
  <2>4. /\ Places(d) \in SUBSET Slots /\ mram[d].nnz \in 0..MaxBatch
        /\ Answers(d, bag) \in SUBSET [row : Slots \cup Vals \cup {0}, val : Vals \cup {0}]
    BY AnswersShape
  <2>5. coo'[d] = [nnz |-> mram[d].nnz, data |-> Overwritten(coo[d].data, data)]
    BY <1>2, <2>2
  <2> HIDE DEF bag
  <2>6. ASSUME NEW j \in Slots
        PROVE  coo'[d].data[j] = IF j \in Places(d) THEN data[j] ELSE coo[d].data[j]
    BY <1>3, <2>5 DEF Overwritten
  <2>7. coo'[d].data \in [Slots -> [row : Slots \cup Vals \cup {0}, val : Vals \cup {0}]]
    <3>1. coo'[d].data = [j \in Slots |-> IF j \in Places(d) THEN data[j] ELSE coo[d].data[j]]
      BY <1>3, <2>5 DEF Overwritten
    <3> QED BY <1>3, <2>4, <3>1
  <2>8. coo'[d] \in Results /\ coo'[d].nnz = mram[d].nnz
    BY <2>4, <2>5, <2>7 DEF Results
  <2>9. coo' \in [Dpus -> Results] /\ size' \in [Dpus -> 0..MaxBatch]
    <3>1. coo' = [coo EXCEPT ![d] = coo'[d]]
      BY <1>2, <2>2, <2>5
    <3> QED BY <1>2, <2>3, <2>4, <2>8, <3>1
  <2>10. \A e \in Dpus \ {d} : coo'[e] = coo[e] /\ size'[e] = size[e]
    BY <1>2, <2>2, <2>3
  <2>11. \A j \in Places(d) : coo'[d].data[j] \in Answers(d, bag)
    BY <2>4, <2>6
  <2>12. \A e \in Items(d) : \E j \in Places(d) : coo'[d].data[j].row = e.key_id
    <3> SUFFICES ASSUME NEW e \in Items(d)
                 PROVE  \E j \in Places(d) : coo'[d].data[j].row = e.key_id
      OBVIOUS
    <3>1. e.key_id \in {data[j].row : j \in DOMAIN data}
      BY <2>2
    <3>2. PICK j \in Places(d) : data[j].row = e.key_id
      BY <3>1
    <3> QED BY <2>4, <2>6, <3>2
  <2>13. Answered(d)'
    <3>1. Answers(d, table[d][i].bag)' = Answers(d, bag)
      BY <1>2 DEF Answers, Items, Places, Found, PairsOf, bag
    <3>2. Places(d)' = Places(d) /\ Items(d)' = Items(d)
      BY <1>2 DEF Places, Items
    <3>3. IsFirst(i, table[d], call.id)' /\ (DOMAIN table[d])' = DOMAIN table[d]
      BY <1>2, <2>1 DEF IsFirst
    <3> QED BY <1>2, <2>1, <2>8, <2>11, <2>12, <3>1, <3>2, <3>3 DEF Answered
  <2> QED BY <1>2, <2>3, <2>8, <2>9, <2>10, <2>13
<1> QED BY <1>1, <1>4, <1>5 DEF RunDpu, DpuCreate, DpuInsert, DpuDelete

(* One DPU has run. *)
LEMMA RunDpuInv ==
  ASSUME IndInv, NEW d \in Dpus, RunDpu(d)
  PROVE  IndInv'
<1>1. /\ pc = "run" /\ d \in running /\ running' = running \ {d}
      /\ pc' = IF running' = {} THEN AfterRun ELSE "run"
      /\ call' = call /\ calls' = calls /\ packages' = packages /\ metadatas' = metadatas
      /\ results' = results /\ mram' = mram /\ vals' = vals /\ before' = before
  BY DEF RunDpu, host
<1>2. /\ TypeOK /\ call \in Calls /\ call # NoCall /\ running \subseteq Dpus
      /\ SameTables(before) /\ TableOf = before
      /\ \A e \in Dpus : Carries(mram[e], e)
      /\ \A e \in Dpus : IF e \in running THEN table[e] = before[e]
                         ELSE Effect(e, before[e], table[e])
      /\ \A r \in Slots : vals[r] = Unset
      /\ before \in Tables /\ table \in Tables
  <2>1. TypeOK /\ PhaseInv /\ PackagesInv /\ TableInv /\ RunInv /\ TableOf = before
    BY <1>1 DEF IndInv, TableOf
  <2> QED BY <1>1, <2>1 DEF PhaseInv, PackagesInv, TableInv, RunInv, TypeOK
<1>3. /\ Effect(d, before[d], table'[d])
      /\ table' = [e \in Dpus |-> table'[e]] /\ \A e \in Dpus \ {d} : table'[e] = table[e]
      /\ call.op # "lookup" => coo' = coo /\ size' = size
      /\ call.op = "lookup" => table' = table
  <2>1. /\ Effect(d, table[d], table'[d]) /\ table' = [table EXCEPT ![d] = table'[d]]
        /\ call.op # "lookup" => coo' = coo /\ size' = size
        /\ call.op = "lookup" => table' = table
    BY <1>2, RunTable
  <2>2. DOMAIN table = Dpus /\ table[d] = before[d]
    BY <1>1, <1>2 DEF Tables
  <2> QED BY <2>1, <2>2
<1>4. AfterRun \in {"metadatas", "idle"} /\ (AfterRun = "metadatas" <=> call.op = "lookup")
  BY DEF AfterRun
<1>5. ASSUME NEW e \in Dpus, e \notin running'
      PROVE  Effect(e, before[e], table'[e])
  BY <1>1, <1>2, <1>3, <1>5
<1>6. ASSUME NEW e \in Dpus
      PROVE  /\ before[e] \in Seq(IndexSlot) /\ Len(before[e]) <= MaxIndexes
             /\ \A i \in DOMAIN before[e] : HasOwnKeys(before[e][i].bag, e)
             /\ call.op = "insert" =>
                  \A i \in DOMAIN before[e] : \A p \in Pairs :
                    before[e][i].bag[p] + Len(call.keys) <= MaxPairs
  <2>1. before[e] \in Seq(IndexSlot)
    BY <1>2, TableShape
  <2>2. Len(before[e]) <= MaxIndexes
    <3>1. Len(before[e]) = Len(before[d]) /\ table[d] = before[d]
      BY <1>1, <1>2 DEF SameTables
    <3> QED BY <1>2, <3>1 DEF TypeOK
  <2>3. \A i \in DOMAIN before[e] : HasOwnKeys(before[e][i].bag, e)
    BY <1>2 DEF SameTables, HasOwnKeys
  <2>4. call.op = "insert" =>
          \A i \in DOMAIN before[e] : \A p \in Pairs :
            before[e][i].bag[p] + Len(call.keys) <= MaxPairs
    BY <1>1, <1>2 DEF IndInv, RoomInv
  <2> QED BY <2>1, <2>2, <2>3, <2>4
<1>7. ASSUME NEW e \in Dpus, e \notin running'
      PROVE  /\ table'[e] \in Seq(IndexSlot) /\ Len(table'[e]) <= MaxIndexes
             /\ Len(table'[e]) = IF call.op = "create" /\ Len(before[e]) < MaxIndexes
                                   THEN Len(before[e]) + 1 ELSE Len(before[e])
             /\ \A i \in DOMAIN table'[e] :
                  /\ table'[e][i].id = IF i <= Len(before[e]) THEN before[e][i].id ELSE call.id
                  /\ HasOwnKeys(table'[e][i].bag, e)
  BY <1>2, <1>5, <1>6, <1>7, EffectShape
<1>8. ASSUME NEW e \in Dpus
      PROVE  table'[e] \in Seq(IndexSlot) /\ Len(table'[e]) <= MaxIndexes
  <2>1. CASE e = d
    BY <1>1, <1>7, <2>1
  <2>2. CASE e # d
    BY <1>2, <1>3, <2>2, TableShape DEF TypeOK
  <2> QED BY <2>1, <2>2
<1>9. TypeOK'
  <2>1. table' \in Tables
    BY <1>3, <1>8 DEF Tables
  <2>2. coo' \in [Dpus -> Results] /\ size' \in [Dpus -> 0..MaxBatch]
    BY <1>2, <1>3, RunResults DEF TypeOK
  <2>3. pc' \in {"idle", "push", "run", "metadatas", "results", "merge"} /\ running' \subseteq Dpus
    BY <1>1, <1>2, <1>4
  <2> QED BY <1>1, <1>2, <1>8, <2>1, <2>2, <2>3 DEF TypeOK
<1>10. PhaseInv'
  <2>1. call' # NoCall /\ \A r \in Slots : vals'[r] = Unset
    BY <1>1, <1>2
  <2>2. running' # {} <=> pc' = "run"
    BY <1>1, <1>4
  <2>3. pc' \in {"metadatas", "results", "merge"} => call'.op = "lookup"
    BY <1>1, <1>4
  <2> QED BY <2>1, <2>2, <2>3 DEF PhaseInv
<1>11. ASSUME NEW e \in Dpus PROVE Carries(mram[e], e)'
  <2>1. PICK p : p = mram[e]
    OBVIOUS
  <2>2. Carries(p, e)' /\ p = mram'[e]
    BY <1>1, <1>2, <2>1, CarriesKept
  <2> QED BY <2>2
<1>12. PackagesInv'
  BY <1>1, <1>4, <1>11 DEF PackagesInv
<1>13. TableInv'
  <2>1. CASE running' = {}
    <3>1. TableOf' = table'
      BY <2>1 DEF TableOf
    <3>2. ASSUME NEW e \in Dpus, NEW f \in Dpus
          PROVE  /\ Len(table'[e]) = Len(table'[f])
                 /\ \A i \in DOMAIN table'[e] :
                      /\ table'[e][i].id = table'[f][i].id
                      /\ \A p \in Pairs : table'[e][i].bag[p] > 0 => Hash[p[1]] % NrDpus = e
      <4>1. Len(before[e]) = Len(before[f]) /\ Len(before[e]) \in Nat
            /\ DOMAIN before[e] = 1..Len(before[e])
            /\ \A i \in DOMAIN before[e] : before[e][i].id = before[f][i].id
        BY <1>2, <1>6, LenProperties DEF SameTables
      <4>2. Len(table'[e]) = Len(table'[f])
        BY <1>7, <2>1, <4>1
      <4>3. DOMAIN table'[e] = 1..Len(table'[e]) /\ DOMAIN table'[f] = DOMAIN table'[e]
        BY <1>8, <4>2, LenProperties
      <4>4. ASSUME NEW i \in DOMAIN table'[e] PROVE table'[e][i].id = table'[f][i].id
        <5>1. /\ table'[e][i].id = IF i <= Len(before[e]) THEN before[e][i].id ELSE call.id
              /\ table'[f][i].id = IF i <= Len(before[f]) THEN before[f][i].id ELSE call.id
          BY <1>7, <2>1, <4>3
        <5>2. i <= Len(before[e]) => i \in DOMAIN before[e]
          BY <4>1, <4>3
        <5> QED BY <4>1, <5>1, <5>2
      <4>5. \A i \in DOMAIN table'[e] : HasOwnKeys(table'[e][i].bag, e)
        BY <1>7, <2>1
      <4> QED BY <4>2, <4>4, <4>5 DEF HasOwnKeys
    <3> QED BY <3>1, <3>2 DEF TableInv, SameTables
  <2>2. CASE running' # {}
    <3>1. TableOf' = before
      BY <1>1, <2>2 DEF TableOf
    <3> QED BY <1>2, <3>1 DEF TableInv, SameTables
  <2> QED BY <2>1, <2>2
<1>14. RoomInv'
  <2> SUFFICES ASSUME pc' = "run", call.op = "insert", NEW e \in Dpus, NEW i \in DOMAIN before[e],
                      NEW p \in Pairs
               PROVE  before[e][i].bag[p] + Len(call.keys) <= MaxPairs
    <3>1. pc' # "push"
      BY <1>1, <1>4
    <3>2. pc' = "run" => TableOf' = before
      BY <1>1, <1>4 DEF TableOf
    <3> QED BY <1>1, <3>1, <3>2 DEF RoomInv
  <2> QED BY <1>6
<1>16. RunInv'
  <2> SUFFICES ASSUME NEW e \in Dpus
               PROVE  IF e \in running' THEN table'[e] = before'[e]
                      ELSE Effect(e, before[e], table[e])'
    BY DEF RunInv
  <2>1. CASE e \in running'
    BY <1>1, <1>2, <1>3, <2>1
  <2>2. CASE e \notin running'
    <3>1. PICK s, t : s = before[e] /\ t = table'[e]
      OBVIOUS
    <3>2. Effect(e, s, t)'
      BY <1>1, <1>5, <2>2, <3>1, EffectKept
    <3>3. s = before'[e]
      BY <1>1, <3>1
    <3> QED BY <2>2, <3>1, <3>2, <3>3
  <2> QED BY <2>1, <2>2
<1>17. ResultsInv'
  <2>1. pc' \notin {"results", "merge"}
    BY <1>1, <1>4
  <2> SUFFICES ASSUME NEW e \in Dpus, call.op = "lookup", e \notin running'
               PROVE  Answered(e)' /\ size'[e] = coo'[e].nnz
    BY <1>1, <2>1 DEF ResultsInv
  <2>2. CASE e = d
    BY <1>1, <1>2, <2>2, RunResults
  <2>3. CASE e # d
    <3>1. Answered(e) /\ size[e] = coo[e].nnz
      BY <1>1, <2>3 DEF IndInv, ResultsInv
    <3>2. coo'[e] = coo[e] /\ size'[e] = size[e] /\ table' = table
      BY <1>1, <1>2, <1>3, <2>3, RunResults
    <3>3. Answered(e)'
      BY <1>1, <3>1, <3>2, AnsweredKept
    <3> QED BY <3>1, <3>2, <3>3
  <2> QED BY <2>2, <2>3
<1>18. OwnRows'
  BY <1>1, OwnRowsKept DEF IndInv
<1> QED BY <1>9, <1>10, <1>12, <1>13, <1>14, <1>16, <1>17, <1>18 DEF IndInv

-----------------------------------------------------------------------------
(* The host's steps after the launch.                                      *)

(* The places of the elements of all buffers, one behind the other. *)
LEMMA MergeOrder ==
  /\ \A n \in 0..(NrDpus * MaxBatch - 1) : n \div MaxBatch \in Dpus /\ n % MaxBatch \in Slots
  /\ \A d \in Dpus, j \in Slots :
       /\ d * MaxBatch + j \in 0..(NrDpus * MaxBatch - 1)
       /\ (d * MaxBatch + j) \div MaxBatch = d /\ (d * MaxBatch + j) % MaxBatch = j
<1>1. MaxBatch \in Nat \ {0} /\ NrDpus \in Nat \ {0}
  BY BatchAssumption
<1> PICK b \in Nat \ {0} : b = MaxBatch
  BY <1>1
<1>2. NrDpus * b \in Nat
  BY <1>1
<1>3. ASSUME NEW n \in 0..(NrDpus * b - 1) PROVE n \div b \in Dpus /\ n % b \in Slots
  <2>1. n \in Nat /\ n < NrDpus * b
    BY <1>2
  <2>2. n \div b < NrDpus /\ n \div b \in Nat /\ n % b \in 0..(b - 1)
    BY <1>1, <2>1, QuotientBelow, Division
  <2> QED BY <1>1, <2>2 DEF Dpus, Slots
<1>4. ASSUME NEW d \in Dpus, NEW j \in Slots
      PROVE  /\ d * b + j \in 0..(NrDpus * b - 1)
             /\ (d * b + j) \div b = d /\ (d * b + j) % b = j
  <2>1. d \in Nat /\ d + 1 <= NrDpus /\ j \in 0..(b - 1) /\ j \in Nat
    BY <1>1 DEF Dpus, Slots
  <2> DEFINE n == d * b + j
  <2>2. n = b * d + j /\ n \in Nat /\ n \in Int
    BY <2>1
  <2>3. n < (d + 1) * b /\ d * b <= n /\ (d + 1) * b \in Nat /\ d * b \in Nat
    BY <2>1
  <2>4. (d + 1) * b <= NrDpus * b
    BY <1>1, <2>1, MulMono
  <2>5. n % b = j
    <3> HIDE DEF n
    <3> QED BY <2>1, <2>2, RestOfAnyQuotient
  <2>6. n \div b < d + 1 /\ ~(n \div b < d) /\ n \div b \in Nat
    <3> HIDE DEF n
    <3> QED BY <2>1, <2>2, <2>3, QuotientBelow, Division
  <2>7. n \div b = d
    <3> PICK q \in Nat : q = n \div b
      BY <2>6
    <3> HIDE DEF n
    <3> QED BY <2>1, <2>6
  <2> HIDE DEF n
  <2>8. n \in 0..(NrDpus * b - 1)
    BY <1>2, <2>2, <2>3, <2>4
  <2> QED BY <2>5, <2>7, <2>8 DEF n
<1> QED BY <1>3, <1>4

(* What is merged to a row is a result for it, if there is one. *)
LEMMA MergedFacts ==
  ASSUME NEW r
  PROVE  \/ /\ Merged(r) = vals[r]
            /\ \A d \in Dpus, j \in Slots :
                 j < results[d].nnz => results[d].data[j].row # r
         \/ \E d \in Dpus, j \in Slots :
              /\ j < results[d].nnz /\ results[d].data[j].row = r
              /\ Merged(r) = results[d].data[j].val
<1> DEFINE all == 0..(NrDpus * MaxBatch - 1)
           Is(d, j) == j < results[d].nnz /\ results[d].data[j].row = r
           at == {n \in all : Is(n \div MaxBatch, n % MaxBatch)}
<1>1. Merged(r) = IF at = {} THEN vals[r]
                  ELSE results[Max(at) \div MaxBatch].data[Max(at) % MaxBatch].val
  BY DEF Merged
<1> HIDE DEF Is
<1>2. CASE at = {}
  <2> SUFFICES ASSUME NEW d \in Dpus, NEW j \in Slots, Is(d, j) PROVE FALSE
    BY <1>1, <1>2 DEF Is
  <2>1. PICK n \in all : n \div MaxBatch = d /\ n % MaxBatch = j
    BY MergeOrder
  <2>2. n \in at
    BY <2>1
  <2> QED BY <1>2, <2>2
<1>3. ASSUME at # {}
      PROVE  \E d \in Dpus, j \in Slots : Is(d, j) /\ Merged(r) = results[d].data[j].val
  <2>1. all \in SUBSET Nat /\ IsFiniteSet(all)
    <3>1. NrDpus * MaxBatch \in Nat
      BY BatchAssumption
    <3> QED BY <3>1, IntervalCount
  <2>2. IsFiniteSet(at) /\ at \in SUBSET Nat
    <3>1. at \in SUBSET all
      OBVIOUS
    <3> HIDE DEF at, all
    <3> QED BY <2>1, <3>1, FS_Subset
  <2>3. Max(at) \in at
    <3> HIDE DEF at
    <3> QED BY <1>3, <2>2, MaxFacts
  <2> PICK n : n = Max(at)
    OBVIOUS
  <2>4. n \in all /\ Is(n \div MaxBatch, n % MaxBatch)
    BY <2>3
  <2>5. n \div MaxBatch \in Dpus /\ n % MaxBatch \in Slots
    BY <2>4, MergeOrder
  <2>6. Merged(r) = results[n \div MaxBatch].data[n % MaxBatch].val
    <3> HIDE DEF at
    <3> QED BY <1>1, <1>3
  <2> HIDE DEF all, at
  <2> QED BY <2>4, <2>5, <2>6, Zenon
<1> HIDE DEF at
<1> QED BY <1>2, <1>3 DEF Is

(* The metadata of the DPUs has arrived. *)
LEMMA PullMetadatasInv ==
  ASSUME IndInv, PullMetadatas
  PROVE  IndInv'
<1>1. /\ pc = "metadatas" /\ metadatas' = size /\ pc' = "results"
      /\ call' = call /\ calls' = calls /\ packages' = packages /\ results' = results
      /\ running' = running /\ mram' = mram /\ table' = table /\ coo' = coo /\ size' = size
      /\ vals' = vals /\ before' = before
  BY DEF PullMetadatas, dpu
<1>2. TypeOK' /\ PhaseInv'
  BY <1>1 DEF IndInv, TypeOK, PhaseInv
<1>3. ASSUME NEW d \in Dpus PROVE Carries(mram[d], d)'
  <2>1. PICK p : p = mram[d]
    OBVIOUS
  <2>2. Carries(p, d)' /\ p = mram'[d]
    BY <1>1, <2>1, CarriesKept DEF IndInv, PackagesInv
  <2> QED BY <2>2
<1>4. PackagesInv'
  BY <1>1, <1>3 DEF PackagesInv
<1>5. TableInv'
  BY <1>1 DEF IndInv, TableInv, TableOf, SameTables
<1>6. RoomInv' /\ RunInv'
  BY <1>1 DEF RoomInv, RunInv
<1>7. ASSUME NEW d \in Dpus, call.op = "lookup", d \notin running
      PROVE  Answered(d)' /\ size[d] = coo[d].nnz
  <2>1. Answered(d) /\ size[d] = coo[d].nnz
    BY <1>1, <1>7 DEF IndInv, ResultsInv
  <2> QED BY <1>1, <2>1, AnsweredKept
<1>8. ResultsInv'
  BY <1>1, <1>7 DEF ResultsInv
<1>9. OwnRows'
  BY <1>1, OwnRowsKept DEF IndInv
<1> QED BY <1>2, <1>4, <1>5, <1>6, <1>8, <1>9 DEF IndInv

(* The results have arrived, if they all fit. *)
LEMMA PullResultsInv ==
  ASSUME IndInv, PullResults
  PROVE  IndInv'
<1>1. /\ pc = "results" /\ pc' = "merge"
      /\ results' = IF PullCapacity < Pulled THEN results
                    ELSE [d \in Dpus |->
                       [nnz |-> coo[d].nnz,
                        data |-> Overwritten(results[d].data, First(Pulled, coo[d].data))]]
      /\ call' = call /\ calls' = calls /\ packages' = packages /\ metadatas' = metadatas
      /\ running' = running /\ mram' = mram /\ table' = table /\ coo' = coo /\ size' = size
      /\ vals' = vals /\ before' = before
  BY DEF PullResults, dpu
<1>2. /\ TypeOK /\ running = {} /\ call.op = "lookup"
      /\ \A d \in Dpus : /\ Answered(d) /\ size[d] = coo[d].nnz /\ metadatas[d] = size[d]
                         /\ Carries(mram[d], d)
  BY <1>1 DEF IndInv, PhaseInv, ResultsInv, PackagesInv
<1>3. /\ MaxBatch \in Nat /\ PullCapacity \in Nat
      /\ \A d \in Dpus : /\ metadatas[d] \in 0..MaxBatch /\ coo[d].nnz \in 0..MaxBatch
                         /\ coo[d].data \in [Slots -> [row : Slots \cup Vals \cup {0}, val : Vals \cup {0}]]
                         /\ results[d].data \in [Slots -> [row : Slots \cup Vals \cup {0}, val : Vals \cup {0}]]
  BY <1>2, BatchAssumption DEF TypeOK, Results
<1>4. Pulled \in 0..MaxBatch /\ \A d \in Dpus : coo[d].nnz <= Pulled
  <2>1. metadatas \in [Dpus -> Nat]
    BY <1>2, BatchAssumption DEF TypeOK
  <2>2. Pulled \in {metadatas[d] : d \in Dpus} /\ \A d \in Dpus : metadatas[d] <= Pulled
    BY <2>1, DpusMax DEF Pulled
  <2> QED BY <1>2, <1>3, <2>2
<1>5. ASSUME NEW d \in Dpus, ~(PullCapacity < Pulled)
      PROVE  /\ results'[d] \in Results /\ results'[d].nnz = coo[d].nnz
             /\ \A j \in 0..(coo[d].nnz - 1) : results'[d].data[j] = coo[d].data[j]
  <2>1. PICK data : data = Overwritten(results[d].data, First(Pulled, coo[d].data))
    OBVIOUS
  <2>2. results'[d] = [nnz |-> coo[d].nnz, data |-> data]
    BY <1>1, <1>5, <2>1
  <2>3. DOMAIN First(Pulled, coo[d].data) = 0..(Pulled - 1)
    BY DEF First
  <2>4. ASSUME NEW i \in Slots
        PROVE  data[i] = IF i < Pulled THEN coo[d].data[i] ELSE results[d].data[i]
    <3>1. i \in 0..(Pulled - 1) <=> i < Pulled
      BY <1>3, <1>4 DEF Slots
    <3> QED BY <1>3, <2>1, <2>3, <3>1 DEF Overwritten, First
  <2>5. data = [i \in Slots |-> IF i < Pulled THEN coo[d].data[i] ELSE results[d].data[i]]
    BY <1>3, <2>1, <2>4 DEF Overwritten
  <2>6. data \in [Slots -> [row : Slots \cup Vals \cup {0}, val : Vals \cup {0}]]
    BY <1>3, <2>5
  <2>7. ASSUME NEW j \in 0..(coo[d].nnz - 1) PROVE data[j] = coo[d].data[j]
    <3>1. j \in Slots /\ j < Pulled
      BY <1>3, <1>4 DEF Slots
    <3> QED BY <2>4, <3>1
  <2> QED BY <1>3, <2>2, <2>6, <2>7 DEF Results
<1>6. results' \in [Dpus -> Results]
  <2>1. CASE PullCapacity < Pulled
    BY <1>1, <1>2, <2>1 DEF TypeOK
  <2>2. CASE ~(PullCapacity < Pulled)
    BY <1>1, <1>5, <2>2
  <2> QED BY <2>1, <2>2
<1>7. TypeOK' /\ PhaseInv'
  BY <1>1, <1>6 DEF IndInv, TypeOK, PhaseInv
<1>8. ASSUME NEW d \in Dpus PROVE Carries(mram[d], d)'
  <2>1. PICK p : p = mram[d]
    OBVIOUS
  <2>2. Carries(p, d)' /\ p = mram'[d]
    BY <1>1, <1>2, <2>1, CarriesKept
  <2> QED BY <2>2
<1>9. PackagesInv'
  BY <1>1, <1>8 DEF PackagesInv
<1>10. TableInv'
  BY <1>1 DEF IndInv, TableInv, TableOf, SameTables
<1>11. RoomInv' /\ RunInv'
  BY <1>1 DEF RoomInv, RunInv
<1>12. ASSUME NEW d \in Dpus PROVE Answered(d)'
  BY <1>1, <1>2, AnsweredKept
<1>13. ResultsInv'
  <2>1. Pulled' = Pulled /\ (Pulled <= PullCapacity => ~(PullCapacity < Pulled))
    BY <1>1, <1>3, <1>4 DEF Pulled
  <2> QED BY <1>1, <1>2, <1>5, <1>12, <2>1 DEF ResultsInv
<1>14. OwnRows'
  BY <1>1, OwnRowsKept DEF IndInv
<1> QED BY <1>7, <1>9, <1>10, <1>11, <1>13, <1>14 DEF IndInv

(* The first slot with an id is one only, and the same in all DPUs. *)
LEMMA FirstFacts ==
  ASSUME NEW t \in Tables, SameTables(t), NEW d \in Dpus, NEW e \in Dpus, NEW id
  PROVE  /\ Unknown(t[d], id) <=> Unknown(t[e], id)
         /\ \A i : IsFirst(i, t[d], id) <=> IsFirst(i, t[e], id)
         /\ \A i, j : IsFirst(i, t[d], id) /\ IsFirst(j, t[d], id) => i = j
         /\ \A i : IsFirst(i, t[d], id) => ~Unknown(t[d], id)
<1>1. DOMAIN t[d] = 1..Len(t[d]) /\ DOMAIN t[e] = DOMAIN t[d]
  BY TableShape DEF SameTables
<1>2. \A i \in DOMAIN t[d] : t[d][i].id = t[e][i].id
  BY DEF SameTables
<1> QED BY <1>1, <1>2 DEF Unknown, IsFirst

(* What the host merges are answers to the rows of the batch.              *)
LEMMA ResultRight ==
  ASSUME IndInv, pc = "merge", Pulled <= PullCapacity, NEW d \in Dpus
  PROVE  /\ \A j \in Slots : j < results[d].nnz =>
              \E i \in DOMAIN table[d], r \in RowsFor(call, d) :
                /\ IsFirst(i, table[d], call.id) /\ results[d].data[j].row = r
                /\ results[d].data[j].val \in Found(table[d][i].bag, call.keys[r + 1])
         /\ ~Unknown(table[d], call.id) =>
              \A r \in RowsFor(call, d) :
                \E j \in Slots : j < results[d].nnz /\ results[d].data[j].row = r
<1>1. /\ TypeOK /\ call.op = "lookup" /\ call \in Calls /\ Carries(mram[d], d)
      /\ Answered(d) /\ results[d].nnz = coo[d].nnz
      /\ \A j \in 0..(coo[d].nnz - 1) : results[d].data[j] = coo[d].data[j]
  <2>1. running = {}
    BY DEF IndInv, PhaseInv
  <2> QED BY <2>1 DEF IndInv, PhaseInv, PackagesInv, ResultsInv, TypeOK
<1>2. coo[d].nnz \in 0..MaxBatch /\ mram[d].nnz \in 0..MaxBatch /\ MaxBatch \in Nat
  BY <1>1, BatchAssumption DEF TypeOK, Results, Package
<1>3. /\ Places(d) = {Place(r, RowsFor(call, d)) : r \in RowsFor(call, d)}
      /\ Places(d) \in SUBSET Slots
      /\ \A r \in RowsFor(call, d) :
           LET e == mram[d].data[Place(r, RowsFor(call, d))] IN
           e.key = call.keys[r + 1] /\ e.key_id = r
  BY <1>1, ItemsRight
<1>4. ASSUME NEW e \in Items(d)
      PROVE  e.key_id \in RowsFor(call, d) /\ e.key = call.keys[e.key_id + 1]
  <2>1. PICK n \in Places(d) : e = mram[d].data[n]
    BY <1>4 DEF Items
  <2>2. PICK r \in RowsFor(call, d) : n = Place(r, RowsFor(call, d))
    BY <1>3
  <2> QED BY <1>3, <2>1, <2>2
<1>5. ASSUME NEW j \in Slots, j < results[d].nnz
      PROVE  \E i \in DOMAIN table[d], r \in RowsFor(call, d) :
               /\ IsFirst(i, table[d], call.id) /\ results[d].data[j].row = r
               /\ results[d].data[j].val \in Found(table[d][i].bag, call.keys[r + 1])
  <2>1. j \in 0..(coo[d].nnz - 1) /\ coo[d].nnz # 0
    BY <1>1, <1>2, <1>5 DEF Slots
  <2>2. PICK i \in DOMAIN table[d] :
          /\ IsFirst(i, table[d], call.id) /\ coo[d].nnz = mram[d].nnz
          /\ \A n \in Places(d) : coo[d].data[n] \in Answers(d, table[d][i].bag)
    BY <1>1, <2>1 DEF Answered
  <2>3. results[d].data[j] \in Answers(d, table[d][i].bag)
    BY <1>1, <2>1, <2>2 DEF Places
  <2>4. PICK e \in Items(d) : results[d].data[j] \in {[row |-> e.key_id, val |-> v] :
                                                        v \in Found(table[d][i].bag, e.key)}
    BY <2>3 DEF Answers
  <2>5. results[d].data[j].row = e.key_id /\ results[d].data[j].val \in Found(table[d][i].bag, e.key)
    BY <2>4
  <2> QED BY <1>4, <2>2, <2>5
<1>6. ASSUME ~Unknown(table[d], call.id), NEW r \in RowsFor(call, d)
      PROVE  \E j \in Slots : j < results[d].nnz /\ results[d].data[j].row = r
  <2>1. /\ coo[d].nnz = mram[d].nnz
        /\ \A e \in Items(d) : \E j \in Places(d) : coo[d].data[j].row = e.key_id
    BY <1>1, <1>6 DEF Answered
  <2>2. Place(r, RowsFor(call, d)) \in Places(d)
    BY <1>3
  <2>3. PICK e \in Items(d) : e.key_id = r
    BY <1>3, <2>2 DEF Items
  <2>4. PICK j \in Places(d) : coo[d].data[j].row = r
    BY <2>1, <2>3
  <2>5. j \in 0..(coo[d].nnz - 1) /\ j < results[d].nnz /\ j \in Slots
    BY <1>1, <1>2, <1>3, <2>1, <2>4 DEF Places
  <2> QED BY <1>1, <2>4, <2>5
<1> QED BY <1>5, <1>6

(* The merge answers the rows of the batch, and leaves those behind them. *)
LEMMA MergedRight ==
  ASSUME IndInv, pc = "merge", Pulled <= PullCapacity, NEW r \in Slots
  PROVE  /\ r >= Len(call.keys) \/ Unknown(table[0], call.id) => Merged(r) = Unset
         /\ r < Len(call.keys) =>
              \A i : IsFirst(i, table[0], call.id) =>
                Merged(r) \in Found(table[Home(r, call.keys[r + 1])][i].bag, call.keys[r + 1])
<1>1. /\ call.op = "lookup" /\ call \in Calls /\ vals[r] = Unset /\ SameTables(table)
      /\ table \in Tables
  <2>1. running = {}
    BY DEF IndInv, PhaseInv
  <2> QED BY <2>1 DEF IndInv, PhaseInv, TypeOK, TableInv, TableOf
<1>2. Len(call.keys) \in Nat /\ r \in Nat /\ \A n \in 1..Len(call.keys) : call.keys[n] \in Keys
  BY <1>1, CallShape, BatchAssumption DEF Slots
<1>3. ASSUME NEW d \in Dpus, NEW j \in Slots, j < results[d].nnz, results[d].data[j].row = r
      PROVE  /\ r \in RowsFor(call, d) /\ r < Len(call.keys) /\ Home(r, call.keys[r + 1]) = d
             /\ ~Unknown(table[0], call.id)
             /\ \A i : IsFirst(i, table[0], call.id) =>
                  results[d].data[j].val \in Found(table[d][i].bag, call.keys[r + 1])
  <2>1. PICK i \in DOMAIN table[d] :
          /\ r \in RowsFor(call, d) /\ IsFirst(i, table[d], call.id)
          /\ results[d].data[j].val \in Found(table[d][i].bag, call.keys[r + 1])
    BY <1>3, ResultRight
  <2>2. r < Len(call.keys) /\ Home(r, call.keys[r + 1]) = d
    BY <1>1, <2>1, RowsFacts
  <2>3. /\ ~Unknown(table[0], call.id)
        /\ \A n : IsFirst(n, table[0], call.id) => n = i
    BY <1>1, <2>1, DpusFacts, FirstFacts
  <2> QED BY <2>1, <2>2, <2>3
<1>4. CASE \E d \in Dpus, j \in Slots :
             /\ j < results[d].nnz /\ results[d].data[j].row = r
             /\ Merged(r) = results[d].data[j].val
  <2>1. PICK d \in Dpus, j \in Slots :
             /\ j < results[d].nnz /\ results[d].data[j].row = r
             /\ Merged(r) = results[d].data[j].val
    BY <1>4
  <2> QED BY <1>2, <1>3, <2>1
<1>5. CASE /\ Merged(r) = vals[r]
           /\ \A d \in Dpus, j \in Slots : j < results[d].nnz => results[d].data[j].row # r
  <2> SUFFICES ASSUME r < Len(call.keys), NEW i, IsFirst(i, table[0], call.id) PROVE FALSE
    BY <1>1, <1>5
  <2> DEFINE d == Home(r, call.keys[r + 1])
  <2>1. r + 1 \in 1..Len(call.keys) /\ r \in 0..(Len(call.keys) - 1)
    BY <1>2
  <2>2. d \in Dpus
    BY <1>2, <2>1, DpusFacts
  <2>3. r \in RowsFor(call, d)
    BY <2>1 DEF RowsFor
  <2> HIDE DEF d
  <2>4. ~Unknown(table[d], call.id)
    <3>1. 0 \in Dpus
      BY DpusFacts
    <3>2. ~Unknown(table[0], call.id)
      BY <1>1, <3>1, FirstFacts
    <3> QED BY <1>1, <2>2, <3>1, <3>2, FirstFacts
  <2> QED BY <1>5, <2>2, <2>3, <2>4, ResultRight
<1> QED BY <1>4, <1>5, MergedFacts

(* Results that were not received are those of a known index, and of a call *)
(* with more rows for some DPU than the buffer has.                        *)
LEMMA NotReceived ==
  ASSUME IndInv, pc = "merge", ~(Pulled <= PullCapacity)
  PROVE  ~PullsFit(call) /\ ~Unknown(table[0], call.id)
<1>1. /\ TypeOK /\ running = {} /\ call.op = "lookup" /\ table \in Tables /\ SameTables(table)
      /\ \A d \in Dpus : /\ Answered(d) /\ metadatas[d] = coo[d].nnz /\ Carries(mram[d], d)
  <2>1. running = {}
    BY DEF IndInv, PhaseInv
  <2> QED BY <2>1 DEF IndInv, PhaseInv, PackagesInv, ResultsInv, TypeOK, TableInv, TableOf
<1>2. metadatas \in [Dpus -> Nat] /\ PullCapacity \in Nat
  BY <1>1, BatchAssumption DEF TypeOK
<1>3. Pulled \in {metadatas[d] : d \in Dpus}
  BY <1>2, DpusMax DEF Pulled
<1>4. PICK d \in Dpus : metadatas[d] = Pulled
  BY <1>3
<1>5. ~(coo[d].nnz <= PullCapacity) /\ coo[d].nnz # 0
  BY <1>1, <1>2, <1>4
<1>6. PICK i \in DOMAIN table[d] : IsFirst(i, table[d], call.id) /\ coo[d].nnz = mram[d].nnz
  BY <1>1, <1>5 DEF Answered
<1>7. ~PullsFit(call)
  <2>1. mram[d].nnz = Cardinality(RowsFor(call, d))
    BY <1>1 DEF Carries
  <2> QED BY <1>5, <1>6, <2>1 DEF PullsFit
<1>8. ~Unknown(table[0], call.id)
  <2>1. 0 \in Dpus
    BY DpusFacts
  <2> QED BY <1>1, <1>6, <2>1, FirstFacts
<1> QED BY <1>7, <1>8

(* The results are in the caller's array. *)
LEMMA MergeInv ==
  ASSUME IndInv, Merge
  PROVE  IndInv'
<1>1. /\ pc = "merge" /\ pc' = "idle" /\ vals' = [r \in Slots |-> Merged(r)]
      /\ call' = call /\ calls' = calls /\ packages' = packages /\ metadatas' = metadatas
      /\ results' = results /\ mram' = mram /\ table' = table /\ coo' = coo /\ size' = size
      /\ running' = running /\ before' = before
  BY DEF Merge, host, dpu
<1>2. TypeOK /\ running = {} /\ call.op = "lookup" /\ \A r \in Slots : vals[r] = Unset
  BY <1>1 DEF IndInv, PhaseInv
<1>3. ASSUME NEW r \in Slots PROVE Merged(r) \in Vals \cup {0, Unset}
  <2>1. CASE Merged(r) = vals[r]
    BY <1>2, <2>1
  <2>2. CASE \E d \in Dpus, j \in Slots : Merged(r) = results[d].data[j].val
    BY <1>2, <2>2 DEF TypeOK, Results
  <2> QED BY <2>1, <2>2, MergedFacts
<1>4. TypeOK'
  BY <1>1, <1>2, <1>3 DEF TypeOK
<1>5. PhaseInv' /\ PackagesInv' /\ RoomInv' /\ RunInv' /\ ResultsInv'
  BY <1>1, <1>2 DEF PhaseInv, PackagesInv, RoomInv, RunInv, ResultsInv
<1>6. TableInv'
  BY <1>1 DEF IndInv, TableInv, TableOf, SameTables
<1>7. OwnRows'
  <2> SUFFICES ASSUME PullsFit(call), NEW r \in Slots, r >= Len(call.keys)
               PROVE  vals'[r] = Unset
    BY <1>1 DEF OwnRows, OthersUnset, PullsFit, RowsFor, Home
  <2>1. Pulled <= PullCapacity
    BY <1>1, NotReceived
  <2> QED BY <1>1, <2>1, MergedRight
<1> QED BY <1>4, <1>5, <1>6, <1>7 DEF IndInv

(* Nothing happens. *)
LEMMA StutterInv ==
  ASSUME IndInv, UNCHANGED vars
  PROVE  IndInv'
<1>1. /\ call' = call /\ calls' = calls /\ pc' = pc /\ packages' = packages
      /\ metadatas' = metadatas /\ results' = results /\ mram' = mram /\ table' = table
      /\ coo' = coo /\ size' = size /\ running' = running /\ before' = before /\ vals' = vals
  BY DEF vars, host, dpu
<1>2. TypeOK' /\ PhaseInv' /\ OwnRows'
  BY <1>1, OwnRowsKept DEF IndInv, TypeOK, PhaseInv
<1>3. PackagesInv'
  <2>1. ASSUME NEW d, NEW p, Carries(p, d) PROVE Carries(p, d)'
    BY <1>1, <2>1, CarriesKept
  <2> SUFFICES ASSUME NEW d \in Dpus
               PROVE  /\ pc = "push" => Carries(packages[d], d)'
                      /\ pc \notin {"idle", "push"} => Carries(mram[d], d)'
    BY <1>1 DEF PackagesInv
  <2>2. PICK p, m : p = packages[d] /\ m = mram[d]
    OBVIOUS
  <2>3. /\ pc = "push" => Carries(p, d)'
        /\ pc \notin {"idle", "push"} => Carries(m, d)'
    BY <2>1, <2>2 DEF IndInv, PackagesInv
  <2>4. p = packages'[d] /\ m = mram'[d]
    BY <1>1, <2>2
  <2> QED BY <2>3, <2>4
<1>4. TableInv' /\ RoomInv'
  BY <1>1 DEF IndInv, TableInv, RoomInv, TableOf, SameTables
<1>5. RunInv'
  <2> SUFFICES ASSUME pc = "run", NEW e \in Dpus
               PROVE  IF e \in running THEN table[e] = before[e]
                      ELSE Effect(e, before[e], table[e])'
    BY <1>1 DEF RunInv
  <2>1. PICK s, t : s = before[e] /\ t = table[e]
    OBVIOUS
  <2>2. IF e \in running THEN table[e] = before[e] ELSE Effect(e, s, t)'
    BY <1>1, <2>1, EffectKept DEF IndInv, RunInv
  <2>3. s = before'[e] /\ t = table'[e]
    BY <1>1, <2>1
  <2> QED BY <2>2, <2>3
<1>6. ResultsInv'
  <2>1. Pulled' = Pulled
    BY <1>1 DEF Pulled
  <2> QED BY <1>1, <2>1, AnsweredKept DEF IndInv, ResultsInv
<1> QED BY <1>2, <1>3, <1>4, <1>5, <1>6 DEF IndInv

(* Every step preserves the inductive invariant. *)
LEMMA BatchStepInv == IndInv /\ [Next]_vars => IndInv'
<1> SUFFICES ASSUME IndInv, [Next]_vars PROVE IndInv'
  OBVIOUS
<1>1. ASSUME NEW q \in Calls, CallCreate(q) \/ CallInsert(q) \/ CallDelete(q) \/ CallLookup(q)
      PROVE  IndInv'
  BY <1>1, CallInv
<1>2. ASSUME NEW d \in Dpus, RunDpu(d) PROVE IndInv'
  BY <1>2, RunDpuInv
<1> QED BY <1>1, <1>2, PushInv, PullMetadatasInv, PullResultsInv, MergeInv, StutterInv
        DEF Next, Finished

(* What each buffer on a batch's way holds, what each DPU has done with its *)
(* part of it and what its results answer, after any batches before it.    *)
THEOREM BatchesInvariance == Spec => []IndInv
<1>1. Init => IndInv
  BY InitInv
<1> QED BY <1>1, BatchStepInv, PTL DEF Spec

(* Between launches all DPUs have the same indexes in the same slots, and a *)
(* pair is held by the DPU its key hashes to.                              *)
THEOREM TablesAgree == Spec => []OneTable
<1>1. IndInv => OneTable
  BY DEF IndInv, TableInv, TableOf, OneTable
<1> QED BY <1>1, BatchesInvariance, PTL

(* A lookup with no more rows for any DPU than the pull buffer has for it   *)
(* writes to its own rows only, whatever lookups came before it: also such *)
(* as did not fit.                                                         *)
THEOREM OwnRowsOnly == Spec => []OwnRows
<1>1. IndInv => OwnRows
  BY DEF IndInv
<1> QED BY <1>1, BatchesInvariance, PTL

-----------------------------------------------------------------------------
(* The set does what KeyValueBatches promises.                             *)

HomeOf(p) == Hash[p[1]] % NrDpus

(* The bag of a slot, each pair taken from the DPU it belongs to. *)
BagAt(t, i) == [p \in Pairs |-> t[HomeOf(p)][i].bag[p]]

(* The home of a pair is that of its key. *)
LEMMA HomeFacts ==
  ASSUME NEW p \in Pairs
  PROVE  HomeOf(p) \in Dpus /\ \A r : Home(r, p[1]) = HomeOf(p)
BY DpusFacts DEF Pairs, HomeOf, Home

(* A known id has a first slot. *)
LEMMA FirstExists ==
  ASSUME NEW s \in Seq(IndexSlot), NEW id, ~Unknown(s, id)
  PROVE  \E i \in DOMAIN s : IsFirst(i, s, id)
<1> DEFINE S == {i \in DOMAIN s : s[i].id = id}
<1>1. DOMAIN s = 1..Len(s) /\ Len(s) \in Nat
  BY LenProperties
<1>2. S \in SUBSET Nat /\ S # {}
  BY <1>1 DEF Unknown
<1>3. PICK m \in S : \A k \in S : m <= k
  <2> HIDE DEF S
  <2> QED BY <1>2, Least
<1> QED BY <1>3 DEF IsFirst

(* The index of an id is what the DPUs hold together in its first slot. *)
LEMMA IndexFacts ==
  ASSUME NEW t \in Tables, SameTables(t)
  PROVE  /\ DOMAIN IndexOf(t) = {t[0][i].id : i \in DOMAIN t[0]}
         /\ IndexOf(t) = [id \in DOMAIN IndexOf(t) |-> IndexOf(t)[id]]
         /\ \A id : id \in DOMAIN IndexOf(t) <=> ~Unknown(t[0], id)
         /\ \A id : id \in DOMAIN IndexOf(t) => \E i \in DOMAIN t[0] : IsFirst(i, t[0], id)
         /\ \A id, i : IsFirst(i, t[0], id) => IndexOf(t)[id] = BagAt(t, i)
<1>0. 0 \in Dpus /\ t[0] \in Seq(IndexSlot) /\ DOMAIN t[0] = 1..Len(t[0])
  BY DpusFacts, TableShape
<1>1. /\ DOMAIN IndexOf(t) = {t[0][i].id : i \in DOMAIN t[0]}
      /\ IndexOf(t) = [id \in DOMAIN IndexOf(t) |-> IndexOf(t)[id]]
  BY DEF IndexOf
<1>2. \A id : id \in DOMAIN IndexOf(t) <=> ~Unknown(t[0], id)
  BY <1>1 DEF Unknown
<1>3. ASSUME NEW id, NEW i, IsFirst(i, t[0], id)
      PROVE  IndexOf(t)[id] = BagAt(t, i)
  <2>1. i \in DOMAIN t[0] /\ id \in DOMAIN IndexOf(t)
    BY <1>1, <1>3 DEF IsFirst
  <2>2. FirstSlot(t, id) = i
    <3> DEFINE S == {j \in DOMAIN t[0] : t[0][j].id = id}
    <3>1. i \in S /\ \A j \in S : i <= j
      BY <1>3 DEF IsFirst
    <3>2. S \in SUBSET Int
      BY <1>0
    <3>3. Min(S) = i
      <4> HIDE DEF S
      <4>1. \E x \in S : \A y \in S : x <= y
        BY <3>1
      <4>2. Min(S) \in S /\ \A y \in S : Min(S) <= y
        BY <4>1 DEF Min
      <4>3. Min(S) \in Int /\ i \in Int /\ Min(S) <= i /\ i <= Min(S)
        BY <3>1, <3>2, <4>2
      <4> QED BY <4>3
    <3> QED BY <3>3 DEF FirstSlot
  <2>3. ASSUME NEW p \in Pairs
        PROVE  SumFunction([d \in Dpus |-> t[d][i].bag[p]]) = t[HomeOf(p)][i].bag[p]
    <3> DEFINE f == [d \in Dpus |-> t[d][i].bag[p]]
    <3>1. ASSUME NEW d \in Dpus
          PROVE  t[d][i].bag[p] \in Nat /\ (d # HomeOf(p) => t[d][i].bag[p] = 0)
      <4>1. i \in DOMAIN t[d]
        BY <1>0, <2>1, TableShape DEF SameTables
      <4>2. t[d][i].bag \in [Pairs -> 0..MaxPairs]
        BY <4>1, TableShape
      <4>3. t[d][i].bag[p] > 0 => HomeOf(p) = d
        BY <4>1 DEF SameTables, HomeOf
      <4> QED BY <4>2, <4>3
    <3>2. f \in [Dpus -> Nat] /\ \A d \in Dpus \ {HomeOf(p)} : f[d] = 0
      BY <3>1
    <3>3. HomeOf(p) \in Dpus /\ IsFiniteSet(Dpus)
      BY HomeFacts, DpusFacts
    <3>4. SumFunction(f) = f[HomeOf(p)]
      <4> HIDE DEF f
      <4> QED BY <3>2, <3>3, SumFacts
    <3> QED BY <3>3, <3>4
  <2>4. IndexOf(t)[id] = [p \in Pairs |-> SumFunction([d \in Dpus |-> t[d][i].bag[p]])]
    BY <1>1, <2>1, <2>2 DEF IndexOf
  <2> QED BY <2>3, <2>4 DEF BagAt
<1>4. \A id : id \in DOMAIN IndexOf(t) => \E i \in DOMAIN t[0] : IsFirst(i, t[0], id)
  BY <1>0, <1>2, FirstExists
<1> QED BY <1>1, <1>2, <1>3, <1>4

(* All DPUs have done what the call says: the table s has become t. *)
Served(s, t) ==
  /\ s \in Tables /\ t \in Tables /\ SameTables(s) /\ SameTables(t)
  /\ \A d \in Dpus : Effect(d, s[d], t[d]) /\ Carries(mram[d], d)

(* A lookup changes nothing, nor does a call for an unknown id, nor a create*)
(* without room.                                                           *)
LEMMA ServedSame ==
  ASSUME NEW s, NEW t, Served(s, t), call \in Calls,
         \/ call.op # "create" /\ (call.op = "lookup" \/ Unknown(s[0], call.id))
         \/ call.op = "create" /\ ~(Len(s[0]) < MaxIndexes)
  PROVE  t = s
<1>1. s \in Tables /\ t \in Tables /\ SameTables(s) /\ 0 \in Dpus
  BY DpusFacts DEF Served
<1>2. ASSUME NEW d \in Dpus PROVE t[d] = s[d]
  <2>1. Effect(d, s[d], t[d]) /\ Len(s[d]) = Len(s[0])
    BY <1>1 DEF Served, SameTables
  <2>2. Unknown(s[d], call.id) <=> Unknown(s[0], call.id)
    <3>1. s \in Tables /\ SameTables(s) /\ 0 \in Dpus
      BY <1>1
    <3> QED BY <3>1, FirstFacts, Zenon
  <2> QED BY <2>1, <2>2 DEF Effect
<1> QED BY <1>1, <1>2 DEF Tables

(* A create adds an empty bag, unless there is no room. *)
WithEmpty(f, id) ==
  [x \in DOMAIN f \cup {id} |-> IF x = id THEN [p \in Pairs |-> 0] ELSE f[x]]

(* With room the index is added, or hidden behind an earlier one of the id. *)
LEMMA ServedCreate ==
  ASSUME NEW s, NEW t, Served(s, t), call \in Calls, call.op = "create", Len(s[0]) < MaxIndexes
  PROVE  /\ Len(t[0]) = Len(s[0]) + 1
         /\ call.id \in DOMAIN IndexOf(s) => IndexOf(t) = IndexOf(s)
         /\ call.id \notin DOMAIN IndexOf(s) => IndexOf(t) = WithEmpty(IndexOf(s), call.id)
<1> DEFINE new == [id |-> call.id, bag |-> [p \in Pairs |-> 0]]
           n == Len(s[0])
<1>1. s \in Tables /\ t \in Tables /\ SameTables(s) /\ SameTables(t) /\ 0 \in Dpus
  BY DpusFacts DEF Served
<1>2. ASSUME NEW d \in Dpus
      PROVE  /\ Len(s[d]) = n /\ n \in Nat /\ DOMAIN s[d] = 1..n
             /\ Len(t[d]) = n + 1 /\ DOMAIN t[d] = 1..(n + 1)
             /\ \A i \in 1..n : t[d][i] = s[d][i]
             /\ t[d][n + 1] = new
  <2>1. Effect(d, s[d], t[d]) /\ Len(s[d]) = Len(s[0])
    BY <1>1 DEF Served, SameTables
  <2>2. t[d] = Append(s[d], new)
    BY <2>1 DEF Effect
  <2>3. s[d] \in Seq(IndexSlot) /\ n \in Nat /\ DOMAIN s[d] = 1..n /\ t[d] \in Seq(IndexSlot)
    BY <1>1, <2>1, TableShape
  <2>4. new \in IndexSlot
    BY CallShape, BatchAssumption DEF IndexSlot
  <2>5. Len(t[d]) = n + 1 /\ (\A i \in 1..n : t[d][i] = s[d][i]) /\ t[d][n + 1] = new
    <3> HIDE DEF new
    <3> QED BY <2>1, <2>2, <2>3, <2>4, AppendProperties
  <2>6. DOMAIN t[d] = 1..(n + 1)
    BY <2>3, <2>5, LenProperties
  <2> HIDE DEF new
  <2> QED BY <2>1, <2>3, <2>5, <2>6
<1>3. DOMAIN IndexOf(t) = DOMAIN IndexOf(s) \cup {call.id}
  <2>1. /\ DOMAIN IndexOf(t) = {t[0][i].id : i \in 1..(n + 1)}
        /\ DOMAIN IndexOf(s) = {s[0][i].id : i \in 1..n}
    BY <1>1, <1>2, IndexFacts
  <2>2. \A i \in 1..(n + 1) : i \in 1..n \/ i = n + 1
    BY <1>1, <1>2
  <2>3. n + 1 \in 1..(n + 1) /\ \A i \in 1..n : i \in 1..(n + 1)
    BY <1>1, <1>2
  <2>4. t[0][n + 1].id = call.id /\ \A i \in 1..n : t[0][i].id = s[0][i].id
    BY <1>1, <1>2
  <2> HIDE DEF n
  <2> QED BY <2>1, <2>2, <2>3, <2>4
<1>4. ASSUME NEW id \in DOMAIN IndexOf(s)
      PROVE  IndexOf(t)[id] = IndexOf(s)[id]
  <2>1. PICK i \in DOMAIN s[0] : IsFirst(i, s[0], id)
    BY <1>1, IndexFacts
  <2>2. IsFirst(i, t[0], id)
    BY <1>1, <1>2, <2>1 DEF IsFirst
  <2>3. BagAt(t, i) = BagAt(s, i)
    BY <1>1, <1>2, <2>1, HomeFacts DEF BagAt
  <2>4. IndexOf(t)[id] = BagAt(t, i)
    BY <1>1, <2>2, IndexFacts
  <2>5. IndexOf(s)[id] = BagAt(s, i)
    BY <1>1, <2>1, IndexFacts
  <2> QED BY <2>3, <2>4, <2>5
<1>5. ASSUME call.id \notin DOMAIN IndexOf(s)
      PROVE  IndexOf(t)[call.id] = [p \in Pairs |-> 0]
  <2>1. Unknown(s[0], call.id)
    BY <1>1, <1>5, IndexFacts
  <2>2. IsFirst(n + 1, t[0], call.id)
    BY <1>1, <1>2, <2>1 DEF IsFirst, Unknown
  <2>3. BagAt(t, n + 1) = [p \in Pairs |-> 0]
    BY <1>2, HomeFacts DEF BagAt
  <2> HIDE DEF n
  <2> QED BY <1>1, <2>2, <2>3, IndexFacts
<1>6. Len(t[0]) = Len(s[0]) + 1
  BY <1>1, <1>2
<1>7. /\ IndexOf(t) = [id \in DOMAIN IndexOf(t) |-> IndexOf(t)[id]]
      /\ IndexOf(s) = [id \in DOMAIN IndexOf(s) |-> IndexOf(s)[id]]
  BY <1>1, IndexFacts
<1>8. CASE call.id \in DOMAIN IndexOf(s)
  <2>1. DOMAIN IndexOf(t) = DOMAIN IndexOf(s)
    BY <1>3, <1>8
  <2>2. IndexOf(t) = IndexOf(s)
    BY <1>4, <1>7, <2>1
  <2> QED BY <1>6, <1>8, <2>2
<1>9. CASE call.id \notin DOMAIN IndexOf(s)
  <2>1. IndexOf(t) = WithEmpty(IndexOf(s), call.id)
    BY <1>3, <1>4, <1>5, <1>7, <1>9 DEF WithEmpty
  <2> QED BY <1>6, <1>9, <2>1
<1> QED BY <1>8, <1>9

(* An insert or a delete changes the bag of its id and no other. *)
LEMMA ServedChange ==
  ASSUME NEW s, NEW t, Served(s, t), TypeOK, call \in Calls, call.op \in {"insert", "delete"},
         RoomInv, pc = "run", s = TableOf, NEW i, IsFirst(i, s[0], call.id)
  PROVE  /\ Len(t[0]) = Len(s[0])
         /\ IndexOf(t) = [IndexOf(s) EXCEPT ![call.id] = BagAt(t, i)]
         /\ \A d \in Dpus :
              /\ s[d][i].bag \in [Pairs -> 0..MaxPairs] /\ t[d][i].bag \in [Pairs -> 0..MaxPairs]
              /\ IF call.op = "insert" THEN t[d][i].bag = Inserted(d, s[d][i].bag)
                 ELSE t[d][i].bag \in Deleted(d, s[d][i].bag)
<1>1. s \in Tables /\ t \in Tables /\ SameTables(s) /\ SameTables(t) /\ 0 \in Dpus
  BY DpusFacts DEF Served
<1>2. ASSUME NEW d \in Dpus
      PROVE  /\ Len(t[d]) = Len(s[d]) /\ DOMAIN t[d] = DOMAIN s[d] /\ i \in DOMAIN s[d]
             /\ \A j \in DOMAIN s[d] : t[d][j].id = s[d][j].id /\ (j # i => t[d][j].bag = s[d][j].bag)
             /\ s[d][i].bag \in [Pairs -> 0..MaxPairs] /\ t[d][i].bag \in [Pairs -> 0..MaxPairs]
             /\ IF call.op = "insert" THEN t[d][i].bag = Inserted(d, s[d][i].bag)
                ELSE t[d][i].bag \in Deleted(d, s[d][i].bag)
  <2>1. Effect(d, s[d], t[d]) /\ Carries(mram[d], d) /\ s[d] \in Seq(IndexSlot)
    BY <1>1, TableShape DEF Served
  <2>2. /\ IsFirst(i, s[d], call.id) /\ ~Unknown(s[d], call.id)
        /\ \A j : IsFirst(j, s[d], call.id) => j = i
    BY <1>1, FirstFacts
  <2>3. i \in DOMAIN s[d] /\ s[d][i].bag \in [Pairs -> 0..MaxPairs]
    BY <1>1, <2>2, TableShape DEF IsFirst
  <2>4. \E b \in IF call.op = "insert" THEN {Inserted(d, s[d][i].bag)} ELSE Deleted(d, s[d][i].bag) :
          t[d] = WithBag(s[d], i, b)
    <3>1. call.op # "create" /\ call.op # "lookup"
      OBVIOUS
    <3>2. PICK j \in DOMAIN s[d] :
            /\ IsFirst(j, s[d], call.id)
            /\ \E b \in IF call.op = "insert" THEN {Inserted(d, s[d][j].bag)}
                         ELSE Deleted(d, s[d][j].bag) :
                 t[d] = WithBag(s[d], j, b)
      BY <2>1, <2>2, <3>1 DEF Effect, WithBag
    <3>3. j = i
      BY <2>2, <3>2
    <3> QED BY <3>2, <3>3
  <2>5. \A b \in IF call.op = "insert" THEN {Inserted(d, s[d][i].bag)} ELSE Deleted(d, s[d][i].bag) :
          b \in [Pairs -> 0..MaxPairs]
    <3>1. HasOwnKeys(s[d][i].bag, d)
      BY <1>1, <2>3 DEF SameTables, HasOwnKeys
    <3>2. CASE call.op = "insert"
      <4>1. \A p \in Pairs : s[d][i].bag[p] + Len(call.keys) <= MaxPairs
        BY <2>3, <3>2 DEF RoomInv
      <4> QED BY <2>1, <2>3, <3>1, <3>2, <4>1, InsertedRight
    <3>3. CASE call.op # "insert"
      BY <2>3, <3>1, <3>3, DeletedRight
    <3> QED BY <3>2, <3>3
  <2>6. PICK b \in [Pairs -> 0..MaxPairs] :
          /\ t[d] = WithBag(s[d], i, b)
          /\ IF call.op = "insert" THEN b = Inserted(d, s[d][i].bag) ELSE b \in Deleted(d, s[d][i].bag)
    BY <2>4, <2>5
  <2>7. /\ Len(t[d]) = Len(s[d]) /\ DOMAIN t[d] = DOMAIN s[d]
        /\ \A j \in DOMAIN s[d] : /\ t[d][j].id = s[d][j].id
                                  /\ t[d][j].bag = IF j = i THEN b ELSE s[d][j].bag
    BY <2>1, <2>3, <2>6, Changed
  <2> QED BY <2>3, <2>6, <2>7
<1>3. DOMAIN IndexOf(t) = DOMAIN IndexOf(s) /\ call.id \in DOMAIN IndexOf(s)
  <2>1. DOMAIN t[0] = DOMAIN s[0] /\ \A j \in DOMAIN s[0] : t[0][j].id = s[0][j].id
    BY <1>1, <1>2
  <2>2. /\ DOMAIN IndexOf(t) = {t[0][j].id : j \in DOMAIN t[0]}
        /\ DOMAIN IndexOf(s) = {s[0][j].id : j \in DOMAIN s[0]}
    BY <1>1, IndexFacts
  <2> QED BY <2>1, <2>2 DEF IsFirst
<1>4. ASSUME NEW id, NEW j, IsFirst(j, s[0], id) PROVE IsFirst(j, t[0], id)
  BY <1>1, <1>2, <1>4 DEF IsFirst
<1>5. ASSUME NEW id \in DOMAIN IndexOf(s), id # call.id
      PROVE  IndexOf(t)[id] = IndexOf(s)[id]
  <2>1. PICK j \in DOMAIN s[0] : IsFirst(j, s[0], id)
    BY <1>1, IndexFacts
  <2>2. j # i
    BY <1>5, <2>1 DEF IsFirst
  <2>3. \A d \in Dpus : j \in DOMAIN s[d]
    BY <1>1, <2>1, TableShape DEF SameTables
  <2>4. BagAt(t, j) = BagAt(s, j)
    BY <1>2, <2>2, <2>3, HomeFacts DEF BagAt
  <2>5. IndexOf(t)[id] = BagAt(t, j)
    BY <1>1, <1>4, <2>1, IndexFacts
  <2>6. IndexOf(s)[id] = BagAt(s, j)
    BY <1>1, <2>1, IndexFacts
  <2> QED BY <2>4, <2>5, <2>6
<1>6. IndexOf(t)[call.id] = BagAt(t, i)
  BY <1>1, <1>4, IndexFacts
<1>7. IndexOf(t) = [IndexOf(s) EXCEPT ![call.id] = BagAt(t, i)]
  <2>1. /\ IndexOf(t) = [id \in DOMAIN IndexOf(t) |-> IndexOf(t)[id]]
        /\ IndexOf(s) = [id \in DOMAIN IndexOf(s) |-> IndexOf(s)[id]]
    BY <1>1, IndexFacts
  <2> QED BY <1>3, <1>5, <1>6, <2>1
<1> QED BY <1>1, <1>2, <1>7

(* The abstract specification's operators are the same. *)
LEMMA AbstractOps ==
  /\ \A S : Abstract!Cardinality(S) = Cardinality(S)
  /\ \A S : Abstract!Max(S) = Max(S)
  /\ \A f : Abstract!SumFunction(f) = SumFunction(f)
<1>1. ASSUME NEW S PROVE Abstract!Cardinality(S) = Cardinality(S)
  BY DEF Abstract!Cardinality, Cardinality, Abstract!IsFiniteSet, IsFiniteSet
<1>2. ASSUME NEW S PROVE Abstract!Max(S) = Max(S)
  BY DEF Abstract!Max, Max
<1>3. ASSUME NEW f PROVE Abstract!SumFunction(f) = SumFunction(f)
  BY DEF SumFunction, SumFunctionOnSet, FoldFunctionOnSet, MapThenFoldSet,
         Abstract!SumFunction, Abstract!SumFunctionOnSet, Abstract!FoldFunctionOnSet,
         Abstract!MapThenFoldSet
<1> QED BY <1>1, <1>2, <1>3

(* A key's pairs are all in one DPU, and so are its rows of a batch.       *)
KeyHome(k) == Hash[k] % NrDpus

(* Of a key the home of it holds what all DPUs hold together. *)
LEMMA KeyBag ==
  ASSUME NEW t, NEW i, NEW k \in Keys
  PROVE  /\ KeyHome(k) \in Dpus
         /\ \A v \in Vals : BagAt(t, i)[<<k, v>>] = t[KeyHome(k)][i].bag[<<k, v>>]
         /\ Abstract!PairsOf(k, BagAt(t, i)) = PairsOf(k, t[KeyHome(k)][i].bag)
         /\ Abstract!Found(BagAt(t, i), k) = Found(t[KeyHome(k)][i].bag, k)
<1> DEFINE bag == t[KeyHome(k)][i].bag
<1>1. KeyHome(k) \in Dpus
  BY DpusFacts DEF KeyHome, Home
<1>2. \A v \in Vals : BagAt(t, i)[<<k, v>>] = bag[<<k, v>>]
  BY DEF BagAt, HomeOf, KeyHome, Pairs
<1> HIDE DEF bag
<1>3. [v \in Vals |-> BagAt(t, i)[<<k, v>>]] = [v \in Vals |-> bag[<<k, v>>]]
  BY <1>2
<1>4. Abstract!PairsOf(k, BagAt(t, i)) = PairsOf(k, bag)
  BY <1>3, AbstractOps DEF PairsOf, Abstract!PairsOf
<1>5. Abstract!Found(BagAt(t, i), k) = Found(bag, k)
  BY <1>2, <1>4 DEF Found, Abstract!Found
<1> QED BY <1>1, <1>2, <1>4, <1>5 DEF bag

(* The rows of a key are as many as its occurrences in the batch. *)
LEMMA RowsOfKey ==
  ASSUME call \in Calls, call.op # "create", NEW k \in Keys
  PROVE  Cardinality(KeyRows(KeyHome(k), k)) = Abstract!Times(k, call.keys)
<1> DEFINE R == KeyRows(KeyHome(k), k)
           T == {i \in DOMAIN call.keys : call.keys[i] = k}
<1>1. Len(call.keys) \in Nat /\ DOMAIN call.keys = 1..Len(call.keys)
  BY CallShape
<1>2. R = {r \in 0..(Len(call.keys) - 1) : call.keys[r + 1] = k}
  BY DEF KeyRows, RowsFor, Home, KeyHome
<1>3. T = {r + 1 : r \in R}
  <2>1. ASSUME NEW i \in T PROVE \E r \in R : i = r + 1
    <3>1. i - 1 \in 0..(Len(call.keys) - 1) /\ (i - 1) + 1 = i
      BY <1>1
    <3>2. i - 1 \in R
      BY <1>2, <3>1
    <3> QED BY <3>1, <3>2
  <2>2. ASSUME NEW r \in R PROVE r + 1 \in T
    BY <1>1, <1>2
  <2> HIDE DEF R
  <2> QED BY <2>1, <2>2
<1>4. R \in SUBSET Nat /\ IsFiniteSet(R)
  <2>1. R \in SUBSET (0..(Len(call.keys) - 1)) /\ IsFiniteSet(0..(Len(call.keys) - 1))
    BY <1>1, <1>2, IntervalCount
  <2>2. 0..(Len(call.keys) - 1) \in SUBSET Nat
    BY <1>1
  <2> HIDE DEF R
  <2>3. IsFiniteSet(R)
    BY <2>1, FS_Subset
  <2> QED BY <2>1, <2>2, <2>3
<1>5. Cardinality(T) = Cardinality(R)
  <2> HIDE DEF R, T
  <2> QED BY <1>3, <1>4, ShiftCount
<1> QED BY <1>5, AbstractOps DEF Abstract!Times

(* So are the rows of a pair.                                             *)
LEMMA RowsOfPair ==
  ASSUME call \in Calls, call.op = "insert", NEW p \in Pairs
  PROVE  Cardinality(PairRows(HomeOf(p), p[1], p[2]))
           = Cardinality({i \in DOMAIN call.keys : <<call.keys[i], call.vals[i]>> = p})
<1> DEFINE R == PairRows(HomeOf(p), p[1], p[2])
           T == {i \in DOMAIN call.keys : <<call.keys[i], call.vals[i]>> = p}
<1>1. Len(call.keys) \in Nat /\ DOMAIN call.keys = 1..Len(call.keys)
  BY CallShape
<1>2. R = {r \in 0..(Len(call.keys) - 1) : call.keys[r + 1] = p[1] /\ call.vals[r + 1] = p[2]}
  BY DEF PairRows, KeyRows, RowsFor, Home, HomeOf
<1>3. T = {r + 1 : r \in R}
  <2>1. ASSUME NEW i \in T PROVE \E r \in R : i = r + 1
    <3>1. i - 1 \in 0..(Len(call.keys) - 1) /\ (i - 1) + 1 = i
      BY <1>1
    <3>2. i - 1 \in R
      BY <1>2, <3>1
    <3> QED BY <3>1, <3>2
  <2>2. ASSUME NEW r \in R PROVE r + 1 \in T
    BY <1>1, <1>2 DEF Pairs
  <2> HIDE DEF R
  <2> QED BY <2>1, <2>2
<1>4. R \in SUBSET Nat /\ IsFiniteSet(R)
  <2>1. R \in SUBSET (0..(Len(call.keys) - 1)) /\ IsFiniteSet(0..(Len(call.keys) - 1))
    BY <1>1, <1>2, IntervalCount
  <2>2. 0..(Len(call.keys) - 1) \in SUBSET Nat
    BY <1>1
  <2> HIDE DEF R
  <2>3. IsFiniteSet(R)
    BY <2>1, FS_Subset
  <2> QED BY <2>1, <2>2, <2>3
<1>5. Cardinality(T) = Cardinality(R)
  <2> HIDE DEF R, T
  <2> QED BY <1>3, <1>4, ShiftCount
<1> QED BY <1>5

(* The DPUs together add the pairs of the batch, and remove those of its   *)
(* keys, as the one bag would.                                             *)
LEMMA AddedRight ==
  ASSUME TypeOK, call \in Calls, call.op = "insert", \A d \in Dpus : Carries(mram[d], d),
         NEW s, NEW t, NEW i, \A d \in Dpus : t[d][i].bag = Inserted(d, s[d][i].bag)
  PROVE  BagAt(t, i) = Abstract!Added(BagAt(s, i), call)
<1>1. ASSUME NEW p \in Pairs
      PROVE  BagAt(t, i)[p] =
               BagAt(s, i)[p] + Cardinality({n \in DOMAIN call.keys : <<call.keys[n], call.vals[n]>> = p})
  <2> DEFINE d == HomeOf(p)
  <2>1. d \in Dpus
    BY HomeFacts
  <2> HIDE DEF d
  <2>2. t[d][i].bag[p] = s[d][i].bag[p]
                           + Count(d, LAMBDA e : e.key = p[1] /\ e.key_id = p[2])
    BY <2>1 DEF Inserted
  <2>3. Count(d, LAMBDA e : e.key = p[1] /\ e.key_id = p[2]) = Cardinality(PairPlaces(d, p[1], p[2]))
    <3>1. {n \in Places(d) : mram[d].data[n].key = p[1] /\ mram[d].data[n].key_id = p[2]}
            = PairPlaces(d, p[1], p[2])
      BY DEF PairPlaces, KeyPlaces
    <3> QED BY <3>1 DEF Count
  <2>4. Cardinality(PairPlaces(d, p[1], p[2])) = Cardinality(PairRows(d, p[1], p[2]))
    BY <2>1, CountPair
  <2>5. BagAt(t, i)[p] = t[d][i].bag[p] /\ BagAt(s, i)[p] = s[d][i].bag[p]
    BY DEF BagAt, d
  <2> QED BY <2>2, <2>3, <2>4, <2>5, RowsOfPair DEF d
<1>2. Abstract!Added(BagAt(s, i), call) =
        [p \in Pairs |-> BagAt(s, i)[p]
           + Cardinality({n \in DOMAIN call.keys : <<call.keys[n], call.vals[n]>> = p})]
  BY AbstractOps DEF Abstract!Added, Abstract!Pairs, Pairs
<1>3. BagAt(t, i) = [p \in Pairs |-> BagAt(t, i)[p]]
  BY DEF BagAt
<1> QED BY <1>1, <1>2, <1>3

(* What the DPUs delete, each from its own part, is what the batch deletes *)
(* from the one bag.                                                       *)
LEMMA RemovedRight ==
  ASSUME TypeOK, call \in Calls, call.op = "delete", \A d \in Dpus : Carries(mram[d], d),
         NEW s, NEW t, NEW i,
         \A d \in Dpus : /\ s[d][i].bag \in [Pairs -> 0..MaxPairs]
                         /\ t[d][i].bag \in Deleted(d, s[d][i].bag)
  PROVE  BagAt(t, i) \in Abstract!Removed(BagAt(s, i), call)
<1>1. ASSUME NEW p \in Pairs
      PROVE  /\ BagAt(s, i)[p] \in 0..MaxPairs /\ BagAt(t, i)[p] \in Nat
             /\ BagAt(t, i)[p] <= BagAt(s, i)[p]
  <2> DEFINE d == HomeOf(p)
  <2>1. d \in Dpus
    BY HomeFacts
  <2>2. BagAt(t, i)[p] = t[d][i].bag[p] /\ BagAt(s, i)[p] = s[d][i].bag[p]
    BY DEF BagAt
  <2> HIDE DEF d
  <2>3. t[d][i].bag \in [Pairs -> 0..MaxPairs] /\ t[d][i].bag[p] <= s[d][i].bag[p]
    BY <2>1 DEF Deleted
  <2>4. s[d][i].bag[p] \in 0..MaxPairs /\ t[d][i].bag[p] \in Nat
    BY <2>1, <2>3
  <2> QED BY <2>2, <2>3, <2>4
<1>2. ASSUME NEW k \in Keys
      PROVE  Abstract!PairsOf(k, BagAt(t, i))
               = Max({0, Abstract!PairsOf(k, BagAt(s, i)) - Abstract!Times(k, call.keys)})
  <2> DEFINE d == KeyHome(k)
  <2>1. /\ d \in Dpus
        /\ Abstract!PairsOf(k, BagAt(t, i)) = PairsOf(k, t[d][i].bag)
        /\ Abstract!PairsOf(k, BagAt(s, i)) = PairsOf(k, s[d][i].bag)
    BY KeyBag
  <2>2. Cardinality(KeyRows(d, k)) = Abstract!Times(k, call.keys)
    BY RowsOfKey
  <2> HIDE DEF d
  <2>3. PairsOf(k, t[d][i].bag)
          = Max({0, PairsOf(k, s[d][i].bag) - Count(d, LAMBDA e : e.key = k)})
    BY <2>1 DEF Deleted
  <2>4. Count(d, LAMBDA e : e.key = k) = Cardinality(KeyPlaces(d, k))
    BY DEF Count, KeyPlaces
  <2>5. Cardinality(KeyPlaces(d, k)) = Cardinality(KeyRows(d, k))
    BY <2>1, CountKey
  <2> QED BY <2>1, <2>2, <2>3, <2>4, <2>5
<1> DEFINE all == {BagAt(s, i)[p] : p \in Pairs}
<1>3. ASSUME NEW p \in Pairs PROVE BagAt(s, i)[p] <= Max(all) /\ Max(all) \in Nat
  <2>1. all \in SUBSET (0..MaxPairs) /\ all # {}
    BY <1>1
  <2>2. IsFiniteSet(0..MaxPairs) /\ 0..MaxPairs \in SUBSET Nat
    BY FS_Interval, BatchAssumption
  <2>3. Max(all) \in all /\ \A x \in all : x <= Max(all)
    <3> HIDE DEF all
    <3>1. IsFiniteSet(all) /\ all \in SUBSET Nat
      BY <2>1, <2>2, FS_Subset
    <3> QED BY <2>1, <3>1, MaxFacts
  <2> QED BY <1>1, <2>3
<1>4. BagAt(t, i) \in [Pairs -> 0..Max(all)]
  <2>1. \A p \in Pairs : BagAt(t, i)[p] \in 0..Max(all)
    <3> HIDE DEF all
    <3> QED BY <1>1, <1>3
  <2> QED BY <2>1 DEF BagAt
<1>5. \A p \in Pairs : BagAt(t, i)[p] <= BagAt(s, i)[p]
  BY <1>1
<1>6. Pairs = Keys \X Vals
  BY DEF Pairs
<1>7. Abstract!Removed(BagAt(s, i), call) =
        {b \in [Pairs -> 0..Max(all)] :
           /\ \A p \in Pairs : b[p] <= BagAt(s, i)[p]
           /\ \A k \in Keys : Abstract!PairsOf(k, b)
                = Max({0, Abstract!PairsOf(k, BagAt(s, i)) - Abstract!Times(k, call.keys)})}
  BY <1>6, AbstractOps DEF Abstract!Removed, Abstract!Pairs
<1> HIDE DEF all
<1> QED BY <1>2, <1>4, <1>5, <1>7

(* The state of the abstract specification, and its next one. *)
AbstractVars == <<IndexOf(TableOf), MaxIndexes - Len(TableOf[0]), Pending, vals>>

(* The table of bags after a step. *)
LEMMA AbstractNext ==
  ASSUME NEW t, t = TableOf'
  PROVE  /\ IndexOf(TableOf)' = IndexOf(t)
         /\ (MaxIndexes - Len(TableOf[0]))' = MaxIndexes - Len(t[0])
BY DEF IndexOf, FirstSlot

(* The first state is one of the abstract specification. *)
LEMMA RefInit ==
  ASSUME Init
  PROVE  Abstract!BInit
<1>1. TableOf = table /\ table[0] = <<>> /\ Pending = NoCall
  BY DpusFacts DEF Init, TableOf, Everywhere, Pending
<1>2. DOMAIN table[0] = {} /\ Len(table[0]) = 0
  BY <1>1
<1>3. IndexOf(table) = [id \in {} |-> <<>>]
  <2>1. {table[0][i].id : i \in DOMAIN table[0]} = {}
    BY <1>2
  <2> QED BY <2>1 DEF IndexOf
<1>4. MaxIndexes - Len(table[0]) = MaxIndexes
  BY <1>2, BatchAssumption
<1> QED BY <1>1, <1>3, <1>4 DEF Init, Abstract!BInit

(* Steps that leave the table, the call that counts and the array alone. *)
LEMMA RefStutter ==
  ASSUME TableOf' = TableOf, Pending' = Pending, vals' = vals
  PROVE  UNCHANGED AbstractVars
<1>1. PICK t : t = TableOf
  OBVIOUS
<1>2. /\ IndexOf(TableOf)' = IndexOf(t)
      /\ (MaxIndexes - Len(TableOf[0]))' = MaxIndexes - Len(t[0])
  BY <1>1, AbstractNext
<1> QED BY <1>1, <1>2 DEF AbstractVars

(* A call is asked. *)
LEMMA RefCall ==
  ASSUME IndInv, NEW q \in Calls, Call(q)
  PROVE  Abstract!Ask
<1>1. /\ pc = "idle" /\ pc' = "push" /\ call' = q /\ running' = running /\ table' = table
      /\ before' = before /\ vals' = [r \in Slots |-> Unset]
  BY DEF Call, dpu
<1>2. Pending = NoCall /\ Pending' = q /\ TableOf' = TableOf
  BY <1>1 DEF Pending, TableOf
<1>3. PICK t : t = TableOf
  OBVIOUS
<1>4. /\ IndexOf(TableOf)' = IndexOf(TableOf)
      /\ (MaxIndexes - Len(TableOf[0]))' = MaxIndexes - Len(TableOf[0])
  BY <1>2, <1>3, AbstractNext
<1> QED BY <1>1, <1>2, <1>4 DEF Abstract!Ask

(* The last DPU of a launch that is no lookup. *)
LEMMA RefServe ==
  ASSUME IndInv, IndInv', NEW d \in Dpus, RunDpu(d), running' = {}, call.op # "lookup"
  PROVE  Abstract!Serve
<1>1. /\ pc = "run" /\ pc' = "idle" /\ call' = call /\ mram' = mram /\ vals' = vals
      /\ before' = before /\ d \in running
  BY DEF RunDpu, AfterRun
<1>2. /\ TypeOK /\ call \in Calls /\ call # NoCall /\ TableOf = before /\ SameTables(before)
      /\ before \in Tables /\ RoomInv
      /\ \A e \in Dpus : Carries(mram[e], e)
  <2>1. TableOf = before
    BY <1>1 DEF TableOf
  <2> QED BY <1>1, <2>1 DEF IndInv, PhaseInv, PackagesInv, TypeOK, TableInv
<1> PICK s, t : s = before /\ t = table'
  OBVIOUS
<1>3. Served(s, t)
  <2>1. t \in Tables
    BY DEF IndInv, TypeOK
  <2>2. TableOf' = table'
    BY DEF TableOf
  <2>3. SameTables(t)
    BY <2>2 DEF IndInv, TableInv, SameTables
  <2>4. ASSUME NEW e \in Dpus PROVE Effect(e, s[e], t[e])
    <3>1. CASE e = d
      <4>1. table[d] = before[d]
        BY <1>1 DEF IndInv, RunInv
      <4> QED BY <1>1, <1>2, <3>1, <4>1, RunTable
    <3>2. CASE e # d
      <4>1. e \notin running
        BY <1>1, <3>2 DEF RunDpu
      <4>2. Effect(e, before[e], table[e])
        BY <1>1, <4>1 DEF IndInv, RunInv
      <4>3. table' = [table EXCEPT ![d] = table'[d]]
        BY <1>2, RunTable
      <4>4. table'[e] = table[e]
        BY <1>2, <3>2, <4>3 DEF TypeOK, Tables
      <4> QED BY <4>2, <4>4
    <3> QED BY <3>1, <3>2
  <2> QED BY <1>2, <2>1, <2>3, <2>4 DEF Served
<1>4. /\ IndexOf(TableOf) = IndexOf(s) /\ IndexOf(TableOf)' = IndexOf(t)
      /\ MaxIndexes - Len(TableOf[0]) = MaxIndexes - Len(s[0])
      /\ (MaxIndexes - Len(TableOf[0]))' = MaxIndexes - Len(t[0])
  <2>1. t = TableOf'
    BY DEF TableOf
  <2> QED BY <1>2, <2>1, AbstractNext
<1>5. Pending = call /\ Pending' = NoCall
  BY <1>1 DEF Pending
<1>6. call.op \in {"create", "insert", "delete"}
  BY <1>2, CallShape
<1>7. /\ 0 \in Dpus /\ Len(s[0]) \in Nat /\ MaxIndexes \in Nat
      /\ call.id \in DOMAIN IndexOf(s) <=> ~Unknown(s[0], call.id)
  <2>1. 0 \in Dpus /\ s \in Tables /\ SameTables(s)
    BY <1>2, DpusFacts
  <2> QED BY <2>1, TableShape, IndexFacts, BatchAssumption
<1>8. Len(s[0]) <= MaxIndexes
  <2>1. Len(before[0]) = Len(before[d]) /\ table[d] = before[d]
    BY <1>1, <1>2, <1>7 DEF SameTables, IndInv, RunInv
  <2> QED BY <1>2, <2>1 DEF TypeOK
<1>9. CASE call.op = "create" /\ Len(s[0]) < MaxIndexes
  <2>1. /\ Len(t[0]) = Len(s[0]) + 1
        /\ call.id \in DOMAIN IndexOf(s) => IndexOf(t) = IndexOf(s)
        /\ call.id \notin DOMAIN IndexOf(s) => IndexOf(t) = WithEmpty(IndexOf(s), call.id)
    BY <1>2, <1>3, <1>9, ServedCreate
  <2>2. MaxIndexes - Len(s[0]) > 0 /\ MaxIndexes - Len(t[0]) = (MaxIndexes - Len(s[0])) - 1
        /\ MaxIndexes - Len(s[0]) # 0
    BY <1>7, <1>9, <2>1
  <2>3. Abstract!Create
    BY <1>1, <1>4, <1>5, <1>9, <2>1, <2>2
       DEF Abstract!Create, Abstract!Known, Abstract!Pairs, Pairs, WithEmpty
  <2> QED BY <1>2, <1>5, <2>3 DEF Abstract!Serve
<1>10. CASE call.op = "create" /\ ~(Len(s[0]) < MaxIndexes)
  <2>1. t = s
    BY <1>2, <1>3, <1>10, ServedSame
  <2>2. MaxIndexes - Len(s[0]) = 0
    BY <1>7, <1>8, <1>10
  <2>3. Abstract!Create
    BY <1>1, <1>4, <1>5, <1>10, <2>1, <2>2 DEF Abstract!Create
  <2> QED BY <1>2, <1>5, <2>3 DEF Abstract!Serve
<1>11. CASE call.op # "create" /\ Unknown(s[0], call.id)
  <2>1. t = s
    BY <1>2, <1>3, <1>11, ServedSame
  <2>2. Abstract!Ignore
    BY <1>1, <1>4, <1>5, <1>7, <1>11, <2>1 DEF Abstract!Ignore, Abstract!Known
  <2> QED BY <1>2, <1>5, <2>2 DEF Abstract!Serve
<1>12. CASE call.op # "create" /\ ~Unknown(s[0], call.id)
  <2>1. PICK i \in DOMAIN s[0] : IsFirst(i, s[0], call.id)
    BY <1>2, <1>7, <1>12, IndexFacts
  <2>2. /\ Len(t[0]) = Len(s[0])
        /\ IndexOf(t) = [IndexOf(s) EXCEPT ![call.id] = BagAt(t, i)]
        /\ \A e \in Dpus :
             /\ s[e][i].bag \in [Pairs -> 0..MaxPairs] /\ t[e][i].bag \in [Pairs -> 0..MaxPairs]
             /\ IF call.op = "insert" THEN t[e][i].bag = Inserted(e, s[e][i].bag)
                ELSE t[e][i].bag \in Deleted(e, s[e][i].bag)
    <3>1. call.op \in {"insert", "delete"} /\ s = TableOf
      BY <1>2, <1>6, <1>12
    <3> QED BY <1>1, <1>2, <1>3, <2>1, <3>1, ServedChange
  <2>3. IndexOf(s)[call.id] = BagAt(s, i)
    BY <1>2, <2>1, IndexFacts
  <2>4. CASE call.op = "insert"
    <3>1. BagAt(t, i) = Abstract!Added(IndexOf(s)[call.id], call)
      BY <1>2, <2>2, <2>3, <2>4, AddedRight
    <3>2. Abstract!Insert
      BY <1>1, <1>4, <1>5, <1>7, <1>12, <2>2, <2>4, <3>1
         DEF Abstract!Insert, Abstract!Known, Abstract!Change
    <3> QED BY <1>2, <1>5, <3>2 DEF Abstract!Serve
  <2>5. CASE call.op = "delete"
    <3>1. BagAt(t, i) \in Abstract!Removed(IndexOf(s)[call.id], call)
      BY <1>2, <2>2, <2>3, <2>5, RemovedRight
    <3>2. Abstract!Delete
      BY <1>1, <1>4, <1>5, <1>7, <1>12, <2>2, <2>5, <3>1
         DEF Abstract!Delete, Abstract!Known, Abstract!Change
    <3> QED BY <1>2, <1>5, <3>2 DEF Abstract!Serve
  <2> QED BY <1>6, <1>12, <2>4, <2>5
<1> QED BY <1>9, <1>10, <1>11, <1>12

(* The results of a lookup are in the caller's array. *)
LEMMA RefMerge ==
  ASSUME IndInv, IndInv', Merge
  PROVE  Abstract!Serve
<1>1. /\ pc = "merge" /\ pc' = "idle" /\ vals' = [r \in Slots |-> Merged(r)]
      /\ call' = call /\ table' = table /\ running' = running /\ before' = before
  BY DEF Merge, dpu
<1>2. /\ TypeOK /\ running = {} /\ call.op = "lookup" /\ call \in Calls /\ call # NoCall
      /\ \A r \in Slots : vals[r] = Unset
      /\ TableOf = table /\ TableOf' = table /\ SameTables(table) /\ table \in Tables
  <2>1. running = {} /\ TableOf = table /\ TableOf' = table
    BY <1>1 DEF IndInv, PhaseInv, TableOf
  <2> QED BY <1>1, <2>1 DEF IndInv, PhaseInv, TypeOK, TableInv
<1> PICK t : t = table
  OBVIOUS
<1>3. /\ IndexOf(TableOf) = IndexOf(t) /\ IndexOf(TableOf)' = IndexOf(t)
      /\ MaxIndexes - Len(TableOf[0]) = MaxIndexes - Len(t[0])
      /\ (MaxIndexes - Len(TableOf[0]))' = MaxIndexes - Len(t[0])
  BY <1>2, AbstractNext
<1>4. Pending = call /\ Pending' = NoCall
  BY <1>1, <1>2 DEF Pending
<1>5. call.id \in DOMAIN IndexOf(t) <=> ~Unknown(t[0], call.id)
  BY <1>2, IndexFacts
<1>6. CASE Unknown(t[0], call.id)
  <2>0. Pulled <= PullCapacity
    BY <1>1, <1>6, NotReceived
  <2>1. \A r \in Slots : vals'[r] = vals[r]
    BY <1>1, <1>2, <1>6, <2>0, MergedRight
  <2>2. vals' = vals
    BY <1>1, <1>2, <2>1 DEF TypeOK
  <2>3. Abstract!Ignore
    BY <1>2, <1>3, <1>4, <1>5, <1>6, <2>2 DEF Abstract!Ignore, Abstract!Known
  <2> QED BY <1>2, <1>4, <2>3 DEF Abstract!Serve
<1>7. CASE ~Unknown(t[0], call.id) /\ Pulled <= PullCapacity
  <2>1. PICK i \in DOMAIN t[0] : IsFirst(i, t[0], call.id)
    BY <1>2, <1>5, <1>7, IndexFacts
  <2>2. IndexOf(t)[call.id] = BagAt(t, i)
    BY <1>2, <2>1, IndexFacts
  <2>3. ASSUME NEW r \in Slots
        PROVE  /\ Merged(r) \in Vals \cup {0, Unset}
               /\ Merged(r) \in IF r < Len(call.keys)
                                  THEN Abstract!Found(IndexOf(t)[call.id], call.keys[r + 1])
                                  ELSE {Unset}
    <3>1. CASE r < Len(call.keys)
      <4> DEFINE k == call.keys[r + 1]
      <4>1. k \in Keys
        <5>1. r \in Nat /\ Len(call.keys) \in Nat /\ r + 1 \in 1..Len(call.keys)
          BY <1>2, <3>1, CallShape, BatchAssumption DEF Slots
        <5> QED BY <1>2, <5>1, CallShape
      <4>2. Merged(r) \in Found(t[KeyHome(k)][i].bag, k)
        BY <1>1, <1>7, <2>1, <3>1, MergedRight DEF Home, KeyHome
      <4>3. Merged(r) \in Abstract!Found(IndexOf(t)[call.id], k)
        <5> HIDE DEF k
        <5> QED BY <2>2, <4>1, <4>2, KeyBag
      <4>4. Merged(r) \in Vals \cup {0}
        BY <4>2 DEF Found
      <4> QED BY <3>1, <4>3, <4>4
    <3>2. CASE ~(r < Len(call.keys))
      <4>1. r >= Len(call.keys)
        BY <1>2, <3>2, CallShape, BatchAssumption DEF Slots
      <4>2. Merged(r) = Unset
        BY <1>1, <1>7, <4>1, MergedRight
      <4> QED BY <3>2, <4>2
    <3> QED BY <3>1, <3>2
  <2>4. \A r \in Slots : vals'[r] = Merged(r)
    BY <1>1
  <2>5. vals' \in [Slots -> Vals \cup {0, Unset}]
    BY <1>1, <2>3
  <2>6. \A r \in Slots : vals'[r] \in Abstract!Answer(r)
    BY <1>2, <1>3, <1>4, <2>3, <2>4 DEF Abstract!Answer
  <2>7. Abstract!Lookup
    BY <1>2, <1>3, <1>4, <1>5, <1>7, <2>5, <2>6 DEF Abstract!Lookup, Abstract!Known
  <2> QED BY <1>2, <1>4, <2>7 DEF Abstract!Serve
<1>8. CASE ~Unknown(t[0], call.id) /\ ~(Pulled <= PullCapacity)
  <2>1. ~PullsFit(call)
    BY <1>1, <1>8, NotReceived
  <2>2. vals' \in [Slots -> Vals \cup {0, Unset}]
    BY DEF IndInv, TypeOK
  <2>3. Abstract!Lookup
    BY <1>2, <1>3, <1>4, <1>5, <1>8, <2>1, <2>2 DEF Abstract!Lookup, Abstract!Known
  <2> QED BY <1>2, <1>4, <2>3 DEF Abstract!Serve
<1> QED BY <1>6, <1>7, <1>8

(* Every step is one of the abstract specification, or none. *)
LEMMA RefStep ==
  ASSUME IndInv, IndInv', [Next]_vars
  PROVE  Abstract!Ask \/ Abstract!Serve \/ UNCHANGED AbstractVars
<1>1. ASSUME NEW q \in Calls, CallCreate(q) \/ CallInsert(q) \/ CallDelete(q) \/ CallLookup(q)
      PROVE  Abstract!Ask
  <2>1. Call(q)
    BY <1>1 DEF CallCreate, CallInsert, CallDelete, CallLookup
  <2> QED BY <2>1, RefCall
<1>2. CASE Push
  <2>1. /\ pc = "push" /\ pc' = "run" /\ running' = Dpus /\ before' = table /\ call' = call
        /\ vals' = vals /\ running = {} /\ 0 \in Dpus
    BY <1>2, DpusFacts DEF Push, IndInv, PhaseInv
  <2> QED BY <2>1, RefStutter DEF TableOf, Pending
<1>3. ASSUME NEW d \in Dpus, RunDpu(d)
      PROVE  Abstract!Serve \/ UNCHANGED AbstractVars
  <2>1. /\ pc = "run" /\ d \in running /\ pc' = IF running' = {} THEN AfterRun ELSE "run"
        /\ call' = call /\ vals' = vals /\ before' = before
    BY <1>3 DEF RunDpu
  <2>2. CASE running' # {}
    BY <2>1, <2>2, RefStutter DEF TableOf, Pending
  <2>3. CASE running' = {} /\ call.op # "lookup"
    BY <1>3, <2>3, RefServe
  <2>4. CASE running' = {} /\ call.op = "lookup"
    <3>1. /\ TypeOK /\ call \in Calls /\ call # NoCall /\ Carries(mram[d], d)
          /\ \A e \in Dpus : IF e \in running THEN table[e] = before[e]
                             ELSE Effect(e, before[e], table[e])
      BY <2>1 DEF IndInv, PhaseInv, PackagesInv, RunInv, TypeOK
    <3>2. table' = table
      BY <1>3, <2>4, <3>1, RunTable
    <3>3. \A e \in Dpus : table[e] = before[e]
      BY <2>4, <3>1 DEF Effect
    <3>4. table' = before
      BY <3>1, <3>2, <3>3 DEF TypeOK, Tables
    <3> QED BY <2>1, <2>4, <3>4, RefStutter DEF TableOf, Pending, AfterRun
  <2> QED BY <2>2, <2>3, <2>4
<1>4. CASE PullMetadatas
  <2>1. /\ pc = "metadatas" /\ pc' = "results" /\ call' = call /\ vals' = vals
        /\ running' = running /\ table' = table /\ before' = before /\ call.op = "lookup"
    BY <1>4 DEF PullMetadatas, dpu, IndInv, PhaseInv
  <2> QED BY <2>1, RefStutter DEF TableOf, Pending
<1>5. CASE PullResults
  <2>1. /\ pc = "results" /\ pc' = "merge" /\ call' = call /\ vals' = vals
        /\ running' = running /\ table' = table /\ before' = before /\ call.op = "lookup"
    BY <1>5 DEF PullResults, dpu, IndInv, PhaseInv
  <2> QED BY <2>1, RefStutter DEF TableOf, Pending
<1>6. CASE Merge
  BY <1>6, RefMerge
<1>7. CASE UNCHANGED vars
  BY <1>7, RefStutter DEF vars, dpu, TableOf, Pending
<1> QED BY <1>1, <1>2, <1>3, <1>4, <1>5, <1>6, <1>7 DEF Next, Finished

(* A batch takes effect once and as a whole on one table of bags, whatever  *)
(* the batches before it have left in the buffers; the array of a lookup   *)
(* whose results do not fit the pull buffers of some DPU may hold anything. *)
THEOREM BatchesRefine == Spec => ImplementsBatches
<1>1. Init => Abstract!BInit
  BY RefInit
<1>2. IndInv /\ IndInv' /\ [Next]_vars
        => [Abstract!Ask \/ Abstract!Serve]_<<IndexOf(TableOf), MaxIndexes - Len(TableOf[0]), Pending, vals>>
  BY RefStep DEF AbstractVars
<1> QED BY <1>1, <1>2, BatchesInvariance, PTL DEF Spec, ImplementsBatches, Abstract!BSpec

=============================================================================
