------------------------------ MODULE PushPackage ------------------------------
(***************************************************************************)
(* The sizes and offsets of the packages a DPU set is sent, in bytes: what *)
(* util/push_package.c keeps in the head of a package, how many elements   *)
(* it takes to fit, and how much of all packages dpu_push_package sends.   *)
(* What the elements hold is the subject of BatchOps; the names here are   *)
(* apart from those of that module, so that one module can extend both.    *)
(*                                                                         *)
(* A package without elements has kv_offset -1.  dpu_push_package asks for *)
(* its size like for that of any other, and takes four bytes from one byte *)
(* before buf for its nnz: the uppermost byte of a field nobody writes and *)
(* the lower three of the query's type.                                    *)
(*                                                                         *)
(* Definitions with a suffix, as Reset_Not, are faulty variants for the   *)
(* runs that show what a property catches.                                 *)
(***************************************************************************)
EXTENDS Integers

CONSTANTS
  Packages,
  MaxPushBuf,   \* MAX_PUSH_BUF_SIZE
  CooResult,    \* COO_RESULT_OFFSET: where a DPU keeps its results
  Lengths,      \* numbers of keys a batch has for one DPU
  Junk          \* what the bytes of malloced memory may hold

PackageHead == 16   \* sizeof(push_package_head)
QueryParam  == 16   \* sizeof(query_param)
KvHead      == 8    \* sizeof(struct _kv_set)
KvElem      == 24   \* sizeof(kv_elem)
CREATE      == 4    \* PRIMARY_INDEX_CREATE

Capacity(used) == (MaxPushBuf - used - KvHead) \div KvElem

(* Callers keep the batches small enough: nobody compares with capacity.   *)
ASSUME PackageAssumption ==
  /\ Packages # {}
  /\ MaxPushBuf \in Nat /\ MaxPushBuf % 8 = 0
  /\ CooResult \in Nat /\ MaxPushBuf <= CooResult
  /\ Capacity(QueryParam) >= 256 * CREATE + 255
  /\ Lengths \subseteq 0..Capacity(QueryParam)
  /\ Junk \subseteq 0..255

VARIABLES
  step,       \* "idle", or "push" after a package has been built
  type,       \* query->type
  kv_offset,  \* the fields of every package's head
  used_memory,
  nonsense,   \* uppermost byte of the head's padding, as malloc gave it
  nnz,        \* kvs->nnz, where there is a kv_set
  sent        \* bytes of each package that the last transfer took along

packageVars == <<step, type, kv_offset, used_memory, nonsense, nnz, sent>>

InEach(x) == [d \in Packages |-> x]

PackageInit ==
  /\ step = "idle"
  /\ type = 0
  /\ kv_offset = InEach(-1)
  /\ used_memory = InEach(QueryParam)
  /\ nonsense \in [Packages -> Junk]
  /\ nnz = InEach(0)
  /\ sent = 0

-----------------------------------------------------------------------------
(* dpu_push_build_package_...: every one begins with a reset.              *)

Reset_Not(d) == used_memory[d]
Reset(d) == QueryParam

BuildQuery ==
  /\ step = "idle"
  /\ type' = CREATE
  /\ used_memory' = [d \in Packages |-> Reset(d)]
  /\ kv_offset' = InEach(-1)
  /\ step' = "push"
  /\ UNCHANGED <<nonsense, nnz, sent>>

(* The elements begin where the memory ends that is used; 1 to 3 stand for *)
(* lookup, insert and delete.                                              *)
BuildBatch ==
  /\ step = "idle"
  /\ type' \in 1..3
  /\ used_memory' = [d \in Packages |-> Reset(d)]
  /\ kv_offset' = used_memory'
  /\ nnz' \in [Packages -> Lengths]
  /\ step' = "push"
  /\ UNCHANGED <<nonsense, sent>>

-----------------------------------------------------------------------------
(* dpu_push_package                                                        *)

Align8(n) == 8 * ((n + 7) \div 8)

(* kv->nnz, wherever kv points to. *)
Nnz(d) == IF kv_offset[d] >= 0 THEN nnz[d] ELSE nonsense[d] + 256 * type

(* used_memory after push_package_size has counted the elements, which it  *)
(* does once more with each call.                                          *)
Used(d) == used_memory[d] + KvHead + Nnz(d) * KvElem

PackageSize(d) == Used(d) + PackageHead

(* All packages are sent with the size of the largest. *)
PushPackages ==
  /\ step = "push"
  /\ used_memory' = [d \in Packages |-> Used(d)]
  /\ \E d \in Packages :
       /\ \A e \in Packages : PackageSize(e) <= PackageSize(d)
       /\ sent' = Align8(PackageSize(d))
  /\ step' = "idle"
  /\ UNCHANGED <<type, kv_offset, nonsense, nnz>>

PackageNext == BuildQuery \/ BuildBatch \/ PushPackages

PackageSpec == PackageInit /\ [][PackageNext]_packageVars

-----------------------------------------------------------------------------
(* Properties                                                              *)

(* First byte of a package behind its elements. *)
EndOf(d) ==
  IF kv_offset[d] < 0 THEN PackageHead + QueryParam
  ELSE PackageHead + kv_offset[d] + KvHead + KvElem * nnz[d]

(* Every DPU has got its whole package, and no transfer reads beyond the    *)
(* package on the host, up to the largest batch that fits and whatever     *)
(* the malloced memory held.  Nor do elements reach into the results a DPU  *)
(* writes while it reads them, but for the last one of a full package.     *)
SentWhole ==
  step = "idle" /\ type # 0 =>
    /\ \A d \in Packages :
         /\ EndOf(d) <= sent
         /\ EndOf(d) <= CooResult \/ nnz[d] = Capacity(QueryParam)
    /\ sent <= PackageHead + MaxPushBuf
=============================================================================
