------------------------ MODULE PrimaryIndexDpuImpl -------------------------
(***************************************************************************)
(* PrimaryIndexDpu implements PrimaryIndex: the chains of an index, read   *)
(* as a bag of pairs, change as the abstract operations say, whatever the  *)
(* slaves interleave.                                                      *)
(***************************************************************************)
EXTENDS PrimaryIndexDpu

Pairs(s) ==
  [p \in Keys \X Vals |->
     Cardinality({a \in Entries(s, p[1]) : mem[a].val = p[2]})]

AbstractIndex == INSTANCE PrimaryIndex WITH
  Clients <- Slaves,
  Class   <- [k \in Keys |-> Bucket(k)],
  ids     <- [i \in 1..num |-> indexId[i - 1]],
  bag     <- [i \in 1..MaxIndexes |-> Pairs(i - 1)],
  kind    <- opType,
  current <- pid + 1,
  spent   <- avail > LastNode

(* The indexes of a DPU, worked on by concurrent slaves, are bags of pairs: *)
(* an operation takes effect at one moment between its call and its return, *)
(* and on its own index only.                                              *)
ImplementsPrimaryIndex == AbstractIndex!Spec
=============================================================================
