------------------------------ MODULE UsedCount ------------------------------
(***************************************************************************)
(* The counter used of an index (dpu/sto/primary_index_dpu.c), to which     *)
(* slaves add, and from which they subtract, under the mutexes of their     *)
(* buckets.  Buckets under different mutexes share the counter and loads    *)
(* and stores are steps of their own, so that one update may undo another.  *)
(* This module says what is left of the counter then.  It adds history      *)
(* variables to PrimaryIndexDpu: counters and entries as a launch found     *)
(* them, and whether two updates have overlapped since.                     *)
(***************************************************************************)
EXTENDS PrimaryIndexDpu

VARIABLES
  usedBefore,    \* used of every slot when the launch began
  numberBefore,  \* the number of its entries then
  crowded        \* two slaves have been at the counter at once in this launch

history == <<usedBefore, numberBefore, crowded>>
varsH == <<vars, history>>

(* The entries of slot s, and their number. *)
Content(s) == UNION {Entries(s, k) : k \in Keys}
Number(s) == Cardinality(Content(s))

(* The slaves between the write that changes the entries and the store of   *)
(* the counter.                                                            *)
Counter == {"load", "store"}
AtCounter == {t \in Slaves : pc[t] \in Counter}
Crowd == \E t, u \in AtCounter : t # u

TypeOKH ==
  /\ usedBefore \in [Slots -> 0..(UsedModulus - 1)]
  /\ numberBefore \in [Slots -> Nat]
  /\ crowded \in BOOLEAN

InitH ==
  /\ Init
  /\ usedBefore = used
  /\ numberBefore = [s \in Slots |-> Number(s)]
  /\ crowded = FALSE

BeginH ==
  /\ Begin
  /\ usedBefore' = used'
  /\ numberBefore' = [s \in Slots |-> Number(s)']
  /\ crowded' = FALSE

WorkH ==
  /\ Work
  /\ crowded' = (crowded \/ Crowd')
  /\ UNCHANGED <<usedBefore, numberBefore>>

NextH == BeginH \/ WorkH

SpecH == InitH /\ [][NextH]_varsH

-----------------------------------------------------------------------------
(* What has happened in the launch.                                        *)

(* The launch adds entries to slot s, or deletes some. *)
WorkedOn(s) == s = pid /\ opType \in Adding \cup {"delete"}

(* How many, and how far a value u of the counter is from where it stood.   *)
Sign == IF opType \in Adding THEN 1 ELSE -1
Changed(s) == Sign * (Number(s) - numberBefore[s])
Moved(s, u) == (Sign * (u - usedBefore[s])) % UsedModulus

Undisturbed(s) == used[s] = usedBefore[s] /\ Number(s) = numberBefore[s]

(* The counter has moved by no more than there were updates, and if there   *)
(* were any it has moved, unless they were as many as its range; where no  *)
(* two overlapped, it has counted all.                                     *)
Followed(s) ==
  LET n == Changed(s)
      u == Moved(s, used[s])
  IN /\ n >= 0
     /\ n = 0 => u = 0
     /\ n \in 1..(UsedModulus - 1) => u \in 1..n
     /\ ~crowded => u = n % UsedModulus

(* At rest used has followed the entries of the index the launch worked on, *)
(* however the slaves were interleaved, and the other indexes have kept     *)
(* both.  Without room for a node an insert drops entries and counts        *)
(* itself.                                                                 *)
UsedFollowsEntries ==
  AllIdle /\ RoomLeft =>
    \A s \in Slots : IF WorkedOn(s) THEN Followed(s) ELSE Undisturbed(s)

-----------------------------------------------------------------------------
(* The inductive invariant.                                                *)

(* The updates that have been stored. *)
Done(s) == Changed(s) - Cardinality(AtCounter)

(* Neither the counter nor what a slave has loaded from it is ahead of the  *)
(* updates that have been stored; one store moves it for good.             *)
Following(s) ==
  /\ Done(s) >= 0
  /\ Moved(s, used[s]) <= Done(s)
  /\ Done(s) \in 1..(UsedModulus - 1) => Moved(s, used[s]) >= 1
  /\ \A t \in Slaves : pc[t] = "store" => Moved(s, tmp[t]) <= Done(s)
  /\ ~crowded => /\ ~Crowd
                 /\ Moved(s, used[s]) = Done(s) % UsedModulus
                 /\ \A t \in Slaves : pc[t] = "store" => tmp[t] = used[s]

CountInv ==
  RoomLeft => \A s \in Slots : IF WorkedOn(s) THEN Following(s) ELSE Undisturbed(s)

IndInvH == TypeOKH /\ CountInv
=============================================================================
