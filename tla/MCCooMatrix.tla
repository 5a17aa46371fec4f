----------------------------- MODULE MCCooMatrix -----------------------------
(* Three matrices of a few elements, two of which share a row.  All that is *)
(* checked treats the matrices alike, so that their names may be exchanged. *)
EXTENDS CooMatrix, TLC

CONSTANTS m1, m2, m3

MCElems == {<<0, 0>>, <<0, 1>>, <<1, 0>>}
MCLists ==
  {<<a, b>> : a, b \in Matrices} \cup {<<a, Null, b>> : a, b \in Matrices}
SomeOrder == Permutations(Matrices)
=============================================================================
