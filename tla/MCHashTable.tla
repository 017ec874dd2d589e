---------------------------- MODULE MCHashTable ----------------------------
(***************************************************************************)
(* HashTable with four keys: three share a bucket, so that an element can  *)
(* go from its front, its middle and its end, and an empty bucket lies     *)
(* between that of the fourth and theirs.                                  *)
(***************************************************************************)
EXTENDS HashTable, TLC

CONSTANTS k1, k2, k3, k4, v1, v2

MCKeys == {k1, k2, k3, k4}
MCValues == {v1, v2}
MCHash == k1 :> 2 @@ k2 :> 2 @@ k3 :> 2 @@ k4 :> 0
=============================================================================
