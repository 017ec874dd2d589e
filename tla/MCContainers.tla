---------------------------- MODULE MCContainers ----------------------------
(***************************************************************************)
(* The vectors, or a list: one container in each behaviour.                *)
(***************************************************************************)
EXTENDS SimpleVector, SimpleList

VARIABLE container

Init == container \in {"vector", "list"} /\ VectorInit /\ ListInit

Next ==
  /\ UNCHANGED container
  /\ \/ container = "vector" /\ VectorNext /\ UNCHANGED listVars
     \/ container = "list" /\ ListNext /\ UNCHANGED vectorVars

Spec == Init /\ [][Next]_<<container, vectorVars, listVars>>
=============================================================================
