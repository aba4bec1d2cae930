------------------------------- MODULE Links -------------------------------
(***************************************************************************)
(* The nodes that the containers of utils/ link (union LINK).              *)
(***************************************************************************)
CONSTANTS Node, NULL

ASSUME NullAssumption == NULL \notin Node
=============================================================================
