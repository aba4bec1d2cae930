--------------------------- MODULE WeightedLinks ---------------------------
(***************************************************************************)
(* The links of the heap and of the tree (struct WEIGHTED_LINK): what is   *)
(* in the fields of every node, and the head of the structure.  A node     *)
(* that has left it may hold anything; NULL stands for that.               *)
(***************************************************************************)
EXTENDS Integers, FiniteSets, SequencesExt, Links

CONSTANTS
  WeightedNode, \* the nodes of the heap and of the tree
  Weights,      \* the weights in use
  MaxWeight     \* what -1 is as a WEIGHT

ASSUME WeightedNodeAssumption == NULL \notin WeightedNode

(* A structure without nodes.                                              *)
NoLinks ==
  [Head |-> NULL, Size |-> 0,
   Weight |-> [n \in WeightedNode |-> 0],
   Left |-> [n \in WeightedNode |-> NULL],
   Right |-> [n \in WeightedNode |-> NULL],
   Parent |-> [n \in WeightedNode |-> NULL]]

(* if( n != NULL ) n->field = value                                        *)
Put(field, n, value) == IF n = NULL THEN field ELSE [field EXCEPT ![n] = value]

(* The fields of node, cleared.                                            *)
Unlinked(node, links) ==
  [links EXCEPT !.Weight[node] = 0, !.Left[node] = NULL, !.Right[node] = NULL,
                !.Parent[node] = NULL]

(* What the traversals of the test programs visit, in their order.         *)
RECURSIVE TraverseTree(_, _)
TraverseTree(link, links) ==
  IF link = NULL THEN <<>>
  ELSE <<link>> \o TraverseTree(links.Left[link], links) \o TraverseTree(links.Right[link], links)

Members(links) == ToSet(TraverseTree(links.Head, links))

(* Every node is visited once, and is the parent of its children.          *)
WellLinked(links) ==
  /\ IsInjective(TraverseTree(links.Head, links))
  /\ links.Head # NULL => links.Parent[links.Head] = NULL
  /\ \A n \in Members(links) : \A child \in {links.Left[n], links.Right[n]} \ {NULL} :
        links.Parent[child] = n
=============================================================================
