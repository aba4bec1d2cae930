-------------------------------- MODULE Tree --------------------------------
(***************************************************************************)
(* utils/avl.c: a search tree, not balanced in spite of its name, as       *)
(* utils/treetest.c uses it.                                               *)
(***************************************************************************)
EXTENDS WeightedLinks

(* Down from parent to the node the new one is hung under.                 *)
RECURSIVE Descend(_, _, _)
Descend(weight, parent, t) ==
  LET child == IF weight > t.Weight[parent] THEN t.Right[parent] ELSE t.Left[parent]
  IN IF child = NULL THEN parent ELSE Descend(weight, child, t)

AvlAdd(weight, node, tree) ==
  LET t == [tree EXCEPT !.Weight[node] = weight, !.Left[node] = NULL, !.Right[node] = NULL]
      parent == Descend(weight, t.Head, t)
  IN IF t.Head = NULL THEN [t EXCEPT !.Head = node, !.Parent[node] = NULL]
     ELSE IF weight > t.Weight[parent] THEN [t EXCEPT !.Right[parent] = node, !.Parent[node] = parent]
     ELSE [t EXCEPT !.Left[parent] = node, !.Parent[node] = parent]

RECURSIVE FindBelow(_, _, _)
FindBelow(weight, node, t) ==
  IF node = NULL \/ t.Weight[node] = weight THEN node
  ELSE FindBelow(weight, IF weight > t.Weight[node] THEN t.Right[node] ELSE t.Left[node], t)

AvlFind(weight, tree) == FindBelow(weight, tree.Head, tree)

AvlInit == NoLinks

(* child, if there is one, takes the place of node under node's parent.    *)
Replaced(node, child, t) ==
  LET parent == t.Parent[node]
      u == [t EXCEPT !.Parent = Put(@, child, parent)]
  IN IF parent = NULL THEN [u EXCEPT !.Head = child]
     ELSE IF t.Left[parent] = node THEN [u EXCEPT !.Left[parent] = child]
     ELSE [u EXCEPT !.Right[parent] = child]

RECURSIVE RightMost(_, _)
RightMost(node, t) == IF t.Right[node] = NULL THEN node ELSE RightMost(t.Right[node], t)

(* Bug: what the left child has on its right is lost.                      *)
BugBothChildren(node, t) ==
  LET right == t.Right[node]
      left == t.Left[node]
  IN [Replaced(node, left, t) EXCEPT !.Right[left] = right, !.Parent[right] = left]

(* The left child takes the place, and the right one is hung under the     *)
(* last node of the left one's tree.                                       *)
BothChildren(node, t) ==
  LET right == t.Right[node]
      rightMost == RightMost(t.Left[node], t)
  IN [Replaced(node, t.Left[node], t) EXCEPT !.Right[rightMost] = right,
                                             !.Parent[right] = rightMost]

(* A leaf leaves nothing, a node with one child leaves that.               *)
OneChild(node, t) == Replaced(node, IF t.Left[node] # NULL THEN t.Left[node] ELSE t.Right[node], t)

AvlDelete(node, tree) ==
  Unlinked(node, IF tree.Left[node] # NULL /\ tree.Right[node] # NULL
                 THEN BothChildren(node, tree) ELSE OneChild(node, tree))

-----------------------------------------------------------------------------

VARIABLES
  tree,
  data          \* the nodes that are in the tree and what was put into them

treeVars == <<tree, data>>

TreeStart == tree = AvlInit /\ data = [n \in WeightedNode |-> NULL]

AddData(value) ==
  \E node \in WeightedNode :
    /\ data[node] = NULL
    /\ tree' = AvlAdd(value, node, tree)
    /\ data' = [data EXCEPT ![node] = value]

RemoveData(value) ==
  LET node == AvlFind(value, tree)
  IN /\ node # NULL
     /\ tree' = AvlDelete(node, tree)
     /\ data' = [data EXCEPT ![node] = NULL]

TreeNext == \E value \in Weights : AddData(value) \/ RemoveData(value)

(* The tree holds what was added and not removed, every node once; what is *)
(* left of a node weighs as much or less, what is right of it more; so     *)
(* AvlFind finds a node of a weight exactly when there is one, after any   *)
(* sequence of calls.                                                      *)
TreeSound ==
  /\ WellLinked(tree)
  /\ Members(tree) = {n \in WeightedNode : data[n] # NULL}
  /\ \A n \in Members(tree) :
       /\ tree.Weight[n] = data[n]
       /\ \A m \in ToSet(TraverseTree(tree.Left[n], tree)) : tree.Weight[m] <= tree.Weight[n]
       /\ \A m \in ToSet(TraverseTree(tree.Right[n], tree)) : tree.Weight[m] > tree.Weight[n]
  /\ \A w \in Weights :
       LET found == AvlFind(w, tree)
       IN IF \E n \in WeightedNode : data[n] = w THEN found # NULL /\ data[found] = w ELSE found = NULL
=============================================================================
