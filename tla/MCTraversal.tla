----------------------------- MODULE MCTraversal -----------------------------
(* Every graph of a few edges over ids of which some may have no node.     *)
EXTENDS Traversal, SequencesExt

SmallIds == 1..4

PossibleEdges == {e \in SmallIds \X SmallIds : e[1] # e[2]}

\* Bound on the edges of a graph.
MaxEdges == 4

SmallGraphs ==
  {[nodes |-> nodes, edges |-> edges] :
     nodes \in {SmallIds, {1, 2, 3}, {2, 3, 4}},
     edges \in UNION {kSubset(k, PossibleEdges) : k \in 0..MaxEdges}}

Ascending(S) == SetToSortSeq(S, <)
==============================================================================
