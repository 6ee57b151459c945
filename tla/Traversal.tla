------------------------------ MODULE Traversal ------------------------------
(***************************************************************************)
(* TraceabilityGraph._traverse (traceability.py) as the loop it is: a      *)
(* queue of ids, of which some have no node and some were visited since    *)
(* they were queued.                                                       *)
(***************************************************************************)
EXTENDS Traceability, Sequences

CONSTANTS
  NodeIds,    \* the ids that nodes have and edges mention
  Graphs,     \* the graphs that are traversed
  Start,      \* start_node_id
  Sorted(_)   \* sorted: the members of a set in a sequence

ASSUME SortedAssumption ==
  \A S \in SUBSET NodeIds :
    /\ Sorted(S) \in Seq(NodeIds)
    /\ {Sorted(S)[i] : i \in DOMAIN Sorted(S)} = S

ASSUME GraphsAssumption ==
  \A g \in Graphs : /\ g.nodes \subseteq NodeIds /\ IsFiniteSet(g.nodes)
                    /\ g.edges \subseteq NodeIds \X NodeIds

VARIABLES
  graph,
  undirected,
  visited,
  reachable,   \* the ids visited after the start, in this order
  queue

vars == <<graph, undirected, visited, reachable, queue>>

Members(s) == {s[i] : i \in DOMAIN s}

------------------------------------------------------------------------------
\* A start without a node is answered with nothing.
Init ==
  /\ graph \in Graphs
  /\ undirected \in BOOLEAN
  /\ reachable = << >>
  /\ IF Start \in graph.nodes
     THEN /\ visited = {Start}
          /\ queue = Sorted(Neighbors(graph, Start, undirected))
     ELSE visited = {} /\ queue = << >>

\* Faulty: an id without a node is passed.
IsUnvisited(id) == id \notin visited

IsNews(id) == id \notin visited /\ id \in graph.nodes

\* Faulty: the id stays in the queue.
SkipInPlace ==
  /\ queue # << >>
  /\ ~IsNews(Head(queue))
  /\ UNCHANGED vars

Skip ==
  /\ queue # << >>
  /\ ~IsNews(Head(queue))
  /\ queue' = Tail(queue)
  /\ UNCHANGED <<graph, undirected, visited, reachable>>

\* Faulty: only ids never queued before are queued.
VisitOnce ==
  /\ queue # << >>
  /\ IsNews(Head(queue))
  /\ visited' = visited \cup {Head(queue)} \cup Neighbors(graph, Head(queue), undirected)
  /\ reachable' = Append(reachable, Head(queue))
  /\ queue' = Tail(queue) \o Sorted(Neighbors(graph, Head(queue), undirected) \ visited')
  /\ UNCHANGED <<graph, undirected>>

Visit ==
  /\ queue # << >>
  /\ IsNews(Head(queue))
  /\ visited' = visited \cup {Head(queue)}
  /\ reachable' = Append(reachable, Head(queue))
  /\ queue' = Tail(queue) \o Sorted(Neighbors(graph, Head(queue), undirected) \ visited')
  /\ UNCHANGED <<graph, undirected>>

Next == Skip \/ Visit

\* The loop runs without waiting for anything.
Spec == Init /\ [][Next]_vars /\ WF_vars(Next)

------------------------------------------------------------------------------
Finished == queue = << >>

\* The ids in play are ids of the graph, and reachable lists the visited ones but
\* the start.
TypeOK ==
  /\ graph \in Graphs
  /\ undirected \in BOOLEAN
  /\ visited \subseteq graph.nodes
  /\ reachable \in Seq(NodeIds)
  /\ Members(reachable) = visited \ {Start}
  /\ queue \in Seq(NodeIds)

\* A set of nodes that no edge leaves, but to an id without a node.
Closed(S) == \A n \in S : Neighbors(graph, n, undirected) \cap graph.nodes \subseteq S

\* What can be reached, by definition: the nodes in every closed set with the start.
Reachable ==
  {n \in graph.nodes : \A S \in SUBSET graph.nodes : Start \in S /\ Closed(S) => n \in S}

\* When the loop ends it has visited exactly the nodes that can be reached from the
\* start: ids without a node in the queue, and ids queued several times before
\* their visit, neither hide a node nor add one.
VisitsExactlyTheReachable ==
  Finished /\ Start \in graph.nodes => visited = Reachable

\* The answer lists no node twice and is the one the path queries compute, and an
\* undirected connection is found from its other end too, so that verification
\* may ask for a path from the scenario to the claim.
PathQueriesAgree ==
  Finished =>
    /\ visited = Reached(graph, Start, undirected)
    /\ Len(reachable) = Cardinality(visited \ {Start})
    /\ undirected => \A n \in visited : HasConnectedPath(graph, n, Start)

\* The loop ends, on graphs with cycles too.
Terminates == <>Finished
==============================================================================
