---------------------------- MODULE TraversalProofs ----------------------------
(***************************************************************************)
(* The loop of _traverse visits exactly the reachable nodes, for every     *)
(* graph over every set of ids.                                            *)
(*                                                                         *)
(* IInv is the loop invariant.  Its last conjunct is what makes the set    *)
(* of visited nodes closed when the queue is empty: every edge that leaves *)
(* it leads to an id still in the queue or to an id without a node.        *)
(***************************************************************************)
EXTENDS Traversal, SequenceTheorems, FiniteSetTheorems, TLAPS

Frontier ==
  \A n \in visited : Neighbors(graph, n, undirected) \cap graph.nodes
                       \subseteq visited \cup Members(queue)

IInv ==
  /\ TypeOK
  /\ visited \subseteq Reachable
  /\ Members(queue) \cap graph.nodes \subseteq Reachable
  /\ Start \in graph.nodes => Start \in visited
  /\ Frontier

------------------------------------------------------------------------------
(* The members of a queue.                                                 *)

LEMMA HeadAndTail ==
  ASSUME NEW S, NEW s \in Seq(S), s # << >>
  PROVE  /\ Head(s) \in S
         /\ Tail(s) \in Seq(S)
         /\ Members(s) = {Head(s)} \cup Members(Tail(s))
<1>1. /\ Head(s) \in S /\ Head(s) = s[1]
      /\ Tail(s) \in Seq(S)
      /\ Len(s) \in Nat /\ Len(s) > 0 /\ Len(Tail(s)) = Len(s) - 1
      /\ DOMAIN s = 1..Len(s) /\ DOMAIN Tail(s) = 1..(Len(s) - 1)
      /\ \A i \in 1..(Len(s) - 1) : Tail(s)[i] = s[i + 1]
  BY HeadTailProperties, LenProperties, EmptySeq
<1>2. ASSUME NEW x \in Members(s) PROVE x \in {Head(s)} \cup Members(Tail(s))
  <2>1. PICK i \in 1..Len(s) : x = s[i]
    BY <1>1 DEF Members
  <2>2. CASE i = 1
    BY <2>1, <2>2, <1>1
  <2>3. CASE i # 1
    <3>1. i - 1 \in 1..(Len(s) - 1) /\ (i - 1) + 1 = i
      BY <2>3, <1>1
    <3>2. Tail(s)[i - 1] = s[i]
      BY <3>1, <1>1
    <3> QED BY <2>1, <3>1, <3>2, <1>1 DEF Members
  <2> QED BY <2>2, <2>3
<1>3. ASSUME NEW x \in {Head(s)} \cup Members(Tail(s)) PROVE x \in Members(s)
  <2>1. CASE x = Head(s)
    <3>1. 1 \in DOMAIN s /\ x = s[1]
      BY <2>1, <1>1
    <3> QED BY <3>1 DEF Members
  <2>2. CASE x \in Members(Tail(s))
    <3>1. PICK i \in 1..(Len(s) - 1) : x = Tail(s)[i]
      BY <2>2, <1>1 DEF Members
    <3>2. i + 1 \in DOMAIN s /\ x = s[i + 1]
      BY <3>1, <1>1
    <3> QED BY <3>2 DEF Members
  <2> QED BY <1>3, <2>1, <2>2
<1> QED BY <1>1, <1>2, <1>3

LEMMA ConcatMembers ==
  ASSUME NEW S, NEW s \in Seq(S), NEW t \in Seq(S)
  PROVE  s \o t \in Seq(S) /\ Members(s \o t) = Members(s) \cup Members(t)
<1>1. /\ s \o t \in Seq(S)
      /\ Len(s) \in Nat /\ Len(t) \in Nat /\ Len(s \o t) = Len(s) + Len(t)
      /\ DOMAIN s = 1..Len(s) /\ DOMAIN t = 1..Len(t)
      /\ DOMAIN (s \o t) = 1..(Len(s) + Len(t))
      /\ \A i \in 1..(Len(s) + Len(t)) :
           (s \o t)[i] = IF i <= Len(s) THEN s[i] ELSE t[i - Len(s)]
  BY ConcatProperties, LenProperties
<1>2. ASSUME NEW x \in Members(s \o t) PROVE x \in Members(s) \cup Members(t)
  <2>1. PICK i \in 1..(Len(s) + Len(t)) : x = (s \o t)[i]
    BY <1>1 DEF Members
  <2>2. \/ i \in 1..Len(s) /\ x = s[i]
        \/ i - Len(s) \in 1..Len(t) /\ x = t[i - Len(s)]
    BY <2>1, <1>1
  <2> QED BY <2>2, <1>1 DEF Members
<1>3. ASSUME NEW x \in Members(s) PROVE x \in Members(s \o t)
  <2>1. PICK i \in 1..Len(s) : x = s[i]
    BY <1>1, <1>3 DEF Members
  <2>2. i \in 1..(Len(s) + Len(t)) /\ x = (s \o t)[i]
    BY <2>1, <1>1
  <2> QED BY <2>2, <1>1 DEF Members
<1>4. ASSUME NEW x \in Members(t) PROVE x \in Members(s \o t)
  <2>1. PICK i \in 1..Len(t) : x = t[i]
    BY <1>1, <1>4 DEF Members
  <2>2. Len(s) + i \in 1..(Len(s) + Len(t)) /\ x = (s \o t)[Len(s) + i]
    BY <2>1, <1>1
  <2> QED BY <2>2, <1>1 DEF Members
<1> QED BY <1>1, <1>2, <1>3, <1>4

LEMMA AppendMembers ==
  ASSUME NEW S, NEW s \in Seq(S), NEW x \in S
  PROVE  Append(s, x) \in Seq(S) /\ Members(Append(s, x)) = Members(s) \cup {x}
<1>1. Append(s, x) = s \o <<x>> /\ <<x>> \in Seq(S)
  BY AppendIsConcat
<1>2. Members(<<x>>) = {x}
  BY DEF Members
<1>3. s \o <<x>> \in Seq(S) /\ Members(s \o <<x>>) = Members(s) \cup Members(<<x>>)
  BY <1>1, ConcatMembers, ZenonT(30)
<1> QED BY <1>1, <1>2, <1>3

------------------------------------------------------------------------------
(* Graphs.                                                                 *)

LEMMA NeighborsAreIds ==
  ASSUME NEW g \in Graphs, NEW n, NEW u \in BOOLEAN
  PROVE  Neighbors(g, n, u) \in SUBSET NodeIds
BY GraphsAssumption DEF Neighbors, UndirectedNeighbors, DirectedNeighbors

\* What can be reached is closed.
LEMMA ReachableIsClosed ==
  ASSUME NEW n \in Reachable, NEW m \in Neighbors(graph, n, undirected), m \in graph.nodes
  PROVE  m \in Reachable
<1>1. SUFFICES ASSUME NEW S \in SUBSET graph.nodes, Start \in S, Closed(S)
               PROVE  m \in S
  BY DEF Reachable
<1>2. n \in S
  BY <1>1 DEF Reachable
<1> QED BY <1>1, <1>2 DEF Closed

LEMMA StartIsReachable ==
  ASSUME Start \in graph.nodes
  PROVE  Start \in Reachable
BY DEF Reachable

------------------------------------------------------------------------------
LEMMA InitEstablishes == Init => IInv
<1>1. SUFFICES ASSUME Init PROVE IInv
  OBVIOUS
<1>2. graph \in Graphs /\ undirected \in BOOLEAN /\ reachable = << >>
  BY <1>1 DEF Init
<1>3. Members(<< >>) = {} /\ << >> \in Seq(NodeIds)
  BY DEF Members
<1>4. CASE Start \in graph.nodes
  <2> DEFINE around == Neighbors(graph, Start, undirected)
  <2>1. visited = {Start} /\ queue = Sorted(around)
    BY <1>1, <1>4 DEF Init
  <2>2. queue \in Seq(NodeIds) /\ Members(queue) = around
    BY <2>1, <1>2, NeighborsAreIds, SortedAssumption DEF Members
  <2>3. TypeOK
    BY <1>2, <1>3, <1>4, <2>1, <2>2 DEF TypeOK
  <2>4. visited \subseteq Reachable
    BY <1>4, <2>1, StartIsReachable
  <2>5. Members(queue) \cap graph.nodes \subseteq Reachable
    BY <1>4, <2>2, StartIsReachable, ReachableIsClosed
  <2>6. Frontier
    BY <2>1, <2>2 DEF Frontier
  <2> QED BY <1>4, <2>1, <2>3, <2>4, <2>5, <2>6 DEF IInv
<1>5. CASE Start \notin graph.nodes
  <2>1. visited = {} /\ queue = << >>
    BY <1>1, <1>5 DEF Init
  <2>2. TypeOK
    BY <1>2, <1>3, <2>1 DEF TypeOK
  <2> QED BY <1>3, <1>5, <2>1, <2>2 DEF IInv, Frontier
<1> QED BY <1>4, <1>5

\* The graph stays, and with it what can be reached.
LEMMA GraphStays ==
  ASSUME UNCHANGED <<graph, undirected>>
  PROVE  Reachable' = Reachable
BY DEF Reachable, Closed

LEMMA SkipPreserves == IInv /\ Skip => IInv'
<1>1. SUFFICES ASSUME IInv, Skip PROVE IInv'
  OBVIOUS
<1> DEFINE h == Head(queue)
<1>2. /\ queue # << >> /\ ~IsNews(h) /\ queue' = Tail(queue)
      /\ graph' = graph /\ undirected' = undirected
      /\ visited' = visited /\ reachable' = reachable
  BY <1>1 DEF Skip
<1>3. Reachable' = Reachable
  BY <1>2, GraphStays
<1>4. queue \in Seq(NodeIds)
  BY <1>1 DEF IInv, TypeOK
<1>5. Tail(queue) \in Seq(NodeIds) /\ Members(queue) = {h} \cup Members(Tail(queue))
  BY <1>2, <1>4, HeadAndTail
<1>6. Members(queue') = Members(Tail(queue)) /\ Members(reachable') = Members(reachable)
  BY <1>2
<1>7. TypeOK'
  BY <1>1, <1>2, <1>5, <1>6 DEF IInv, TypeOK
<1>8. Members(queue') \cap graph'.nodes \subseteq Reachable'
  BY <1>1, <1>2, <1>3, <1>5, <1>6 DEF IInv
\* The id that is left out was visited before, or has no node.
<1>9. Frontier'
  <2>1. SUFFICES ASSUME NEW n \in visited, NEW m \in Neighbors(graph, n, undirected),
                        m \in graph.nodes
                 PROVE  m \in visited \cup Members(Tail(queue))
    BY <1>2, <1>6 DEF Frontier
  <2>2. m \in visited \cup Members(queue)
    BY <1>1, <2>1 DEF IInv, Frontier
  <2> QED BY <1>2, <1>5, <2>1, <2>2 DEF IsNews
<1> QED BY <1>1, <1>2, <1>3, <1>7, <1>8, <1>9 DEF IInv

LEMMA VisitPreserves == IInv /\ Visit => IInv'
<1>1. SUFFICES ASSUME IInv, Visit PROVE IInv'
  OBVIOUS
<1> DEFINE h    == Head(queue)
           news == Neighbors(graph, h, undirected) \ visited'
<1>2. /\ queue # << >> /\ h \notin visited /\ h \in graph.nodes
      /\ visited' = visited \cup {h}
      /\ reachable' = Append(reachable, h)
      /\ queue' = Tail(queue) \o Sorted(news)
      /\ graph' = graph /\ undirected' = undirected
  BY <1>1 DEF Visit, IsNews
<1>3. Reachable' = Reachable
  BY <1>2, GraphStays
<1>4. /\ graph \in Graphs /\ undirected \in BOOLEAN
      /\ queue \in Seq(NodeIds) /\ reachable \in Seq(NodeIds)
      /\ Members(reachable) = visited \ {Start} /\ visited \subseteq graph.nodes
  BY <1>1 DEF IInv, TypeOK
<1>5. /\ h \in NodeIds /\ Tail(queue) \in Seq(NodeIds)
      /\ Members(queue) = {h} \cup Members(Tail(queue))
  BY <1>2, <1>4, HeadAndTail
<1>6. news \in SUBSET NodeIds
  BY <1>4, NeighborsAreIds
<1>7. Sorted(news) \in Seq(NodeIds) /\ Members(Sorted(news)) = news
  BY <1>6, SortedAssumption DEF Members
<1>8. queue' \in Seq(NodeIds) /\ Members(queue') = Members(Tail(queue)) \cup news
  <2> DEFINE rest == Tail(queue)
             more == Sorted(news)
  <2>1. rest \in Seq(NodeIds) /\ more \in Seq(NodeIds) /\ Members(more) = news
    BY <1>5, <1>7
  <2>2. queue' = rest \o more
    BY <1>2
  <2> HIDE DEF news, rest, more
  <2>3. rest \o more \in Seq(NodeIds) /\ Members(rest \o more) = Members(rest) \cup Members(more)
    BY <2>1, ConcatMembers
  <2>4. queue' \in Seq(NodeIds) /\ Members(queue') = Members(rest) \cup news
    BY <2>1, <2>2, <2>3, Zenon
  <2> QED BY <2>4 DEF rest
<1>9. reachable' \in Seq(NodeIds) /\ Members(reachable') = Members(reachable) \cup {h}
  BY <1>2, <1>4, <1>5, AppendMembers
<1>10. h # Start
  BY <1>1, <1>2 DEF IInv
<1>11. TypeOK'
  BY <1>2, <1>4, <1>8, <1>9, <1>10 DEF TypeOK
<1>12. h \in Reachable
  BY <1>1, <1>2, <1>5 DEF IInv
<1>13. visited' \subseteq Reachable'
  BY <1>1, <1>2, <1>3, <1>12 DEF IInv
<1>14. Members(queue') \cap graph'.nodes \subseteq Reachable'
  <2>1. news \cap graph.nodes \subseteq Reachable
    BY <1>12, ReachableIsClosed
  <2> HIDE DEF news
  <2> QED BY <1>1, <1>2, <1>3, <1>5, <1>8, <2>1 DEF IInv
<1>15. Frontier'
  <2>1. SUFFICES ASSUME NEW n \in visited', NEW m \in Neighbors(graph, n, undirected),
                        m \in graph.nodes
                 PROVE  m \in visited' \cup Members(queue')
    BY <1>2 DEF Frontier
  <2>2. CASE n = h
    BY <1>8, <2>1, <2>2
  <2>3. CASE n \in visited
    <3>1. m \in visited \cup Members(queue)
      BY <1>1, <2>1, <2>3 DEF IInv, Frontier
    <3> QED BY <1>2, <1>5, <1>8, <3>1
  <2> QED BY <1>2, <2>1, <2>2, <2>3
<1> QED BY <1>1, <1>2, <1>11, <1>13, <1>14, <1>15 DEF IInv

LEMMA NextPreserves == IInv /\ [Next]_vars => IInv'
<1>1. CASE UNCHANGED vars
  BY <1>1 DEF vars, IInv, TypeOK, Frontier, Reachable, Closed
<1> QED BY <1>1, SkipPreserves, VisitPreserves DEF Next

LEMMA IInvHolds == Spec => []IInv
BY InitEstablishes, NextPreserves, PTL DEF Spec

------------------------------------------------------------------------------
\* Every variable of the loop keeps its type, and the answer lists exactly what was
\* visited after the start.
THEOREM TypeCorrect == Spec => []TypeOK
<1>1. IInv => TypeOK
  BY DEF IInv
<1> QED BY <1>1, IInvHolds, PTL

\* With an empty queue the visited nodes are closed and hold the start, so they are
\* all that can be reached; they never were anything else.
THEOREM PartialCorrectness == Spec => []VisitsExactlyTheReachable
<1>1. ASSUME IInv, Finished, Start \in graph.nodes PROVE visited = Reachable
  <2>1. Members(queue) = {}
    BY <1>1 DEF Finished, Members
  <2>2. Closed(visited) /\ visited \in SUBSET graph.nodes /\ Start \in visited
    BY <1>1, <2>1 DEF IInv, TypeOK, Frontier, Closed
  <2>3. Reachable \subseteq visited
    BY <2>2 DEF Reachable
  <2> QED BY <1>1, <2>3 DEF IInv
<1>2. IInv => VisitsExactlyTheReachable
  BY <1>1 DEF VisitsExactlyTheReachable
<1> QED BY <1>2, IInvHolds, PTL

------------------------------------------------------------------------------
(* The path queries, for any graph.                                        *)

\* Every nonempty set of numbers has a least one: the intervals below its members are
\* finite sets, and one of them has none of the others below it.
LEMMA LeastNumber ==
  ASSUME NEW T \in SUBSET Nat, T # {}
  PROVE  \E m \in T : \A k \in T : m <= k
<1> DEFINE below == {0..m : m \in T}
           order == StrictSubsetOrdering(Nat)
<1>1. IsWellFoundedOn(order, FiniteSubsetsOf(Nat))
  BY FS_StrictSubsetOrderingWellFounded
<1>2. below \subseteq FiniteSubsetsOf(Nat) /\ below # {}
  <2>1. \A m \in T : IsFiniteSet(0..m) /\ 0..m \in SUBSET Nat
    BY FS_Interval
  <2> QED BY <2>1 DEF FiniteSubsetsOf
<1>3. PICK x \in below : \A y \in below : <<y, x>> \notin order
  <2> HIDE DEF below, order
  <2> QED BY <1>1, <1>2, WFMin
<1>4. PICK m \in T : x = 0..m
  OBVIOUS
<1>5. ASSUME NEW k \in T, k < m PROVE FALSE
  <2>1. 0..k \in below /\ 0..k \subseteq 0..m /\ m \in 0..m /\ m \notin 0..k
    BY <1>5
  <2>2. 0..k \subseteq x /\ 0..k # x
    BY <1>4, <2>1
  <2>3. <<0..k, x>> \in order
    BY <1>2, <2>1, <2>2 DEF StrictSubsetOrdering, FiniteSubsetsOf
  <2> QED BY <1>3, <2>1, <2>3
<1> QED BY <1>5

\* Induction up to N, with the set of the numbers that the claim holds of.
LEMMA UpTo ==
  ASSUME NEW N \in Nat, NEW T, 0 \in T, \A k \in 1..N : k - 1 \in T => k \in T
  PROVE  0..N \subseteq T
<1> DEFINE rest == 0..N \ T
<1> SUFFICES ASSUME rest # {} PROVE FALSE
  OBVIOUS
<1>1. rest \in SUBSET Nat
  OBVIOUS
<1>2. PICK m \in rest : \A k \in rest : m <= k
  <2> HIDE DEF rest
  <2> QED BY <1>1, LeastNumber
<1>3. m \in 1..N /\ m - 1 \in 0..N /\ m - 1 \notin rest
  BY <1>1, <1>2
<1> QED BY <1>2, <1>3

\* A set of nodes of g that no edge leaves, but to an id without a node.
ClosedIn(g, S, bothWays) == \A n \in S : Neighbors(g, n, bothWays) \cap g.nodes \subseteq S

\* What can be reached in g, by definition.
ReachableIn(g, start, bothWays) ==
  {n \in g.nodes : \A S \in SUBSET g.nodes : start \in S /\ ClosedIn(g, S, bothWays) => n \in S}

\* f answers the recursive definition of Within on 0..m.
Iterates(f, m, g, start, bothWays) ==
  f = [k \in 0..m |-> IF k = 0 THEN {start} \cap g.nodes ELSE Wider(g, f[k - 1], bothWays)]

\* There is such a function: of the numbers without one there would be a least.
LEMMA IterationExists ==
  ASSUME NEW g, NEW start, NEW bothWays, NEW N \in Nat
  PROVE  \E f : Iterates(f, N, g, start, bothWays)
<1> DEFINE none == {m \in Nat : ~\E f : Iterates(f, m, g, start, bothWays)}
           first == {start} \cap g.nodes
<1> SUFFICES ASSUME none # {} PROVE FALSE
  OBVIOUS
<1>1. PICK m \in none : \A k \in none : m <= k
  <2> HIDE DEF none
  <2>1. none \subseteq Nat
    BY DEF none
  <2> QED BY <2>1, LeastNumber
<1>2. m # 0
  <2> SUFFICES ASSUME m = 0 PROVE FALSE
    OBVIOUS
  <2> DEFINE f == [k \in 0..0 |-> first]
  <2>1. f = [k \in 0..0 |-> IF k = 0 THEN first ELSE Wider(g, f[k - 1], bothWays)]
    OBVIOUS
  <2>2. Iterates(f, 0, g, start, bothWays)
    BY <2>1 DEF Iterates
  <2> QED BY <1>1, <2>2
<1>3. m - 1 \in Nat /\ m - 1 \notin none
  BY <1>1, <1>2
<1>4. PICK f : Iterates(f, m - 1, g, start, bothWays)
  BY <1>3
<1> DEFINE h == [k \in 0..m |-> IF k = m THEN Wider(g, f[m - 1], bothWays) ELSE f[k]]
<1>5. \A k \in 0..(m - 1) :
        f[k] = IF k = 0 THEN first ELSE Wider(g, f[k - 1], bothWays)
  <2> HIDE DEF first
  <2>1. f = [k \in 0..(m - 1) |-> IF k = 0 THEN first ELSE Wider(g, f[k - 1], bothWays)]
    BY <1>4 DEF Iterates, first
  <2> QED BY <2>1
<1>6. h = [k \in 0..m |-> IF k = 0 THEN first ELSE Wider(g, h[k - 1], bothWays)]
  <2> SUFFICES ASSUME NEW k \in 0..m
               PROVE  h[k] = IF k = 0 THEN first ELSE Wider(g, h[k - 1], bothWays)
    OBVIOUS
  <2>1. CASE k = m
    BY <2>1, <1>2, <1>3
  <2>2. CASE k # m
    <3> HIDE DEF first
    <3>1. k \in 0..(m - 1) /\ (k # 0 => k - 1 \in 0..m /\ k - 1 # m)
      BY <2>2, <1>3
    <3>2. h[k] = f[k] /\ (k # 0 => h[k - 1] = f[k - 1])
      BY <2>2, <3>1
    <3> QED BY <1>5, <3>1, <3>2
  <2> QED BY <2>1, <2>2
<1>7. Iterates(h, m, g, start, bothWays)
  BY <1>6 DEF Iterates
<1> QED BY <1>1, <1>7

\* So the definition means what it says.
LEMMA WithinIsIterated ==
  ASSUME NEW g, IsFiniteSet(g.nodes), NEW start, NEW bothWays
  PROVE  LET N == Cardinality(g.nodes)
             near == Within(g, start, bothWays)
         IN  /\ N \in Nat
             /\ near[0] = {start} \cap g.nodes
             /\ \A k \in 1..N : near[k] = Wider(g, near[k - 1], bothWays)
<1> DEFINE N == Cardinality(g.nodes)
           near == Within(g, start, bothWays)
<1>1. N \in Nat
  BY FS_CardinalityType
<1>2. near = CHOOSE f : Iterates(f, N, g, start, bothWays)
  BY DEF Within, Iterates
<1>3. Iterates(near, N, g, start, bothWays)
  <2> HIDE DEF near, N
  <2> QED BY <1>1, <1>2, IterationExists
<1>4. near = [k \in 0..N |-> IF k = 0 THEN {start} \cap g.nodes
                             ELSE Wider(g, near[k - 1], bothWays)]
  BY <1>3 DEF Iterates
<1> HIDE DEF near, N
<1>5. \A k \in 0..N : near[k] = IF k = 0 THEN {start} \cap g.nodes
                                  ELSE Wider(g, near[k - 1], bothWays)
  BY <1>4
<1>6. near[0] = {start} \cap g.nodes /\ \A k \in 1..N : near[k] = Wider(g, near[k - 1], bothWays)
  BY <1>1, <1>5
<1> QED BY <1>1, <1>6 DEF near, N

\* A round adds the neighbors, and nothing to a closed set.
LEMMA WiderFacts ==
  ASSUME NEW g, NEW S \in SUBSET g.nodes, NEW bothWays
  PROVE  /\ S \subseteq Wider(g, S, bothWays) /\ Wider(g, S, bothWays) \subseteq g.nodes
         /\ \A T : S \subseteq T /\ ClosedIn(g, T, bothWays) => Wider(g, S, bothWays) \subseteq T
         /\ Wider(g, S, bothWays) = S => ClosedIn(g, S, bothWays)
         /\ ClosedIn(g, S, bothWays) => Wider(g, S, bothWays) = S
BY DEF Wider, ClosedIn

\* After k rounds a set is closed, or has grown at least k times; and it has nothing that
\* cannot be reached.
LEMMA Rounds ==
  ASSUME NEW g, IsFiniteSet(g.nodes), NEW start, NEW bothWays
  PROVE  LET near == Within(g, start, bothWays)
         IN  \A k \in 0..Cardinality(g.nodes) :
               /\ near[k] \in SUBSET g.nodes
               /\ {start} \cap g.nodes \subseteq near[k]
               /\ \A T : {start} \cap g.nodes \subseteq T /\ ClosedIn(g, T, bothWays)
                       => near[k] \subseteq T
               /\ ClosedIn(g, near[k], bothWays) \/ k < Cardinality(near[k])
<1> DEFINE N == Cardinality(g.nodes)
           near == Within(g, start, bothWays)
           first == {start} \cap g.nodes
           Good(k) == /\ near[k] \in SUBSET g.nodes
                      /\ first \subseteq near[k]
                      /\ \A T : first \subseteq T /\ ClosedIn(g, T, bothWays)
                              => near[k] \subseteq T
                      /\ ClosedIn(g, near[k], bothWays) \/ k < Cardinality(near[k])
           good == {k \in 0..N : Good(k)}
<1>1. N \in Nat /\ near[0] = first /\ \A k \in 1..N : near[k] = Wider(g, near[k - 1], bothWays)
  BY WithinIsIterated
<1>2. Good(0)
  <2>1. first = {} \/ first = {start}
    OBVIOUS
  <2>2. ClosedIn(g, {}, bothWays)
    BY DEF ClosedIn
  <2>3. Cardinality({start}) = 1
    BY FS_Singleton
  <2> HIDE DEF first, near
  <2>4. ClosedIn(g, first, bothWays) \/ 0 < Cardinality(first)
    BY <2>1, <2>2, <2>3
  <2>5. first \in SUBSET g.nodes
    BY DEF first
  <2> QED BY <1>1, <2>4, <2>5
<1>3. ASSUME NEW k \in 1..N, Good(k - 1) PROVE Good(k)
  <2> DEFINE old == near[k - 1]
  <2>1. near[k] = Wider(g, old, bothWays)
    BY <1>1
  <2> HIDE DEF near, first, N
  <2>2. old \in SUBSET g.nodes /\ first \subseteq old
    BY <1>3
  <2>3. /\ old \subseteq near[k] /\ near[k] \in SUBSET g.nodes
        /\ \A T : old \subseteq T /\ ClosedIn(g, T, bothWays)
                => near[k] \subseteq T
        /\ near[k] = old => ClosedIn(g, old, bothWays)
        /\ ClosedIn(g, old, bothWays) => near[k] = old
    <3> HIDE DEF old
    <3> QED BY <2>1, <2>2, WiderFacts
  <2>4. \A T : first \subseteq T /\ ClosedIn(g, T, bothWays)
             => near[k] \subseteq T
    BY <1>3, <2>3
  <2>5. ClosedIn(g, near[k], bothWays) \/ k < Cardinality(near[k])
    <3>1. CASE ClosedIn(g, old, bothWays)
      BY <2>3, <3>1
    <3>2. CASE ~ClosedIn(g, old, bothWays)
      <4>1. k - 1 < Cardinality(old)
        BY <1>3, <3>2
      <4>2. near[k] # old
        BY <2>3, <3>2
      <4> HIDE DEF old
      <4>3. IsFiniteSet(near[k])
        BY <2>3, FS_Subset
      <4>4. /\ Cardinality(near[k]) \in Nat /\ Cardinality(old) \in Nat
            /\ Cardinality(old) <= Cardinality(near[k])
            /\ Cardinality(old) # Cardinality(near[k])
        <5>1. old \in SUBSET near[k]
          BY <2>3
        <5>2. IsFiniteSet(old)
          BY <4>3, <5>1, FS_Subset
        <5> QED BY <4>2, <4>3, <5>1, <5>2, FS_Subset, FS_CardinalityType
      <4> QED BY <1>1, <4>1, <4>4
    <3> QED BY <3>1, <3>2
  <2> QED BY <2>2, <2>3, <2>4, <2>5
<1>4. 0 \in good /\ \A k \in 1..N : k - 1 \in good => k \in good
  <2> HIDE DEF Good, N
  <2> QED BY <1>1, <1>2, <1>3
<1>5. 0..N \subseteq good
  <2> HIDE DEF good, N
  <2> QED BY <1>1, <1>4, UpTo
<1>6. \A k \in 0..N : Good(k)
  <2> HIDE DEF Good, N
  <2> QED BY <1>5
<1> QED BY <1>6

\* The rounds end with what can be reached, by definition: after as many rounds as there
\* are nodes no set is left to grow.
LEMMA QueriesFindTheReachable ==
  ASSUME NEW g, IsFiniteSet(g.nodes), NEW start, NEW bothWays
  PROVE  /\ start \in g.nodes => Reached(g, start, bothWays) = ReachableIn(g, start, bothWays)
         /\ start \notin g.nodes => Reached(g, start, bothWays) = {}
<1> DEFINE N == Cardinality(g.nodes)
           R == Reached(g, start, bothWays)
<1>1. N \in Nat
  BY FS_CardinalityType
<1>2. /\ R \in SUBSET g.nodes
      /\ {start} \cap g.nodes \subseteq R
      /\ \A T : {start} \cap g.nodes \subseteq T /\ ClosedIn(g, T, bothWays) => R \subseteq T
      /\ ClosedIn(g, R, bothWays) \/ N < Cardinality(R)
  <2> DEFINE near == Within(g, start, bothWays)
  <2>1. R = near[N]
    BY DEF Reached
  <2>2. N \in 0..N
    BY <1>1
  <2>3. \A k \in 0..N :
          /\ near[k] \in SUBSET g.nodes
          /\ {start} \cap g.nodes \subseteq near[k]
          /\ \A T : {start} \cap g.nodes \subseteq T /\ ClosedIn(g, T, bothWays)
                  => near[k] \subseteq T
          /\ ClosedIn(g, near[k], bothWays) \/ k < Cardinality(near[k])
    BY Rounds
  <2> HIDE DEF near, N, R
  <2> QED BY <2>1, <2>2, <2>3
<1> HIDE DEF R
<1>3. Cardinality(R) <= N /\ Cardinality(R) \in Nat
  BY <1>2, FS_Subset, FS_CardinalityType
<1>4. ClosedIn(g, R, bothWays)
  BY <1>1, <1>2, <1>3
<1>5. ASSUME start \in g.nodes PROVE R = ReachableIn(g, start, bothWays)
  BY <1>2, <1>4, <1>5 DEF ReachableIn
<1>6. ASSUME start \notin g.nodes PROVE R = {}
  <2>1. ClosedIn(g, {}, bothWays)
    BY DEF ClosedIn
  <2> QED BY <1>2, <1>6, <2>1
<1> QED BY <1>5, <1>6 DEF R

\* An bothWays connection can be followed back: if the start could not be reached from
\* n, neither could n from the start, since the nodes not reached from n are closed too.
LEMMA ConnectionsAreMutual ==
  ASSUME NEW g, NEW start \in g.nodes, NEW n \in ReachableIn(g, start, TRUE)
  PROVE  start \in ReachableIn(g, n, TRUE)
<1> SUFFICES ASSUME NEW S \in SUBSET g.nodes, n \in S, ClosedIn(g, S, TRUE), start \notin S
             PROVE  FALSE
  BY DEF ReachableIn
<1> DEFINE rest == g.nodes \ S
<1>1. ClosedIn(g, rest, TRUE)
  <2> SUFFICES ASSUME NEW x \in rest, NEW y \in Neighbors(g, x, TRUE), y \in S
               PROVE  FALSE
    BY DEF ClosedIn
  <2>1. x \in Neighbors(g, y, TRUE)
    BY DEF Neighbors, UndirectedNeighbors, DirectedNeighbors
  <2> QED BY <2>1 DEF ClosedIn
<1>2. n \in rest
  BY <1>1 DEF ReachableIn
<1> QED BY <1>2

------------------------------------------------------------------------------
\* The answer has as many ids as were visited after the start, so it repeats none; and a
\* start without a node is answered with nothing.
Counted ==
  /\ Len(reachable) = Cardinality(visited \ {Start})
  /\ Start \notin graph.nodes => visited = {} /\ queue = << >>

LEMMA CountHolds == Spec => []Counted
<1>1. Init => Counted
  <2> SUFFICES ASSUME Init PROVE Counted
    OBVIOUS
  <2>1. /\ visited \ {Start} = {} /\ Len(reachable) = 0
        /\ Start \notin graph.nodes => visited = {} /\ queue = << >>
    BY DEF Init
  <2> QED BY <2>1, FS_EmptySet DEF Counted
<1>2. IInv /\ Counted /\ [Next]_vars => Counted'
  <2> SUFFICES ASSUME IInv, Counted, [Next]_vars PROVE Counted'
    OBVIOUS
  <2>1. CASE Visit
    <3> DEFINE h     == Head(queue)
               after == visited \ {Start}
    <3>1. h \notin visited /\ h \in graph.nodes /\ h # Start
      BY <2>1 DEF Visit, IsNews, IInv
    <3>2. visited' \ {Start} = after \cup {h} /\ h \notin after
      BY <2>1, <3>1 DEF Visit
    <3>3. IsFiniteSet(after)
      <4>1. IsFiniteSet(graph.nodes) /\ after \in SUBSET graph.nodes
        BY GraphsAssumption DEF IInv, TypeOK
      <4> QED BY <4>1, FS_Subset
    <3>4. Len(reachable') = Len(reachable) + 1
      BY <2>1 DEF Visit, IInv, TypeOK
    <3>5. Start \in graph.nodes /\ graph' = graph
      BY <2>1 DEF Visit, Counted
    <3> HIDE DEF h, after
    <3>6. Cardinality(after \cup {h}) = Cardinality(after) + 1
      BY <3>2, <3>3, FS_AddElement
    <3> QED BY <3>2, <3>4, <3>5, <3>6 DEF Counted, after
  <2>2. CASE Skip
    BY <2>2 DEF Skip, Counted
  <2>3. CASE UNCHANGED vars
    BY <2>3 DEF vars, Counted
  <2> QED BY <2>1, <2>2, <2>3 DEF Next
<1> QED BY <1>1, <1>2, IInvHolds, PTL DEF Spec

\* The loop of _traverse and the path queries find the same, the loop lists nothing
\* twice, and an undirected connection is found from both of its ends.
THEOREM QueriesAgree == Spec => []PathQueriesAgree
<1>1. ASSUME IInv, VisitsExactlyTheReachable, Counted, Finished
      PROVE  /\ visited = Reached(graph, Start, undirected)
             /\ Len(reachable) = Cardinality(visited \ {Start})
             /\ undirected => \A n \in visited : HasConnectedPath(graph, n, Start)
  <2>1. /\ IsFiniteSet(graph.nodes) /\ visited \subseteq graph.nodes
        /\ undirected \in BOOLEAN
    BY <1>1, GraphsAssumption DEF IInv, TypeOK
  <2>2. Reachable = ReachableIn(graph, Start, undirected)
    BY DEF Reachable, ReachableIn, Closed, ClosedIn
  <2>3. CASE Start \in graph.nodes
    <3>1. visited = ReachableIn(graph, Start, undirected)
      BY <1>1, <2>2, <2>3 DEF VisitsExactlyTheReachable
    <3>2. visited = Reached(graph, Start, undirected)
      BY <2>1, <2>3, <3>1, QueriesFindTheReachable
    <3>3. ASSUME undirected, NEW n \in visited PROVE HasConnectedPath(graph, n, Start)
      <4>1. undirected = TRUE
        BY <2>1, <3>3
      <4>2. Start \in ReachableIn(graph, n, TRUE)
        BY <2>3, <3>1, <4>1, ConnectionsAreMutual
      <4>3. Reached(graph, n, TRUE) = ReachableIn(graph, n, TRUE)
        BY <2>1, QueriesFindTheReachable
      <4> QED BY <4>2, <4>3 DEF HasConnectedPath
    <3> QED BY <1>1, <3>2, <3>3 DEF Counted
  <2>4. CASE Start \notin graph.nodes
    <3>1. visited = {} /\ Reached(graph, Start, undirected) = {}
      BY <1>1, <2>1, <2>4, QueriesFindTheReachable DEF Counted
    <3> QED BY <1>1, <3>1 DEF Counted
  <2> QED BY <2>3, <2>4
<1>2. IInv /\ VisitsExactlyTheReachable /\ Counted => PathQueriesAgree
  BY <1>1 DEF PathQueriesAgree
<1> QED BY <1>2, IInvHolds, PartialCorrectness, CountHolds, PTL
==============================================================================
