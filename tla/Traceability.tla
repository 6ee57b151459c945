----------------------------- MODULE Traceability -----------------------------
(***************************************************************************)
(* The traceability graph (traceability.py): build_traceability_graph over *)
(* a catalog and an assurance case, validate, and connected paths.         *)
(*                                                                         *)
(* A graph is a set of node ids and a set of edges <<source, target>>.     *)
(* The builder keeps the first node of an id and the first edge of a       *)
(* source, target and type, so both are sets; node and edge types only     *)
(* label what is reported and are left out.                                *)
(***************************************************************************)
EXTENDS AssuranceCase

\* The mission need, its requirements and the evidence bundles come beside the two.
TraceInputs(need, requirements, case, catalog, bundles) ==
  [need |-> need, requirements |-> requirements, case |-> case,
   catalog |-> catalog, bundles |-> bundles]

RecordIds(bundle) == {bundle.records[i].evidence_id : i \in DOMAIN bundle.records}

CatalogNodes(c) ==
  UNION {c.contexts, c.functions, c.conditions, Ids(c.stressors), Ids(c.behaviors),
         Ids(c.criteria), Ids(c.threads), Ids(c.scenarios)}

CaseNodes(case) ==
  UNION {Ids(case.hazards), Ids(case.controls), Ids(case.mitigations),
         Ids(case.assumptions), Ids(case.evidence), Ids(case.criteria), Ids(case.claims)}

BundleNodes(bundles) == UNION {{b.bundle_id} \cup RecordIds(b) : b \in bundles}

\* A thread's requirement only counts if it is one of the requirements given.
RequirementEdges(requirements, c) ==
  UNION {(t.requirements \cap requirements) \X ({t.id} \cup t.scenarios) : t \in c.threads}

ThreadEdges(t) ==
  {t.id} \X UNION {{t.context}, t.functions, t.scenarios, t.hazards}

ScenarioEdges(s) ==
  {s.id} \X UNION {{s.context, s.function, s.behavior}, s.conditions, s.stressors,
                   s.criteria, s.hazards, s.evidence}

\* Hazards point to their evidence, evidence points to everything else it supports.
HazardEdges(h) == {h.id} \X UNION {h.controls, h.mitigations, h.evidence}

ControlEdges(x) == ({x.id} \X x.hazards) \cup (x.evidence \X {x.id})

MitigationEdges(m) == ({m.id} \X {m.hazard, m.control}) \cup (m.evidence \X {m.id})

ClaimEdges(k) == (UNION {k.subclaims, k.assumptions, k.criteria, k.evidence}) \X {k.id}

CaseEdges(case) ==
  UNION ({HazardEdges(h) : h \in case.hazards} \cup
         {ControlEdges(x) : x \in case.controls} \cup
         {MitigationEdges(m) : m \in case.mitigations} \cup
         {x.evidence \X {x.id} : x \in case.assumptions \cup case.criteria} \cup
         {ClaimEdges(k) : k \in case.claims} \cup
         {{e.id} \X e.supports : e \in case.evidence})

BundleEdges(bundles) ==
  UNION {{<<b.scope, b.bundle_id>>} \cup ({b.bundle_id} \X RecordIds(b)) : b \in bundles}

Graph(in) ==
  [nodes |-> UNION {{in.need}, in.requirements, CatalogNodes(in.catalog),
                    CaseNodes(in.case), BundleNodes(in.bundles)},
   edges |-> UNION {{in.need} \X in.requirements,
                    RequirementEdges(in.requirements, in.catalog),
                    UNION {ThreadEdges(t) : t \in in.catalog.threads},
                    UNION {ScenarioEdges(s) : s \in in.catalog.scenarios},
                    CaseEdges(in.case),
                    BundleEdges(in.bundles)}]

\* TraceEdge refuses an edge from a node to itself, so the build raises.
BuildRaises(in) == \E edge \in Graph(in).edges : edge[1] = edge[2]

------------------------------------------------------------------------------
Endpoints(g) == {edge[1] : edge \in g.edges} \cup {edge[2] : edge \in g.edges}

\* validate: edges that miss a node are errors, nodes without an edge are warnings.
GraphErrors(g) == Endpoints(g) \ g.nodes

GraphWarnings(g) == g.nodes \ Endpoints(g)

------------------------------------------------------------------------------
DirectedNeighbors(g, n) == {edge[2] : edge \in {e \in g.edges : e[1] = n}}

UndirectedNeighbors(g, n) ==
  DirectedNeighbors(g, n) \cup {edge[1] : edge \in {e \in g.edges : e[2] = n}}

\* Faulty: edges are followed one way only.
NeighborsOneWay(g, n, undirected) == DirectedNeighbors(g, n)

Neighbors(g, n, undirected) ==
  IF undirected THEN UndirectedNeighbors(g, n) ELSE DirectedNeighbors(g, n)

\* Some nodes and their neighbors; an id without a node is never passed.
Wider(g, near, undirected) ==
  near \cup UNION {Neighbors(g, n, undirected) \cap g.nodes : n \in near}

\* Every node within k edges of start.
Within(g, start, undirected) ==
  LET near[k \in 0..Cardinality(g.nodes)] ==
        IF k = 0 THEN {start} \cap g.nodes ELSE Wider(g, near[k - 1], undirected)
  IN  near

\* What _traverse finds, with the start itself: see Traversal.
Reached(g, start, undirected) == Within(g, start, undirected)[Cardinality(g.nodes)]

HasConnectedPath(g, source, target) == target \in Reached(g, source, TRUE)

HasDirectedPath(g, source, target) == target \in Reached(g, source, FALSE)
==============================================================================
