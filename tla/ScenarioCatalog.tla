--------------------------- MODULE ScenarioCatalog ---------------------------
(***************************************************************************)
(* The scenario catalog (scenarios.py) and validate_references.            *)
(*                                                                         *)
(* A catalog is a record of sets: the ids of its contexts, functions and   *)
(* operating conditions, and the stressors, behaviors, criteria, mission   *)
(* threads and scenarios themselves, each with the fields that some check  *)
(* reads.  The same id on two artifacts, of one kind or of two, is what    *)
(* _validate_unique_identifiers refuses.                                   *)
(***************************************************************************)
EXTENDS Contracts, FiniteSets

RequiresRestrictiveResponse(stressor) == RequiresMitigation(stressor.severity)

\* A behavior that only asks for human approval does not restrict autonomy.
RestrictsAutonomy(behavior) ==
  \/ IsRestrictive(behavior.required_decision)
  \/ BlocksAutonomousExecution(behavior.required_authority_state)

\* The fields that the dataclasses type with an enumeration.
HasCatalogShape(c) ==
  /\ \A x \in c.stressors : x.severity \in HazardSeverity
  /\ \A b \in c.behaviors : /\ b.required_decision \in AutonomyDecisionType
                            /\ b.required_authority_state \in RuntimeAuthorityState

Ids(items) == {item.id : item \in items}

\* index[id]; with a repeated id the code takes the last item, and every caller
\* that validates the catalog first never looks up such an id.
Lookup(items, id) == CHOOSE item \in items : item.id = id

------------------------------------------------------------------------------
DuplicateErrors(c) ==
  LET kinds == [contexts   |-> c.contexts,       functions |-> c.functions,
                conditions |-> c.conditions,     stressors |-> Ids(c.stressors),
                behaviors  |-> Ids(c.behaviors), criteria  |-> Ids(c.criteria),
                threads    |-> Ids(c.threads),   scenarios |-> Ids(c.scenarios)]
      repeated(items) == {id \in Ids(items) : \E x, y \in items : x.id = id /\ y.id = id /\ x # y}
      withinAKind == UNION {repeated(items) : items \in
                              {c.stressors, c.behaviors, c.criteria, c.threads, c.scenarios}}
      acrossKinds == UNION {kinds[p[1]] \cap kinds[p[2]] :
                              p \in {p \in (DOMAIN kinds) \X (DOMAIN kinds) : p[1] # p[2]}}
  IN  {<<"duplicated", id>> : id \in withinAKind \cup acrossKinds}

MissingReferences(owner, kind, ids, existing) ==
  {<<"missing", kind, owner, id>> : id \in ids \ existing}

ThreadErrors(c, t) ==
  MissingReferences(t.id, "context", {t.context}, c.contexts) \cup
  MissingReferences(t.id, "function", t.functions, c.functions) \cup
  MissingReferences(t.id, "scenario", t.scenarios, Ids(c.scenarios))

\* Faulty: the stressors and the behavior of a scenario are not looked up.
ContextReferenceErrors(c, s) ==
  MissingReferences(s.id, "mission thread", {s.thread}, Ids(c.threads)) \cup
  MissingReferences(s.id, "context", {s.context}, c.contexts) \cup
  MissingReferences(s.id, "function", {s.function}, c.functions) \cup
  MissingReferences(s.id, "condition", s.conditions, c.conditions) \cup
  MissingReferences(s.id, "criterion", s.criteria, Ids(c.criteria))

ScenarioReferenceErrors(c, s) ==
  MissingReferences(s.id, "mission thread", {s.thread}, Ids(c.threads)) \cup
  MissingReferences(s.id, "context", {s.context}, c.contexts) \cup
  MissingReferences(s.id, "function", {s.function}, c.functions) \cup
  MissingReferences(s.id, "condition", s.conditions, c.conditions) \cup
  MissingReferences(s.id, "stressor", s.stressors, Ids(c.stressors)) \cup
  MissingReferences(s.id, "behavior", {s.behavior}, Ids(c.behaviors)) \cup
  MissingReferences(s.id, "criterion", s.criteria, Ids(c.criteria))

SevereStressors(c, s) ==
  {x \in c.stressors : x.id \in s.stressors /\ RequiresRestrictiveResponse(x)}

StressorResponseErrors(c, s) ==
  IF /\ s.behavior \in Ids(c.behaviors)
     /\ SevereStressors(c, s) # {}
     /\ ~RestrictsAutonomy(Lookup(c.behaviors, s.behavior))
  THEN {<<"severe stressor without restriction", s.id>>}
  ELSE {}

CatalogErrors(c) ==
  DuplicateErrors(c) \cup
  (IF c.threads = {} THEN {<<"no mission threads">>} ELSE {}) \cup
  (IF c.scenarios = {} THEN {<<"no scenarios">>} ELSE {}) \cup
  (UNION {ThreadErrors(c, t) : t \in c.threads}) \cup
  UNION {ScenarioReferenceErrors(c, s) \cup StressorResponseErrors(c, s) : s \in c.scenarios}

CatalogWarnings(c) ==
  {<<"evidence required", s.id>> :
     s \in {s \in c.scenarios :
              /\ s.evidence = {}
              /\ \E k \in c.criteria : k.id \in s.criteria /\ k.requires_evidence}}

IsValidCatalog(c) == CatalogErrors(c) = {}

ReadyScenarioIds(c) == IF IsValidCatalog(c) THEN Ids(c.scenarios) ELSE {}
==============================================================================
