--------------------------- MODULE EvaluationProfile ---------------------------
(***************************************************************************)
(* The federal evaluation profile: what reviewers' concerns are mapped to  *)
(* (federal_evaluation_profile.py), its validation                         *)
(* (federal_evaluation_profile_validation.py) and the readiness of the     *)
(* layer (federal_evaluation_profile_readiness.py).                        *)
(*                                                                         *)
(* completed, artifacts and bundles are what the profile's author declares *)
(* to be there; only the declared bundles are looked up.  bounded stands   *)
(* for the words of the disclaimer.                                        *)
(***************************************************************************)
EXTENDS Readiness

CoreConcerns ==
  {"mission_traceability", "requirement_to_evidence", "hazard_control_closure",
   "bounded_runtime_action", "telemetry_replayability"}

BlocksAcceptance(status) == status \in {"blocked", "not_assessed"}

WellFormed(p) ==
  /\ p.mappings # {}
  /\ \A m, n \in p.mappings : m.id = n.id => m = n
  /\ \A m \in p.mappings : /\ m.capabilities # {} /\ m.artifacts # {}
                           /\ m.expectation = "required" => m.evidence # {}

MissingCapabilities(p, m) == m.capabilities \ p.completed
MissingArtifacts(p, m) == m.artifacts \ p.artifacts
MissingEvidence(p, m) == IF m.expectation = "required" THEN m.evidence \ p.bundles ELSE {}

Missing(p, m) == MissingCapabilities(p, m) \cup MissingArtifacts(p, m) \cup MissingEvidence(p, m)

BlockedMappings(p) == {m \in p.mappings : BlocksAcceptance(m.status) \/ Missing(p, m) # {}}

ConcernFindings(p) ==
  Blockers("missing concern", CoreConcerns \ {m.concern : m \in p.mappings})

MappingFindings(p) ==
  LET core == {m \in p.mappings : m.concern \in CoreConcerns}
  IN  Blockers("mapping blocked", {m.id : m \in BlockedMappings(p)}) \cup
      Warnings("partial", {m.id : m \in {n \in p.mappings : n.status = "partial"}}) \cup
      Blockers("core without evidence", {m.id : m \in {n \in core : n.evidence = {}}})

\* can_support_evaluation_package repeats the blocked mappings and the disclaimer.
ProfileFindings(p, store) ==
  ConcernFindings(p) \cup MappingFindings(p) \cup BundleFindings(p.bundles, store) \cup
  Blockers("disclaimer weak", Whenever(~p.bounded))

ProfileReadiness(p, store) ==
  LET findings == ProfileFindings(p, store)
  IN  LayerReport("federal_evaluation_profile", LayerDecision(findings), findings)
==============================================================================
