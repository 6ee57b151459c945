------------------------------- MODULE Reporting -------------------------------
(***************************************************************************)
(* AssuranceReportGenerator.generate (reporting.py): whether a report can  *)
(* be generated, its overall result, and the severity of its sections.     *)
(* The lines of a section are wording and are left out.                    *)
(*                                                                         *)
(* The summary is taken as it was made; case, run and graph are looked at  *)
(* again.                                                                  *)
(***************************************************************************)
EXTENDS Verification

ReportSeverity == {"info", "warning", "error"}

SeverityFromResult(result) ==
  CASE result = "fail"                        -> "error"
    [] result \in {"inconclusive", "not_run"} -> "warning"
    [] result = "pass"                        -> "info"

SeverityOf(errors, warnings) == IF errors THEN "error" ELSE IF warnings THEN "warning" ELSE "info"

\* _validate_identity_alignment.
IdentityAligned(case, run, summary) ==
  /\ case.case_id = run.case_id
  /\ summary.case_id = run.case_id
  /\ summary.scenario_id = run.scenario_id
  /\ summary.run_id = run.run_id

OutcomeSeverity(result) ==
  SeverityOf(~result.expected_behavior_satisfied,
             result.operator_review_required \/ result.degraded_mode)

GapSeverity(case) ==
  SeverityOf(UnresolvedHazards(case) # {} \/ MissingEvidenceIds(case) # {},
             UnsupportedClaims(case) # {})

\* A failed claim is only a warning.
ClaimSeverity(case) ==
  SeverityOf(FALSE, \E k \in case.claims : RequiresFollowUp(k.result) \/ ~HasSupportPath(k))

CriteriaSeverity(summary) ==
  SeverityOf(\E c \in summary.checks : c.check_id[1] = "acceptance-criterion" /\ c.result = "fail",
             FALSE)

\* Faulty: only what the summary says of the bundle counts.
IntegritySeverityOnce(bundle) == "info"

IntegritySeverity(bundle) ==
  SeverityOf(IntegrityErrors(bundle) # {}, IntegrityWarnings(bundle) # {})

TraceCheckNames ==
  {"traceability-graph-present", "traceability-graph-valid", "scenario-to-claim-trace"}

TraceSeverity(summary, graph) ==
  LET checks == {c \in summary.checks : c.check_id[1] \in TraceCheckNames}
  IN  SeverityOf(\E c \in checks : c.result = "fail",
                 graph = {} \/ \E c \in checks : c.result \in {"inconclusive", "not_run"})

Sections(case, run, summary, graph) ==
  [executive_summary   |-> SeverityFromResult(summary.overall_result),
   runtime_outcome     |-> OutcomeSeverity(run.result),
   verification_checks |-> SeverityFromResult(summary.overall_result),
   assurance_gaps      |-> GapSeverity(case),
   claim_posture       |-> ClaimSeverity(case),
   acceptance_criteria |-> CriteriaSeverity(summary),
   evidence_integrity  |-> IntegritySeverity(run.bundle),
   traceability        |-> TraceSeverity(summary, graph)]

Report(case, run, summary, graph) ==
  [case_id |-> run.case_id, scenario_id |-> run.scenario_id, run_id |-> run.run_id,
   overall_result |-> summary.overall_result,
   sections |-> Sections(case, run, summary, graph)]

HasErrorSection(report) ==
  \E title \in DOMAIN report.sections : report.sections[title] = "error"
==============================================================================
