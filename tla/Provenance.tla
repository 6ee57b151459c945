------------------------------ MODULE Provenance ------------------------------
(***************************************************************************)
(* Provenance manifests: digests of artifacts, who signed them and what    *)
(* was attested (provenance.py), the verification of a manifest under a    *)
(* policy (provenance_verifier.py) and the readiness of the layer          *)
(* (provenance_readiness.py).  No digest is compared with the artifact and *)
(* no signature is computed: a signature carries its status.               *)
(***************************************************************************)
EXTENDS Readiness

IsAuditArtifact(type) == type # "model_card"
IsExternalAssuranceGrade(algorithm) ==
  algorithm \in {"ed25519", "ecdsa_p256_sha256", "rsa_pss_sha256"}
CanSupportAuthorityClaim(role) ==
  role \in {"system_owner", "human_reviewer", "governance_authority"}
SupportsExternalReview(trust) ==
  trust \in {"signed_by_identified_key", "external_attestation_ready"}

SupportsSignedClaim(signature) ==
  signature.status = "verified" /\ IsExternalAssuranceGrade(signature.algorithm)

IdsOf(records) == {r.id : r \in records}

\* What the constructors of signatures, signers and the manifest refuse; no two
\* digests are of one artifact.
WellFormed(m) ==
  /\ m.digests # {}
  /\ \A records \in {m.digests, m.signers, m.signatures, m.attestations} :
       \A x, y \in records : x.id = y.id => x = y
  /\ \A d, e \in m.digests : d.artifact = e.artifact => d = e
  /\ \A s \in m.signatures : /\ s.algorithm = "unsigned" <=> s.status = "unsigned"
                             /\ s.digest \in IdsOf(m.digests)
                             /\ s.signer \in IdsOf(m.signers)
  /\ \A s \in m.signers : ~(s.trust = "external_attestation_ready" /\ s.role = "build_system")
  /\ \A a \in m.attestations : /\ a.subjects # {} /\ a.digests # {}
                               /\ a.subjects \subseteq {d.artifact : d \in m.digests}
                               /\ a.digests \subseteq IdsOf(m.digests)
                               /\ a.signatures \subseteq IdsOf(m.signatures)

------------------------------------------------------------------------------
(* ProvenanceManifestVerifier *)

\* The policy when none is given.
StrictPolicy ==
  [external_signatures |-> TRUE, signed_attestations |-> TRUE,
   attestation_per_artifact |-> TRUE, authority_signer |-> TRUE]

\* _unsigned_artifact_severity
Unsigned(policy, kind, offending) ==
  IF policy.external_signatures THEN Blockers(kind, offending) ELSE Warnings(kind, offending)

SignaturesFor(m, digest) == {s \in m.signatures : s.digest = digest.id}

HasSignedClaim(m, digest) == \E s \in SignaturesFor(m, digest) : SupportsSignedClaim(s)

CoverageFindings(m, policy) ==
  Unsigned(policy, "no verified signature",
           {d.artifact : d \in {e \in m.digests : ~HasSignedClaim(m, e)}})

SignerOf(m, signature) == CHOOSE s \in m.signers : s.id = signature.signer
DigestOf(m, signature) == CHOOSE d \in m.digests : d.id = signature.digest

\* Every signature is looked at, also those beside a verified one.
SignatureFindings(m, policy) ==
  LET Those(P(_)) == IdsOf({s \in m.signatures : P(s)})
      Broken(s)   == s.status \in {"failed", "expired", "key_untrusted"}
      Pending(s)  == s.status \in {"unsigned", "unverified"}
      Weak(s)     == ~IsExternalAssuranceGrade(s.algorithm)
      Doubtful(s) == ~SupportsExternalReview(SignerOf(m, s).trust)
      Outranked(s) == /\ policy.authority_signer
                      /\ IsAuditArtifact(DigestOf(m, s).type)
                      /\ ~CanSupportAuthorityClaim(SignerOf(m, s).role)
  IN  Blockers("signature broken", Those(Broken)) \cup
      Unsigned(policy, "signature pending", Those(Pending)) \cup
      Unsigned(policy, "not external grade", Those(Weak)) \cup
      Unsigned(policy, "signer trust", Those(Doubtful)) \cup
      Warnings("non-authority role", Those(Outranked))

\* Signed attestations are required unless the policy says otherwise.
Unattested(policy, kind, offending) ==
  IF policy.signed_attestations THEN Blockers(kind, offending) ELSE Warnings(kind, offending)

AttestationFindings(m, policy) ==
  LET Backed(a) == \E s \in m.signatures : s.id \in a.signatures /\ SupportsSignedClaim(s)
      attested  == UNION {a.digests : a \in m.attestations}
  IN  Blockers("no attestations", Whenever(policy.signed_attestations /\ m.attestations = {})) \cup
      Unattested(policy, "artifact without attestation",
                 {d.artifact : d \in {e \in m.digests : /\ policy.attestation_per_artifact
                                                        /\ e.id \notin attested}}) \cup
      Blockers("attestation not signed",
               IdsOf({a \in m.attestations : policy.signed_attestations /\ ~Backed(a)}))

ManifestFindings(m, policy) ==
  CoverageFindings(m, policy) \cup SignatureFindings(m, policy) \cup
  AttestationFindings(m, policy)

ProvenanceFindings(m, policy) ==
  Blockers("no audit artifacts",
           Whenever(\A d \in m.digests : ~IsAuditArtifact(d.type))) \cup
  ManifestFindings(m, policy)

ProvenanceReadiness(m, policy) ==
  LET findings == ProvenanceFindings(m, policy)
  IN  LayerReport("signed_provenance", LayerDecision(findings), findings)
==============================================================================
