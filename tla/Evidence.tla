------------------------------- MODULE Evidence ------------------------------
(***************************************************************************)
(* Evidence records and bundles (evidence.py): what a hash covers, what    *)
(* with_computed_hashes and the JSON form do to a stored hash, and what    *)
(* validate_integrity reports.                                             *)
(*                                                                         *)
(* A record's content stands for its kind, source, payload, author and     *)
(* tags; a bundle's scope for its case, scenario and author.               *)
(***************************************************************************)
EXTENDS Contracts, Sequences

\* sha256_canonical_json.  The digest of canonical JSON is the tagged material itself: two
\* digests are equal exactly when what was hashed is.  Collisions are outside the model.
Sha256(material) == <<"sha256", material>>

RecordMaterial(r) ==
  [evidence_id |-> r.evidence_id, content |-> r.content, status |-> r.status]

CalculateContentHash(r) == Sha256(RecordMaterial(r))

HasValidContentHash(r) == r.content_hash = {CalculateContentHash(r)}

RecordWithComputedHash(r) == [r EXCEPT !.content_hash = {CalculateContentHash(r)}]

RecordsWithComputedHashes(records) ==
  [i \in DOMAIN records |-> RecordWithComputedHash(records[i])]

\* A record has exactly the fields of EvidenceRecord.
IsRecord(r) ==
  /\ r = [evidence_id |-> r.evidence_id, content |-> r.content,
          status |-> r.status, content_hash |-> r.content_hash]
  /\ r.status \in EvidenceStatus

\* Faulty: the bundle hash covers the ids of its records only.
BundleMaterialByIds(b) ==
  [bundle_id |-> b.bundle_id,
   scope     |-> b.scope,
   records   |-> [i \in DOMAIN b.records |-> b.records[i].evidence_id]]

\* The stored hash of a record is not part of what the bundle hash covers: every
\* record enters with its hash computed afresh.
BundleMaterial(b) ==
  [bundle_id |-> b.bundle_id,
   scope     |-> b.scope,
   records   |-> RecordsWithComputedHashes(b.records)]

CalculateBundleHash(b) == Sha256(BundleMaterial(b))

HasValidBundleHash(b) == b.bundle_hash = {CalculateBundleHash(b)}

BundleWithComputedHashes(b) ==
  [b EXCEPT !.records = RecordsWithComputedHashes(@),
            !.bundle_hash = {CalculateBundleHash(b)}]

\* Faulty: an empty bundle is accepted.
DistinctRecords(records) ==
  \A i, j \in DOMAIN records : records[i].evidence_id = records[j].evidence_id => i = j

\* __post_init__ refuses an empty bundle and one that repeats an evidence id.
WellFormedRecords(records) ==
  /\ records # << >>
  /\ \A i, j \in DOMAIN records :
       records[i].evidence_id = records[j].evidence_id => i = j

\* What the constructors of EvidenceRecord and EvidenceBundle accept.
Constructed(b) ==
  /\ b = [bundle_id |-> b.bundle_id, scope |-> b.scope,
          records |-> b.records, bundle_hash |-> b.bundle_hash]
  /\ b.records = [i \in DOMAIN b.records |-> b.records[i]]
  /\ \A i \in DOMAIN b.records : IsRecord(b.records[i])
  /\ WellFormedRecords(b.records)

\* Faulty: to_dict computes every hash.
BundleToDictRehashing(b) == BundleWithComputedHashes(b)

\* to_dict writes a computed hash where none is stored, load_evidence_bundle
\* reads the fields back as they are.
BundleToDictAndLoad(b) ==
  [b EXCEPT
     !.records = [i \in DOMAIN b.records |->
                    IF b.records[i].content_hash = {}
                    THEN RecordWithComputedHash(b.records[i])
                    ELSE b.records[i]],
     !.bundle_hash = IF @ = {} THEN {CalculateBundleHash(b)} ELSE @]

------------------------------------------------------------------------------
(* validate_integrity: a finding is a pair of its kind and the record's     *)
(* place, 0 for the bundle itself.                                         *)

Findings(kind, places) == {<<kind, i>> : i \in places}

MismatchedRecords(b) ==
  {i \in DOMAIN b.records : /\ b.records[i].content_hash # {}
                            /\ ~HasValidContentHash(b.records[i])}

InvalidRecords(b) == {i \in DOMAIN b.records : b.records[i].status = "invalid"}

UnhashedRecords(b) == {i \in DOMAIN b.records : b.records[i].content_hash = {}}

UnusableRecords(b) ==
  {i \in DOMAIN b.records :
     ~IsUsable(b.records[i].status) /\ b.records[i].status # "invalid"}

StaleRecords(b) == {i \in DOMAIN b.records : b.records[i].status = "stale"}

\* Faulty: the bundle hash is not compared.
RecordIntegrityErrors(b) ==
  Findings("content hash mismatch", MismatchedRecords(b)) \cup
  Findings("marked invalid", InvalidRecords(b))

IntegrityErrors(b) ==
  Findings("content hash mismatch", MismatchedRecords(b)) \cup
  Findings("marked invalid", InvalidRecords(b)) \cup
  Findings("bundle hash mismatch",
           IF b.bundle_hash # {} /\ ~HasValidBundleHash(b) THEN {0} ELSE {})

MissingHashWarnings(b) ==
  Findings("no content hash", UnhashedRecords(b)) \cup
  Findings("no bundle hash", IF b.bundle_hash = {} THEN {0} ELSE {})

StatusWarnings(b) == Findings("non-usable status", UnusableRecords(b))

IntegrityWarnings(b) == MissingHashWarnings(b) \cup StatusWarnings(b)
==============================================================================
