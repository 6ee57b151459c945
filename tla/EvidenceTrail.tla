---------------------------- MODULE EvidenceTrail ----------------------------
(***************************************************************************)
(* Evidence bundles on file and the run ledger that records them           *)
(* (evidence.py, RunLedger.append_evidence_bundle).  A bundle is produced  *)
(* with its hashes, saved and loaded, re-hashed, damaged by other tools,   *)
(* and recorded: the ledger entry keeps the hash the bundle has after it   *)
(* was hashed afresh, whatever hash was stored in it.                      *)
(***************************************************************************)
EXTENDS LedgerChain

CONSTANTS
  BundleIds,
  EvidenceIds,
  Contents,
  Scope,         \* the case and scenario of every bundle
  RunIds,
  MaxRecords,    \* bound on the records of a bundle
  MaxEntries,    \* bound on the ledger
  MaxDamage      \* bound on damage steps

ASSUME TrailBoundsAssumption ==
  /\ MaxRecords \in Nat \ {0}
  /\ MaxEntries \in Nat
  /\ MaxDamage \in Nat

VARIABLES
  file,          \* the bundle on file, if any
  ledger,        \* the entries of the run ledger
  recorded,      \* recorded[i]: the bundle entry i was made from (history)
  damage         \* number of damage steps so far

vars == <<file, ledger, recorded, damage>>

------------------------------------------------------------------------------
NewRecord(id, content) ==
  [evidence_id |-> id, content |-> content, status |-> "accepted", content_hash |-> {}]

\* The distinct ids a new bundle can carry, in order.
IdSequences ==
  {ids \in UNION {[1..n -> EvidenceIds] : n \in 1..MaxRecords} :
     \A i, j \in DOMAIN ids : ids[i] = ids[j] => i = j}

NewBundle(id, ids, content) ==
  BundleWithComputedHashes(
    [bundle_id   |-> id,
     scope       |-> Scope,
     records     |-> [i \in DOMAIN ids |-> NewRecord(ids[i], content)],
     bundle_hash |-> {}])

\* The body append_evidence_bundle gives its entry.
BundleBody(b) ==
  LET hashed == BundleWithComputedHashes(b)
  IN  [record_type   |-> "evidence_bundle",
       artifact_id   |-> hashed.bundle_id,
       scope         |-> hashed.scope,
       artifact_hash |-> IF hashed.bundle_hash = {} THEN {CalculateBundleHash(hashed)}
                                                    ELSE hashed.bundle_hash,
       record_ids    |-> [i \in DOMAIN hashed.records |-> hashed.records[i].evidence_id]]

------------------------------------------------------------------------------
Init ==
  /\ file = {}
  /\ ledger = << >>
  /\ recorded = << >>
  /\ damage = 0

\* A runtime component builds a bundle and hashes it.
Produce(id, ids, content) ==
  /\ file' = {NewBundle(id, ids, content)}
  /\ UNCHANGED <<ledger, recorded, damage>>

\* to_dict, and load_evidence_bundle.
SaveAndLoad ==
  \E b \in file :
    /\ file' = {BundleToDictAndLoad(b)}
    /\ UNCHANGED <<ledger, recorded, damage>>

\* with_computed_hashes.
Rehash ==
  \E b \in file :
    /\ file' = {BundleWithComputedHashes(b)}
    /\ UNCHANGED <<ledger, recorded, damage>>

\* append_evidence_bundle.  The entry id is the bundle's: nothing makes it unique.
Record(run) ==
  \E b \in file :
    /\ Len(ledger) < MaxEntries
    /\ ledger' = Append(ledger, NewEntry(ledger, b.bundle_id, BundleBody(b), run))
    /\ recorded' = Append(recorded, b)
    /\ UNCHANGED <<file, damage>>

Damage(b) ==
  /\ damage < MaxDamage
  /\ damage' = damage + 1
  /\ file' = {b}
  /\ UNCHANGED <<ledger, recorded>>

\* A record's content or status changes, and no hash with it.
EditRecord(i, content, status) ==
  \E b \in file :
    /\ i \in DOMAIN b.records
    /\ <<content, status>> # <<b.records[i].content, b.records[i].status>>
    /\ Damage([b EXCEPT !.records[i] = [@ EXCEPT !.content = content, !.status = status]])

StripContentHash(i) ==
  \E b \in file :
    /\ i \in DOMAIN b.records
    /\ b.records[i].content_hash # {}
    /\ Damage([b EXCEPT !.records[i].content_hash = {}])

StripBundleHash ==
  \E b \in file :
    /\ b.bundle_hash # {}
    /\ Damage([b EXCEPT !.bundle_hash = {}])

\* A record is lost; the loader refuses a bundle without records.
DropRecord(i) ==
  \E b \in file :
    LET rest == SubSeq(b.records, 1, i - 1) \o SubSeq(b.records, i + 1, Len(b.records))
    IN  /\ i \in DOMAIN b.records
        /\ WellFormedRecords(rest)
        /\ Damage([b EXCEPT !.records = rest])

DamageStep ==
  \/ StripBundleHash
  \/ \E i \in 1..MaxRecords :
       \/ \E content \in Contents, status \in EvidenceStatus :
            EditRecord(i, content, status)
       \/ StripContentHash(i)
       \/ DropRecord(i)

Next ==
  \/ \E id \in BundleIds, ids \in IdSequences, content \in Contents :
       Produce(id, ids, content)
  \/ SaveAndLoad
  \/ Rehash
  \/ \E run \in Optional(RunIds) : Record(run)
  \/ DamageStep

Spec == Init /\ [][Next]_vars

------------------------------------------------------------------------------
\* validate_integrity has nothing to say about the hashes of b.
Untouched(b) == IntegrityErrors(b) = {} /\ MissingHashWarnings(b) = {}

\* There is at most one bundle on file, with records that have distinct ids and a
\* known status, and the ledger has one entry per recorded bundle.
TypeOK ==
  /\ file = {} \/ \E b \in file : file = {b}
  /\ \A b \in file :
       /\ DOMAIN b.records = 1..Len(b.records)
       /\ Len(b.records) \in 1..MaxRecords
       /\ \A i, j \in DOMAIN b.records :
            b.records[i].evidence_id = b.records[j].evidence_id => i = j
       /\ \A i \in DOMAIN b.records : b.records[i].status \in EvidenceStatus
  /\ Len(ledger) = Len(recorded)
  /\ Len(ledger) \in 0..MaxEntries
  /\ damage \in 0..MaxDamage

\* A bundle whose hash the ledger recorded is the bundle that was recorded, record
\* by record, however it was edited, stripped, saved, loaded and hashed again: a
\* rewritten bundle passes validate_integrity after a re-hash, but it no longer
\* matches any entry.
LedgerRefutesRewrittenBundle ==
  \A b \in file : \A i \in 1..Len(ledger) :
    /\ Untouched(b)
    /\ ledger[i].body.artifact_hash = b.bundle_hash
    => b = BundleWithComputedHashes(recorded[i])

\* Damage to a bundle that validated cleanly is reported by the next
\* validate_integrity, and as an error whenever a record changed or was lost.
DamageIsReported ==
  [][\A b \in file, c \in file' :
       Untouched(b) /\ DamageStep =>
         /\ ~Untouched(c)
         /\ BundleMaterial(c) # BundleMaterial(b) => IntegrityErrors(c) # {}]_vars

\* Saving and loading a bundle neither hides nor invents an integrity error, even
\* when to_dict fills in the hashes that are missing.
SaveAndLoadKeepsErrors ==
  [][\A b \in file, c \in file' :
       SaveAndLoad => IntegrityErrors(c) = IntegrityErrors(b)]_vars
==============================================================================
