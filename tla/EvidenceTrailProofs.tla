------------------------- MODULE EvidenceTrailProofs -------------------------
(***************************************************************************)
(* What the hashes of evidence bundles and the ledger's record of them     *)
(* prove, for any number of records, entries and damage steps.             *)
(***************************************************************************)
EXTENDS EvidenceTrail, SequenceTheorems, TLAPS

\* A sequence, of whatever elements.
IsSequence(s) == Len(s) \in Nat /\ s = [i \in 1..Len(s) |-> s[i]]

\* What __post_init__ accepts as the records of a bundle.
IsRecords(records) ==
  /\ IsSequence(records)
  /\ Len(records) \in 1..MaxRecords
  /\ \A i \in 1..Len(records) : IsRecord(records[i])
  /\ \A i, j \in 1..Len(records) :
       records[i].evidence_id = records[j].evidence_id => i = j

\* A bundle has exactly the fields of EvidenceBundle.
IsBundle(b) ==
  /\ b = [bundle_id |-> b.bundle_id, scope |-> b.scope,
          records |-> b.records, bundle_hash |-> b.bundle_hash]
  /\ IsRecords(b.records)

------------------------------------------------------------------------------
(* Sequences.                                                              *)

\* A sequence is one over every set that holds its elements.
LEMMA SequenceIsSeq ==
  ASSUME NEW s, IsSequence(s), NEW S, \A i \in 1..Len(s) : s[i] \in S
  PROVE  s \in Seq(S)
  BY SeqDef DEF IsSequence

\* And a sequence over any set is one.
LEMMA SeqIsSequence ==
  ASSUME NEW S, NEW s \in Seq(S)
  PROVE  IsSequence(s) /\ DOMAIN s = 1..Len(s)
  BY LenProperties DEF IsSequence

\* A function on 1..n is a sequence of length n.
LEMMA FunctionIsSequence ==
  ASSUME NEW n \in Nat, NEW f, f = [i \in 1..n |-> f[i]]
  PROVE  IsSequence(f) /\ Len(f) = n /\ DOMAIN f = 1..n
<1> DEFINE S == {f[i] : i \in 1..n}
<1>1. f \in [1..n -> S]
  OBVIOUS
<1>2. f \in Seq(S)
  BY <1>1, SeqDef
<1>3. Len(f) \in Nat /\ 1..Len(f) = 1..n
  BY <1>1, <1>2, LenProperties
<1>4. Len(f) = n
  BY <1>3
<1> QED BY <1>4 DEF IsSequence

\* Append keeps the elements there are and adds one.
LEMMA AppendedSequence ==
  ASSUME NEW s, IsSequence(s), NEW e
  PROVE  /\ IsSequence(Append(s, e))
         /\ Len(Append(s, e)) = Len(s) + 1
         /\ \A i \in 1..Len(s) : Append(s, e)[i] = s[i]
         /\ Append(s, e)[Len(s) + 1] = e
<1> DEFINE S == {s[i] : i \in 1..Len(s)} \cup {e}
<1>1. s \in Seq(S)
  BY SequenceIsSeq
<1>2. /\ Append(s, e) \in Seq(S)
      /\ Len(Append(s, e)) = Len(s) + 1
      /\ \A i \in 1..Len(s) : Append(s, e)[i] = s[i]
      /\ Append(s, e)[Len(s) + 1] = e
  BY <1>1, AppendProperties
<1>3. IsSequence(Append(s, e))
  BY <1>2, SeqIsSequence
<1> QED BY <1>2, <1>3

\* What is left of a sequence without its i-th element.
Without(s, i) == SubSeq(s, 1, i - 1) \o SubSeq(s, i + 1, Len(s))

\* The elements after the one that is lost move up by one place.
LEMMA ShortenedSequence ==
  ASSUME NEW s, IsSequence(s), NEW i \in 1..Len(s)
  PROVE  /\ IsSequence(Without(s, i))
         /\ Len(Without(s, i)) = Len(s) - 1
         /\ \A j \in 1..(Len(s) - 1) : Without(s, i)[j] = IF j < i THEN s[j] ELSE s[j + 1]
<1> DEFINE S    == {s[j] : j \in 1..Len(s)}
           head == SubSeq(s, 1, i - 1)
           tail == SubSeq(s, i + 1, Len(s))
<1>1. Len(s) \in Nat /\ i \in Int /\ i - 1 \in Int /\ i + 1 \in Int
  BY DEF IsSequence
<1>2. /\ head \in Seq(S) /\ Len(head) = i - 1
      /\ \A j \in 1..(i - 1) : head[j] = s[j]
  <2>1. \A j \in 1..(i - 1) : s[j] \in S
    BY <1>1
  <2>2. /\ head \in Seq(S)
        /\ Len(head) = IF 1 <= i - 1 THEN (i - 1) - 1 + 1 ELSE 0
        /\ \A j \in 1..((i - 1) - 1 + 1) : head[j] = s[1 + j - 1]
    BY <1>1, <2>1, SubSeqProperties
  <2> HIDE DEF head, S
  <2> QED BY <1>1, <2>2, SMTT(30)
<1>3. /\ tail \in Seq(S) /\ Len(tail) = Len(s) - i
      /\ \A j \in 1..(Len(s) - i) : tail[j] = s[i + j]
  <2>1. \A j \in (i + 1)..Len(s) : s[j] \in S
    BY <1>1
  <2>2. /\ tail \in Seq(S)
        /\ Len(tail) = IF i + 1 <= Len(s) THEN Len(s) - (i + 1) + 1 ELSE 0
        /\ \A j \in 1..(Len(s) - (i + 1) + 1) : tail[j] = s[(i + 1) + j - 1]
    BY <1>1, <2>1, SubSeqProperties
  <2> HIDE DEF tail, S
  <2> QED BY <1>1, <2>2
<1> HIDE DEF head, tail
<1>4. /\ head \o tail \in Seq(S)
      /\ Len(head \o tail) = Len(head) + Len(tail)
      /\ \A j \in 1..Len(head) + Len(tail) :
           (head \o tail)[j] = IF j <= Len(head) THEN head[j] ELSE tail[j - Len(head)]
  BY <1>2, <1>3, ConcatProperties
<1> DEFINE r == head \o tail
<1> HIDE DEF r, S
<1>5. Len(r) = Len(s) - 1
  BY <1>1, <1>2, <1>3, <1>4 DEF r
<1>6. ASSUME NEW j \in 1..(Len(s) - 1) PROVE r[j] = IF j < i THEN s[j] ELSE s[j + 1]
  <2>1. r[j] = IF j <= i - 1 THEN head[j] ELSE tail[j - (i - 1)]
    BY <1>1, <1>2, <1>3, <1>4 DEF r
  <2>2. CASE j < i
    BY <1>1, <1>2, <2>1, <2>2
  <2>3. CASE ~(j < i)
    <3>1. j - (i - 1) \in 1..(Len(s) - i) /\ i + (j - (i - 1)) = j + 1
      BY <1>1, <2>3
    <3> QED BY <1>1, <1>3, <2>1, <2>3, <3>1
  <2> QED BY <2>2, <2>3
<1>7. IsSequence(r)
  BY <1>4, SeqIsSequence DEF r
<1> QED BY <1>5, <1>6, <1>7 DEF Without, r, head, tail

------------------------------------------------------------------------------
(* Hashes.                                                                 *)

\* Equal digests are digests of the same material.
LEMMA HashIsInjective ==
  ASSUME NEW x, NEW y, Sha256(x) = Sha256(y)
  PROVE  x = y
<1>1. <<"sha256", x>>[2] = x /\ <<"sha256", y>>[2] = y
  OBVIOUS
<1> QED BY <1>1 DEF Sha256

\* Hashing a record changes its hash only, and the hash does not cover itself.
LEMMA HashedRecord ==
  ASSUME NEW r, IsRecord(r)
  PROVE  LET h == RecordWithComputedHash(r) IN
         /\ IsRecord(h)
         /\ RecordMaterial(h) = RecordMaterial(r)
         /\ h.content_hash = {CalculateContentHash(r)}
         /\ RecordWithComputedHash(h) = h
<1> DEFINE x == {CalculateContentHash(r)}
           h == [r EXCEPT !.content_hash = x]
<1>1. /\ h = [evidence_id |-> r.evidence_id, content |-> r.content,
              status |-> r.status, content_hash |-> x]
      /\ IsRecord(h)
      /\ RecordMaterial(h) = RecordMaterial(r)
      /\ h.content_hash = x
  <2> HIDE DEF x
  <2> QED BY DEF IsRecord, RecordMaterial
<1>2. RecordWithComputedHash(h) = h
  <2>1. RecordWithComputedHash(h) = [h EXCEPT !.content_hash = x]
    BY <1>1 DEF RecordWithComputedHash, CalculateContentHash
  <2> HIDE DEF x
  <2> QED BY <1>1, <2>1
<1> HIDE DEF h
<1> QED BY <1>1, <1>2 DEF RecordWithComputedHash, h

\* Hashing every record of a bundle hashes each, and doing it twice changes nothing.
LEMMA HashedRecords ==
  ASSUME NEW records, IsRecords(records)
  PROVE  LET hashed == RecordsWithComputedHashes(records) IN
         /\ IsRecords(hashed)
         /\ DOMAIN records = 1..Len(records)
         /\ Len(hashed) = Len(records)
         /\ \A i \in 1..Len(records) : hashed[i] = RecordWithComputedHash(records[i])
         /\ RecordsWithComputedHashes(hashed) = hashed
<1> DEFINE n == Len(records)
           hashed == RecordsWithComputedHashes(records)
<1>1. n \in Nat /\ DOMAIN records = 1..n
  BY DEF IsRecords, IsSequence
<1>2. hashed = [i \in 1..n |-> RecordWithComputedHash(records[i])]
  BY <1>1 DEF RecordsWithComputedHashes
<1> HIDE DEF hashed
<1>3. IsSequence(hashed) /\ Len(hashed) = n /\ DOMAIN hashed = 1..n
  <2>1. hashed = [i \in 1..n |-> hashed[i]]
    BY <1>2
  <2> QED BY <1>1, <2>1, FunctionIsSequence
<1>4. ASSUME NEW i \in 1..n
      PROVE  /\ IsRecord(hashed[i])
             /\ hashed[i] = RecordWithComputedHash(records[i])
             /\ hashed[i].evidence_id = records[i].evidence_id
             /\ RecordWithComputedHash(hashed[i]) = hashed[i]
  <2>1. hashed[i] = RecordWithComputedHash(records[i]) /\ IsRecord(records[i])
    BY <1>2 DEF IsRecords
  <2>2. /\ IsRecord(hashed[i])
        /\ RecordMaterial(hashed[i]) = RecordMaterial(records[i])
        /\ RecordWithComputedHash(hashed[i]) = hashed[i]
    BY <2>1, HashedRecord
  <2>3. hashed[i].evidence_id = records[i].evidence_id
    BY <2>2 DEF RecordMaterial
  <2> QED BY <2>1, <2>2, <2>3
<1>5. IsRecords(hashed)
  <2>1. \A i, j \in 1..n : hashed[i].evidence_id = hashed[j].evidence_id => i = j
    BY <1>4 DEF IsRecords
  <2> QED BY <1>3, <1>4, <2>1 DEF IsRecords
<1>6. RecordsWithComputedHashes(hashed) = hashed
  BY <1>3, <1>4 DEF RecordsWithComputedHashes, IsSequence
<1> QED BY <1>1, <1>3, <1>4, <1>5, <1>6 DEF hashed

\* with_computed_hashes covers the same material, and doing it twice changes nothing.
LEMMA HashedBundle ==
  ASSUME NEW b, IsBundle(b)
  PROVE  LET h == BundleWithComputedHashes(b) IN
         /\ h = [bundle_id |-> b.bundle_id, scope |-> b.scope,
                 records |-> RecordsWithComputedHashes(b.records),
                 bundle_hash |-> {CalculateBundleHash(b)}]
         /\ IsBundle(h)
         /\ BundleMaterial(h) = BundleMaterial(b)
<1> DEFINE rs == RecordsWithComputedHashes(b.records)
           x  == {CalculateBundleHash(b)}
           h  == [bundle_id |-> b.bundle_id, scope |-> b.scope, records |-> rs, bundle_hash |-> x]
<1>1. BundleWithComputedHashes(b) = h
  <2>1. BundleWithComputedHashes(b) = [b EXCEPT !.records = rs, !.bundle_hash = x]
    BY DEF BundleWithComputedHashes
  <2> HIDE DEF rs, x
  <2> QED BY <2>1 DEF IsBundle
<1>2. IsRecords(rs) /\ RecordsWithComputedHashes(rs) = rs
  BY HashedRecords DEF IsBundle
<1> HIDE DEF rs, x
<1>3. IsBundle(h)
  BY <1>2 DEF IsBundle
<1>4. BundleMaterial(h) = BundleMaterial(b)
  BY <1>2 DEF BundleMaterial, rs
<1> QED BY <1>1, <1>3, <1>4 DEF rs, x

\* Equal materials are those of bundles that are the same once they are hashed.
LEMMA MaterialIsTheBundle ==
  ASSUME NEW b, IsBundle(b), NEW c, IsBundle(c), BundleMaterial(b) = BundleMaterial(c)
  PROVE  BundleWithComputedHashes(b) = BundleWithComputedHashes(c)
<1>1. /\ b.bundle_id = c.bundle_id
      /\ b.scope = c.scope
      /\ RecordsWithComputedHashes(b.records) = RecordsWithComputedHashes(c.records)
  BY DEF BundleMaterial
<1>2. CalculateBundleHash(b) = CalculateBundleHash(c)
  BY DEF CalculateBundleHash
<1> QED BY <1>1, <1>2, HashedBundle

\* A bundle about whose hashes validate_integrity has nothing to say is as hashed.
LEMMA UntouchedIsHashed ==
  ASSUME NEW b, IsBundle(b), Untouched(b)
  PROVE  /\ b.bundle_hash = {CalculateBundleHash(b)}
         /\ \A i \in 1..Len(b.records) :
              b.records[i].content_hash = {CalculateContentHash(b.records[i])}
         /\ BundleWithComputedHashes(b) = b
<1> DEFINE n == Len(b.records)
<1>1. DOMAIN b.records = 1..n
  BY HashedRecords DEF IsBundle
<1>2. b.bundle_hash = {CalculateBundleHash(b)}
  BY DEF Untouched, IntegrityErrors, MissingHashWarnings, Findings, HasValidBundleHash
<1>3. ASSUME NEW i \in 1..n
      PROVE  b.records[i].content_hash = {CalculateContentHash(b.records[i])}
  <2>1. i \notin MismatchedRecords(b)
    BY DEF Untouched, IntegrityErrors, Findings
  <2>2. i \notin UnhashedRecords(b)
    BY DEF Untouched, MissingHashWarnings, Findings
  <2> QED BY <1>1, <2>1, <2>2 DEF MismatchedRecords, UnhashedRecords, HasValidContentHash
<1>4. RecordsWithComputedHashes(b.records) = b.records
  <2>1. ASSUME NEW i \in 1..n PROVE RecordWithComputedHash(b.records[i]) = b.records[i]
    <3> DEFINE r == b.records[i]
               x == {CalculateContentHash(r)}
    <3>1. r.content_hash = x /\ IsRecord(r)
      BY <1>3 DEF IsBundle, IsRecords
    <3>2. RecordWithComputedHash(r) = [r EXCEPT !.content_hash = x]
      BY DEF RecordWithComputedHash
    <3> HIDE DEF r, x
    <3>3. RecordWithComputedHash(r) = r
      BY <3>1, <3>2 DEF IsRecord
    <3> QED BY <3>3 DEF r
  <2>2. b.records = [i \in 1..n |-> b.records[i]]
    BY DEF IsBundle, IsRecords, IsSequence
  <2> QED BY <1>1, <2>1, <2>2 DEF RecordsWithComputedHashes
<1>5. BundleWithComputedHashes(b) = b
  BY <1>2, <1>4, HashedBundle DEF IsBundle
<1> QED BY <1>2, <1>3, <1>5

------------------------------------------------------------------------------
(* Types.                                                                  *)

\* One record of a bundle is replaced by another with the same id.
LEMMA PatchedBundle ==
  ASSUME NEW b, IsBundle(b), NEW i \in 1..Len(b.records),
         NEW r, IsRecord(r), r.evidence_id = b.records[i].evidence_id
  PROVE  LET c == [b EXCEPT !.records = [@ EXCEPT ![i] = r]] IN
         /\ IsBundle(c)
         /\ c.bundle_hash = b.bundle_hash
         /\ c.bundle_id = b.bundle_id /\ c.scope = b.scope
         /\ Len(c.records) = Len(b.records)
         /\ \A j \in 1..Len(b.records) : c.records[j] = IF j = i THEN r ELSE b.records[j]
<1> DEFINE n  == Len(b.records)
           rs == [b.records EXCEPT ![i] = r]
           c  == [b EXCEPT !.records = rs]
<1>1. n \in Nat /\ b.records = [j \in 1..n |-> b.records[j]]
  BY DEF IsBundle, IsRecords, IsSequence
<1>2. rs = [j \in 1..n |-> IF j = i THEN r ELSE b.records[j]]
  BY <1>1
<1> HIDE DEF rs
<1>3. IsSequence(rs) /\ Len(rs) = n
  <2>1. rs = [j \in 1..n |-> rs[j]]
    BY <1>2
  <2> QED BY <1>1, <2>1, FunctionIsSequence
<1>4. IsRecords(rs)
  <2>1. \A j \in 1..n : IsRecord(rs[j]) /\ rs[j].evidence_id = b.records[j].evidence_id
    BY <1>2 DEF IsBundle, IsRecords
  <2> QED BY <1>3, <2>1 DEF IsBundle, IsRecords
<1>5. c = [bundle_id |-> b.bundle_id, scope |-> b.scope, records |-> rs,
           bundle_hash |-> b.bundle_hash]
  BY DEF IsBundle
<1>6. IsBundle(c)
  BY <1>4, <1>5 DEF IsBundle
<1> HIDE DEF c
<1> QED BY <1>2, <1>3, <1>5, <1>6 DEF c, rs

\* A new bundle.
LEMMA ProducedBundle ==
  ASSUME NEW id, NEW ids \in IdSequences, NEW content
  PROVE  IsBundle(NewBundle(id, ids, content))
<1> DEFINE rs == [i \in DOMAIN ids |-> NewRecord(ids[i], content)]
           b  == [bundle_id |-> id, scope |-> Scope, records |-> rs, bundle_hash |-> {}]
<1>1. PICK n \in 1..MaxRecords : ids \in [1..n -> EvidenceIds]
  BY DEF IdSequences
<1>2. n \in Nat /\ rs = [i \in 1..n |-> NewRecord(ids[i], content)]
  BY <1>1, TrailBoundsAssumption
<1> HIDE DEF rs
<1>3. IsSequence(rs) /\ Len(rs) = n
  <2>1. rs = [i \in 1..n |-> rs[i]]
    BY <1>2
  <2> QED BY <1>2, <2>1, FunctionIsSequence
<1>4. \A i \in 1..n : IsRecord(rs[i]) /\ rs[i].evidence_id = ids[i]
  BY <1>2 DEF NewRecord, IsRecord, EvidenceStatus
<1>5. \A i, j \in 1..n : ids[i] = ids[j] => i = j
  BY <1>1 DEF IdSequences
<1>6. IsBundle(b)
  BY <1>3, <1>4, <1>5 DEF IsBundle, IsRecords
<1>7. NewBundle(id, ids, content) = BundleWithComputedHashes(b)
  BY DEF NewBundle, rs
<1> HIDE DEF b
<1> QED BY <1>6, <1>7, HashedBundle

\* A bundle that was written and read back: what is there stays, what is missing is
\* computed.
LEMMA ReloadedBundle ==
  ASSUME NEW b, IsBundle(b)
  PROVE  LET c == BundleToDictAndLoad(b) IN
         /\ IsBundle(c)
         /\ c.bundle_id = b.bundle_id /\ c.scope = b.scope
         /\ c.bundle_hash = IF b.bundle_hash = {} THEN {CalculateBundleHash(b)}
                                                   ELSE b.bundle_hash
         /\ Len(c.records) = Len(b.records)
         /\ \A i \in 1..Len(b.records) :
              c.records[i] = IF b.records[i].content_hash = {}
                             THEN RecordWithComputedHash(b.records[i]) ELSE b.records[i]
<1> DEFINE n  == Len(b.records)
           rs == [i \in DOMAIN b.records |->
                    IF b.records[i].content_hash = {}
                    THEN RecordWithComputedHash(b.records[i]) ELSE b.records[i]]
           x  == IF b.bundle_hash = {} THEN {CalculateBundleHash(b)} ELSE b.bundle_hash
           c  == BundleToDictAndLoad(b)
<1>1. n \in Nat /\ DOMAIN b.records = 1..n
  BY DEF IsBundle, IsRecords, IsSequence
<1>2. c = [bundle_id |-> b.bundle_id, scope |-> b.scope, records |-> rs, bundle_hash |-> x]
  <2>1. c = [b EXCEPT !.records = rs, !.bundle_hash = x]
    BY DEF BundleToDictAndLoad, IsBundle
  <2> HIDE DEF rs, x, c
  <2> QED BY <2>1 DEF IsBundle
<1>3. IsSequence(rs) /\ Len(rs) = n
  <2>1. rs = [i \in 1..n |-> rs[i]]
    BY <1>1
  <2> HIDE DEF rs
  <2> QED BY <1>1, <2>1, FunctionIsSequence
<1>4. ASSUME NEW i \in 1..n
      PROVE  IsRecord(rs[i]) /\ rs[i].evidence_id = b.records[i].evidence_id
  <2>1. IsRecord(b.records[i])
    BY DEF IsBundle, IsRecords
  <2>2. /\ IsRecord(RecordWithComputedHash(b.records[i]))
        /\ RecordWithComputedHash(b.records[i]).evidence_id = b.records[i].evidence_id
    BY <2>1, HashedRecord DEF RecordMaterial
  <2> QED BY <1>1, <2>1, <2>2
<1>5. IsRecords(rs)
  BY <1>3, <1>4 DEF IsBundle, IsRecords
<1>6. \A i \in 1..n : rs[i] = IF b.records[i].content_hash = {}
                              THEN RecordWithComputedHash(b.records[i]) ELSE b.records[i]
  BY <1>1
<1> HIDE DEF rs, x, c
<1>7. IsBundle(c)
  BY <1>2, <1>5 DEF IsBundle
<1> QED BY <1>2, <1>3, <1>6, <1>7 DEF x, c

------------------------------------------------------------------------------
(* One damage at a time: a bundle stays one that could be loaded, and the    *)
(* hashes that were left behind give the damage away.                      *)

\* c came of b by damage that shows: validate_integrity has something to say, and an
\* error if what the bundle hash covers changed.
Shows(b, c) ==
  /\ ~Untouched(c)
  /\ BundleMaterial(c) # BundleMaterial(b) => IntegrityErrors(c) # {}

\* The fields of a record that was edited or lost its hash.
LEMMA EditedRecord ==
  ASSUME NEW r, IsRecord(r), NEW content, NEW status
  PROVE  /\ [r EXCEPT !.content = content, !.status = status]
              = [evidence_id |-> r.evidence_id, content |-> content,
                 status |-> status, content_hash |-> r.content_hash]
         /\ [r EXCEPT !.content_hash = {}]
              = [evidence_id |-> r.evidence_id, content |-> r.content,
                 status |-> r.status, content_hash |-> {}]
<1> DEFINE m == [r EXCEPT !.content = content]
<1>1. m = [evidence_id |-> r.evidence_id, content |-> content,
           status |-> r.status, content_hash |-> r.content_hash]
  BY DEF IsRecord
<1> HIDE DEF m
<1>2. [m EXCEPT !.status = status]
        = [evidence_id |-> r.evidence_id, content |-> content,
           status |-> status, content_hash |-> r.content_hash]
  BY <1>1
<1>3. [r EXCEPT !.content_hash = {}]
        = [evidence_id |-> r.evidence_id, content |-> r.content,
           status |-> r.status, content_hash |-> {}]
  BY DEF IsRecord
<1> QED BY <1>2, <1>3, Zenon DEF m

\* EditRecord: the stored content hash no longer matches.
LEMMA EditShows ==
  ASSUME NEW b, IsBundle(b), NEW i \in 1..Len(b.records),
         NEW content, NEW status \in EvidenceStatus,
         <<content, status>> # <<b.records[i].content, b.records[i].status>>
  PROVE  LET c == [b EXCEPT !.records[i] = [@ EXCEPT !.content = content, !.status = status]]
         IN  IsBundle(c) /\ (Untouched(b) => Shows(b, c))
<1> DEFINE old == b.records[i]
           r   == [evidence_id |-> old.evidence_id, content |-> content,
                   status |-> status, content_hash |-> old.content_hash]
           d   == [b EXCEPT !.records = [@ EXCEPT ![i] = r]]
           c   == [b EXCEPT !.records[i] = [@ EXCEPT !.content = content, !.status = status]]
<1>1. IsRecord(old) /\ DOMAIN b.records = 1..Len(b.records)
  BY HashedRecords DEF IsBundle, IsRecords
<1>2. c = d
  <2>1. [old EXCEPT !.content = content, !.status = status] = r
    BY <1>1, EditedRecord
  <2> HIDE DEF r
  <2> QED BY <2>1
<1>3. IsRecord(r) /\ r.evidence_id = old.evidence_id
  BY DEF IsRecord
<1> HIDE DEF r
<1>4. /\ IsBundle(d)
      /\ Len(d.records) = Len(b.records)
      /\ d.records[i] = r
  BY <1>3, PatchedBundle
<1>5. ASSUME Untouched(b) PROVE i \in MismatchedRecords(d)
  <2>1. old.content_hash = {CalculateContentHash(old)}
    BY <1>5, UntouchedIsHashed
  <2>2. r.content_hash = old.content_hash
    BY DEF r
  <2>3. RecordMaterial(r) # RecordMaterial(old)
    BY DEF r, RecordMaterial
  <2>4. CalculateContentHash(r) # CalculateContentHash(old)
    BY <2>3, HashIsInjective DEF CalculateContentHash
  <2>5. DOMAIN d.records = 1..Len(d.records)
    BY <1>4, HashedRecords DEF IsBundle
  <2> QED BY <1>4, <2>1, <2>2, <2>4, <2>5 DEF MismatchedRecords, HasValidContentHash
<1> HIDE DEF d
<1>6. ASSUME Untouched(b) PROVE IntegrityErrors(d) # {}
  BY <1>5, <1>6 DEF IntegrityErrors, Findings
<1> QED BY <1>2, <1>4, <1>6 DEF Shows, Untouched

\* StripContentHash: the material is the same, and a warning says the hash is missing.
LEMMA LostContentHashShows ==
  ASSUME NEW b, IsBundle(b), NEW i \in 1..Len(b.records)
  PROVE  LET c == [b EXCEPT !.records[i].content_hash = {}]
         IN  IsBundle(c) /\ Shows(b, c)
<1> DEFINE old == b.records[i]
           r   == [evidence_id |-> old.evidence_id, content |-> old.content,
                   status |-> old.status, content_hash |-> {}]
           d   == [b EXCEPT !.records = [@ EXCEPT ![i] = r]]
           c   == [b EXCEPT !.records[i].content_hash = {}]
<1>1. IsRecord(old) /\ DOMAIN b.records = 1..Len(b.records)
  BY HashedRecords DEF IsBundle, IsRecords
<1>2. c = d
  <2>1. [old EXCEPT !.content_hash = {}] = r
    BY <1>1, EditedRecord
  <2> QED BY <2>1
<1>3. IsRecord(r) /\ r.evidence_id = old.evidence_id /\ r.content_hash = {}
  BY <1>1 DEF IsRecord
<1>4. /\ IsBundle(d)
      /\ d.bundle_id = b.bundle_id /\ d.scope = b.scope
      /\ Len(d.records) = Len(b.records)
      /\ \A j \in 1..Len(b.records) : d.records[j] = IF j = i THEN r ELSE b.records[j]
  <2> HIDE DEF r
  <2> QED BY <1>3, PatchedBundle
<1>5. DOMAIN d.records = DOMAIN b.records
  BY <1>1, <1>4, HashedRecords DEF IsBundle
<1>6. i \in UnhashedRecords(d)
  <2> HIDE DEF r, d
  <2> QED BY <1>1, <1>3, <1>4, <1>5 DEF UnhashedRecords
<1>7. BundleMaterial(d) = BundleMaterial(b)
  <2>1. RecordWithComputedHash(r) = RecordWithComputedHash(old)
    <3> DEFINE x == {CalculateContentHash(old)}
    <3>1. CalculateContentHash(r) = CalculateContentHash(old)
      BY DEF CalculateContentHash, RecordMaterial
    <3>2. /\ RecordWithComputedHash(r) = [r EXCEPT !.content_hash = x]
          /\ RecordWithComputedHash(old) = [old EXCEPT !.content_hash = x]
      BY <3>1 DEF RecordWithComputedHash
    <3> HIDE DEF x
    <3> QED BY <1>1, <3>2 DEF IsRecord
  <2> HIDE DEF r, d
  <2>2. \A j \in DOMAIN b.records :
          RecordWithComputedHash(d.records[j]) = RecordWithComputedHash(b.records[j])
    BY <1>1, <1>4, <2>1
  <2>3. RecordsWithComputedHashes(d.records) = RecordsWithComputedHashes(b.records)
    BY <1>5, <2>2 DEF RecordsWithComputedHashes
  <2> QED BY <1>4, <2>3 DEF BundleMaterial
<1> HIDE DEF d
<1>8. MissingHashWarnings(d) # {}
  BY <1>6 DEF MissingHashWarnings, Findings
<1> QED BY <1>2, <1>4, <1>7, <1>8 DEF Shows, Untouched

\* StripBundleHash: likewise.
LEMMA LostBundleHashShows ==
  ASSUME NEW b, IsBundle(b)
  PROVE  LET c == [b EXCEPT !.bundle_hash = {}]
         IN  IsBundle(c) /\ Shows(b, c)
<1> DEFINE c == [b EXCEPT !.bundle_hash = {}]
<1>1. c = [bundle_id |-> b.bundle_id, scope |-> b.scope, records |-> b.records,
           bundle_hash |-> {}]
  BY DEF IsBundle
<1> HIDE DEF c
<1>2. IsBundle(c) /\ BundleMaterial(c) = BundleMaterial(b)
  BY <1>1 DEF IsBundle, BundleMaterial
<1>3. MissingHashWarnings(c) # {}
  BY <1>1 DEF MissingHashWarnings, Findings
<1> QED BY <1>2, <1>3 DEF Shows, Untouched, c

\* DropRecord: the stored bundle hash no longer matches.
LEMMA LostRecordShows ==
  ASSUME NEW b, IsBundle(b), NEW i \in 1..Len(b.records),
         WellFormedRecords(Without(b.records, i))
  PROVE  LET c == [b EXCEPT !.records = Without(b.records, i)]
         IN  IsBundle(c) /\ (Untouched(b) => Shows(b, c))
<1> DEFINE n  == Len(b.records)
           rs == Without(b.records, i)
           c  == [b EXCEPT !.records = rs]
<1>1. /\ n \in 1..MaxRecords /\ n \in Nat
      /\ IsSequence(rs) /\ Len(rs) = n - 1
      /\ \A j \in 1..(n - 1) :
           rs[j] = IF j < i THEN b.records[j] ELSE b.records[j + 1]
  BY ShortenedSequence DEF IsBundle, IsRecords, IsSequence
<1>2. WellFormedRecords(rs) /\ DOMAIN rs = 1..(n - 1)
  BY <1>1 DEF IsSequence
<1>3. c = [bundle_id |-> b.bundle_id, scope |-> b.scope, records |-> rs,
           bundle_hash |-> b.bundle_hash]
  <2> HIDE DEF rs
  <2> QED BY DEF IsBundle
<1> HIDE DEF rs, c
<1>4. n - 1 # 0
  <2>1. ASSUME n - 1 = 0 PROVE FALSE
    <3>1. rs = << >>
      BY <1>1, <2>1 DEF IsSequence
    <3> QED BY <1>2, <3>1 DEF WellFormedRecords
  <2> QED BY <2>1
<1>5. IsRecords(rs)
  <2>1. \A j \in 1..(n - 1) : IsRecord(rs[j])
    BY <1>1 DEF IsBundle, IsRecords
  <2>2. n - 1 \in 1..MaxRecords
    <3> HIDE DEF n
    <3> QED BY <1>1, <1>4, TrailBoundsAssumption
  <2> QED BY <1>1, <1>2, <2>1, <2>2 DEF IsRecords, WellFormedRecords
<1>6. IsBundle(c)
  BY <1>3, <1>5 DEF IsBundle
<1>7. ASSUME Untouched(b) PROVE IntegrityErrors(c) # {}
  <2>1. b.bundle_hash = {CalculateBundleHash(b)}
    BY <1>7, UntouchedIsHashed
  <2>2. BundleMaterial(c) # BundleMaterial(b)
    <3>1. /\ Len(RecordsWithComputedHashes(rs)) = n - 1
          /\ Len(RecordsWithComputedHashes(b.records)) = n
      BY <1>1, <1>5, HashedRecords DEF IsBundle
    <3>2. RecordsWithComputedHashes(rs) # RecordsWithComputedHashes(b.records)
      BY <1>1, <3>1
    <3> QED BY <1>3, <3>2 DEF BundleMaterial
  <2>3. CalculateBundleHash(c) # CalculateBundleHash(b)
    BY <2>2, HashIsInjective DEF CalculateBundleHash
  <2>4. c.bundle_hash # {} /\ ~HasValidBundleHash(c)
    BY <1>3, <2>1, <2>3 DEF HasValidBundleHash
  <2> QED BY <2>4 DEF IntegrityErrors, Findings
<1> QED BY <1>6, <1>7 DEF Shows, Untouched, c, rs

------------------------------------------------------------------------------
(* The reload.                                                             *)

\* to_dict and load_evidence_bundle compute what is missing and keep the rest: the
\* integrity errors before and after are the same.
LEMMA ReloadKeepsErrors ==
  ASSUME NEW b, IsBundle(b)
  PROVE  IntegrityErrors(BundleToDictAndLoad(b)) = IntegrityErrors(b)
<1> DEFINE n == Len(b.records)
           c == BundleToDictAndLoad(b)
<1>1. /\ IsBundle(c)
      /\ c.bundle_id = b.bundle_id /\ c.scope = b.scope
      /\ c.bundle_hash = IF b.bundle_hash = {} THEN {CalculateBundleHash(b)}
                                                ELSE b.bundle_hash
      /\ Len(c.records) = n
      /\ \A i \in 1..n :
           c.records[i] = IF b.records[i].content_hash = {}
                          THEN RecordWithComputedHash(b.records[i]) ELSE b.records[i]
  BY ReloadedBundle
<1> HIDE DEF c
<1>2. DOMAIN b.records = 1..n /\ DOMAIN c.records = 1..n
  BY <1>1, HashedRecords DEF IsBundle
<1>3. ASSUME NEW i \in 1..n
      PROVE  /\ i \in MismatchedRecords(c) <=> i \in MismatchedRecords(b)
             /\ c.records[i].status = b.records[i].status
             /\ RecordWithComputedHash(c.records[i]) = RecordWithComputedHash(b.records[i])
  <2>1. IsRecord(b.records[i])
    BY DEF IsBundle, IsRecords
  <2>2. CASE b.records[i].content_hash = {}
    <3> DEFINE h == RecordWithComputedHash(b.records[i])
    <3>1. /\ IsRecord(h)
          /\ RecordMaterial(h) = RecordMaterial(b.records[i])
          /\ h.content_hash = {CalculateContentHash(b.records[i])}
          /\ RecordWithComputedHash(h) = h
      BY <2>1, HashedRecord
    <3>2. c.records[i] = h
      BY <1>1, <2>2
    <3> HIDE DEF h
    <3>3. h.status = b.records[i].status
      BY <3>1 DEF RecordMaterial
    <3>4. HasValidContentHash(h)
      BY <3>1 DEF HasValidContentHash, CalculateContentHash
    <3>5. i \notin MismatchedRecords(c) /\ i \notin MismatchedRecords(b)
      BY <1>2, <2>2, <3>2, <3>4 DEF MismatchedRecords
    <3> QED BY <3>1, <3>2, <3>3, <3>5 DEF h
  <2>3. CASE b.records[i].content_hash # {}
    <3>1. c.records[i] = b.records[i]
      BY <1>1, <2>3
    <3> QED BY <1>2, <3>1 DEF MismatchedRecords
  <2> QED BY <2>2, <2>3
<1>4. MismatchedRecords(c) = MismatchedRecords(b) /\ InvalidRecords(c) = InvalidRecords(b)
  BY <1>2, <1>3 DEF MismatchedRecords, InvalidRecords
<1>5. CalculateBundleHash(c) = CalculateBundleHash(b)
  <2>1. RecordsWithComputedHashes(c.records) = RecordsWithComputedHashes(b.records)
    BY <1>2, <1>3 DEF RecordsWithComputedHashes
  <2> QED BY <1>1, <2>1 DEF CalculateBundleHash, BundleMaterial
<1>6. (c.bundle_hash # {} /\ ~HasValidBundleHash(c))
        <=> (b.bundle_hash # {} /\ ~HasValidBundleHash(b))
  BY <1>1, <1>5 DEF HasValidBundleHash
<1> QED BY <1>4, <1>6 DEF IntegrityErrors, c

------------------------------------------------------------------------------
(* The invariant.                                                          *)

\* What is on file and what was recorded are bundles, and the ledger holds the hash
\* each recorded bundle has once it is hashed.
TrailInv ==
  /\ file = {} \/ \E b \in file : file = {b}
  /\ \A b \in file : IsBundle(b)
  /\ IsSequence(ledger) /\ IsSequence(recorded)
  /\ Len(recorded) = Len(ledger)
  /\ Len(ledger) \in 0..MaxEntries
  /\ \A i \in 1..Len(ledger) :
       /\ IsBundle(recorded[i])
       /\ ledger[i].body.artifact_hash = {CalculateBundleHash(recorded[i])}
  /\ damage \in 0..MaxDamage

\* append_evidence_bundle hashes the bundle before it takes the hash.
LEMMA RecordedHash ==
  ASSUME NEW b, IsBundle(b), NEW entries, NEW id, NEW run
  PROVE  NewEntry(entries, id, BundleBody(b), run).body.artifact_hash
           = {CalculateBundleHash(b)}
<1> DEFINE h == BundleWithComputedHashes(b)
<1>1. h.bundle_hash = {CalculateBundleHash(b)}
  BY HashedBundle
<1>2. BundleBody(b).artifact_hash = {CalculateBundleHash(b)}
  <2> HIDE DEF h
  <2> DEFINE x == CalculateBundleHash(b)
  <2>1. h.bundle_hash = {x}
    BY <1>1
  <2> HIDE DEF x
  <2>2. BundleBody(b).artifact_hash = IF h.bundle_hash = {} THEN {CalculateBundleHash(h)}
                                                            ELSE h.bundle_hash
    BY DEF BundleBody, h
  <2> QED BY <2>1, <2>2 DEF x
<1> DEFINE body == BundleBody(b)
           raw  == [entry_id |-> id, sequence_number |-> Len(entries) + 1, body |-> body,
                    run_id |-> run, previous_entry_hash |-> LatestEntryHash(entries),
                    entry_hash |-> {}]
           x    == {CalculateEntryHash(raw)}
<1> HIDE DEF body, h
<1>3. NewEntry(entries, id, body, run) = [raw EXCEPT !.entry_hash = x]
  BY DEF NewEntry, WithComputedHash
<1> HIDE DEF x
<1>4. NewEntry(entries, id, body, run).body = body
  BY <1>3
<1> QED BY <1>2, <1>4 DEF body

\* Every kind of damage leaves a bundle that could be loaded, and shows.
LEMMA DamageShows ==
  ASSUME TrailInv, DamageStep, NEW b \in file
  PROVE  /\ \E c : file' = {c} /\ IsBundle(c) /\ (Untouched(b) => Shows(b, c))
         /\ damage' \in 0..MaxDamage
         /\ UNCHANGED <<ledger, recorded>>
<1>1. IsBundle(b) /\ file = {b} /\ DOMAIN b.records = 1..Len(b.records)
  BY HashedRecords DEF TrailInv, IsBundle
<1>2. ASSUME NEW c, Damage(c)
      PROVE  file' = {c} /\ damage' \in 0..MaxDamage /\ UNCHANGED <<ledger, recorded>>
  BY <1>2, TrailBoundsAssumption DEF Damage, TrailInv
<1>3. CASE StripBundleHash
  BY <1>1, <1>2, <1>3, LostBundleHashShows DEF StripBundleHash
<1>4. ASSUME NEW i, NEW content \in Contents, NEW status \in EvidenceStatus,
             EditRecord(i, content, status)
      PROVE  /\ \E c : file' = {c} /\ IsBundle(c) /\ (Untouched(b) => Shows(b, c))
             /\ damage' \in 0..MaxDamage
             /\ UNCHANGED <<ledger, recorded>>
  <2> DEFINE c == [b EXCEPT !.records[i] = [@ EXCEPT !.content = content, !.status = status]]
  <2>1. /\ i \in 1..Len(b.records)
        /\ <<content, status>> # <<b.records[i].content, b.records[i].status>>
        /\ Damage(c)
    BY <1>1, <1>4, Zenon DEF EditRecord
  <2>2. IsBundle(c) /\ (Untouched(b) => Shows(b, c))
    BY <1>1, <2>1, EditShows
  <2> HIDE DEF c
  <2> QED BY <1>2, <2>1, <2>2
<1>5. ASSUME NEW i, StripContentHash(i)
      PROVE  /\ \E c : file' = {c} /\ IsBundle(c) /\ (Untouched(b) => Shows(b, c))
             /\ damage' \in 0..MaxDamage
             /\ UNCHANGED <<ledger, recorded>>
  <2> DEFINE c == [b EXCEPT !.records[i].content_hash = {}]
  <2>1. i \in 1..Len(b.records) /\ Damage(c)
    BY <1>1, <1>5, Zenon DEF StripContentHash
  <2>2. IsBundle(c) /\ (Untouched(b) => Shows(b, c))
    BY <1>1, <2>1, LostContentHashShows
  <2> HIDE DEF c
  <2> QED BY <1>2, <2>1, <2>2
<1>6. ASSUME NEW i, DropRecord(i)
      PROVE  /\ \E c : file' = {c} /\ IsBundle(c) /\ (Untouched(b) => Shows(b, c))
             /\ damage' \in 0..MaxDamage
             /\ UNCHANGED <<ledger, recorded>>
  <2> DEFINE c == [b EXCEPT !.records = Without(b.records, i)]
  <2>1. i \in 1..Len(b.records) /\ WellFormedRecords(Without(b.records, i)) /\ Damage(c)
    BY <1>1, <1>6, Zenon DEF DropRecord, Without
  <2>2. IsBundle(c) /\ (Untouched(b) => Shows(b, c))
    BY <1>1, <2>1, LostRecordShows
  <2> HIDE DEF c
  <2> QED BY <1>2, <2>1, <2>2
<1> QED BY <1>3, <1>4, <1>5, <1>6 DEF DamageStep

\* TrailInv holds at the start.
LEMMA InitTrailInv == Init => TrailInv
  BY TrailBoundsAssumption DEF Init, TrailInv, IsSequence

\* Every step keeps TrailInv.
LEMMA NextTrailInv == TrailInv /\ [Next]_vars => TrailInv'
<1> SUFFICES ASSUME TrailInv, [Next]_vars PROVE TrailInv'
  OBVIOUS
<1>1. ASSUME NEW c, IsBundle(c), file' = {c}, UNCHANGED <<ledger, recorded>>,
             damage' \in 0..MaxDamage
      PROVE  TrailInv'
  BY <1>1 DEF TrailInv
<1>2. ASSUME NEW id \in BundleIds, NEW ids \in IdSequences, NEW content \in Contents,
             Produce(id, ids, content)
      PROVE  TrailInv'
  BY <1>1, <1>2, ProducedBundle DEF Produce, TrailInv
<1>3. CASE SaveAndLoad
  BY <1>1, <1>3, ReloadedBundle DEF SaveAndLoad, TrailInv
<1>4. CASE Rehash
  BY <1>1, <1>4, HashedBundle DEF Rehash, TrailInv
<1>5. ASSUME NEW run, Record(run) PROVE TrailInv'
  <2>1. PICK b \in file :
          /\ Len(ledger) < MaxEntries
          /\ ledger' = Append(ledger, NewEntry(ledger, b.bundle_id, BundleBody(b), run))
          /\ recorded' = Append(recorded, b)
          /\ UNCHANGED <<file, damage>>
    BY <1>5 DEF Record
  <2> DEFINE e == NewEntry(ledger, b.bundle_id, BundleBody(b), run)
             k == Len(ledger)
  <2>2. IsBundle(b) /\ e.body.artifact_hash = {CalculateBundleHash(b)}
    BY RecordedHash DEF TrailInv
  <2> HIDE DEF e
  <2>3. /\ IsSequence(ledger') /\ Len(ledger') = k + 1
        /\ \A i \in 1..k : ledger'[i] = ledger[i]
        /\ ledger'[k + 1] = e
    BY <2>1, AppendedSequence DEF TrailInv, e
  <2>4. /\ IsSequence(recorded') /\ Len(recorded') = k + 1
        /\ \A i \in 1..k : recorded'[i] = recorded[i]
        /\ recorded'[k + 1] = b
    BY <2>1, AppendedSequence DEF TrailInv
  <2>5. k \in Nat /\ k + 1 \in 0..MaxEntries
    BY <2>1, TrailBoundsAssumption DEF TrailInv
  <2>6. ASSUME NEW i \in 1..(k + 1)
        PROVE  /\ IsBundle(recorded'[i])
               /\ ledger'[i].body.artifact_hash = {CalculateBundleHash(recorded'[i])}
    <3>1. CASE i = k + 1
      BY <2>2, <2>3, <2>4, <3>1
    <3>2. CASE i \in 1..k
      BY <2>3, <2>4, <3>2 DEF TrailInv
    <3> HIDE DEF k
    <3> QED BY <2>5, <3>1, <3>2
  <2> QED BY <2>1, <2>3, <2>4, <2>5, <2>6 DEF TrailInv
<1>6. CASE DamageStep
  <2>1. PICK b \in file : TRUE
    BY <1>6 DEF DamageStep, StripBundleHash, EditRecord, StripContentHash, DropRecord
  <2> QED BY <1>1, <1>6, <2>1, DamageShows
<1>7. CASE UNCHANGED vars
  BY <1>7 DEF vars, TrailInv
<1> QED BY <1>2, <1>3, <1>4, <1>5, <1>6, <1>7 DEF Next

\* The invariant of the specification.
THEOREM TrailInvariant == Spec => []TrailInv
  BY InitTrailInv, NextTrailInv, PTL DEF Spec

\* There is one bundle on file at most, one that the loader accepts, and an entry for
\* every bundle that was recorded.
THEOREM TypeCorrect == Spec => []TypeOK
<1>1. TrailInv => TypeOK
  <2> SUFFICES ASSUME TrailInv PROVE TypeOK
    OBVIOUS
  <2>1. ASSUME NEW b \in file
        PROVE  /\ DOMAIN b.records = 1..Len(b.records)
               /\ Len(b.records) \in 1..MaxRecords
               /\ \A i, j \in DOMAIN b.records :
                    b.records[i].evidence_id = b.records[j].evidence_id => i = j
               /\ \A i \in DOMAIN b.records : b.records[i].status \in EvidenceStatus
    <3>1. IsRecords(b.records)
      BY DEF TrailInv, IsBundle
    <3>2. DOMAIN b.records = 1..Len(b.records)
      BY <3>1, HashedRecords
    <3> QED BY <3>1, <3>2 DEF IsRecords, IsRecord
  <2> QED BY <2>1 DEF TrailInv, TypeOK
<1> QED BY <1>1, TrailInvariant, PTL

\* A bundle that validates cleanly and has the hash of an entry is the bundle the
\* entry was made from: the hash covers every record.
THEOREM LedgerKnowsItsBundles == Spec => []LedgerRefutesRewrittenBundle
<1>1. TrailInv => LedgerRefutesRewrittenBundle
  <2> SUFFICES ASSUME TrailInv, NEW b \in file, NEW i \in 1..Len(ledger),
                      Untouched(b), ledger[i].body.artifact_hash = b.bundle_hash
               PROVE  b = BundleWithComputedHashes(recorded[i])
    BY DEF LedgerRefutesRewrittenBundle
  <2>1. IsBundle(b) /\ IsBundle(recorded[i])
    BY DEF TrailInv
  <2>2. b.bundle_hash = {CalculateBundleHash(b)} /\ BundleWithComputedHashes(b) = b
    BY <2>1, UntouchedIsHashed
  <2>3. CalculateBundleHash(b) = CalculateBundleHash(recorded[i])
    BY <2>2 DEF TrailInv
  <2>4. BundleMaterial(b) = BundleMaterial(recorded[i])
    BY <2>3, HashIsInjective DEF CalculateBundleHash
  <2> QED BY <2>1, <2>2, <2>4, MaterialIsTheBundle
<1> QED BY <1>1, TrailInvariant, PTL

\* Damage to a bundle that validated cleanly shows in the next validate_integrity.
THEOREM DamageShowsAtOnce == Spec => DamageIsReported
<1> DEFINE A == \A b \in file, c \in file' :
                  Untouched(b) /\ DamageStep =>
                    /\ ~Untouched(c)
                    /\ BundleMaterial(c) # BundleMaterial(b) => IntegrityErrors(c) # {}
<1>1. TrailInv /\ [Next]_vars => [A]_vars
  <2> SUFFICES ASSUME TrailInv, NEW b \in file, NEW c \in file', Untouched(b), DamageStep
               PROVE  /\ ~Untouched(c)
                      /\ BundleMaterial(c) # BundleMaterial(b) => IntegrityErrors(c) # {}
    OBVIOUS
  <2> QED BY DamageShows DEF Shows
<1> QED BY <1>1, TrailInvariant, PTL DEF Spec, DamageIsReported

\* Saving and loading neither hides nor invents an integrity error.
THEOREM ReloadIsHonest == Spec => SaveAndLoadKeepsErrors
<1> DEFINE A == \A b \in file, c \in file' :
                  SaveAndLoad => IntegrityErrors(c) = IntegrityErrors(b)
<1>1. TrailInv /\ [Next]_vars => [A]_vars
  <2> SUFFICES ASSUME TrailInv, NEW b \in file, NEW c \in file', SaveAndLoad
               PROVE  IntegrityErrors(c) = IntegrityErrors(b)
    OBVIOUS
  <2>1. PICK d \in file : file' = {BundleToDictAndLoad(d)}
    BY DEF SaveAndLoad
  <2>2. d = b /\ c = BundleToDictAndLoad(b) /\ IsBundle(b)
    BY <2>1 DEF TrailInv
  <2> QED BY <2>2, ReloadKeepsErrors
<1> QED BY <1>1, TrailInvariant, PTL DEF Spec, SaveAndLoadKeepsErrors
==============================================================================
