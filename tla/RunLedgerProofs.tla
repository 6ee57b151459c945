--------------------------- MODULE RunLedgerProofs ---------------------------
(***************************************************************************)
(* The hash chain of the run ledger, for any number of holders, entries    *)
(* and damaged copies.                                                     *)
(***************************************************************************)
EXTENDS RunLedger, SequenceTheorems, WellFoundedInduction, TLAPS

\* Every non-empty set of natural numbers has a least element: the form of
\* induction the arguments about chains use.
LEMMA LeastElement ==
  ASSUME NEW T \in SUBSET Nat, T # {}
  PROVE  \E x \in T : \A y \in T : x <= y
<1> DEFINE R == {ss \in Nat \X Nat : ss[1] < ss[2]}
<1>1. IsWellFoundedOn(R, Nat)
  BY NatLessThanWellFounded DEF OpToRel
<1> HIDE DEF R
<1>2. PICK x \in T : \A y \in T : ~(<<y, x>> \in R)
  BY <1>1, WFMin
<1>3. ASSUME NEW y \in T PROVE x <= y
  <2>1. x \in Nat /\ y \in Nat /\ <<y, x>> \in Nat \X Nat
    OBVIOUS
  <2>2. ~(<<y, x>>[1] < <<y, x>>[2])
    BY <1>2, <2>1 DEF R
  <2> QED BY <2>1, <2>2
<1> QED BY <1>3

------------------------------------------------------------------------------
(* Ledgers as sequences.                                                   *)

\* A ledger is a sequence over every set that holds its entries.
LEMMA LedgerIsSeq ==
  ASSUME NEW s, IsLedger(s), NEW S, \A i \in 1..Len(s) : s[i] \in S
  PROVE  s \in Seq(S) /\ Len(s) \in Nat
<1>1. Len(s) \in Nat /\ s \in [1..Len(s) -> S]
  BY MaxEntriesAssumption DEF IsLedger
<1> QED BY <1>1, SeqDef

\* A function on 1..n whose values are entries is a ledger of length n.
LEMMA FunctionIsLedger ==
  ASSUME NEW n \in 0..MaxEntries, NEW f, f = [i \in 1..n |-> f[i]],
         \A i \in 1..n : IsEntry(f[i])
  PROVE  IsLedger(f) /\ Len(f) = n
<1> DEFINE S == {f[i] : i \in 1..n}
<1>1. n \in Nat /\ f \in [1..n -> S]
  BY MaxEntriesAssumption
<1>2. f \in Seq(S)
  BY <1>1, SeqDef
<1>3. Len(f) \in Nat /\ 1..Len(f) = 1..n
  BY <1>1, <1>2, LenProperties
<1>4. Len(f) = n
  BY <1>1, <1>3
<1> QED BY <1>4 DEF IsLedger

\* A sequence of at most MaxEntries entries is a ledger.
LEMMA SeqIsLedger ==
  ASSUME NEW S, NEW s \in Seq(S), Len(s) <= MaxEntries,
         \A i \in 1..Len(s) : IsEntry(s[i])
  PROVE  IsLedger(s)
<1>1. Len(s) \in Nat /\ s \in [1..Len(s) -> S]
  BY LenProperties
<1>2. s = [i \in 1..Len(s) |-> s[i]]
  BY <1>1
<1> QED BY <1>1, <1>2, MaxEntriesAssumption DEF IsLedger

\* What append_entry adds is an entry that is linked, numbered and hashed.
LEMMA NewEntryFields ==
  ASSUME NEW s, IsLedger(s), NEW id \in EntryIds, NEW body \in Bodies,
         NEW run \in Optional(RunIds)
  PROVE  LET e == NewEntry(s, id, body, run) IN
         /\ IsEntry(e)
         /\ e.sequence_number = Len(s) + 1
         /\ e.previous_entry_hash = LatestEntryHash(s)
         /\ e.entry_hash = {CalculateEntryHash(e)}
<1>1. Len(s) \in Nat
  BY MaxEntriesAssumption DEF IsLedger
<1> DEFINE raw == [entry_id            |-> id,
                   sequence_number     |-> Len(s) + 1,
                   body                |-> body,
                   run_id              |-> run,
                   previous_entry_hash |-> LatestEntryHash(s),
                   entry_hash          |-> {}]
           hash == {CalculateEntryHash(raw)}
           e == [raw EXCEPT !.entry_hash = hash]
<1>2. NewEntry(s, id, body, run) = e
  BY DEF NewEntry, WithComputedHash
<1>3. EntryMaterial(e) = EntryMaterial(raw)
  BY DEF EntryMaterial
<1>4. e.entry_hash = {CalculateEntryHash(e)}
  BY <1>3 DEF CalculateEntryHash
<1> HIDE DEF hash
<1>5. /\ IsEntry(e)
      /\ e.sequence_number = Len(s) + 1
      /\ e.previous_entry_hash = LatestEntryHash(s)
  BY <1>1 DEF IsEntry
<1> HIDE DEF e
<1> QED BY <1>2, <1>4, <1>5

\* The entries of a ledger that append_entry extended.
LEMMA AppendedLedger ==
  ASSUME NEW s, IsLedger(s), Len(s) < MaxEntries, NEW e, IsEntry(e)
  PROVE  /\ IsLedger(Append(s, e))
         /\ Len(Append(s, e)) = Len(s) + 1
         /\ \A i \in 1..Len(s) : Append(s, e)[i] = s[i]
         /\ Append(s, e)[Len(s) + 1] = e
<1> DEFINE S == {s[i] : i \in 1..Len(s)} \cup {e}
<1>1. s \in Seq(S) /\ Len(s) \in Nat
  BY LedgerIsSeq
<1>2. /\ Append(s, e) \in Seq(S)
      /\ Len(Append(s, e)) = Len(s) + 1
      /\ \A i \in 1..Len(s) : Append(s, e)[i] = s[i]
      /\ Append(s, e)[Len(s) + 1] = e
  BY <1>1, AppendProperties
<1>3. \A i \in 1..Len(Append(s, e)) : IsEntry(Append(s, e)[i])
  BY <1>1, <1>2 DEF IsLedger
<1> HIDE DEF S
<1>4. Len(Append(s, e)) <= MaxEntries
  BY <1>1, <1>2, MaxEntriesAssumption
<1>5. IsLedger(Append(s, e))
  BY <1>2, <1>3, <1>4, SeqIsLedger
<1> QED BY <1>2, <1>5

\* r is the first k entries of s followed by those of t after its m-th.
IsSplice(r, s, k, t, m) ==
  /\ IsLedger(r)
  /\ Len(r) = k + (Len(t) - m)
  /\ \A j \in 1..k : r[j] = s[j]
  /\ \A j \in (k + 1)..(k + (Len(t) - m)) : r[j] = t[m + j - k]

\* The head of one ledger followed by the tail of another is a ledger.
LEMMA SplicedLedger ==
  ASSUME NEW s, IsLedger(s), NEW t, IsLedger(t),
         NEW k \in 0..Len(s), NEW m \in 1..Len(t),
         k + (Len(t) - m) <= MaxEntries
  PROVE  IsSplice(SubSeq(s, 1, k) \o SubSeq(t, m + 1, Len(t)), s, k, t, m)
<1> DEFINE S == {s[i] : i \in 1..Len(s)} \cup {t[i] : i \in 1..Len(t)}
           head == SubSeq(s, 1, k)
           tail == SubSeq(t, m + 1, Len(t))
           r == head \o tail
<1>1. Len(s) \in Nat /\ Len(t) \in Nat
  BY MaxEntriesAssumption DEF IsLedger
<1>2. /\ head \in Seq(S) /\ Len(head) = k
      /\ \A j \in 1..k : head[j] = s[j]
  <2>1. k \in Int /\ \A i \in 1..k : s[i] \in S
    BY <1>1
  <2>2. /\ SubSeq(s, 1, k) \in Seq(S)
        /\ Len(SubSeq(s, 1, k)) = IF 1 <= k THEN k - 1 + 1 ELSE 0
        /\ \A i \in 1..(k - 1 + 1) : SubSeq(s, 1, k)[i] = s[1 + i - 1]
    BY <2>1, SubSeqProperties
  <2> QED BY <1>1, <2>1, <2>2
<1>3. /\ tail \in Seq(S) /\ Len(tail) = Len(t) - m
      /\ \A j \in 1..(Len(t) - m) : tail[j] = t[m + j]
  <2>1. m + 1 \in Int /\ Len(t) \in Int /\ \A i \in (m + 1)..Len(t) : t[i] \in S
    BY <1>1
  <2>2. /\ SubSeq(t, m + 1, Len(t)) \in Seq(S)
        /\ Len(SubSeq(t, m + 1, Len(t)))
             = IF m + 1 <= Len(t) THEN Len(t) - (m + 1) + 1 ELSE 0
        /\ \A i \in 1..(Len(t) - (m + 1) + 1) :
             SubSeq(t, m + 1, Len(t))[i] = t[(m + 1) + i - 1]
    BY <2>1, SubSeqProperties
  <2> QED BY <1>1, <2>1, <2>2, SMTT(30)
<1> HIDE DEF head, tail
<1>4. /\ r \in Seq(S)
      /\ Len(r) = Len(head) + Len(tail)
      /\ \A i \in 1..Len(head) + Len(tail) :
           r[i] = IF i <= Len(head) THEN head[i] ELSE tail[i - Len(head)]
  BY <1>2, <1>3, ConcatProperties
<1> HIDE DEF r, S
<1>5. Len(r) = k + (Len(t) - m)
  BY <1>2, <1>3, <1>4
<1>6. \A j \in 1..k : r[j] = s[j]
  BY <1>1, <1>2, <1>3, <1>4
<1>7. \A j \in (k + 1)..(k + (Len(t) - m)) : r[j] = t[m + j - k]
  <2> SUFFICES ASSUME NEW j \in (k + 1)..(k + (Len(t) - m)) PROVE r[j] = t[m + j - k]
    OBVIOUS
  <2>1. j \in 1..Len(head) + Len(tail) /\ ~(j <= Len(head))
        /\ j - k \in 1..(Len(t) - m) /\ m + (j - k) = m + j - k
    BY <1>1, <1>2, <1>3
  <2> QED BY <1>2, <1>3, <1>4, <2>1
<1>8. \A j \in 1..Len(r) : IsEntry(r[j])
  <2> SUFFICES ASSUME NEW j \in 1..Len(r) PROVE IsEntry(r[j])
    OBVIOUS
  <2>1. CASE j <= k
    BY <1>1, <1>5, <1>6, <2>1 DEF IsLedger
  <2>2. CASE j > k
    <3>1. j \in (k + 1)..(k + (Len(t) - m)) /\ m + j - k \in 1..Len(t)
      BY <1>1, <1>5, <2>2
    <3> QED BY <1>7, <3>1 DEF IsLedger
  <2> QED BY <1>1, <1>5, <2>1, <2>2
<1>9. IsLedger(r)
  BY <1>4, <1>5, <1>8, SeqIsLedger
<1> QED BY <1>5, <1>6, <1>7, <1>9 DEF r, head, tail, IsSplice

------------------------------------------------------------------------------
(* Types.                                                                  *)

\* Reading a written ledger back gives the same entries, each with a hash.
LEMMA ReloadedLedger ==
  ASSUME NEW s, IsLedger(s)
  PROVE  LET r == ToDictAndLoad(s) IN
         /\ IsLedger(r)
         /\ Len(r) = Len(s)
         /\ \A i \in 1..Len(s) :
              r[i] = [s[i] EXCEPT !.entry_hash = StoredOrComputedHash(s[i])]
<1> DEFINE r == [i \in 1..Len(s) |->
                   [s[i] EXCEPT !.entry_hash = StoredOrComputedHash(s[i])]]
<1>1. ToDictAndLoad(s) = r
  BY DEF ToDictAndLoad
<1>2. ASSUME NEW i \in 1..Len(s) PROVE IsEntry(r[i])
  <2> DEFINE e == s[i]
             x == StoredOrComputedHash(s[i])
  <2>1. IsEntry(e) /\ r[i] = [e EXCEPT !.entry_hash = x]
    BY DEF IsLedger
  <2> HIDE DEF e, x, r
  <2> QED BY <2>1 DEF IsEntry
<1>3. Len(s) \in 0..MaxEntries
  BY DEF IsLedger
<1>4. IsLedger(r) /\ Len(r) = Len(s)
  BY <1>2, <1>3, FunctionIsLedger
<1> QED BY <1>1, <1>4

\* Replacing the entry at one place, or those at two, keeps a ledger a ledger.
LEMMA PatchedLedger ==
  ASSUME NEW s, IsLedger(s), NEW i \in 1..Len(s), NEW j \in 1..Len(s),
         NEW d, IsEntry(d), NEW e, IsEntry(e)
  PROVE  LET r == [s EXCEPT ![i] = d, ![j] = e] IN
         /\ IsLedger(r)
         /\ Len(r) = Len(s)
         /\ \A k \in 1..Len(s) : r[k] = IF k = j THEN e ELSE IF k = i THEN d ELSE s[k]
<1> DEFINE r == [s EXCEPT ![i] = d, ![j] = e]
<1>1. /\ Len(s) \in 0..MaxEntries /\ s = [k \in 1..Len(s) |-> s[k]]
      /\ \A k \in 1..Len(s) : IsEntry(s[k])
  BY DEF IsLedger
<1>2. /\ r = [k \in 1..Len(s) |-> r[k]]
      /\ \A k \in 1..Len(s) : r[k] = IF k = j THEN e ELSE IF k = i THEN d ELSE s[k]
  BY <1>1
<1>3. \A k \in 1..Len(s) : IsEntry(r[k])
  BY <1>1, <1>2
<1> HIDE DEF r
<1>4. IsLedger(r) /\ Len(r) = Len(s)
  BY <1>1, <1>2, <1>3, FunctionIsLedger
<1> QED BY <1>2, <1>4 DEF r

\* The same for one place.
LEMMA PatchedOnce ==
  ASSUME NEW s, IsLedger(s), NEW i \in 1..Len(s), NEW e, IsEntry(e)
  PROVE  LET r == [s EXCEPT ![i] = e] IN
         /\ IsLedger(r)
         /\ Len(r) = Len(s)
         /\ \A k \in 1..Len(s) : r[k] = IF k = i THEN e ELSE s[k]
<1> DEFINE r == [s EXCEPT ![i] = e]
<1>1. /\ Len(s) \in 0..MaxEntries /\ s = [k \in 1..Len(s) |-> s[k]]
      /\ \A k \in 1..Len(s) : IsEntry(s[k])
  BY DEF IsLedger
<1>2. /\ r = [k \in 1..Len(s) |-> r[k]]
      /\ \A k \in 1..Len(s) : r[k] = IF k = i THEN e ELSE s[k]
  BY <1>1
<1>3. \A k \in 1..Len(s) : IsEntry(r[k])
  BY <1>1, <1>2
<1> HIDE DEF r
<1>4. IsLedger(r) /\ Len(r) = Len(s)
  BY <1>1, <1>2, <1>3, FunctionIsLedger
<1> QED BY <1>2, <1>4 DEF r

\* What each kind of damage makes of an entry.
Edited(e, id, body, run) == [e EXCEPT !.entry_id = id, !.body = body, !.run_id = run]
Stripped(e) == [e EXCEPT !.entry_hash = {}]

\* Damage leaves the fields of an entry in their types.
LEMMA EditedEntry ==
  ASSUME NEW e, IsEntry(e), NEW id \in EntryIds, NEW body \in Bodies,
         NEW run \in Optional(RunIds)
  PROVE  LET f == Edited(e, id, body, run) IN
         /\ IsEntry(f)
         /\ f.entry_hash = e.entry_hash
         /\ f.entry_id = id /\ f.body = body /\ f.run_id = run
<1> DEFINE d == [e EXCEPT !.entry_id = id]
           c == [d EXCEPT !.body = body]
           b == [c EXCEPT !.run_id = run]
<1>1. IsEntry(d) /\ d.entry_id = id /\ d.entry_hash = e.entry_hash
  BY DEF IsEntry
<1> HIDE DEF d
<1>2. IsEntry(c) /\ c.entry_id = id /\ c.body = body /\ c.entry_hash = e.entry_hash
  BY <1>1 DEF IsEntry
<1> HIDE DEF c
<1>3. /\ IsEntry(b) /\ b.entry_hash = e.entry_hash
      /\ b.entry_id = id /\ b.body = body /\ b.run_id = run
  BY <1>2 DEF IsEntry
<1>4. Edited(e, id, body, run) = b
  BY DEF Edited, c, d
<1> QED BY <1>3, <1>4

\* The same for an entry that loses its hash.
LEMMA StrippedEntry ==
  ASSUME NEW e, IsEntry(e)
  PROVE  IsEntry(Stripped(e)) /\ Stripped(e).entry_hash = {}
<1>1. IsEntry(Stripped(e))
  BY DEF IsEntry, Stripped
<1>2. Stripped(e).entry_hash = {}
  BY DEF IsEntry, Stripped
<1> QED BY <1>1, <1>2

\* A step of one holder leaves the others' ledgers and damage alone.
OnlyAt(h) == \A g \in Holders \ {h} : held'[g] = held[g] /\ damage'[g] = damage[g]

\* Every damage step counts, and leaves a ledger behind.
LEMMA DamageKeepsType ==
  ASSUME TypeOK, NEW h \in Holders, DamageStep(h)
  PROVE  TypeOK' /\ OnlyAt(h) /\ damage'[h] = damage[h] + 1
<1>1. ASSUME NEW r, IsLedger(r), Damage(h, r)
      PROVE  TypeOK' /\ OnlyAt(h) /\ damage'[h] = damage[h] + 1
  BY <1>1, MaxDamageAssumption DEF TypeOK, Damage, OnlyAt
<1>2. IsLedger(held[h]) /\ \A g \in Holders : IsLedger(held[g])
  BY DEF TypeOK
<1>3. PICK i \in 1..Len(held[h]) :
        \/ \E id \in EntryIds, body \in Bodies, run \in Optional(RunIds) :
             EditEntry(h, i, id, body, run)
        \/ StripHash(h, i)
        \/ DropEntry(h, i)
        \/ SwapEntries(h, i)
        \/ \E g \in Holders \ {h} : Merge(h, g, i)
  BY DEF DamageStep
<1>4. /\ IsEntry(held[h][i]) /\ Len(held[h]) \in 0..MaxEntries
      /\ held[h] = [k \in 1..Len(held[h]) |-> held[h][k]]
  BY <1>2 DEF IsLedger
<1>5. CASE \E id \in EntryIds, body \in Bodies, run \in Optional(RunIds) :
             EditEntry(h, i, id, body, run)
  <2>1. PICK id \in EntryIds, body \in Bodies, run \in Optional(RunIds) :
          EditEntry(h, i, id, body, run)
    BY <1>5
  <2> DEFINE r == [held[h] EXCEPT ![i].entry_id = id, ![i].body = body, ![i].run_id = run]
  <2>2. r = [held[h] EXCEPT ![i] = Edited(held[h][i], id, body, run)]
    BY <1>4 DEF Edited
  <2>3. IsEntry(Edited(held[h][i], id, body, run))
    BY <1>4, EditedEntry
  <2>4. IsLedger(r)
    BY <1>2, <2>2, <2>3, PatchedOnce
  <2>5. Damage(h, r)
    BY <2>1 DEF EditEntry
  <2> HIDE DEF r
  <2> QED BY <1>1, <2>4, <2>5
<1>6. CASE StripHash(h, i)
  <2> DEFINE r == [held[h] EXCEPT ![i].entry_hash = {}]
  <2>1. r = [held[h] EXCEPT ![i] = Stripped(held[h][i])]
    BY <1>4 DEF Stripped
  <2>2. IsEntry(Stripped(held[h][i]))
    BY <1>4, StrippedEntry
  <2>3. IsLedger(r)
    BY <1>2, <2>1, <2>2, PatchedOnce
  <2>4. Damage(h, r)
    BY <1>6 DEF StripHash
  <2> HIDE DEF r
  <2> QED BY <1>1, <2>3, <2>4
<1>7. CASE DropEntry(h, i)
  <2> DEFINE r == SubSeq(held[h], 1, i - 1) \o SubSeq(held[h], i + 1, Len(held[h]))
  <2>1. i - 1 \in 0..Len(held[h]) /\ (i - 1) + (Len(held[h]) - i) <= MaxEntries
    BY <1>4, MaxEntriesAssumption
  <2>2. IsLedger(r)
    BY <1>2, <2>1, SplicedLedger DEF IsSplice
  <2>3. Damage(h, r)
    BY <1>7 DEF DropEntry
  <2> HIDE DEF r
  <2> QED BY <1>1, <2>2, <2>3
<1>8. CASE SwapEntries(h, i)
  <2> DEFINE r == [held[h] EXCEPT ![i] = held[h][i + 1], ![i + 1] = held[h][i]]
  <2>1. i + 1 \in 1..Len(held[h]) /\ IsEntry(held[h][i + 1])
    <3>1. i < Len(held[h])
      BY <1>8 DEF SwapEntries
    <3>2. i + 1 \in 1..Len(held[h])
      BY <1>4, <3>1, MaxEntriesAssumption
    <3> QED BY <1>2, <3>2, ZenonT(60) DEF IsLedger
  <2>2. IsLedger(r)
    BY <1>2, <1>4, <2>1, PatchedLedger
  <2>3. Damage(h, r)
    BY <1>8 DEF SwapEntries
  <2> HIDE DEF r
  <2> QED BY <1>1, <2>2, <2>3
<1>9. CASE \E g \in Holders \ {h} : Merge(h, g, i)
  <2>1. PICK g \in Holders \ {h} : Merge(h, g, i)
    BY <1>9
  <2> DEFINE r == SubSeq(held[h], 1, i) \o SubSeq(held[g], i + 1, Len(held[g]))
  <2>2. i < Len(held[g]) /\ Len(held[g]) \in 0..MaxEntries /\ IsLedger(held[g])
    BY <1>2, <2>1 DEF Merge, IsLedger
  <2>3. /\ i \in 0..Len(held[h]) /\ i \in 1..Len(held[g])
        /\ i + (Len(held[g]) - i) <= MaxEntries
    BY <1>4, <2>2, MaxEntriesAssumption
  <2>4. IsLedger(r)
    BY <1>2, <2>2, <2>3, SplicedLedger DEF IsSplice
  <2>5. Damage(h, r)
    BY <2>1 DEF Merge
  <2> HIDE DEF r
  <2> QED BY <1>1, <2>4, <2>5
<1> QED BY <1>3, <1>5, <1>6, <1>7, <1>8, <1>9

\* The steps that are not damage keep the types too.
LEMMA WorkKeepsType ==
  ASSUME TypeOK, NEW h \in Holders
  PROVE  /\ \A id \in EntryIds, body \in Bodies, run \in Optional(RunIds) :
              AppendEntry(h, id, body, run) => TypeOK'
         /\ \A g \in Holders \ {h} : Share(h, g) => TypeOK'
         /\ RoundTrip(h) => TypeOK'
<1>1. \A g \in Holders : IsLedger(held[g])
  BY DEF TypeOK
<1>2. ASSUME NEW id \in EntryIds, NEW body \in Bodies, NEW run \in Optional(RunIds),
             AppendEntry(h, id, body, run)
      PROVE  TypeOK'
  <2> DEFINE r == Append(held[h], NewEntry(held[h], id, body, run))
  <2>1. IsLedger(r)
    BY <1>1, <1>2, NewEntryFields, AppendedLedger DEF AppendEntry
  <2>2. held' = [held EXCEPT ![h] = r] /\ damage' = damage
    BY <1>2 DEF AppendEntry
  <2> HIDE DEF r
  <2> QED BY <2>1, <2>2 DEF TypeOK
<1>3. ASSUME NEW g \in Holders \ {h}, Share(h, g) PROVE TypeOK'
  BY <1>3 DEF TypeOK, Share
<1>4. ASSUME RoundTrip(h) PROVE TypeOK'
  <2> DEFINE r == ToDictAndLoad(held[h])
  <2>1. IsLedger(r)
    BY <1>1, ReloadedLedger
  <2>2. held' = [held EXCEPT ![h] = r] /\ damage' = damage
    BY <1>4 DEF RoundTrip
  <2> HIDE DEF r
  <2> QED BY <2>1, <2>2 DEF TypeOK
<1> QED BY <1>2, <1>3, <1>4

\* Whatever the holders do and whatever happens to their files, every holder holds a
\* ledger whose entries have the fields of LedgerEntry.
THEOREM TypeCorrect == Spec => []TypeOK
<1>1. Init => TypeOK
  <2> SUFFICES ASSUME Init PROVE TypeOK
    OBVIOUS
  <2>1. IsLedger(<< >>)
    BY MaxEntriesAssumption DEF IsLedger
  <2> QED BY <2>1, MaxDamageAssumption DEF Init, TypeOK
<1>2. TypeOK /\ [Next]_vars => TypeOK'
  <2> SUFFICES ASSUME TypeOK, [Next]_vars PROVE TypeOK'
    OBVIOUS
  <2>1. CASE UNCHANGED vars
    BY <2>1 DEF vars, TypeOK
  <2> QED BY <2>1, WorkKeepsType, DamageKeepsType DEF Next
<1> QED BY <1>1, <1>2, PTL DEF Spec

------------------------------------------------------------------------------
(* Unbroken chains.                                                        *)

\* What validate_chain asks of one entry of a chain without findings.
Sound(s, i) ==
  /\ s[i].sequence_number = i
  /\ s[i].entry_hash = {CalculateEntryHash(s[i])}
  /\ ~LinkBroken(s, i)

\* The findings of validate_chain, entry by entry.
LEMMA UnbrokenIsSound ==
  ASSUME NEW s, IsLedger(s)
  PROVE  UnbrokenChain(s) <=> \A i \in 1..Len(s) : Sound(s, i)
<1>1. SequenceErrors(s) = {} <=> \A i \in 1..Len(s) : s[i].sequence_number = i
  BY DEF SequenceErrors
<1>2. HashErrors(s) = {} <=>
        \A i \in 1..Len(s) : s[i].entry_hash = {} \/ HasValidEntryHash(s[i])
  BY DEF HashErrors
<1>3. LinkErrors(s) = {} <=> \A i \in 1..Len(s) : ~LinkBroken(s, i)
  BY DEF LinkErrors
<1>4. Warnings(s) \subseteq {<<"no entries", 0>>} <=>
        \A i \in 1..Len(s) : s[i].entry_hash # {}
  <2>1. CASE s = << >>
    <3>1. Len(s) = 0
      BY <2>1, EmptySeq
    <3> QED BY <2>1, <3>1 DEF Warnings
  <2>2. CASE s # << >>
    <3> DEFINE unhashed == {i \in 1..Len(s) : s[i].entry_hash = {}}
               found == {<<"no entry hash", i>> : i \in unhashed}
    <3>1. Warnings(s) = found
      BY <2>2 DEF Warnings
    <3>2. ASSUME NEW i \in unhashed
          PROVE  ~(found \subseteq {<<"no entries", 0>>})
      <4>1. <<"no entry hash", i>> # <<"no entries", 0>>
        OBVIOUS
      <4>2. <<"no entry hash", i>> \in found
        OBVIOUS
      <4> HIDE DEF found
      <4> QED BY <4>1, <4>2
    <3>3. unhashed = {} => found \subseteq {<<"no entries", 0>>}
      OBVIOUS
    <3>4. unhashed = {} <=> \A i \in 1..Len(s) : s[i].entry_hash # {}
      OBVIOUS
    <3> HIDE DEF found, unhashed
    <3> QED BY <3>1, <3>2, <3>3, <3>4
  <2> QED BY <2>1, <2>2
<1>5. \A i \in 1..Len(s) :
        Sound(s, i) <=> /\ s[i].sequence_number = i
                        /\ s[i].entry_hash = {} \/ HasValidEntryHash(s[i])
                        /\ ~LinkBroken(s, i)
                        /\ s[i].entry_hash # {}
  BY DEF Sound, HasValidEntryHash
<1> QED BY <1>1, <1>2, <1>3, <1>4, <1>5 DEF UnbrokenChain, ChainErrors

\* append_entry keeps an unbroken chain unbroken.
LEMMA AppendKeepsUnbroken ==
  ASSUME NEW s, IsLedger(s), UnbrokenChain(s), Len(s) < MaxEntries,
         NEW id \in EntryIds, NEW body \in Bodies, NEW run \in Optional(RunIds)
  PROVE  UnbrokenChain(Append(s, NewEntry(s, id, body, run)))
<1> DEFINE e == NewEntry(s, id, body, run)
           r == Append(s, e)
<1>1. /\ IsEntry(e)
      /\ e.sequence_number = Len(s) + 1
      /\ e.previous_entry_hash = LatestEntryHash(s)
      /\ e.entry_hash = {CalculateEntryHash(e)}
  BY NewEntryFields
<1> HIDE DEF e
<1>2. /\ IsLedger(r)
      /\ Len(r) = Len(s) + 1
      /\ \A i \in 1..Len(s) : r[i] = s[i]
      /\ r[Len(s) + 1] = e
  BY <1>1, AppendedLedger
<1> HIDE DEF r
<1>3. Len(s) \in Nat /\ \A i \in 1..Len(s) : Sound(s, i)
  BY UnbrokenIsSound, MaxEntriesAssumption DEF IsLedger
<1>4. ASSUME NEW i \in 1..Len(s) PROVE Sound(r, i)
  <2>1. r[i] = s[i] /\ (i # 1 => r[i - 1] = s[i - 1])
    BY <1>2, <1>3
  <2> QED BY <1>3, <2>1 DEF Sound, LinkBroken
<1>5. Sound(r, Len(s) + 1)
  <2>1. CASE Len(s) = 0
    <3>1. s = << >>
      BY <2>1 DEF IsLedger
    <3> QED BY <1>1, <1>2, <2>1, <3>1 DEF Sound, LinkBroken, LatestEntryHash
  <2>2. CASE Len(s) # 0
    <3>1. /\ s # << >> /\ Len(s) + 1 # 1 /\ Len(s) \in 1..Len(s)
          /\ (Len(s) + 1) - 1 = Len(s)
      BY <1>3, <2>2, EmptySeq
    <3>2. r[(Len(s) + 1) - 1] = s[Len(s)]
      BY <1>2, <3>1
    <3> QED BY <1>1, <1>2, <3>1, <3>2 DEF Sound, LinkBroken, LatestEntryHash
  <2> QED BY <2>1, <2>2
<1>6. \A i \in 1..Len(r) : Sound(r, i)
  BY <1>2, <1>3, <1>4, <1>5
<1> QED BY <1>2, <1>6, UnbrokenIsSound DEF r, e

\* Writing an unbroken ledger and reading it back changes nothing.
LEMMA ReloadKeepsUnbroken ==
  ASSUME NEW s, IsLedger(s), UnbrokenChain(s)
  PROVE  ToDictAndLoad(s) = s
<1>1. ASSUME NEW i \in 1..Len(s)
      PROVE  [s[i] EXCEPT !.entry_hash = StoredOrComputedHash(s[i])] = s[i]
  <2>1. StoredOrComputedHash(s[i]) = s[i].entry_hash
    BY UnbrokenIsSound DEF StoredOrComputedHash, Sound
  <2>2. IsEntry(s[i])
    BY DEF IsLedger
  <2> DEFINE x == s[i]
  <2> HIDE DEF x
  <2>3. IsEntry(x) => [x EXCEPT !.entry_hash = x.entry_hash] = x
    BY DEF IsEntry
  <2> QED BY <2>1, <2>2, <2>3 DEF x
<1>2. s = [i \in 1..Len(s) |-> s[i]]
  BY DEF IsLedger
<1> QED BY <1>1, <1>2 DEF ToDictAndLoad

\* The strengthening: IntactLedgerReportsOnlyRepeats says nothing of the links of a
\* ledger that holds one entry twice, so it is not inductive.
IntactIsUnbroken == \A h \in Holders : damage[h] = 0 => UnbrokenChain(held[h])

\* Of a ledger that only append_entry and file round trips built, in whatever order
\* its holders shared it, validate_chain reports repeated ids and nothing else.
THEOREM IntactIsInvariant == Spec => []IntactLedgerReportsOnlyRepeats
<1>1. Init => IntactIsUnbroken
  <2> SUFFICES ASSUME Init, NEW h \in Holders PROVE UnbrokenChain(held[h])
    BY DEF IntactIsUnbroken
  <2>1. held[h] = << >> /\ Len(<< >>) = 0 /\ IsLedger(<< >>)
    BY MaxEntriesAssumption DEF Init, IsLedger
  <2> QED BY <2>1, UnbrokenIsSound
<1>2. TypeOK /\ IntactIsUnbroken /\ [Next]_vars => IntactIsUnbroken'
  <2> SUFFICES ASSUME TypeOK, IntactIsUnbroken, [Next]_vars
               PROVE  IntactIsUnbroken'
    OBVIOUS
  <2>1. ASSUME NEW h \in Holders, NEW id \in EntryIds, NEW body \in Bodies,
               NEW run \in Optional(RunIds), AppendEntry(h, id, body, run)
        PROVE  IntactIsUnbroken'
    <3> DEFINE r == Append(held[h], NewEntry(held[h], id, body, run))
    <3>1. damage[h] = 0 => UnbrokenChain(r)
      BY <2>1, AppendKeepsUnbroken DEF AppendEntry, IntactIsUnbroken, TypeOK
    <3>2. held' = [held EXCEPT ![h] = r] /\ damage' = damage
      BY <2>1 DEF AppendEntry
    <3> HIDE DEF r
    <3> QED BY <3>1, <3>2 DEF IntactIsUnbroken, TypeOK
  <2>2. ASSUME NEW h \in Holders, NEW g \in Holders \ {h}, Share(h, g)
        PROVE  IntactIsUnbroken'
    BY <2>2 DEF IntactIsUnbroken, TypeOK, Share
  <2>3. ASSUME NEW h \in Holders, RoundTrip(h) PROVE IntactIsUnbroken'
    <3> DEFINE r == ToDictAndLoad(held[h])
    <3>1. damage[h] = 0 => r = held[h]
      BY ReloadKeepsUnbroken DEF IntactIsUnbroken, TypeOK
    <3>2. held' = [held EXCEPT ![h] = r] /\ damage' = damage
      BY <2>3 DEF RoundTrip
    <3> HIDE DEF r
    <3> QED BY <3>1, <3>2 DEF IntactIsUnbroken, TypeOK
  <2>4. ASSUME NEW h \in Holders, DamageStep(h) PROVE IntactIsUnbroken'
    <3>1. damage'[h] # 0 /\ OnlyAt(h)
      BY <2>4, DamageKeepsType DEF TypeOK
    <3> QED BY <3>1 DEF IntactIsUnbroken, OnlyAt
  <2>5. CASE UNCHANGED vars
    BY <2>5 DEF vars, IntactIsUnbroken
  <2> QED BY <2>1, <2>2, <2>3, <2>4, <2>5 DEF Next
<1>3. TypeOK /\ IntactIsUnbroken => IntactLedgerReportsOnlyRepeats
  <2> SUFFICES ASSUME TypeOK, NEW h \in Holders, UnbrokenChain(held[h])
               PROVE  /\ \A unique \in BOOLEAN :
                           Errors(held[h], unique) = DuplicateErrors(held[h], unique)
                      /\ held[h] # << >> => Warnings(held[h]) = {}
    BY DEF IntactIsUnbroken, IntactLedgerReportsOnlyRepeats
  <2>1. ChainErrors(held[h]) = {}
    BY DEF UnbrokenChain
  <2>2. \A unique \in BOOLEAN : Errors(held[h], unique) = DuplicateErrors(held[h], unique)
    BY <2>1 DEF Errors
  <2>3. ASSUME held[h] # << >> PROVE Warnings(held[h]) = {}
    <3>1. IsLedger(held[h])
      BY DEF TypeOK
    <3>2. \A i \in 1..Len(held[h]) :
            held[h][i].entry_hash = {CalculateEntryHash(held[h][i])}
      BY <3>1, UnbrokenIsSound DEF Sound
    <3>3. \A i \in 1..Len(held[h]) : held[h][i].entry_hash # {}
      BY <3>2
    <3> QED BY <2>3, <3>3 DEF Warnings
  <2> QED BY <2>2, <2>3
<1> QED BY <1>1, <1>2, <1>3, TypeCorrect, PTL DEF Spec

\* Two sound entries with the same hash are the same entry.
LEMMA HashCommits ==
  ASSUME NEW d, IsEntry(d), d.entry_hash = {CalculateEntryHash(d)},
         NEW e, IsEntry(e), e.entry_hash = {CalculateEntryHash(e)},
         d.entry_hash = e.entry_hash
  PROVE  d = e
<1>1. EntryMaterial(d) = EntryMaterial(e)
  <2>1. CalculateEntryHash(d) = CalculateEntryHash(e)
    OBVIOUS
  <2> DEFINE x == EntryMaterial(d)
             y == EntryMaterial(e)
  <2>2. <<"sha256", x>> = <<"sha256", y>>
    BY <2>1 DEF CalculateEntryHash, Sha256
  <2> HIDE DEF x, y
  <2>3. <<"sha256", x>>[2] = x /\ <<"sha256", y>>[2] = y
    OBVIOUS
  <2>4. x = y
    BY <2>2, <2>3
  <2> QED BY <2>4 DEF x, y
<1>2. /\ d.entry_id = e.entry_id
      /\ d.sequence_number = e.sequence_number
      /\ d.body = e.body
      /\ d.run_id = e.run_id
      /\ d.previous_entry_hash = e.previous_entry_hash
  BY <1>1 DEF EntryMaterial
<1> QED BY <1>2 DEF IsEntry

\* In two unbroken chains, entries that agree at one place agree at the place before.
LEMMA LinkCommits ==
  ASSUME NEW s, IsLedger(s), UnbrokenChain(s), NEW t, IsLedger(t), UnbrokenChain(t),
         NEW i \in (1..Len(s)) \cap (1..Len(t)), i # 1, s[i] = t[i]
  PROVE  s[i - 1] = t[i - 1]
<1>1. i - 1 \in 1..Len(s) /\ i - 1 \in 1..Len(t)
  BY MaxEntriesAssumption DEF IsLedger
<1>2. /\ Sound(s, i) /\ Sound(t, i) /\ Sound(s, i - 1) /\ Sound(t, i - 1)
      /\ IsEntry(s[i - 1]) /\ IsEntry(t[i - 1])
  BY <1>1, UnbrokenIsSound DEF IsLedger
<1>3. StoredOrComputedHash(s[i - 1]) = StoredOrComputedHash(t[i - 1])
  BY <1>2 DEF Sound, LinkBroken
<1>4. s[i - 1].entry_hash = t[i - 1].entry_hash
  BY <1>2, <1>3 DEF StoredOrComputedHash, Sound
<1> QED BY <1>2, <1>4, HashCommits DEF Sound

\* By induction from a common place down to the first entry: the distance of a place
\* where the chains differ from the common place has no least value.
LEMMA ChainCommits ==
  ASSUME NEW s, IsLedger(s), UnbrokenChain(s), NEW t, IsLedger(t), UnbrokenChain(t),
         NEW i \in (1..Len(s)) \cap (1..Len(t)), s[i] = t[i]
  PROVE  \A j \in 1..i : s[j] = t[j]
<1> DEFINE differ == {n \in Nat : i - n \in 1..i /\ s[i - n] # t[i - n]}
<1>1. i \in Nat /\ 1..i \subseteq (1..Len(s)) \cap (1..Len(t))
  BY MaxEntriesAssumption DEF IsLedger
<1>2. differ = {}
  <2> SUFFICES ASSUME differ # {} PROVE FALSE
    OBVIOUS
  <2>1. PICK n \in differ : \A m \in differ : n <= m
    BY LeastElement
  <2>2. n # 0 /\ n \in Nat /\ i - n \in 1..i /\ s[i - n] # t[i - n]
    BY <1>1, <2>1
  <2>3. /\ n - 1 \in Nat /\ ~(n <= n - 1) /\ i - (n - 1) \in 1..i
        /\ (i - (n - 1)) - 1 = i - n /\ i - (n - 1) # 1
    BY <1>1, <2>2
  <2>4. n - 1 \notin differ
    BY <2>1, <2>3
  <2>5. s[i - (n - 1)] = t[i - (n - 1)]
    BY <2>3, <2>4
  <2>6. s[(i - (n - 1)) - 1] = t[(i - (n - 1)) - 1]
    BY <1>1, <2>3, <2>5, LinkCommits
  <2> QED BY <2>2, <2>3, <2>6
<1>3. ASSUME NEW j \in 1..i PROVE s[j] = t[j]
  <2>1. i - j \in Nat /\ i - (i - j) = j
    BY <1>1
  <2> QED BY <1>2, <2>1
<1> QED BY <1>3

\* An entry of an unbroken chain commits to everything recorded before it.
THEOREM CommitmentIsInvariant == Spec => []EntryCommitsToHistory
<1>1. TypeOK => EntryCommitsToHistory
  BY ChainCommits DEF TypeOK, EntryCommitsToHistory
<1> QED BY <1>1, TypeCorrect, PTL

\* Two unbroken ledgers with the same latest hash are the same ledger.
LEMMA LatestHashCommits ==
  ASSUME NEW s, IsLedger(s), UnbrokenChain(s), NEW t, IsLedger(t), UnbrokenChain(t),
         LatestEntryHash(s) = LatestEntryHash(t)
  PROVE  s = t
<1>1. /\ Len(s) \in Nat /\ Len(t) \in Nat
      /\ s = [i \in 1..Len(s) |-> s[i]] /\ t = [i \in 1..Len(t) |-> t[i]]
  BY MaxEntriesAssumption DEF IsLedger
<1>2. ASSUME NEW u, IsLedger(u), UnbrokenChain(u), u # << >>
      PROVE  /\ Len(u) \in 1..Len(u)
             /\ Sound(u, Len(u)) /\ IsEntry(u[Len(u)])
             /\ LatestEntryHash(u) = u[Len(u)].entry_hash
             /\ LatestEntryHash(u) # {}
  <2>1. Len(u) \in Nat /\ u = [i \in 1..Len(u) |-> u[i]]
    BY <1>2, MaxEntriesAssumption DEF IsLedger
  <2>2. Len(u) # 0
    BY <1>2, <2>1
  <2>3. Len(u) \in 1..Len(u)
    BY <2>1, <2>2
  <2>4. Sound(u, Len(u)) /\ IsEntry(u[Len(u)])
    BY <1>2, <2>3, UnbrokenIsSound DEF IsLedger
  <2> QED BY <1>2, <2>3, <2>4 DEF LatestEntryHash, StoredOrComputedHash, Sound
<1>3. CASE s = << >> \/ t = << >>
  BY <1>2, <1>3 DEF LatestEntryHash
<1>4. CASE s # << >> /\ t # << >>
  <2>1. s[Len(s)] = t[Len(t)]
    BY <1>2, <1>4, HashCommits DEF Sound
  <2>2. Len(s) = Len(t) /\ Len(s) \in 1..Len(s)
    BY <1>2, <1>4, <2>1 DEF Sound
  <2>3. \A j \in 1..Len(s) : s[j] = t[j]
    BY <2>1, <2>2, ChainCommits
  <2> QED BY <1>1, <2>2, <2>3
<1> QED BY <1>3, <1>4

\* The latest entry hash identifies an unbroken ledger.
THEOREM LatestHashIsInvariant == Spec => []LatestHashIdentifiesLedger
<1>1. TypeOK => LatestHashIdentifiesLedger
  BY LatestHashCommits DEF TypeOK, LatestHashIdentifiesLedger
<1> QED BY <1>1, TypeCorrect, PTL

------------------------------------------------------------------------------
(* What a step may never do.                                               *)

\* Everything validate_chain looks at survives the file, the computed hash included.
LEMMA ReloadedEntry ==
  ASSUME NEW e, IsEntry(e)
  PROVE  LET f == [e EXCEPT !.entry_hash = StoredOrComputedHash(e)] IN
         /\ f.entry_id = e.entry_id
         /\ f.run_id = e.run_id
         /\ f.sequence_number = e.sequence_number
         /\ f.previous_entry_hash = e.previous_entry_hash
         /\ StoredOrComputedHash(f) = StoredOrComputedHash(e)
         /\ (f.entry_hash # {} /\ ~HasValidEntryHash(f))
              <=> (e.entry_hash # {} /\ ~HasValidEntryHash(e))
<1> DEFINE x == StoredOrComputedHash(e)
           f == [e EXCEPT !.entry_hash = x]
<1>1. /\ f.entry_id = e.entry_id
      /\ f.run_id = e.run_id
      /\ f.body = e.body
      /\ f.sequence_number = e.sequence_number
      /\ f.previous_entry_hash = e.previous_entry_hash
      /\ f.entry_hash = x
  <2> HIDE DEF x
  <2> QED BY DEF IsEntry
<1> HIDE DEF f
<1>2. CalculateEntryHash(f) = CalculateEntryHash(e)
  BY <1>1 DEF CalculateEntryHash, EntryMaterial
<1>3. x # {} /\ (e.entry_hash = {} => x = {CalculateEntryHash(e)})
      /\ (e.entry_hash # {} => x = e.entry_hash)
  BY DEF StoredOrComputedHash
<1>4. StoredOrComputedHash(f) = x
  BY <1>1, <1>3 DEF StoredOrComputedHash
<1>5. (f.entry_hash # {} /\ ~HasValidEntryHash(f))
        <=> (e.entry_hash # {} /\ ~HasValidEntryHash(e))
  BY <1>1, <1>2, <1>3 DEF HasValidEntryHash
<1> QED BY <1>1, <1>4, <1>5 DEF f

\* So validate_chain finds the same in the ledger and in the one read back.
LEMMA ReloadKeepsErrors ==
  ASSUME NEW s, IsLedger(s)
  PROVE  Errors(ToDictAndLoad(s), TRUE) = Errors(s, TRUE)
<1> DEFINE r == ToDictAndLoad(s)
<1>1. Len(r) = Len(s) /\ Len(s) \in Nat
  BY ReloadedLedger, MaxEntriesAssumption DEF IsLedger
<1>2. \A i \in 1..Len(s) :
        /\ r[i].entry_id = s[i].entry_id
        /\ r[i].run_id = s[i].run_id
        /\ r[i].sequence_number = s[i].sequence_number
        /\ r[i].previous_entry_hash = s[i].previous_entry_hash
        /\ StoredOrComputedHash(r[i]) = StoredOrComputedHash(s[i])
        /\ (r[i].entry_hash # {} /\ ~HasValidEntryHash(r[i]))
             <=> (s[i].entry_hash # {} /\ ~HasValidEntryHash(s[i]))
  <2> SUFFICES ASSUME NEW i \in 1..Len(s)
               PROVE  /\ r[i].entry_id = s[i].entry_id
                      /\ r[i].run_id = s[i].run_id
                      /\ r[i].sequence_number = s[i].sequence_number
                      /\ r[i].previous_entry_hash = s[i].previous_entry_hash
                      /\ StoredOrComputedHash(r[i]) = StoredOrComputedHash(s[i])
                      /\ (r[i].entry_hash # {} /\ ~HasValidEntryHash(r[i]))
                           <=> (s[i].entry_hash # {} /\ ~HasValidEntryHash(s[i]))
    OBVIOUS
  <2> DEFINE e == s[i]
             f == [e EXCEPT !.entry_hash = StoredOrComputedHash(e)]
  <2>1. IsEntry(e) /\ r[i] = f
    BY ReloadedLedger DEF IsLedger
  <2>2. /\ f.entry_id = e.entry_id
        /\ f.run_id = e.run_id
        /\ f.sequence_number = e.sequence_number
        /\ f.previous_entry_hash = e.previous_entry_hash
        /\ StoredOrComputedHash(f) = StoredOrComputedHash(e)
        /\ (f.entry_hash # {} /\ ~HasValidEntryHash(f))
             <=> (e.entry_hash # {} /\ ~HasValidEntryHash(e))
    BY <2>1, ReloadedEntry
  <2> HIDE DEF f, r
  <2> QED BY <2>1, <2>2
<1> HIDE DEF r
<1>3. DuplicateEntryIds(r) = DuplicateEntryIds(s)
  BY <1>1, <1>2, ZenonT(60) DEF DuplicateEntryIds
<1>4. DuplicateRunIds(r) = DuplicateRunIds(s)
  BY <1>1, <1>2, ZenonT(60) DEF DuplicateRunIds
<1>5. SequenceErrors(r) = SequenceErrors(s)
  BY <1>1, <1>2 DEF SequenceErrors
<1>6. HashErrors(r) = HashErrors(s)
  BY <1>1, <1>2 DEF HashErrors
<1>7. LinkErrors(r) = LinkErrors(s)
  <2>1. \A i \in 1..Len(s) : LinkBroken(r, i) <=> LinkBroken(s, i)
    <3> SUFFICES ASSUME NEW i \in 1..Len(s) PROVE LinkBroken(r, i) <=> LinkBroken(s, i)
      OBVIOUS
    <3>1. i # 1 => i - 1 \in 1..Len(s)
      BY <1>1
    <3> QED BY <1>2, <3>1 DEF LinkBroken
  <2> QED BY <1>1, <2>1 DEF LinkErrors
<1> QED
  BY <1>3, <1>4, <1>5, <1>6, <1>7 DEF Errors, DuplicateErrors, ChainErrors, r

\* A file round trip neither hides nor invents an error of validate_chain.
THEOREM RoundTripIsFaithful == Spec => RoundTripKeepsErrors
<1>1. TypeOK /\ [Next]_vars =>
        [\A h \in Holders :
           RoundTrip(h) => Errors(held'[h], TRUE) = Errors(held[h], TRUE)]_vars
  <2> SUFFICES ASSUME TypeOK, NEW h \in Holders, RoundTrip(h)
               PROVE  Errors(held'[h], TRUE) = Errors(held[h], TRUE)
    OBVIOUS
  <2>1. held'[h] = ToDictAndLoad(held[h])
    BY DEF RoundTrip, TypeOK
  <2> QED BY <2>1, ReloadKeepsErrors DEF TypeOK
<1> QED BY <1>1, TypeCorrect, PTL DEF Spec, RoundTripKeepsErrors

\* One lost, swapped or changed entry, or a lost hash, is reported: the sequence
\* number, the hash or the missing hash of the first entry it affects gives it away.
LEMMA OneDamageShows ==
  ASSUME TypeOK, NEW h \in Holders, UnbrokenChain(held[h]), NEW i \in 1..Len(held[h]),
         \/ \E id \in EntryIds, body \in Bodies, run \in Optional(RunIds) :
              EditEntry(h, i, id, body, run)
         \/ StripHash(h, i)
         \/ i < Len(held[h]) /\ DropEntry(h, i)
         \/ SwapEntries(h, i)
  PROVE  ~UnbrokenChain(held'[h])
<1> DEFINE s == held[h]
           r == held'[h]
<1>1. IsLedger(s) /\ IsLedger(r)
  <2>1. DamageStep(h)
    BY DEF DamageStep
  <2> QED BY <2>1, DamageKeepsType DEF TypeOK
<1>2. /\ Len(s) \in 0..MaxEntries /\ Len(s) \in Nat
      /\ \A k \in 1..Len(s) : IsEntry(s[k]) /\ Sound(s, k)
      /\ s = [k \in 1..Len(s) |-> s[k]]
  BY <1>1, UnbrokenIsSound, MaxEntriesAssumption DEF IsLedger
<1>3. SUFFICES ASSUME \A k \in 1..Len(r) : Sound(r, k) PROVE FALSE
  BY <1>1, UnbrokenIsSound
<1>4. CASE \E id \in EntryIds, body \in Bodies, run \in Optional(RunIds) :
             EditEntry(h, i, id, body, run)
  <2>1. PICK id \in EntryIds, body \in Bodies, run \in Optional(RunIds) :
          EditEntry(h, i, id, body, run)
    BY <1>4
  <2> DEFINE e == Edited(s[i], id, body, run)
  <2>2. r = [s EXCEPT ![i] = e]
    BY <1>2, <2>1 DEF EditEntry, Damage, Edited, TypeOK
  <2>3. IsEntry(e)
    BY <1>2, EditedEntry
  <2>4. Len(r) = Len(s) /\ r[i] = e
    BY <1>1, <2>2, <2>3, PatchedOnce
  <2>5. /\ e.entry_hash = s[i].entry_hash
        /\ e.entry_id = id /\ e.body = body /\ e.run_id = run
    BY <1>2, EditedEntry
  <2> HIDE DEF e
  <2>6. e = s[i]
    BY <1>2, <1>3, <2>3, <2>4, <2>5, HashCommits DEF Sound
  <2> QED BY <2>1, <2>5, <2>6 DEF EditEntry
<1>5. CASE StripHash(h, i)
  <2>1. r = [s EXCEPT ![i] = Stripped(s[i])]
    BY <1>2, <1>5 DEF StripHash, Damage, Stripped, TypeOK
  <2>2. IsEntry(Stripped(s[i])) /\ Stripped(s[i]).entry_hash = {}
    BY <1>2, StrippedEntry
  <2>3. Len(r) = Len(s) /\ r[i] = Stripped(s[i])
    BY <1>1, <2>1, <2>2, PatchedOnce
  <2> QED BY <1>3, <2>2, <2>3 DEF Sound
<1>6. CASE i < Len(held[h]) /\ DropEntry(h, i)
  <2>1. r = SubSeq(s, 1, i - 1) \o SubSeq(s, i + 1, Len(s))
    BY <1>6 DEF DropEntry, Damage, TypeOK
  <2>2. /\ i - 1 \in 0..Len(s) /\ (i - 1) + (Len(s) - i) = Len(s) - 1
        /\ Len(s) - 1 <= MaxEntries /\ i \in (i - 1 + 1)..(Len(s) - 1)
        /\ i + i - (i - 1) = i + 1 /\ i + 1 \in 1..Len(s) /\ i \in 1..(Len(s) - 1)
    <3> DEFINE n == Len(s)
    <3>1. n \in Nat /\ n <= MaxEntries /\ i \in 1..n /\ i < n
      BY <1>2, <1>6, MaxEntriesAssumption
    <3> HIDE DEF n
    <3>2. /\ i - 1 \in 0..n /\ (i - 1) + (n - i) = n - 1
          /\ n - 1 <= MaxEntries /\ i \in (i - 1 + 1)..(n - 1)
          /\ i + i - (i - 1) = i + 1 /\ i + 1 \in 1..n /\ i \in 1..(n - 1)
      BY <3>1, MaxEntriesAssumption
    <3> QED BY <3>2 DEF n
  <2> DEFINE k == i - 1
  <2>3. /\ Len(r) = k + (Len(s) - i)
        /\ \A j \in (k + 1)..(k + (Len(s) - i)) : r[j] = s[i + j - k]
    <3>1. k \in 0..Len(s) /\ k + (Len(s) - i) <= MaxEntries /\ i \in 1..Len(s)
      BY <2>2
    <3>2. r = SubSeq(s, 1, k) \o SubSeq(s, i + 1, Len(s))
      BY <2>1
    <3> HIDE DEF k, r, s
    <3>3. IsLedger(s)
      BY <1>1
    <3>4. IsSplice(r, s, k, s, i)
      BY <3>1, <3>2, <3>3, SplicedLedger
    <3> QED BY <3>4 DEF IsSplice
  <2>4. r[i] = s[i + 1] /\ i \in 1..Len(r)
    BY <2>2, <2>3
  <2> QED BY <1>2, <1>3, <2>2, <2>4 DEF Sound
<1>7. CASE SwapEntries(h, i)
  <2>1. r = [s EXCEPT ![i] = s[i + 1], ![i + 1] = s[i]]
    BY <1>7 DEF SwapEntries, Damage, TypeOK
  <2>2. i + 1 \in 1..Len(s) /\ i # i + 1
    BY <1>2, <1>7 DEF SwapEntries
  <2>3. Len(r) = Len(s) /\ r[i] = s[i + 1]
    BY <1>1, <1>2, <2>1, <2>2, PatchedLedger
  <2> QED BY <1>2, <1>3, <2>2, <2>3 DEF Sound
<1> QED BY <1>4, <1>5, <1>6, <1>7

\* The same as a theorem about every step.
THEOREM DamageShows == Spec => DamageIsReported
<1>1. TypeOK /\ [Next]_vars =>
        [\A h \in Holders :
           /\ damage'[h] > damage[h]
           /\ UnbrokenChain(held[h])
           /\ \E i \in 1..Len(held[h]) :
                \/ \E id \in EntryIds, body \in Bodies, run \in Optional(RunIds) :
                     EditEntry(h, i, id, body, run)
                \/ StripHash(h, i)
                \/ i < Len(held[h]) /\ DropEntry(h, i)
                \/ SwapEntries(h, i)
           => ~UnbrokenChain(held'[h])]_vars
  BY OneDamageShows
<1> QED BY <1>1, TypeCorrect, PTL DEF Spec, DamageIsReported
==============================================================================
