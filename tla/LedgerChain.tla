----------------------------- MODULE LedgerChain -----------------------------
(***************************************************************************)
(* The entries of a run ledger (ledger.py): how an entry is hashed and     *)
(* linked to the one before it, what the JSON form keeps, and what         *)
(* validate_chain reports.  A ledger is the sequence of its entries.       *)
(*                                                                         *)
(* An entry's body stands for the fields that no check looks into: record  *)
(* type, case, artifact, payload, scenario, author and tags.               *)
(***************************************************************************)
EXTENDS Evidence

\* Faulty: a hash that does not cover the link to the previous entry.
EntryMaterialUnlinked(e) ==
  [entry_id |-> e.entry_id, sequence_number |-> e.sequence_number,
   body |-> e.body, run_id |-> e.run_id]

EntryMaterial(e) ==
  [entry_id            |-> e.entry_id,
   sequence_number     |-> e.sequence_number,
   body                |-> e.body,
   run_id              |-> e.run_id,
   previous_entry_hash |-> e.previous_entry_hash]

CalculateEntryHash(e) == Sha256(EntryMaterial(e))

\* Faulty: any stored hash is believed.
HasStoredEntryHash(e) == e.entry_hash # {}

HasValidEntryHash(e) == e.entry_hash = {CalculateEntryHash(e)}

\* entry_hash or calculate_entry_hash()
StoredOrComputedHash(e) ==
  IF e.entry_hash = {} THEN {CalculateEntryHash(e)} ELSE e.entry_hash

WithComputedHash(e) == [e EXCEPT !.entry_hash = {CalculateEntryHash(e)}]

LatestEntryHash(entries) ==
  IF entries = << >> THEN {} ELSE StoredOrComputedHash(entries[Len(entries)])

\* Faulty: the sequence number is the index of the entry.
NewEntryFromZero(entries, id, body, run) ==
  WithComputedHash([entry_id            |-> id,
                    sequence_number     |-> Len(entries),
                    body                |-> body,
                    run_id              |-> run,
                    previous_entry_hash |-> LatestEntryHash(entries),
                    entry_hash          |-> {}])

\* Faulty: the link is to the entry before the latest one.
NewEntrySkippingOne(entries, id, body, run) ==
  WithComputedHash([entry_id            |-> id,
                    sequence_number     |-> Len(entries) + 1,
                    body                |-> body,
                    run_id              |-> run,
                    previous_entry_hash |->
                      IF Len(entries) < 2 THEN LatestEntryHash(entries)
                      ELSE StoredOrComputedHash(entries[Len(entries) - 1]),
                    entry_hash          |-> {}])

NewEntry(entries, id, body, run) ==
  WithComputedHash([entry_id            |-> id,
                    sequence_number     |-> Len(entries) + 1,
                    body                |-> body,
                    run_id              |-> run,
                    previous_entry_hash |-> LatestEntryHash(entries),
                    entry_hash          |-> {}])

\* Faulty: to_dict computes every hash.
ToDictRehashing(entries) ==
  [i \in 1..Len(entries) |-> WithComputedHash(entries[i])]

\* to_dict writes the computed hash of an entry that has none, and
\* load_run_ledger reads the fields back as they are.
ToDictAndLoad(entries) ==
  [i \in 1..Len(entries) |->
     [entries[i] EXCEPT !.entry_hash = StoredOrComputedHash(entries[i])]]

------------------------------------------------------------------------------
(* validate_chain: every finding is a pair of its kind and its place.      *)

DuplicateEntryIds(entries) ==
  {<<"duplicate entry id", i>> :
     i \in {i \in 1..Len(entries) :
              \E j \in 1..Len(entries) \ {i} :
                entries[i].entry_id = entries[j].entry_id}}

DuplicateRunIds(entries) ==
  {<<"duplicate run id", i>> :
     i \in {i \in 1..Len(entries) :
              /\ entries[i].run_id # {}
              /\ \E j \in 1..Len(entries) \ {i} :
                   entries[i].run_id = entries[j].run_id}}

DuplicateErrors(entries, requireUniqueRunIds) ==
  DuplicateEntryIds(entries) \cup
  (IF requireUniqueRunIds THEN DuplicateRunIds(entries) ELSE {})

SequenceErrors(entries) ==
  {<<"sequence number", i>> :
     i \in {i \in 1..Len(entries) : entries[i].sequence_number # i}}

HashErrors(entries) ==
  {<<"hash mismatch", i>> :
     i \in {i \in 1..Len(entries) : /\ entries[i].entry_hash # {}
                                    /\ ~HasValidEntryHash(entries[i])}}

LinkBroken(entries, i) ==
  IF i = 1
  THEN entries[i].previous_entry_hash # {}
  ELSE entries[i].previous_entry_hash # StoredOrComputedHash(entries[i - 1])

LinkErrors(entries) ==
  {<<"previous hash", i>> : i \in {i \in 1..Len(entries) : LinkBroken(entries, i)}}

ChainErrors(entries) ==
  SequenceErrors(entries) \cup HashErrors(entries) \cup LinkErrors(entries)

Errors(entries, requireUniqueRunIds) ==
  DuplicateErrors(entries, requireUniqueRunIds) \cup ChainErrors(entries)

Warnings(entries) ==
  IF entries = << >>
  THEN {<<"no entries", 0>>}
  ELSE {<<"no entry hash", i>> :
          i \in {i \in 1..Len(entries) : entries[i].entry_hash = {}}}

\* Every entry has its place, its hash and its link: what validate_chain says of
\* the chain itself, leaving aside repeated ids and that there are no entries.
UnbrokenChain(entries) ==
  ChainErrors(entries) = {} /\ Warnings(entries) \subseteq {<<"no entries", 0>>}
==============================================================================
