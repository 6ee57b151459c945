------------------------------ MODULE RunLedger ------------------------------
(***************************************************************************)
(* The hash-chained run ledger of ledger.py.                               *)
(*                                                                         *)
(* A RunLedger is an immutable value: append_entry returns a new one, and  *)
(* nothing stops a program from keeping the old value and appending to it  *)
(* again.  Each holder below holds one value.  Between to_dict and         *)
(* load_run_ledger the ledger is a JSON file that other tools can damage   *)
(* (THREAT_MODEL.md: "local filesystem is not assumed immutable").         *)
(***************************************************************************)
EXTENDS LedgerChain

CONSTANTS
  Holders,      \* variables of a program, or copies of the file
  EntryIds,
  RunIds,
  Bodies,       \* record_type, case_id, artifact, payload, scenario_id, tags
  MaxEntries,   \* bound on the length of a ledger
  MaxDamage     \* bound: no damage once a held copy has that much behind it

ASSUME MaxEntriesAssumption == MaxEntries \in Nat \ {0}
ASSUME MaxDamageAssumption == MaxDamage \in Nat

VARIABLES
  held,         \* held[h]: the entries of the ledger that h holds
  damage        \* damage[h]: how often the copies behind held[h] were damaged

vars == <<held, damage>>

------------------------------------------------------------------------------
Init ==
  /\ held = [h \in Holders |-> << >>]
  /\ damage = [h \in Holders |-> 0]

\* append_entry; append_evidence_bundle calls it with a body made from the bundle.
AppendEntry(h, id, body, run) ==
  /\ Len(held[h]) < MaxEntries
  /\ held' = [held EXCEPT ![h] = Append(@, NewEntry(@, id, body, run))]
  /\ UNCHANGED damage

\* A program keeps a second reference to a ledger value, or copies its file.
Share(h, g) ==
  /\ held' = [held EXCEPT ![g] = held[h]]
  /\ damage' = [damage EXCEPT ![g] = damage[h]]

\* The ledger is written with to_dict and read back with load_run_ledger.
RoundTrip(h) ==
  /\ held' = [held EXCEPT ![h] = ToDictAndLoad(@)]
  /\ UNCHANGED damage

Damage(h, entries) ==
  /\ \A g \in Holders : damage[g] < MaxDamage
  /\ held' = [held EXCEPT ![h] = entries]
  /\ damage' = [damage EXCEPT ![h] = @ + 1]

\* The content of an entry of the file is changed, and its hash is not.
EditEntry(h, i, id, body, run) ==
  /\ <<id, body, run>> # <<held[h][i].entry_id, held[h][i].body, held[h][i].run_id>>
  /\ Damage(h, [held[h] EXCEPT ![i].entry_id = id, ![i].body = body, ![i].run_id = run])

\* The hash of an entry is lost.
StripHash(h, i) ==
  /\ held[h][i].entry_hash # {}
  /\ Damage(h, [held[h] EXCEPT ![i].entry_hash = {}])

\* An entry is lost.
DropEntry(h, i) ==
  Damage(h, SubSeq(held[h], 1, i - 1) \o SubSeq(held[h], i + 1, Len(held[h])))

\* Two neighbouring entries come back in the wrong order.
SwapEntries(h, i) ==
  /\ i < Len(held[h])
  /\ Damage(h, [held[h] EXCEPT ![i] = held[h][i + 1], ![i + 1] = held[h][i]])

\* Two copies of the file are merged: the head of one, the tail of the other.
Merge(h, g, i) ==
  /\ i < Len(held[g])
  /\ Damage(h, SubSeq(held[h], 1, i) \o SubSeq(held[g], i + 1, Len(held[g])))

DamageStep(h) ==
  \E i \in 1..Len(held[h]) :
    \/ \E id \in EntryIds, body \in Bodies, run \in Optional(RunIds) :
         EditEntry(h, i, id, body, run)
    \/ StripHash(h, i)
    \/ DropEntry(h, i)
    \/ SwapEntries(h, i)
    \/ \E g \in Holders \ {h} : Merge(h, g, i)

Next ==
  \E h \in Holders :
    \/ \E id \in EntryIds, body \in Bodies, run \in Optional(RunIds) :
         AppendEntry(h, id, body, run)
    \/ \E g \in Holders \ {h} : Share(h, g)
    \/ RoundTrip(h)
    \/ DamageStep(h)

Spec == Init /\ [][Next]_vars

------------------------------------------------------------------------------
\* An entry has exactly the fields of LedgerEntry; an optional hash is empty
\* or a single hash.
IsEntry(e) ==
  /\ e = [entry_id            |-> e.entry_id,
          sequence_number     |-> e.sequence_number,
          body                |-> e.body,
          run_id              |-> e.run_id,
          previous_entry_hash |-> e.previous_entry_hash,
          entry_hash          |-> e.entry_hash]
  /\ e.entry_id \in EntryIds
  /\ e.sequence_number \in Nat \ {0}
  /\ e.body \in Bodies
  /\ e.run_id \in Optional(RunIds)

IsLedger(entries) ==
  /\ entries = [i \in 1..Len(entries) |-> entries[i]]
  /\ Len(entries) \in 0..MaxEntries
  /\ \A i \in 1..Len(entries) : IsEntry(entries[i])

\* Every holder holds a ledger whose entries have the fields of LedgerEntry.
TypeOK ==
  /\ DOMAIN held = Holders
  /\ damage \in [Holders -> 0..MaxDamage]
  /\ \A h \in Holders : IsLedger(held[h])

\* Of a ledger that append_entry and file round trips built, in whatever order two
\* holders shared and forked it, validate_chain reports the ids that the caller
\* repeated, which append_entry does not check, and nothing else: with every entry
\* id new, the program's own work is valid and has no warning.
IntactLedgerReportsOnlyRepeats ==
  \A h \in Holders : damage[h] = 0 =>
    /\ \A unique \in BOOLEAN :
         Errors(held[h], unique) = DuplicateErrors(held[h], unique)
    /\ held[h] # << >> => Warnings(held[h]) = {}

\* Two unbroken ledgers that carry the same entry at a place carry the same
\* history up to that place: an entry of an unbroken chain commits to everything
\* recorded before it, whatever forks, merges and damage came between.
EntryCommitsToHistory ==
  \A g, h \in Holders :
    UnbrokenChain(held[g]) /\ UnbrokenChain(held[h]) =>
      \A i \in (1..Len(held[g])) \cap (1..Len(held[h])) :
        held[g][i] = held[h][i] => \A j \in 1..i : held[g][j] = held[h][j]

\* The latest entry hash, which the CLI prints, identifies a whole unbroken
\* ledger: two unbroken ledgers with the same latest hash are the same ledger.
LatestHashIdentifiesLedger ==
  \A g, h \in Holders :
    /\ UnbrokenChain(held[g]) /\ UnbrokenChain(held[h])
    /\ LatestEntryHash(held[g]) = LatestEntryHash(held[h])
    => held[g] = held[h]

\* An unbroken ledger that loses, swaps or changes one entry, or the hash of one,
\* is reported by the next validate_chain.  The loss of the last entries is the
\* one damage the chain cannot show, and a merge can yield an unbroken one:
\* the two properties above say which.
DamageIsReported ==
  [][\A h \in Holders :
       /\ damage'[h] > damage[h]
       /\ UnbrokenChain(held[h])
       /\ \E i \in 1..Len(held[h]) :
            \/ \E id \in EntryIds, body \in Bodies, run \in Optional(RunIds) :
                 EditEntry(h, i, id, body, run)
            \/ StripHash(h, i)
            \/ i < Len(held[h]) /\ DropEntry(h, i)
            \/ SwapEntries(h, i)
       => ~UnbrokenChain(held'[h])]_vars

\* Writing a ledger and reading it back neither hides nor invents an error, even
\* when to_dict fills in the hashes that are missing.
RoundTripKeepsErrors ==
  [][\A h \in Holders :
       RoundTrip(h) => Errors(held'[h], TRUE) = Errors(held[h], TRUE)]_vars
==============================================================================
