---------------------------- MODULE TenderStore -----------------------------
(***************************************************************************)
(* The stored life of one tender: its row in tenders, its rows in          *)
(* tender_versions, and upsert_tender, the only code that writes either.   *)
(* The SELECT ... FOR UPDATE at the head of upsert_tender makes one call   *)
(* one step.                                                               *)
(*                                                                         *)
(*   row       the tenders row: its data columns, canonical_hash, whether  *)
(*             detail_fetched_at is set, and the version_no that           *)
(*             current_version_id points to, 0 when there is no row        *)
(*   versions  the tender_versions rows, version_no being the index        *)
(*   scheme    the serialization canonical_hash currently uses; a release  *)
(*             or a database session setting can change it under the       *)
(*             stored hashes                                               *)
(***************************************************************************)
EXTENDS TenderRecord, Sequences

CONSTANTS
  ListRecords,    \* what a list page may say of this tender
  DetailRecords,  \* what its detail page may say
  MaxVersions,    \* bound on Len(versions)
  MaxScheme       \* bound on scheme

ASSUME StoreAssumption ==
  /\ \A r \in ListRecords \cup DetailRecords : IsRecord(r)
  /\ MaxVersions \in Nat
  /\ MaxScheme \in Nat \ {0}

VARIABLES row, versions, scheme

vars == <<row, versions, scheme>>

-----------------------------------------------------------------------------
Absent == [data |-> NULL, hash |-> NULL, detail |-> FALSE, current |-> 0]
Exists == row.current # 0
NoDiff == [f \in {} |-> NULL]

Init ==
  /\ row = Absent
  /\ versions = <<>>
  /\ scheme = 1

\* Mutant of Merged: list pages overlay the row even after a detail page.
MergedAlwaysOverlaying(incoming, isDetail) ==
  MergeRecords(RowToRecord(row.data), incoming, FALSE)

(***************************************************************************)
(* The record upsert_tender ends up with: detail pages overlay the row, a  *)
(* list page only fills its gaps once a detail page has been seen.         *)
(***************************************************************************)
Merged(incoming, isDetail) ==
  MergeRecords(RowToRecord(row.data), incoming, row.detail /\ ~isDetail)

\* Mutant of NewHash: hash what arrived instead of what is stored.
NewHashOfIncoming(incoming, isDetail) == CanonicalHash(scheme, incoming)

NewHash(incoming, isDetail) == CanonicalHash(scheme, Merged(incoming, isDetail))

\* Mutant of Diff: compare the row with what arrived instead of the merge.
DiffOfIncoming(incoming, isDetail) ==
  ChangedFields(incoming, RowToRecord(row.data))

Diff(incoming, isDetail) ==
  ChangedFields(Merged(incoming, isDetail), RowToRecord(row.data))

\* Mutant of Moved: a moved hash is a new version, diff or no diff.
MovedAlways(incoming, isDetail) == TRUE

Moved(incoming, isDetail) == DOMAIN Diff(incoming, isDetail) # {}

NewVersion(incoming, isDetail) ==
  [kind |-> InferChangeType(Merged(incoming, isDetail), RowToRecord(row.data)),
   diff |-> Diff(incoming, isDetail),
   hash |-> NewHash(incoming, isDetail)]

\* Mutant of RewrittenRow: the columns are written from what arrived.
RowOfIncoming(incoming, isDetail) ==
  [data |-> incoming, hash |-> NewHash(incoming, isDetail),
   detail |-> row.detail \/ isDetail, current |-> Len(versions) + 1]

RewrittenRow(incoming, isDetail) ==
  [data |-> Merged(incoming, isDetail), hash |-> NewHash(incoming, isDetail),
   detail |-> row.detail \/ isDetail, current |-> Len(versions) + 1]

-----------------------------------------------------------------------------
\* _insert_tender: the row and its version 1.
Insert(incoming, isDetail) ==
  LET hash == CanonicalHash(scheme, incoming)
  IN  /\ ~Exists
      /\ row' = [data |-> incoming, hash |-> hash, detail |-> isDetail, current |-> 1]
      /\ versions' = <<[kind |-> "new", diff |-> NoDiff, hash |-> hash]>>
      /\ UNCHANGED scheme

\* The hash did not move: only the timestamps are written.
Touch(incoming, isDetail) ==
  /\ Exists
  /\ NewHash(incoming, isDetail) = row.hash
  /\ row' = [row EXCEPT !.detail = @ \/ isDetail]
  /\ UNCHANGED <<versions, scheme>>

\* The hash moved and no field did: store the hash, write no version.
Heal(incoming, isDetail) ==
  /\ Exists
  /\ NewHash(incoming, isDetail) # row.hash
  /\ ~Moved(incoming, isDetail)
  /\ row' = [row EXCEPT !.hash = NewHash(incoming, isDetail),
                        !.detail = @ \/ isDetail]
  /\ UNCHANGED <<versions, scheme>>

\* A field moved: a version, and every column rewritten from the merged record.
Revise(incoming, isDetail) ==
  /\ Exists
  /\ NewHash(incoming, isDetail) # row.hash
  /\ Moved(incoming, isDetail)
  /\ Len(versions) < MaxVersions
  /\ versions' = Append(versions, NewVersion(incoming, isDetail))
  /\ row' = RewrittenRow(incoming, isDetail)
  /\ UNCHANGED scheme

Upsert(incoming, isDetail) ==
  \/ Insert(incoming, isDetail)
  \/ Touch(incoming, isDetail)
  \/ Heal(incoming, isDetail)
  \/ Revise(incoming, isDetail)

ListUpsert   == \E r \in ListRecords : Upsert(r, FALSE)
DetailUpsert == \E r \in DetailRecords : Upsert(r, TRUE)

\* Environment: the same fields now serialize differently.
Reserialize ==
  /\ scheme < MaxScheme
  /\ scheme' = scheme + 1
  /\ UNCHANGED <<row, versions>>

Next == ListUpsert \/ DetailUpsert \/ Reserialize

Spec == Init /\ [][Next]_vars

-----------------------------------------------------------------------------
IsHash(h) ==
  /\ h = [scheme |-> h.scheme, of |-> [f \in HashFields |-> h.of[f]]]
  /\ h.scheme \in 1 .. scheme
  /\ \A f \in HashFields : h.of[f] \in Value(f)

IsVersion(v) ==
  /\ v = [kind |-> v.kind, diff |-> v.diff, hash |-> v.hash]
  /\ v.kind \in ChangeTypes
  /\ v.diff = [f \in DOMAIN v.diff |-> [old |-> v.diff[f].old, new |-> v.diff[f].new]]
  /\ DOMAIN v.diff \subseteq HashFields
  /\ IsHash(v.hash)

(***************************************************************************)
(* The types, and the fact every read relies on: there is a row exactly    *)
(* when there are versions, and it points to the last of them              *)
(* (current_version_id, db/repo.py).                                       *)
(***************************************************************************)
TypeOK ==
  /\ scheme \in 1 .. MaxScheme
  /\ versions = [i \in 1 .. Len(versions) |-> versions[i]]
  /\ Len(versions) \in Nat
  /\ \A i \in 1 .. Len(versions) : IsVersion(versions[i])
  /\ row = [data |-> row.data, hash |-> row.hash,
            detail |-> row.detail, current |-> row.current]
  /\ row.detail \in BOOLEAN
  /\ row.current = Len(versions)
  /\ Exists => IsRecord(row.data) /\ IsHash(row.hash)
  /\ ~Exists => row = Absent

(***************************************************************************)
(* The stored hash is the hash of the stored columns (possibly under an    *)
(* older scheme).  If it were not, the hash comparison that decides        *)
(* whether anything changed would compare against a record nobody stored.  *)
(***************************************************************************)
HashDescribesRow ==
  Exists => \A f \in HashFields : row.hash.of[f] = row.data[f]

(***************************************************************************)
(* The history can be replayed: each version is its predecessor with the   *)
(* recorded old values replaced by the recorded new ones, and the last     *)
(* one is what the row says.  Anything that wrote columns without a        *)
(* version, or a version against the wrong base, breaks it.                *)
(***************************************************************************)
FollowsFrom(version, previous) ==
  \A f \in HashFields :
    IF f \in DOMAIN version.diff
    THEN /\ version.diff[f].old = previous.hash.of[f]
         /\ version.diff[f].new = version.hash.of[f]
    ELSE version.hash.of[f] = previous.hash.of[f]

HistoryReplays ==
  /\ \A i \in 2 .. Len(versions) : FollowsFrom(versions[i], versions[i - 1])
  /\ Exists => \A f \in HashFields : versions[Len(versions)].hash.of[f] = row.data[f]

(***************************************************************************)
(* No phantom amendment: every version after the first names a field that  *)
(* really moved, whatever happens to the serialization under it            *)
(* (the healing branch of upsert_tender).                                  *)
(***************************************************************************)
NoPhantomVersion ==
  \A i \in 2 .. Len(versions) :
    \E f \in DOMAIN versions[i].diff :
      versions[i].diff[f].old # versions[i].diff[f].new

(***************************************************************************)
(* Detail pages are authoritative: after one, a list sweep changes no      *)
(* hashed field that holds a value.                                        *)
(***************************************************************************)
ListNeverContradictsDetail ==
  [][ListUpsert /\ row.detail =>
       \A f \in HashFields : row.data[f] # NULL => row'.data[f] = row.data[f]]_vars

(***************************************************************************)
(* So the list view can never announce an amendment of such a tender: what *)
(* it adds to the history is enrichment, or a further cancellation of a    *)
(* tender already cancelled.                                               *)
(***************************************************************************)
ListNeverAmendsAfterDetail ==
  [][ListUpsert /\ row.detail /\ versions' # versions =>
       \/ versions'[Len(versions')].kind = "enrichment"
       \/ /\ row.data["status"] = "cancelled"
          /\ versions'[Len(versions')].kind = "cancellation"]_vars

(***************************************************************************)
(* A missing value never erases a known one, for every field the merge     *)
(* reads back.                                                             *)
(***************************************************************************)
KnownStaysKnown ==
  [][Exists => \A f \in Reloaded : row.data[f] # NULL => row'.data[f] # NULL]_vars

(***************************************************************************)
(* Sighting the same page again is silent: it would find every hashed      *)
(* field as it left it.  Otherwise two sweeps of an unchanged source would *)
(* manufacture a version each.                                             *)
(***************************************************************************)
Settled(incoming, isDetail) ==
  NewHash(incoming, isDetail).of = row.hash.of

ResightingIsSilent ==
  [][/\ \A r \in ListRecords : Upsert(r, FALSE) => Settled(r, FALSE)'
     /\ \A r \in DetailRecords : Upsert(r, TRUE) => Settled(r, TRUE)']_vars

(***************************************************************************)
(* merge_records is documented to let no None or empty value erase data    *)
(* (db/repo.py), and a list sweep after a detail page to only fill gaps    *)
(* (README.md).  This says it of every column of the row.                  *)
(***************************************************************************)
ListErasesNothing ==
  [][ListUpsert /\ Exists =>
       \A f \in Fields : row.data[f] # NULL => row'.data[f] # NULL]_vars
=============================================================================
