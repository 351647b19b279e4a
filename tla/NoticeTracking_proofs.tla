----------------------- MODULE NoticeTracking_proofs ------------------------
(***************************************************************************)
(* The store of tenders, for every choice of fields, values and pages: its *)
(* history, what a merge keeps, and what a sighting may change.  Then the  *)
(* crawls: what overlapping, crashing and stale runs do to one tender is   *)
(* still a behaviour of TenderStore, so everything proved of TenderStore   *)
(* holds of them; and a notice that is not amended settles.                *)
(***************************************************************************)
EXTENDS NoticeTracking, SequenceTheorems, TLAPS

-----------------------------------------------------------------------------
(* The pure functions. *)

\* Reading a row back yields a record, and the hashed fields as stored.
LEMMA RowToRecordType ==
  ASSUME NEW d, IsRecord(d)
  PROVE  /\ IsRecord(RowToRecord(d))
         /\ \A f \in Reloaded : RowToRecord(d)[f] = d[f]
BY RecordAssumption DEF IsRecord, RowToRecord, Value, Fields, Reloaded, HashFields

\* Merging two records yields a record (merge_records).
LEMMA MergeType ==
  ASSUME NEW s, NEW r, NEW b, IsRecord(s), IsRecord(r)
  PROVE  IsRecord(MergeRecords(s, r, b))
BY DEF IsRecord, MergeRecords

\* A merge never loses a value that was known, and a gap-filling one keeps it.
LEMMA MergeKeeps ==
  ASSUME NEW s, NEW r, NEW b, NEW f \in Reloaded, s[f] # NULL
  PROVE  /\ MergeRecords(s, r, b)[f] # NULL
         /\ b => MergeRecords(s, r, b)[f] = s[f]
<1>1. f \in Fields /\ f # "organization"
  BY RecordAssumption DEF Fields, Reloaded, HashFields
<1>2. QED  BY <1>1 DEF MergeRecords, Present

\* The canonical hash of a record under the current scheme is a hash.
LEMMA HashType ==
  ASSUME NEW r, IsRecord(r), scheme \in 1 .. MaxScheme
  PROVE  /\ IsHash(CanonicalHash(scheme, r))
         /\ \A f \in HashFields : CanonicalHash(scheme, r).of[f] = r[f]
<1>1. HashFields \subseteq Fields
  BY DEF Fields, Reloaded
<1>2. scheme \in 1 .. scheme
  BY StoreAssumption
<1>3. QED  BY <1>1, <1>2 DEF IsHash, CanonicalHash, IsRecord

\* Appending to a sequence keeps what it held and adds the element.
LEMMA AppendFacts ==
  ASSUME NEW s, s = [i \in 1 .. Len(s) |-> s[i]], Len(s) \in Nat, NEW e
  PROVE  /\ Len(Append(s, e)) = Len(s) + 1
         /\ \A i \in 1 .. Len(s) : Append(s, e)[i] = s[i]
         /\ Append(s, e)[Len(s) + 1] = e
         /\ Append(s, e) = [i \in 1 .. Len(Append(s, e)) |-> Append(s, e)[i]]
<1> DEFINE S == {s[i] : i \in 1 .. Len(s)} \cup {e}
<1>1. s \in [1 .. Len(s) -> S]
  OBVIOUS
<1>2. s \in Seq(S)
  BY <1>1, SeqDef
<1>3. /\ Append(s, e) \in Seq(S)
      /\ Len(Append(s, e)) = Len(s) + 1
      /\ \A i \in 1 .. Len(s) : Append(s, e)[i] = s[i]
      /\ Append(s, e)[Len(s) + 1] = e
  BY <1>2, AppendProperties
<1>4. Append(s, e) = [i \in 1 .. Len(Append(s, e)) |-> Append(s, e)[i]]
  <2>1. Append(s, e) \in [1 .. Len(Append(s, e)) -> S]
    BY <1>3, LenProperties
  <2>2. QED  BY <2>1
<1>5. QED  BY <1>3, <1>4

-----------------------------------------------------------------------------
(* Typing. *)

\* A hash of the current schemes stays one when the scheme count grows.
LEMMA HashScheme ==
  ASSUME NEW h, IsHash(h), scheme \in Nat, scheme' \in Nat, scheme <= scheme'
  PROVE  IsHash(h)'
BY DEF IsHash

\* Under TypeOK an upsert of a record works on records and makes a hash.
LEMMA UpsertTypes ==
  ASSUME TypeOK, Exists, NEW r, IsRecord(r), NEW b \in BOOLEAN
  PROVE  /\ IsRecord(RowToRecord(row.data))
         /\ IsRecord(Merged(r, b))
         /\ IsHash(NewHash(r, b))
         /\ \A f \in HashFields : NewHash(r, b).of[f] = Merged(r, b)[f]
         /\ \A f \in HashFields : RowToRecord(row.data)[f] = row.data[f]
<1>1. /\ IsRecord(RowToRecord(row.data))
      /\ \A f \in HashFields : RowToRecord(row.data)[f] = row.data[f]
  BY RowToRecordType DEF TypeOK, Reloaded
<1>2. IsRecord(Merged(r, b))
  BY <1>1, MergeType DEF Merged
<1>3. QED  BY <1>1, <1>2, HashType DEF NewHash, TypeOK

\* The version that Revise appends is a version.
LEMMA NewVersionType ==
  ASSUME TypeOK, Exists, NEW r, IsRecord(r), NEW b \in BOOLEAN
  PROVE  IsVersion(NewVersion(r, b))
<1>1. InferChangeType(Merged(r, b), RowToRecord(row.data)) \in ChangeTypes
  BY DEF InferChangeType, ChangeTypes
<1>2. IsHash(NewHash(r, b))
  BY UpsertTypes
<1>3. /\ DOMAIN Diff(r, b) \subseteq HashFields
      /\ Diff(r, b) = [f \in DOMAIN Diff(r, b) |->
                          [old |-> Diff(r, b)[f].old, new |-> Diff(r, b)[f].new]]
  BY DEF Diff, ChangedFields
<1>4. QED  BY <1>1, <1>2, <1>3 DEF IsVersion, NewVersion

LEMMA InitType == Init => TypeOK
BY StoreAssumption DEF Init, TypeOK, Absent, Exists

\* Every step keeps the types (the branches of upsert_tender one by one).
LEMMA InsertType ==
  ASSUME TypeOK, NEW r, IsRecord(r), NEW b \in BOOLEAN, Insert(r, b)
  PROVE  TypeOK'
<1> DEFINE hash == CanonicalHash(scheme, r)
           v == [kind |-> "new", diff |-> NoDiff, hash |-> hash]
<1>1. IsHash(hash)
  BY HashType DEF TypeOK
<1>2. IsVersion(v)
  BY <1>1 DEF IsVersion, ChangeTypes, NoDiff
<1>3. versions' = <<v>> /\ Len(versions') = 1
      /\ row' = [data |-> r, hash |-> hash, detail |-> b, current |-> 1]
      /\ scheme' = scheme
  BY DEF Insert
<1>4. IsHash(hash)' /\ IsVersion(v)'
  BY <1>1, <1>2, <1>3 DEF IsHash, IsVersion
<1>5. QED  BY <1>3, <1>4 DEF TypeOK, Exists, IsRecord

LEMMA TouchType ==
  ASSUME TypeOK, NEW r, IsRecord(r), NEW b \in BOOLEAN, Touch(r, b) \/ Heal(r, b)
  PROVE  TypeOK'
<1>1. /\ versions' = versions /\ scheme' = scheme
      /\ \/ row' = [row EXCEPT !.detail = @ \/ b]
         \/ row' = [row EXCEPT !.hash = NewHash(r, b), !.detail = @ \/ b]
  BY DEF Touch, Heal
<1>2. Exists
  BY DEF Touch, Heal
<1>3. IsHash(NewHash(r, b))
  BY <1>2, UpsertTypes
<1>4. /\ row'.data = row.data
      /\ row'.hash \in {row.hash, NewHash(r, b)}
      /\ row'.current = row.current
      /\ row'.detail = (row.detail \/ b)
      /\ row' = [data |-> row'.data, hash |-> row'.hash,
                 detail |-> row'.detail, current |-> row'.current]
  BY <1>1 DEF TypeOK
<1>5. IsHash(row.hash)'
  BY <1>1, <1>2, <1>3, <1>4 DEF TypeOK, IsHash
<1>6. \A i \in 1 .. Len(versions) : IsVersion(versions[i])'
  BY <1>1 DEF TypeOK, IsVersion, IsHash
<1>7. QED  BY <1>1, <1>2, <1>4, <1>5, <1>6 DEF TypeOK, Exists, IsRecord

LEMMA ReviseType ==
  ASSUME TypeOK, NEW r, IsRecord(r), NEW b \in BOOLEAN, Revise(r, b)
  PROVE  TypeOK'
<1> DEFINE v == NewVersion(r, b)
<1>1. /\ Exists
      /\ versions' = Append(versions, v)
      /\ row' = RewrittenRow(r, b)
      /\ scheme' = scheme
  BY DEF Revise
<1>2. /\ Len(versions') = Len(versions) + 1
      /\ \A i \in 1 .. Len(versions) : versions'[i] = versions[i]
      /\ versions'[Len(versions) + 1] = v
      /\ versions' = [i \in 1 .. Len(versions') |-> versions'[i]]
  BY <1>1, AppendFacts DEF TypeOK
<1>3. IsVersion(v) /\ IsHash(NewHash(r, b)) /\ IsRecord(Merged(r, b))
  BY <1>1, NewVersionType, UpsertTypes
<1>4. \A i \in 1 .. Len(versions') : IsVersion(versions'[i])
  BY <1>2, <1>3 DEF TypeOK
<1>5. (\A i \in 1 .. Len(versions) : IsVersion(versions[i]))'
  BY <1>1, <1>4 DEF IsVersion, IsHash
<1>6. IsHash(row.hash)' /\ IsRecord(row'.data)
  BY <1>1, <1>3 DEF RewrittenRow, IsHash
<1>7. row'.current # 0
  BY <1>1 DEF RewrittenRow, TypeOK
<1>8. /\ row' = [data |-> row'.data, hash |-> row'.hash,
                 detail |-> row'.detail, current |-> row'.current]
      /\ row'.detail \in BOOLEAN
      /\ row'.current = Len(versions')
  BY <1>1, <1>2 DEF RewrittenRow, TypeOK
<1>9. scheme' \in 1 .. MaxScheme /\ Len(versions') \in Nat
  BY <1>1, <1>2 DEF TypeOK
<1>10. QED  BY <1>2, <1>5, <1>6, <1>7, <1>8, <1>9 DEF TypeOK, Exists

LEMMA ReserializeType ==
  ASSUME TypeOK, Reserialize
  PROVE  TypeOK'
<1>1. scheme' \in 1 .. MaxScheme /\ scheme <= scheme' /\ scheme \in Nat /\ scheme' \in Nat
      /\ row' = row /\ versions' = versions
  BY StoreAssumption DEF TypeOK, Reserialize
<1>2. \A i \in 1 .. Len(versions) : IsVersion(versions[i])'
  BY <1>1, HashScheme DEF TypeOK, IsVersion
<1>3. Exists => IsHash(row.hash)'
  BY <1>1, HashScheme DEF TypeOK
<1>4. QED  BY <1>1, <1>2, <1>3 DEF TypeOK, Exists, IsRecord

\* Every step of Next is one of the branches, on a page the source may show.
LEMMA NextBranches ==
  ASSUME Next
  PROVE  \/ Reserialize
         \/ \E b \in BOOLEAN : \E r \in ListRecords \cup DetailRecords :
              IsRecord(r) /\ Upsert(r, b)
BY StoreAssumption DEF Next, ListUpsert, DetailUpsert

LEMMA NextType == TypeOK /\ [Next]_vars => TypeOK'
<1>1. ASSUME TypeOK, Next
      PROVE  TypeOK'
  <2>1. CASE Reserialize
    BY <1>1, <2>1, ReserializeType
  <2>2. ASSUME NEW b \in BOOLEAN, NEW r, IsRecord(r), Upsert(r, b)
        PROVE  TypeOK'
    BY <1>1, <2>2, InsertType, TouchType, ReviseType DEF Upsert
  <2>3. QED  BY <1>1, <2>1, <2>2, NextBranches
<1>2. ASSUME TypeOK, UNCHANGED vars
      PROVE  TypeOK'
  BY <1>2 DEF vars, TypeOK, Exists, Absent, IsVersion, IsHash, IsRecord
<1>3. QED  BY <1>1, <1>2

(***************************************************************************)
(* In every reachable state the tables are well formed, and there is a     *)
(* tenders row exactly when it has versions, the last of which it points   *)
(* to (current_version_id).                                                *)
(***************************************************************************)
THEOREM TypeCorrect == Spec => []TypeOK
BY InitType, NextType, PTL DEF Spec

-----------------------------------------------------------------------------
(***************************************************************************)
(* The history.  The three invariants are inductive together: a version    *)
(* replays onto its predecessor because the diff is taken against the row, *)
(* the row is what the last version says, and the stored hash, which       *)
(* decides whether there is a version at all, is the hash of the row.      *)
(***************************************************************************)
HistoryInv == HashDescribesRow /\ HistoryReplays /\ NoPhantomVersion

LEMMA InitHistory == Init => HistoryInv
BY DEF Init, HistoryInv, HashDescribesRow, HistoryReplays, NoPhantomVersion, Absent, Exists

LEMMA InsertHistory ==
  ASSUME TypeOK, NEW r, IsRecord(r), NEW b, Insert(r, b)
  PROVE  HistoryInv'
<1> DEFINE hash == CanonicalHash(scheme, r)
<1>1. \A f \in HashFields : hash.of[f] = r[f]
  BY HashType DEF TypeOK
<1>2. /\ versions' = <<[kind |-> "new", diff |-> NoDiff, hash |-> hash]>>
      /\ row'.data = r /\ row'.hash = hash
  BY DEF Insert
<1>3. Len(versions') = 1 /\ versions'[1].hash = hash
  BY <1>2
<1>4. QED
  BY <1>1, <1>2, <1>3 DEF HistoryInv, HashDescribesRow, HistoryReplays, NoPhantomVersion, Exists

LEMMA TouchHistory ==
  ASSUME TypeOK, HistoryInv, NEW r, IsRecord(r), NEW b \in BOOLEAN,
         Touch(r, b) \/ Heal(r, b)
  PROVE  HistoryInv'
<1>1. Exists /\ versions' = versions
  BY DEF Touch, Heal
<1>2. /\ row'.data = row.data /\ row'.current = row.current
      /\ \/ row'.hash = row.hash
         \/ row'.hash = NewHash(r, b) /\ ~Moved(r, b)
  BY DEF Touch, Heal, TypeOK
<1>3. ASSUME ~Moved(r, b), NEW f \in HashFields
      PROVE  NewHash(r, b).of[f] = row.data[f]
  <2>1. Merged(r, b)[f] = RowToRecord(row.data)[f]
    BY <1>3 DEF Moved, Diff, ChangedFields
  <2>2. QED  BY <1>1, <2>1, UpsertTypes
<1>4. HashDescribesRow'
  BY <1>1, <1>2, <1>3 DEF HistoryInv, HashDescribesRow
<1>5. HistoryReplays' /\ NoPhantomVersion'
  BY <1>1, <1>2 DEF HistoryInv, HistoryReplays, NoPhantomVersion, Exists, FollowsFrom
<1>6. QED  BY <1>4, <1>5 DEF HistoryInv

LEMMA ReviseHistory ==
  ASSUME TypeOK, HistoryInv, NEW r, IsRecord(r), NEW b \in BOOLEAN, Revise(r, b)
  PROVE  HistoryInv'
<1> DEFINE n == Len(versions)
           v == NewVersion(r, b)
<1>1. /\ Exists /\ Moved(r, b)
      /\ versions' = Append(versions, v)
      /\ row'.data = Merged(r, b) /\ row'.hash = NewHash(r, b)
  BY DEF Revise, RewrittenRow
<1>2. /\ n \in Nat /\ n >= 1 /\ Len(versions') = n + 1
      /\ \A i \in 1 .. n : versions'[i] = versions[i]
      /\ versions'[n + 1] = v
  BY <1>1, AppendFacts DEF TypeOK, Exists
<1>3. /\ v.hash = NewHash(r, b) /\ v.diff = Diff(r, b)
      /\ \A f \in HashFields : v.hash.of[f] = Merged(r, b)[f]
      /\ \A f \in HashFields : RowToRecord(row.data)[f] = row.data[f]
  BY <1>1, UpsertTypes DEF NewVersion
<1>4. /\ \A f \in HashFields :
           f \in DOMAIN v.diff <=> row.data[f] # Merged(r, b)[f]
      /\ \A f \in DOMAIN v.diff :
           /\ v.diff[f].old = row.data[f]
           /\ v.diff[f].new = Merged(r, b)[f]
      /\ DOMAIN v.diff \subseteq HashFields
      /\ DOMAIN v.diff # {}
  BY <1>1, <1>3 DEF Diff, ChangedFields, Moved
<1>5. FollowsFrom(v, versions[n])
  BY <1>1, <1>3, <1>4 DEF FollowsFrom, HistoryInv, HistoryReplays
<1>6. HistoryReplays'
  <2>1. ASSUME NEW i \in 2 .. Len(versions')
        PROVE  FollowsFrom(versions'[i], versions'[i - 1])
    <3>1. CASE i = n + 1
      BY <1>2, <1>5, <3>1
    <3>2. CASE i # n + 1
      <4>1. i \in 2 .. n /\ i \in 1 .. n /\ i - 1 \in 1 .. n
        BY <1>2, <3>2
      <4>2. QED  BY <1>2, <4>1 DEF HistoryInv, HistoryReplays
    <3>3. QED  BY <3>1, <3>2
  <2>2. \A f \in HashFields : versions'[Len(versions')].hash.of[f] = row'.data[f]
    BY <1>1, <1>2, <1>3
  <2>3. QED  BY <2>1, <2>2 DEF HistoryReplays, FollowsFrom
<1>7. NoPhantomVersion'
  <2>1. \E f \in DOMAIN v.diff : v.diff[f].old # v.diff[f].new
    BY <1>4
  <2>2. ASSUME NEW i \in 2 .. Len(versions')
        PROVE  \E f \in DOMAIN versions'[i].diff :
                 versions'[i].diff[f].old # versions'[i].diff[f].new
    <3>1. CASE i = n + 1
      BY <1>2, <2>1, <3>1
    <3>2. CASE i # n + 1
      <4>1. i \in 2 .. n /\ i \in 1 .. n
        BY <1>2, <3>2
      <4>2. QED  BY <1>2, <4>1 DEF HistoryInv, NoPhantomVersion
    <3>3. QED  BY <3>1, <3>2
  <2>3. QED  BY <2>2 DEF NoPhantomVersion
<1>8. HashDescribesRow'
  BY <1>1, <1>3 DEF HashDescribesRow
<1>9. QED  BY <1>6, <1>7, <1>8 DEF HistoryInv

LEMMA NextHistory == TypeOK /\ HistoryInv /\ [Next]_vars => HistoryInv'
<1>1. ASSUME TypeOK, HistoryInv, Next
      PROVE  HistoryInv'
  <2>1. CASE Reserialize
    BY <1>1, <2>1 DEF Reserialize, HistoryInv, HashDescribesRow, HistoryReplays,
                      NoPhantomVersion, Exists, FollowsFrom
  <2>2. ASSUME NEW b \in BOOLEAN, NEW r, IsRecord(r), Upsert(r, b)
        PROVE  HistoryInv'
    BY <1>1, <2>2, InsertHistory, TouchHistory, ReviseHistory DEF Upsert
  <2>3. QED  BY <1>1, <2>1, <2>2, NextBranches
<1>2. ASSUME HistoryInv, UNCHANGED vars
      PROVE  HistoryInv'
  BY <1>2 DEF vars, HistoryInv, HashDescribesRow, HistoryReplays, NoPhantomVersion,
              Exists, FollowsFrom
<1>3. QED  BY <1>1, <1>2

(***************************************************************************)
(* The history of a tender can always be replayed, up to the row.          *)
(***************************************************************************)
THEOREM HistoryAlwaysReplays == Spec => []HistoryReplays
<1>1. Spec => []HistoryInv
  BY InitHistory, NextHistory, TypeCorrect, PTL DEF Spec
<1>2. HistoryInv => HistoryReplays
  BY DEF HistoryInv
<1>3. QED  BY <1>1, <1>2, PTL

(***************************************************************************)
(* The stored hash is always the hash of the stored columns.               *)
(***************************************************************************)
THEOREM HashAlwaysDescribesRow == Spec => []HashDescribesRow
<1>1. Spec => []HistoryInv
  BY InitHistory, NextHistory, TypeCorrect, PTL DEF Spec
<1>2. HistoryInv => HashDescribesRow
  BY DEF HistoryInv
<1>3. QED  BY <1>1, <1>2, PTL

(***************************************************************************)
(* No version without a moved field, through any change of serialization.  *)
(***************************************************************************)
THEOREM NeverPhantom == Spec => []NoPhantomVersion
<1>1. Spec => []HistoryInv
  BY InitHistory, NextHistory, TypeCorrect, PTL DEF Spec
<1>2. HistoryInv => NoPhantomVersion
  BY DEF HistoryInv
<1>3. QED  BY <1>1, <1>2, PTL

-----------------------------------------------------------------------------
(* What a step may never do. *)

\* Every step leaves the columns alone or rewrites them from the merge.
LEMMA ColumnsOfStep ==
  ASSUME TypeOK, Exists, NEW r, IsRecord(r), NEW b \in BOOLEAN, Upsert(r, b)
  PROVE  row'.data = row.data \/ row'.data = Merged(r, b)
<1>1. ~Insert(r, b)
  BY DEF Insert
<1>2. CASE Touch(r, b) \/ Heal(r, b)
  BY <1>2 DEF Touch, Heal, TypeOK
<1>3. CASE Revise(r, b)
  BY <1>3 DEF Revise, RewrittenRow
<1>4. QED  BY <1>1, <1>2, <1>3 DEF Upsert

LEMMA ListStep ==
  ASSUME TypeOK, row.detail, ListUpsert
  PROVE  \A f \in HashFields : row.data[f] # NULL => row'.data[f] = row.data[f]
<1>1. Exists
  BY DEF TypeOK, Absent
<1>2. PICK r \in ListRecords : Upsert(r, FALSE)
  BY DEF ListUpsert
<1>3. IsRecord(r)
  BY StoreAssumption
<1>4. ASSUME NEW f \in HashFields, row.data[f] # NULL
      PROVE  Merged(r, FALSE)[f] = row.data[f]
  <2>1. f \in Reloaded /\ RowToRecord(row.data)[f] = row.data[f]
    BY <1>1, <1>3, UpsertTypes DEF Reloaded
  <2>2. QED  BY <1>4, <2>1, MergeKeeps DEF Merged
<1>5. QED  BY <1>1, <1>2, <1>3, <1>4, ColumnsOfStep

(***************************************************************************)
(* Detail pages are authoritative: once one has been stored, no list sweep *)
(* ever changes a hashed field that holds a value (fill_only).             *)
(***************************************************************************)
THEOREM DetailIsAuthoritative == Spec => ListNeverContradictsDetail
<1>1. TypeOK /\ [Next]_vars =>
        [ListUpsert /\ row.detail =>
           \A f \in HashFields : row.data[f] # NULL => row'.data[f] = row.data[f]]_vars
  BY ListStep
<1>2. QED  BY <1>1, TypeCorrect, PTL DEF Spec, ListNeverContradictsDetail

LEMMA KnownStep ==
  ASSUME TypeOK, Exists, Next
  PROVE  \A f \in Reloaded : row.data[f] # NULL => row'.data[f] # NULL
<1>1. CASE Reserialize
  BY <1>1 DEF Reserialize
<1>2. ASSUME NEW b \in BOOLEAN, NEW r, IsRecord(r), Upsert(r, b),
             NEW f \in Reloaded, row.data[f] # NULL
      PROVE  row'.data[f] # NULL
  <2>1. RowToRecord(row.data)[f] = row.data[f]
    BY RowToRecordType DEF TypeOK
  <2>2. Merged(r, b)[f] # NULL
    BY <1>2, <2>1, MergeKeeps DEF Merged
  <2>3. QED  BY <1>2, <2>2, ColumnsOfStep
<1>3. QED  BY <1>1, <1>2, NextBranches

(***************************************************************************)
(* A missing value never erases a known one in a column the merge reads    *)
(* back (merge_records).                                                   *)
(***************************************************************************)
THEOREM KnownNeverErased == Spec => KnownStaysKnown
<1>1. TypeOK /\ [Next]_vars =>
        [Exists => \A f \in Reloaded : row.data[f] # NULL => row'.data[f] # NULL]_vars
  BY KnownStep
<1>2. QED  BY <1>1, TypeCorrect, PTL DEF Spec, KnownStaysKnown

\* The version a Revise step ends the history with.
LEMMA ReviseAppends ==
  ASSUME TypeOK, NEW r, NEW b, Revise(r, b)
  PROVE  versions'[Len(versions')] = NewVersion(r, b)
<1> DEFINE v == NewVersion(r, b)
<1>1. versions' = Append(versions, v)
  BY DEF Revise
<1>2. Len(versions') = Len(versions) + 1 /\ versions'[Len(versions) + 1] = v
  BY <1>1, AppendFacts DEF TypeOK
<1>3. QED  BY <1>2

\* Filling gaps leaves the kind of change enrichment or cancellation.
LEMMA FillingKind ==
  ASSUME NEW stored, NEW merged, IsRecord(stored),
         \A f \in HashFields : stored[f] # NULL => merged[f] = stored[f],
         DOMAIN ChangedFields(merged, stored) # {}
  PROVE  \/ InferChangeType(merged, stored) = "enrichment"
         \/ /\ stored["status"] = "cancelled"
            /\ InferChangeType(merged, stored) = "cancellation"
<1>1. merged["status"] = stored["status"]
  <2>1. stored["status"] \in Statuses
    BY DEF IsRecord, Fields, Reloaded, HashFields, Value
  <2>2. QED  BY <2>1, RecordAssumption DEF HashFields
<1>2. ~IsExtension(merged, stored)
  <2>1. CASE stored["closing_at"] = NULL
    BY <2>1 DEF IsExtension
  <2>2. CASE stored["closing_at"] # NULL
    <3>1. merged["closing_at"] = stored["closing_at"]
      BY <2>2 DEF HashFields
    <3>2. stored["closing_at"] \in Value("closing_at")
      BY DEF IsRecord, Fields, Reloaded, HashFields
    <3>3. stored["closing_at"] \in Nat
      BY <2>2, <3>2, RecordAssumption DEF Value
    <3>4. ~(merged["closing_at"] > stored["closing_at"])
      BY <3>1, <3>3
    <3>5. QED  BY <3>4 DEF IsExtension
  <2>3. QED  BY <2>1, <2>2
<1>3. \A f \in DOMAIN ChangedFields(merged, stored) : stored[f] = NULL
  BY DEF ChangedFields
<1>4. QED  BY <1>1, <1>2, <1>3 DEF InferChangeType

LEMMA AmendStep ==
  ASSUME TypeOK, row.detail, ListUpsert, versions' # versions
  PROVE  \/ versions'[Len(versions')].kind = "enrichment"
         \/ /\ row.data["status"] = "cancelled"
            /\ versions'[Len(versions')].kind = "cancellation"
<1>1. Exists
  BY DEF TypeOK, Absent
<1>2. PICK r \in ListRecords : Upsert(r, FALSE)
  BY DEF ListUpsert
<1>3. IsRecord(r)
  BY StoreAssumption
<1>4. Revise(r, FALSE)
  BY <1>1, <1>2 DEF Upsert, Insert, Touch, Heal
<1>5. /\ IsRecord(RowToRecord(row.data))
      /\ \A f \in HashFields : RowToRecord(row.data)[f] = row.data[f]
  BY <1>1, <1>3, UpsertTypes
<1>6. ASSUME NEW f \in HashFields, RowToRecord(row.data)[f] # NULL
      PROVE  Merged(r, FALSE)[f] = RowToRecord(row.data)[f]
  <2>1. f \in Fields /\ f # "organization"
    BY RecordAssumption DEF Fields, Reloaded, HashFields
  <2>2. QED  BY <1>6, <2>1 DEF Merged, MergeRecords, Present
<1>7. DOMAIN ChangedFields(Merged(r, FALSE), RowToRecord(row.data)) # {}
  BY <1>4 DEF Revise, Moved, Diff
<1>8. versions'[Len(versions')].kind
        = InferChangeType(Merged(r, FALSE), RowToRecord(row.data))
  <2>1. versions'[Len(versions')] = NewVersion(r, FALSE)
    BY <1>4, ReviseAppends
  <2>2. NewVersion(r, FALSE).kind
          = InferChangeType(Merged(r, FALSE), RowToRecord(row.data))
    BY DEF NewVersion
  <2>3. QED  BY <2>1, <2>2
<1>9. \/ InferChangeType(Merged(r, FALSE), RowToRecord(row.data)) = "enrichment"
      \/ /\ RowToRecord(row.data)["status"] = "cancelled"
         /\ InferChangeType(Merged(r, FALSE), RowToRecord(row.data)) = "cancellation"
  BY <1>5, <1>6, <1>7, FillingKind
<1>10. QED  BY <1>5, <1>8, <1>9 DEF HashFields

(***************************************************************************)
(* The list view cannot announce an amendment of a tender whose detail     *)
(* page has been stored, whatever the two views disagree about.            *)
(***************************************************************************)
THEOREM ListNeverAmends == Spec => ListNeverAmendsAfterDetail
<1>1. TypeOK /\ [Next]_vars =>
        [ListUpsert /\ row.detail /\ versions' # versions =>
           \/ versions'[Len(versions')].kind = "enrichment"
           \/ /\ row.data["status"] = "cancelled"
              /\ versions'[Len(versions')].kind = "cancellation"]_vars
  BY AmendStep
<1>2. QED  BY <1>1, TypeCorrect, PTL DEF Spec, ListNeverAmendsAfterDetail

-----------------------------------------------------------------------------
\* Merging what was just merged changes no hashed field.
LEMMA MergeIdempotent ==
  ASSUME NEW s, NEW r, NEW b, IsRecord(s), IsRecord(r), NEW f \in HashFields
  PROVE  MergeRecords(RowToRecord(MergeRecords(s, r, b)), r, b)[f]
           = MergeRecords(s, r, b)[f]
<1> DEFINE m == MergeRecords(s, r, b)
<1>1. f \in Reloaded /\ f \in Fields
  BY DEF Reloaded, Fields
<1>2. RowToRecord(m)[f] = m[f]
  BY <1>1, MergeType, RowToRecordType
<1>3. MergeRecords(RowToRecord(m), r, b)[f] =
        IF Present(r, f) /\ ~(b /\ Present(RowToRecord(m), f)) THEN r[f] ELSE m[f]
  BY <1>1, <1>2 DEF MergeRecords
<1>4. m[f] = IF Present(r, f) /\ ~(b /\ Present(s, f)) THEN r[f] ELSE s[f]
  BY <1>1 DEF MergeRecords
<1>5. f # "organization"
  BY RecordAssumption DEF HashFields
<1>6. QED  BY <1>2, <1>3, <1>4, <1>5 DEF Present

LEMMA ResightStep ==
  ASSUME TypeOK, NEW r, IsRecord(r), NEW b \in BOOLEAN, Upsert(r, b),
         HashDescribesRow
  PROVE  Settled(r, b)'
<1>1. (row.detail /\ ~b)' = (row'.detail /\ ~b)
  OBVIOUS
<1>2. scheme' = scheme
  BY DEF Upsert, Insert, Touch, Heal, Revise
<1> DEFINE again == MergeRecords(RowToRecord(row'.data), r, row'.detail /\ ~b)
<1>3. SUFFICES ASSUME NEW f \in HashFields
               PROVE  again[f] = row'.hash.of[f]
  <2>1. row'.hash.of = [f \in HashFields |-> row'.hash.of[f]]
    <3>1. TypeOK'
      BY InsertType, TouchType, ReviseType DEF Upsert
    <3>2. row'.current # 0
      <4>1. CASE Insert(r, b)
        BY <4>1 DEF Insert
      <4>2. CASE Touch(r, b) \/ Heal(r, b)
        BY <4>2 DEF Touch, Heal, Exists, TypeOK
      <4>3. CASE Revise(r, b)
        BY <4>3 DEF Revise, RewrittenRow, TypeOK
      <4>4. QED  BY <4>1, <4>2, <4>3 DEF Upsert
    <3>3. QED  BY <3>1, <3>2 DEF TypeOK, IsHash, Exists
  <2>2. QED  BY <2>1 DEF Settled, NewHash, CanonicalHash, Merged
<1>4. CASE Insert(r, b)
  <2>1. row'.data = r /\ row'.hash = CanonicalHash(scheme, r)
    BY <1>4 DEF Insert
  <2>2. row'.hash.of[f] = r[f] /\ RowToRecord(r)[f] = r[f]
    BY <2>1, RowToRecordType DEF CanonicalHash, Reloaded
  <2>3. QED  BY <2>1, <2>2 DEF MergeRecords, Fields, Reloaded
<1>5. ASSUME Exists
      PROVE  /\ row'.detail = (row.detail \/ b)
             /\ (row'.detail /\ ~b) = (row.detail /\ ~b)
  <2>1. row'.detail = (row.detail \/ b)
    <3>1. CASE Touch(r, b) \/ Heal(r, b)
      BY <3>1 DEF Touch, Heal, TypeOK
    <3>2. CASE Revise(r, b)
      BY <3>2 DEF Revise, RewrittenRow
    <3>3. QED  BY <1>5, <3>1, <3>2 DEF Upsert, Insert
  <2>2. QED  BY <2>1 DEF TypeOK
<1>6. CASE Touch(r, b) \/ Heal(r, b)
  <2>1. Exists /\ row'.data = row.data
    BY <1>6 DEF Touch, Heal, TypeOK
  <2>2. row'.hash = NewHash(r, b)
    BY <1>6 DEF Touch, Heal, TypeOK
  <2>3. again = Merged(r, b)
    BY <1>5, <2>1 DEF Merged
  <2>4. QED  BY <2>1, <2>2, <2>3, UpsertTypes
<1>7. CASE Revise(r, b)
  <2>1. Exists /\ row'.data = Merged(r, b) /\ row'.hash = NewHash(r, b)
    BY <1>7 DEF Revise, RewrittenRow
  <2>2. again[f] = Merged(r, b)[f]
    BY <1>5, <2>1, MergeIdempotent, UpsertTypes DEF Merged
  <2>3. QED  BY <2>1, <2>2, UpsertTypes
<1>8. QED  BY <1>4, <1>6, <1>7 DEF Upsert

(***************************************************************************)
(* Seeing the same page again never manufactures a version: it finds every *)
(* hashed field as the first sighting left it.                             *)
(***************************************************************************)
THEOREM ResightingAlwaysSilent == Spec => ResightingIsSilent
<1>1. TypeOK /\ HashDescribesRow /\ [Next]_vars =>
        [/\ \A r \in ListRecords : Upsert(r, FALSE) => Settled(r, FALSE)'
         /\ \A r \in DetailRecords : Upsert(r, TRUE) => Settled(r, TRUE)']_vars
  BY ResightStep, StoreAssumption
<1>2. QED
  BY <1>1, TypeCorrect, HashAlwaysDescribesRow, PTL DEF Spec, ResightingIsSilent

-----------------------------------------------------------------------------
(* The crawls. *)

(***************************************************************************)
(* A run holds nothing except between fetching and applying.               *)
(***************************************************************************)
THEOREM TrackingTypeCorrect == TrackingSpec => []TrackingTypeOK
<1>1. ASSUME TrackingInit PROVE TrackingTypeOK
  <2>1. crowded \in BOOLEAN
    BY <1>1 DEF TrackingInit
  <2> QED BY <1>1, <2>1, TrackingAssumption DEF TrackingInit, TrackingTypeOK, Stages
<1>2. TrackingTypeOK /\ [TrackingNext]_trackingVars => TrackingTypeOK'
  <2> SUFFICES ASSUME TrackingTypeOK, [TrackingNext]_trackingVars
               PROVE  TrackingTypeOK'
    OBVIOUS
  <2> USE DEF TrackingTypeOK, Stages
  <2>1. CASE Amend
    BY <2>1, TrackingAssumption DEF Amend
  <2>0. CASE Crowd
    BY <2>0 DEF Crowd
  <2>2. ASSUME NEW r \in Runs, FetchList(r) PROVE TrackingTypeOK'
    BY <2>2 DEF FetchList, Move
  <2>3. ASSUME NEW r \in Runs, MissFromList(r) PROVE TrackingTypeOK'
    BY <2>3 DEF MissFromList, Move
  <2>4. ASSUME NEW r \in Runs, ApplyList(r) PROVE TrackingTypeOK'
    BY <2>4 DEF ApplyList, Move
  <2>5. ASSUME NEW r \in Runs, QueueDetail(r) PROVE TrackingTypeOK'
    <3>1. CASE Move(r, "swept", "queued")
      BY <2>5, <3>1 DEF QueueDetail, Move
    <3>2. CASE Move(r, "swept", "idle")
      BY <2>5, <3>2 DEF QueueDetail, Move
    <3> QED BY <2>5, <3>1, <3>2 DEF QueueDetail
  <2>6. ASSUME NEW r \in Runs, FetchDetail(r) PROVE TrackingTypeOK'
    BY <2>6 DEF FetchDetail, Move
  <2>7. ASSUME NEW r \in Runs, ApplyDetail(r) PROVE TrackingTypeOK'
    BY <2>7 DEF ApplyDetail, Move
  <2>8. ASSUME NEW r \in Runs, Unreadable(r) PROVE TrackingTypeOK'
    BY <2>8, TrackingAssumption DEF Unreadable, Move
  <2>9. ASSUME NEW r \in Runs, Crash(r) PROVE TrackingTypeOK'
    BY <2>9, TrackingAssumption DEF Crash
  <2>10. CASE UNCHANGED trackingVars
    BY <2>10 DEF trackingVars
  <2> QED
    BY <2>0, <2>1, <2>2, <2>3, <2>4, <2>5, <2>6, <2>7, <2>8, <2>9, <2>10
    DEF TrackingNext, RunStep
<1> QED
  BY <1>1, <1>2, PTL DEF TrackingSpec

(***************************************************************************)
(* Whatever a run applies is a payload of the kind it says it is, so each  *)
(* step of a run is an upsert of TenderStore or leaves the store alone.    *)
(***************************************************************************)
LEMMA StepIsStoreStep ==
  ASSUME TrackingTypeOK, [TrackingNext]_trackingVars
  PROVE  [Next]_vars
<1> USE TrackingAssumption
<1>1. ASSUME NEW r \in Runs, ApplyList(r) PROVE Next
  <2>1. PICK n \in 1 .. revision : held[r] = ListView(n)
    BY <1>1 DEF ApplyList, Move, TrackingTypeOK
  <2>2. n \in 1 .. Revisions
    BY <2>1 DEF TrackingTypeOK
  <2>3. held[r] \in ListRecords
    BY <2>1, <2>2
  <2> QED
    BY <1>1, <2>3 DEF ApplyList, Next, ListUpsert
<1>2. ASSUME NEW r \in Runs, ApplyDetail(r) PROVE Next
  <2>1. PICK n \in 1 .. revision : held[r] = DetailView(n)
    BY <1>2 DEF ApplyDetail, Move, TrackingTypeOK
  <2>2. n \in 1 .. Revisions
    BY <2>1 DEF TrackingTypeOK
  <2>3. held[r] \in DetailRecords
    BY <2>1, <2>2
  <2> QED
    BY <1>2, <2>3 DEF ApplyDetail, Next, DetailUpsert
<1>3. CASE Amend \/ Crowd
  BY <1>3 DEF Amend, Crowd, vars
<1>4. ASSUME NEW r \in Runs,
             \/ FetchList(r) \/ MissFromList(r) \/ QueueDetail(r)
             \/ FetchDetail(r) \/ Unreadable(r) \/ Crash(r)
      PROVE  UNCHANGED vars
  BY <1>4 DEF FetchList, MissFromList, QueueDetail, FetchDetail, Unreadable, Crash, vars
<1>5. CASE UNCHANGED trackingVars
  BY <1>5 DEF trackingVars, vars
<1> QED
  BY <1>1, <1>2, <1>3, <1>4, <1>5 DEF TrackingNext, RunStep

(***************************************************************************)
(* Crawl runs implement the store: no interleaving of fetched, delayed,    *)
(* lost and re-applied payloads does to a tender what a sequence of        *)
(* upserts could not.                                                      *)
(***************************************************************************)
THEOREM TrackingImplementsStore == TrackingSpec => Spec
<1>1. TrackingInit => Init
  BY DEF TrackingInit
<1> QED
  BY <1>1, StepIsStoreStep, TrackingTypeCorrect, PTL DEF TrackingSpec, Spec

-----------------------------------------------------------------------------
(* A notice that is not amended. *)

\* What the two views of the first revision say together.
Both(f) == IF DetailView(1)[f] # NULL THEN DetailView(1)[f] ELSE ListView(1)[f]

\* A row written by list sweeps says what they said, and one that was read in
\* full says what both views say: neither changes with another reading.
Unamended ==
  revision = 1 /\ Exists =>
    \/ /\ ~row.detail /\ Len(versions) = 1
       /\ \A f \in HashFields : row.data[f] = ListView(1)[f]
    \/ /\ row.detail /\ Len(versions) <= 2
       /\ \A f \in HashFields : row.data[f] = Both(f)

\* A detail page is queued for a row, and rows stay.
QueuedExists == \A r \in Runs : pc[r] \in {"queued", "detailed"} => Exists

\* The merge, column by column, for the hashed columns.
LEMMA MergedColumns ==
  ASSUME TypeOK, Exists, NEW r, NEW b \in BOOLEAN, NEW f \in HashFields
  PROVE  Merged(r, b)[f] =
           IF r[f] # NULL /\ ~(row.detail /\ ~b /\ row.data[f] # NULL)
           THEN r[f] ELSE row.data[f]
<1>1. /\ f \in Fields /\ f \in Reloaded
      /\ f \notin {"organization", "lots"}
  BY RecordAssumption DEF Fields, Reloaded, HashFields
<1>2. RowToRecord(row.data)[f] = row.data[f]
  BY <1>1 DEF RowToRecord
<1>3. Merged(r, b)[f] =
        IF Present(r, f) /\ ~((row.detail /\ ~b) /\ Present(RowToRecord(row.data), f))
        THEN r[f] ELSE RowToRecord(row.data)[f]
  BY <1>1 DEF Merged, MergeRecords
<1>4. /\ Present(r, f) <=> r[f] # NULL
      /\ Present(RowToRecord(row.data), f) <=> row.data[f] # NULL
  BY <1>1, <1>2 DEF Present
<1> QED BY <1>2, <1>3, <1>4

\* A detail page overlays what there is.
LEMMA DetailColumns ==
  ASSUME TypeOK, Exists, NEW r, NEW f \in HashFields
  PROVE  Merged(r, TRUE)[f] = IF r[f] # NULL THEN r[f] ELSE row.data[f]
<1>1. /\ f \in Fields /\ f \in Reloaded
      /\ f \notin {"organization", "lots"}
  BY RecordAssumption DEF Fields, Reloaded, HashFields
<1>2. RowToRecord(row.data)[f] = row.data[f]
  BY <1>1 DEF RowToRecord
<1>3. Merged(r, TRUE)[f] = IF Present(r, f) THEN r[f] ELSE RowToRecord(row.data)[f]
  BY <1>1 DEF Merged, MergeRecords
<1>4. Present(r, f) <=> r[f] # NULL
  BY <1>1 DEF Present
<1> QED BY <1>2, <1>3, <1>4

\* What an upsert does to an existing row.
LEMMA UpsertOfRow ==
  ASSUME TypeOK, HashDescribesRow, Exists, NEW r, IsRecord(r), NEW b \in BOOLEAN,
         Upsert(r, b)
  PROVE  /\ \A f \in HashFields : row'.data[f] = Merged(r, b)[f]
         /\ row'.detail = (row.detail \/ b) /\ Exists'
         /\ versions' = versions \/ Len(versions') = Len(versions) + 1
         /\ (\A f \in HashFields : Merged(r, b)[f] = row.data[f]) => versions' = versions
<1>0. /\ \A f \in HashFields : RowToRecord(row.data)[f] = row.data[f]
      /\ HashFields \subseteq Fields
  BY RowToRecordType DEF TypeOK, Reloaded, Fields
<1>1. CASE Touch(r, b)
  <2>1. /\ row' = [row EXCEPT !.detail = @ \/ b] /\ versions' = versions
        /\ NewHash(r, b) = row.hash
    BY <1>1 DEF Touch
  <2>2. \A f \in HashFields : NewHash(r, b).of[f] = Merged(r, b)[f]
    BY DEF NewHash, CanonicalHash
  <2>3. \A f \in HashFields : row.data[f] = Merged(r, b)[f]
    BY <2>1, <2>2 DEF HashDescribesRow
  <2>4. row'.data = row.data /\ row'.detail = (row.detail \/ b) /\ row'.current = row.current
    BY <2>1 DEF TypeOK
  <2> QED BY <2>1, <2>3, <2>4 DEF Exists
<1>2. CASE Heal(r, b)
  <2>1. /\ row' = [row EXCEPT !.hash = NewHash(r, b), !.detail = @ \/ b]
        /\ versions' = versions /\ DOMAIN Diff(r, b) = {}
    BY <1>2 DEF Heal, Moved
  <2>2. \A f \in HashFields : row.data[f] = Merged(r, b)[f]
    BY <1>0, <2>1 DEF Diff, ChangedFields
  <2>3. row'.data = row.data /\ row'.detail = (row.detail \/ b) /\ row'.current = row.current
    BY <2>1 DEF TypeOK
  <2> QED BY <2>1, <2>2, <2>3 DEF Exists
<1>3. CASE Revise(r, b)
  <2>1. /\ row' = RewrittenRow(r, b) /\ versions' = Append(versions, NewVersion(r, b))
        /\ DOMAIN Diff(r, b) # {}
    BY <1>3 DEF Revise, Moved
  <2>2. ~ \A f \in HashFields : Merged(r, b)[f] = row.data[f]
    BY <1>0, <2>1 DEF Diff, ChangedFields
  <2>3. Len(versions') = Len(versions) + 1 /\ Len(versions) \in Nat
    BY <2>1, AppendFacts DEF TypeOK
  <2>4. /\ row'.data = Merged(r, b) /\ row'.detail = (row.detail \/ b)
        /\ row'.current = Len(versions) + 1
    BY <2>1 DEF RewrittenRow
  <2> QED BY <2>2, <2>3, <2>4 DEF Exists
<1> QED BY <1>1, <1>2, <1>3 DEF Upsert, Insert

\* Reading either view once more.
LEMMA ReadAgain ==
  ASSUME TypeOK, HashDescribesRow, Unamended, revision = 1, revision' = revision, Exists,
         \/ Upsert(ListView(1), FALSE)
         \/ Upsert(DetailView(1), TRUE)
  PROVE  Unamended' /\ Exists' /\ (row.detail => versions' = versions)
<1>0. IsRecord(ListView(1)) /\ IsRecord(DetailView(1)) /\ Len(versions) \in Nat
  BY TrackingAssumption, StoreAssumption DEF TypeOK
<1>1. CASE Upsert(ListView(1), FALSE)
  <2>1. /\ \A f \in HashFields : row'.data[f] = Merged(ListView(1), FALSE)[f]
        /\ row'.detail = row.detail /\ Exists'
        /\ (\A f \in HashFields : Merged(ListView(1), FALSE)[f] = row.data[f]) =>
             versions' = versions
    BY <1>0, <1>1, UpsertOfRow DEF TypeOK
  <2>2. \A f \in HashFields : Merged(ListView(1), FALSE)[f] =
          IF ListView(1)[f] # NULL /\ ~(row.detail /\ row.data[f] # NULL)
          THEN ListView(1)[f] ELSE row.data[f]
    BY MergedColumns
  <2>3. \A f \in HashFields : Merged(ListView(1), FALSE)[f] = row.data[f]
    BY <2>2 DEF Unamended, Both
  <2>4. versions' = versions /\ \A f \in HashFields : row'.data[f] = row.data[f]
    BY <2>1, <2>3
  <2>5. \/ /\ ~row'.detail /\ Len(versions') = 1
           /\ \A f \in HashFields : row'.data[f] = ListView(1)[f]
        \/ /\ row'.detail /\ Len(versions') <= 2
           /\ \A f \in HashFields : row'.data[f] = Both(f)
    BY <2>1, <2>4 DEF Unamended
  <2>6. Unamended'
    BY <2>5 DEF Unamended, Both
  <2> QED BY <2>1, <2>4, <2>6
<1>2. CASE Upsert(DetailView(1), TRUE)
  <2>1. /\ \A f \in HashFields : row'.data[f] = Merged(DetailView(1), TRUE)[f]
        /\ row'.detail /\ Exists'
        /\ versions' = versions \/ Len(versions') = Len(versions) + 1
        /\ (\A f \in HashFields : Merged(DetailView(1), TRUE)[f] = row.data[f]) =>
             versions' = versions
    BY <1>0, <1>2, UpsertOfRow
  <2>2. \A f \in HashFields : Merged(DetailView(1), TRUE)[f] =
          IF DetailView(1)[f] # NULL THEN DetailView(1)[f] ELSE row.data[f]
    BY DetailColumns
  <2>3. \A f \in HashFields : Merged(DetailView(1), TRUE)[f] = Both(f)
    BY <2>2 DEF Unamended, Both
  <2>4. row.detail => versions' = versions
    BY <2>1, <2>3 DEF Unamended
  <2>5. Len(versions') <= 2
    <3>1. CASE row.detail
      BY <2>4, <3>1 DEF Unamended
    <3>2. CASE ~row.detail
      <4>1. Len(versions) = 1
        BY <3>2 DEF Unamended
      <4>2. Len(versions') \in {1, 2}
        <5>1. CASE versions' = versions  BY <4>1, <5>1
        <5>2. CASE Len(versions') = Len(versions) + 1  BY <4>1, <5>2
        <5> QED BY <2>1, <5>1, <5>2
      <4>3. \A k \in {1, 2} : k <= 2
        OBVIOUS
      <4> HIDE DEF Both
      <4> QED BY <4>2, <4>3
    <3> QED BY <3>1, <3>2
  <2> QED BY <2>1, <2>3, <2>4, <2>5 DEF Unamended, Both
<1> QED BY <1>1, <1>2

LEMMA StepUnamended ==
  ASSUME TypeOK, HashDescribesRow, TrackingTypeOK, QueuedExists, Unamended,
         [TrackingNext]_trackingVars
  PROVE  /\ QueuedExists' /\ Unamended'
         /\ row.detail /\ revision = 1 => versions' = versions
<1>1. CASE Amend \/ Crowd
  BY <1>1 DEF Amend, Crowd, TrackingTypeOK, QueuedExists, Unamended, Exists
<1>2. ASSUME NEW r \in Runs,
             \/ FetchList(r) \/ MissFromList(r) \/ QueueDetail(r)
             \/ FetchDetail(r) \/ Unreadable(r) \/ Crash(r)
      PROVE  /\ QueuedExists' /\ Unamended'
             /\ row.detail /\ revision = 1 => versions' = versions
  <2>1. UNCHANGED <<row, versions, revision>>
    BY <1>2 DEF FetchList, MissFromList, QueueDetail, FetchDetail, Unreadable, Crash
  <2>2. QueuedExists'
    <3>1. pc'[r] \in {"queued", "detailed"} => Exists
      BY <1>2
      DEF FetchList, MissFromList, QueueDetail, NeedsDetail, FetchDetail, Unreadable, Crash,
          Move, QueuedExists, TrackingTypeOK
    <3>2. \A s \in Runs \ {r} : pc'[s] = pc[s]
      BY <1>2
      DEF FetchList, MissFromList, QueueDetail, FetchDetail, Unreadable, Crash, Move,
          TrackingTypeOK
    <3> QED BY <2>1, <3>1, <3>2 DEF QueuedExists, Exists
  <2>3. Unamended'
    BY <2>1 DEF Unamended, Exists
  <2> QED BY <2>1, <2>2, <2>3
<1>3. ASSUME NEW r \in Runs, ApplyList(r) \/ ApplyDetail(r)
      PROVE  /\ QueuedExists' /\ Unamended'
             /\ row.detail /\ revision = 1 => versions' = versions
  <2>1. /\ pc'[r] \notin {"queued", "detailed"} /\ \A s \in Runs \ {r} : pc'[s] = pc[s]
        /\ revision' = revision
        /\ \/ pc[r] = "listed" /\ Upsert(held[r], FALSE)
           \/ pc[r] = "detailed" /\ Upsert(held[r], TRUE)
    BY <1>3 DEF ApplyList, ApplyDetail, Move, TrackingTypeOK
  <2>2. /\ pc[r] = "listed" => \E n \in 1 .. revision : held[r] = ListView(n)
        /\ pc[r] = "detailed" => \E n \in 1 .. revision : held[r] = DetailView(n)
        /\ revision \in 1 .. Revisions
    BY DEF TrackingTypeOK
  <2>3. held[r] \in ListRecords \cup DetailRecords
    <3>1. \A n \in 1 .. revision : n \in 1 .. Revisions
      BY <2>2, TrackingAssumption
    <3>2. \A n \in 1 .. revision : ListView(n) \in ListRecords /\ DetailView(n) \in DetailRecords
      BY <3>1, TrackingAssumption
    <3> QED BY <2>1, <2>2, <3>2
  <2>4. Exists'
    <3>1. CASE Exists
      <4>1. IsRecord(held[r])
        BY <2>3, StoreAssumption
      <4> QED BY <2>1, <3>1, <4>1, UpsertOfRow
    <3>2. CASE ~Exists
      <4>1. Insert(held[r], FALSE) \/ Insert(held[r], TRUE)
        BY <2>1, <3>2 DEF Upsert, Touch, Heal, Revise
      <4> QED BY <4>1 DEF Insert, Exists
    <3> QED BY <3>1, <3>2
  <2>5. QueuedExists'
    BY <2>1, <2>4 DEF QueuedExists
  <2>6. ASSUME revision = 1
        PROVE  Unamended' /\ (row.detail => versions' = versions)
    <3>1. \/ Upsert(ListView(1), FALSE)
          \/ pc[r] = "detailed" /\ Upsert(DetailView(1), TRUE)
      <4>1. \A n \in 1 .. revision : n = 1
        BY <2>6
      <4> QED BY <2>1, <2>2, <4>1
    <3>2. CASE Exists
      BY <2>1, <2>6, <3>1, <3>2, ReadAgain
    <3>3. CASE ~Exists
      <4>1. Insert(ListView(1), FALSE)
        BY <3>1, <3>3 DEF Upsert, Touch, Heal, Revise, QueuedExists
      <4>2. /\ row'.data = ListView(1) /\ row'.detail = FALSE /\ Len(versions') = 1
        BY <4>1 DEF Insert
      <4>3. ~row.detail
        BY <3>3 DEF TypeOK, Absent
      <4> QED BY <4>2, <4>3 DEF Unamended
    <3> QED BY <3>2, <3>3
  <2>7. CASE revision # 1
    <3>1. revision' # 1
      BY <2>1, <2>7
    <3> QED BY <2>5, <2>7, <3>1 DEF Unamended
  <2> QED BY <2>5, <2>6, <2>7
<1>4. CASE UNCHANGED trackingVars
  BY <1>4 DEF trackingVars, QueuedExists, Unamended, Exists
<1> QED
  BY <1>1, <1>2, <1>3, <1>4 DEF TrackingNext, RunStep

LEMMA UnamendedHolds ==
  TrackingSpec => [](TypeOK /\ HashDescribesRow /\ TrackingTypeOK /\ QueuedExists /\ Unamended)
<1>1. TrackingInit => QueuedExists /\ Unamended
  BY DEF TrackingInit, Init, Absent, QueuedExists, Unamended, Exists
<1> QED
  BY <1>1, StepUnamended, TrackingTypeCorrect, TrackingImplementsStore, TypeCorrect,
     HashAlwaysDescribesRow, PTL DEF TrackingSpec

(***************************************************************************)
(* While the notice is not amended, its history is the sighting and at     *)
(* most one version for the detail page, whatever runs overlap, repeat,    *)
(* crash or lose a page (merge_records and fill_only).                     *)
(***************************************************************************)
THEOREM UnamendedStaysShort == TrackingSpec => []UnamendedHistory
<1>1. TypeOK /\ Unamended => UnamendedHistory
  BY DEF TypeOK, Unamended, UnamendedHistory, Exists
<1> QED BY <1>1, UnamendedHolds, PTL

(***************************************************************************)
(* And once it was read in full, no run writes a version (README.md: the   *)
(* second crawl must report 0 new, 0 changed).                             *)
(***************************************************************************)
THEOREM SecondCrawlAlwaysQuiet == TrackingSpec => SecondCrawlIsQuiet
<1>1. TypeOK /\ HashDescribesRow /\ TrackingTypeOK /\ QueuedExists /\ Unamended
      /\ [TrackingNext]_trackingVars =>
        [row.detail /\ revision = 1 => versions' = versions]_trackingVars
  BY StepUnamended
<1> QED BY <1>1, UnamendedHolds, PTL DEF TrackingSpec, SecondCrawlIsQuiet

-----------------------------------------------------------------------------
(* One run at a time. *)

SingleRun == \A r, s \in Runs : r = s

\* The closing dates a revision shows, in either view.
Closings(n) == {ListView(n)["closing_at"], DetailView(n)["closing_at"]} \ {NULL}

\* Amendments move the closing date later, and the two views of a revision
\* agree on it where both show it.
OnlyLater ==
  \A m, n \in 1 .. Revisions : m <= n =>
    \A c \in Closings(m), d \in Closings(n) : c <= d

(***************************************************************************)
(* What is stored is no fresher than what the portal shows or will show,   *)
(* nor than what the run is about to apply.                                *)
(***************************************************************************)
NotFresher ==
  Exists /\ row.data["closing_at"] # NULL =>
    /\ \A n \in revision .. Revisions : \A c \in Closings(n) : row.data["closing_at"] <= c
    /\ \A r \in Runs : pc[r] \in {"listed", "detailed"} /\ held[r]["closing_at"] # NULL =>
         row.data["closing_at"] <= held[r]["closing_at"]

\* The closing date an upsert leaves: the one it brings, or the one there was.
LEMMA UpsertClosing ==
  ASSUME TypeOK, HashDescribesRow, NEW r, IsRecord(r), NEW b \in BOOLEAN, Upsert(r, b)
  PROVE  \/ row'.data["closing_at"] = r["closing_at"] /\ (Exists => r["closing_at"] # NULL)
         \/ Exists /\ row'.data["closing_at"] = row.data["closing_at"]
<1>1. CASE Exists
  <2>1. "closing_at" \in HashFields
    BY DEF HashFields
  <2>2. row'.data["closing_at"] = Merged(r, b)["closing_at"]
    BY <1>1, <2>1, UpsertOfRow
  <2> QED BY <1>1, <2>1, <2>2, MergedColumns
<1>2. CASE ~Exists
  <2>1. Insert(r, b)
    BY <1>2 DEF Upsert, Touch, Heal, Revise
  <2> QED BY <1>2, <2>1 DEF Insert
<1> QED BY <1>1, <1>2

LEMMA HeldIsView ==
  ASSUME TrackingTypeOK, NEW r \in Runs, pc[r] \in {"listed", "detailed"}
  PROVE  /\ IsRecord(held[r])
         /\ \E m \in 1 .. revision :
              /\ m \in 1 .. Revisions
              /\ held[r]["closing_at"] # NULL => held[r]["closing_at"] \in Closings(m)
<1>1. PICK m \in 1 .. revision : held[r] \in {ListView(m), DetailView(m)}
  BY DEF TrackingTypeOK
<1>2. m \in 1 .. Revisions
  BY TrackingAssumption DEF TrackingTypeOK
<1>3. IsRecord(held[r])
  BY <1>1, <1>2, TrackingAssumption, StoreAssumption
<1>4. held[r]["closing_at"] # NULL => held[r]["closing_at"] \in Closings(m)
  BY <1>1 DEF Closings
<1> QED BY <1>2, <1>3, <1>4

\* A view that is read now is not behind what is stored.
LEMMA ReadIsFresh ==
  ASSUME TrackingTypeOK, NotFresher, Exists, row.data["closing_at"] # NULL,
         NEW v \in {ListView(revision), DetailView(revision)}, v["closing_at"] # NULL
  PROVE  row.data["closing_at"] <= v["closing_at"]
<1>1. v["closing_at"] \in Closings(revision)
  BY DEF Closings
<1>2. revision \in revision .. Revisions
  BY TrackingAssumption DEF TrackingTypeOK
<1> QED BY <1>1, <1>2 DEF NotFresher

LEMMA ClosingType ==
  ASSUME TypeOK, Exists, row.data["closing_at"] # NULL
  PROVE  row.data["closing_at"] \in Nat
BY RecordAssumption DEF TypeOK, IsRecord, Fields, Reloaded, HashFields, Value

LEMMA StepNotFresher ==
  ASSUME SingleRun, OnlyLater, TypeOK, HashDescribesRow, TrackingTypeOK, NotFresher,
         [TrackingNext]_trackingVars
  PROVE  /\ NotFresher'
         /\ Exists /\ row.data["closing_at"] # NULL =>
              row'.data["closing_at"] >= row.data["closing_at"]
<1>0. revision \in 1 .. Revisions /\ Revisions \in Nat
  BY TrackingAssumption DEF TrackingTypeOK
<1>1. ASSUME NEW r \in Runs, ApplyList(r) \/ ApplyDetail(r)
      PROVE  /\ NotFresher'
             /\ Exists /\ row.data["closing_at"] # NULL =>
                  row'.data["closing_at"] >= row.data["closing_at"]
  <2>1. /\ pc[r] \in {"listed", "detailed"} /\ revision' = revision
        /\ Upsert(held[r], FALSE) \/ Upsert(held[r], TRUE)
        /\ pc'[r] \notin {"listed", "detailed"}
    BY <1>1 DEF ApplyList, ApplyDetail, Move, TrackingTypeOK
  <2>2. \A s \in Runs : s = r
    BY DEF SingleRun
  <2>3. IsRecord(held[r])
    BY <2>1, HeldIsView
  <2>4. PICK m \in 1 .. revision :
          /\ m \in 1 .. Revisions
          /\ held[r]["closing_at"] # NULL => held[r]["closing_at"] \in Closings(m)
    BY <2>1, HeldIsView
  <2>5. \/ /\ row'.data["closing_at"] = held[r]["closing_at"]
           /\ Exists => held[r]["closing_at"] # NULL
        \/ Exists /\ row'.data["closing_at"] = row.data["closing_at"]
    BY <2>1, <2>3, UpsertClosing
  <2>6. CASE /\ row'.data["closing_at"] = held[r]["closing_at"]
             /\ Exists => held[r]["closing_at"] # NULL
    <3>1. \A n \in revision .. Revisions : n \in 1 .. Revisions /\ m <= n
      BY <1>0, <2>4
    <3>2. held[r]["closing_at"] # NULL =>
            \A n \in revision .. Revisions : \A c \in Closings(n) : held[r]["closing_at"] <= c
      BY <2>4, <3>1 DEF OnlyLater
    <3>3. NotFresher'
      BY <2>1, <2>2, <2>6, <3>2 DEF NotFresher, Closings
    <3>4. ASSUME Exists, row.data["closing_at"] # NULL
          PROVE  row'.data["closing_at"] >= row.data["closing_at"]
      <4>1. row.data["closing_at"] <= held[r]["closing_at"]
        BY <2>1, <2>6, <3>4 DEF NotFresher
      <4>2. row.data["closing_at"] \in Nat
        BY <3>4, ClosingType
      <4> QED BY <2>6, <4>1, <4>2
    <3> QED BY <3>3, <3>4
  <2>7. CASE Exists /\ row'.data["closing_at"] = row.data["closing_at"]
    <3>1. NotFresher'
      BY <2>1, <2>2, <2>7 DEF NotFresher, Closings
    <3>2. row.data["closing_at"] # NULL => row.data["closing_at"] \in Nat
      BY <2>7, ClosingType
    <3> QED BY <2>7, <3>1, <3>2
  <2> QED BY <2>5, <2>6, <2>7
<1>2. ASSUME NEW r \in Runs, FetchList(r) \/ FetchDetail(r)
      PROVE  NotFresher' /\ row' = row
  <2>1. PICK v \in {ListView(revision), DetailView(revision)} :
          row' = row /\ revision' = revision /\ held'[r] = v
    BY <1>2 DEF FetchList, FetchDetail, TrackingTypeOK
  <2>2. \A s \in Runs : s = r
    BY DEF SingleRun
  <2>3. Exists /\ row.data["closing_at"] # NULL /\ v["closing_at"] # NULL =>
          row.data["closing_at"] <= v["closing_at"]
    BY ReadIsFresh
  <2> QED BY <2>1, <2>2, <2>3 DEF NotFresher, Exists, Closings
<1>3. ASSUME NEW r \in Runs, MissFromList(r) \/ QueueDetail(r) \/ Unreadable(r) \/ Crash(r)
      PROVE  NotFresher' /\ row' = row
  <2>1. row' = row /\ revision' = revision
    BY <1>3 DEF MissFromList, QueueDetail, Unreadable, Crash
  <2>2. pc'[r] \notin {"listed", "detailed"}
    BY <1>3 DEF MissFromList, QueueDetail, Unreadable, Crash, Move, TrackingTypeOK
  <2>3. \A s \in Runs : s = r
    BY DEF SingleRun
  <2> QED BY <2>1, <2>2, <2>3 DEF NotFresher, Exists, Closings
<1>4. CASE Amend
  <2>1. row' = row /\ pc' = pc /\ held' = held /\ revision' = revision + 1
    BY <1>4 DEF Amend
  <2>2. \A n \in revision' .. Revisions : n \in revision .. Revisions
    BY <1>0, <2>1
  <2>3. NotFresher'
    BY <2>1, <2>2 DEF NotFresher, Exists, Closings
  <2>4. Exists /\ row.data["closing_at"] # NULL => row.data["closing_at"] \in Nat
    BY ClosingType
  <2> QED BY <2>1, <2>3, <2>4
<1>5. ASSUME Crowd \/ UNCHANGED trackingVars PROVE NotFresher' /\ row' = row
  <2>1. row' = row /\ pc' = pc /\ held' = held /\ revision' = revision
    BY <1>5 DEF Crowd, trackingVars
  <2> QED BY <2>1 DEF NotFresher, Exists, Closings
<1>6. row' = row =>
        (Exists /\ row.data["closing_at"] # NULL =>
           row'.data["closing_at"] >= row.data["closing_at"])
  BY ClosingType
<1> QED
  BY <1>1, <1>2, <1>3, <1>4, <1>5, <1>6 DEF TrackingNext, RunStep

(***************************************************************************)
(* As long as one run follows another, and the entity only postpones, no   *)
(* stored closing date is ever replaced by an earlier one, though a run    *)
(* may apply what the portal showed two amendments ago.  Neither           *)
(* hypothesis can be left out: with a second run the payload of the first  *)
(* is applied over what is fresher.                                        *)
(***************************************************************************)
THEOREM SingleRunNeverRegresses ==
  SingleRun /\ OnlyLater /\ TrackingSpec => ClosingNeverRegresses
<1> SUFFICES ASSUME SingleRun, OnlyLater PROVE TrackingSpec => ClosingNeverRegresses
  OBVIOUS
<1>1. TrackingInit => NotFresher
  BY DEF TrackingInit, Init, Absent, NotFresher, Exists
<1>2. TypeOK /\ HashDescribesRow /\ TrackingTypeOK /\ NotFresher
      /\ [TrackingNext]_trackingVars =>
        /\ NotFresher'
        /\ [Exists /\ row.data["closing_at"] # NULL =>
              row'.data["closing_at"] >= row.data["closing_at"]]_trackingVars
  BY StepNotFresher
<1> QED
  BY <1>1, <1>2, TrackingTypeCorrect, TrackingImplementsStore, TypeCorrect,
     HashAlwaysDescribesRow, PTL DEF TrackingSpec, ClosingNeverRegresses
=============================================================================
