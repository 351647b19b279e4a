---------------------------- MODULE TenderRecord ----------------------------
(***************************************************************************)
(* One tender as an adapter's parse() returns it, and the four pure        *)
(* functions the versioning rule is made of: merge_records (db/repo.py),   *)
(* canonical_hash, changed_fields and infer_change_type (models.py).       *)
(*                                                                         *)
(* A record maps every field to a value.  The fields differ only in how    *)
(* the code treats them, so one representative of each treatment is kept:  *)
(*                                                                         *)
(*   TextFields            hashed and possibly missing: title, package_no, *)
(*                         district, the money columns, ...                *)
(*   closing_at            hashed and possibly missing, and compared by    *)
(*                         infer_change_type                               *)
(*   procurement_nature,   hashed and never missing: an absent label       *)
(*   status                parses to the default                           *)
(*   NoteFields            stored and reloaded but not hashed:             *)
(*                         eligibility_text, categories, app_id, ...       *)
(*   organization, lots    stored, but not reloaded by _row_to_record      *)
(***************************************************************************)
EXTENDS Naturals

CONSTANTS
  NULL,         \* None, and the empty string or list merge_records equates with it
  TextFields,   \* names of the hashed optional fields
  NoteFields,   \* names of the reloaded fields outside the hash
  Texts,        \* what a text, an amount, an organization or a lot list can say
  Dates,        \* closing dates, later is greater
  Natures       \* procurement natures, "other" among them

Statuses == {"live", "closed", "cancelled", "awarded"}

HashFields == TextFields \cup {"closing_at", "procurement_nature", "status"}
Reloaded   == HashFields \cup NoteFields
Fields     == Reloaded \cup {"organization", "lots"}

ASSUME RecordAssumption ==
  /\ NULL \notin Texts \cup Natures \cup Statuses
  /\ NULL \notin Dates /\ Dates \subseteq Nat
  /\ "other" \in Natures
  /\ TextFields \cap {"closing_at", "procurement_nature", "status",
                      "organization", "lots"} = {}
  /\ NoteFields \cap (HashFields \cup {"organization", "lots"}) = {}

Value(f) ==
  CASE f = "closing_at"         -> Dates \cup {NULL}
    [] f = "procurement_nature" -> Natures
    [] f = "status"             -> Statuses
    [] OTHER                    -> Texts \cup {NULL}

IsRecord(r) ==
  /\ r = [f \in Fields |-> r[f]]
  /\ \A f \in Fields : r[f] \in Value(f)

-----------------------------------------------------------------------------
(***************************************************************************)
(* The stored row read back for a comparison.  organization and lots keep  *)
(* the defaults of a fresh TenderRecord, which are empty.                  *)
(***************************************************************************)
RowToRecord(data) ==
  [f \in Fields |-> IF f \in {"organization", "lots"} THEN NULL ELSE data[f]]

(***************************************************************************)
(* What merge_records takes for a value.  An OrganizationRef is never None *)
(* and is not a list or a string, so it counts even when it names nobody.  *)
(***************************************************************************)
Present(r, f) == f = "organization" \/ r[f] # NULL

\* Mutant of MergeRecords: a missing value overwrites.
MergeOverwriting(stored, incoming, fillOnly) ==
  [f \in Fields |-> IF fillOnly /\ Present(stored, f) THEN stored[f] ELSE incoming[f]]

MergeRecords(stored, incoming, fillOnly) ==
  [f \in Fields |->
     IF Present(incoming, f) /\ ~(fillOnly /\ Present(stored, f))
     THEN incoming[f]
     ELSE stored[f]]

(***************************************************************************)
(* The canonical hash: injective in the hashed fields, and dependent on    *)
(* how the running code writes a value down (scale of a Decimal, offset of *)
(* a timestamp, normal form of a text), which is the scheme.               *)
(***************************************************************************)
CanonicalHash(scheme, r) ==
  [scheme |-> scheme, of |-> [f \in HashFields |-> r[f]]]

ChangedFields(new, previous) ==
  [f \in {g \in HashFields : previous[g] # new[g]} |->
     [old |-> previous[f], new |-> new[f]]]

ChangeTypes == {"new", "corrigendum", "cancellation", "extension", "enrichment"}

IsExtension(new, previous) ==
  /\ new["closing_at"] # NULL
  /\ previous["closing_at"] # NULL
  /\ new["closing_at"] > previous["closing_at"]

InferChangeType(new, previous) ==
  LET changed == DOMAIN ChangedFields(new, previous)
  IN  IF new["status"] = "cancelled" THEN "cancellation"
      ELSE IF IsExtension(new, previous) THEN "extension"
      ELSE IF changed # {} /\ \A f \in changed : previous[f] = NULL
           THEN "enrichment"
           ELSE "corrigendum"
=============================================================================
