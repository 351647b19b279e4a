-------------------------- MODULE MCNoticeTracking --------------------------
(***************************************************************************)
(* A notice whose closing date is extended by each amendment and whose     *)
(* last revision is cancelled, so that it leaves the Live list.  The two   *)
(* views spell the title differently and the list omits the package.       *)
(***************************************************************************)
EXTENDS NoticeTracking

MCListView(n) ==
  [title |-> "t1", package_no |-> NULL, closing_at |-> n,
   procurement_nature |-> "works", status |-> IF n = 3 THEN "cancelled" ELSE "live",
   eligibility_text |-> NULL, organization |-> "dphe", lots |-> NULL]

MCDetailView(n) ==
  [title |-> "T1", package_no |-> "p1", closing_at |-> n,
   procurement_nature |-> "works", status |-> IF n = 3 THEN "cancelled" ELSE "live",
   eligibility_text |-> "licence", organization |-> "dphe", lots |-> "lot"]

MCListRecords   == {MCListView(n) : n \in 1 .. 3}
MCDetailRecords == {MCDetailView(n) : n \in 1 .. 3}
=============================================================================
