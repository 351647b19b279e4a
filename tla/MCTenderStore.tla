--------------------------- MODULE MCTenderStore ----------------------------
(***************************************************************************)
(* A tender as four list pages and five detail pages may show it.  The     *)
(* list has no eligibility prose and, at first, no package number; its     *)
(* title differs from the detail page's in letter case only ("t1", "T1").  *)
(* A detail page may lack its package number, its nature label (which      *)
(* parses to "other"), its dates and its organization.                     *)
(***************************************************************************)
EXTENDS TenderStore

OnList(package, closing, status) ==
  [title |-> "t1", package_no |-> package, closing_at |-> closing,
   procurement_nature |-> "works", status |-> status,
   eligibility_text |-> NULL, organization |-> "dphe", lots |-> NULL]

OnDetail(package, closing, nature, status, organization) ==
  [title |-> "T1", package_no |-> package, closing_at |-> closing,
   procurement_nature |-> nature, status |-> status,
   eligibility_text |-> "licence", organization |-> organization, lots |-> "lot"]

MCListRecords ==
  { OnList(NULL, 1, "live"), OnList("p1", 1, "live"),
    OnList(NULL, 2, "live"), OnList("p1", 2, "cancelled") }

MCDetailRecords ==
  { OnDetail("p2", 1, "works", "live", "dphe"),
    OnDetail(NULL, 2, "works", "live", "dphe"),
    OnDetail(NULL, NULL, "other", "live", NULL),
    OnDetail(NULL, 1, "works", "live", NULL),
    OnDetail("p2", NULL, "works", "cancelled", "dphe") }
=============================================================================
