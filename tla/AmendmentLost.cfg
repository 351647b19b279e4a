CONSTANTS
  NULL = NULL
  TextFields = {"title", "package_no"}
  NoteFields = {"eligibility_text"}
  Texts = {"t1", "T1", "p1", "licence", "dphe", "lot"}
  Dates = {1, 2, 3}
  Natures = {"works", "other"}
  ListRecords <- MCListRecords
  DetailRecords <- MCDetailRecords
  MaxScheme = 1
  ListView <- MCListView
  DetailView <- MCDetailView
  MaxVersions = 6
  Runs = {r1}
  Revisions = 2
  MaxFaults = 0
SPECIFICATION FairTrackingSpec
PROPERTY AmendmentsReachRow
CHECK_DEADLOCK FALSE
