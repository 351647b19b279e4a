CONSTANTS
  NULL = NULL
  TextFields = {"title", "package_no"}
  NoteFields = {"eligibility_text"}
  Texts = {"t1", "T1", "p1", "licence", "dphe", "lot"}
  Dates = {1, 2, 3}
  Natures = {"works", "other"}
  ListRecords <- MCListRecords
  DetailRecords <- MCDetailRecords
  MaxScheme = 1
  ListView <- MCListView
  DetailView <- MCDetailView
  MaxVersions = 6
  Runs = {r1}
  Revisions = 3
  MaxFaults = 2
SPECIFICATION TrackingSpec
PROPERTIES ClosingNeverRegresses
CHECK_DEADLOCK FALSE
