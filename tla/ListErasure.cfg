CONSTANTS
  NULL = NULL
  TextFields = {"title", "package_no"}
  NoteFields = {"eligibility_text"}
  Texts = {"t1", "T1", "p1", "p2", "licence", "dphe", "lot"}
  Dates = {1, 2}
  Natures = {"works", "other"}
  ListRecords <- MCListRecords
  DetailRecords <- MCDetailRecords
  MaxVersions = 4
  MaxScheme = 2
SPECIFICATION Spec

PROPERTY ListErasesNothing
CHECK_DEADLOCK FALSE
