SPECIFICATION Spec
CONSTANTS
  Inputs <- MCInputs
  LooksLike <- MCLooksLike
  Dir <- MCDir
  Scripts <- MCScripts
  Blank = ""
  Loads <- MCLoads
  Words = {"a", "b"}
  Where = "where"
  Reports <- MCReports
  MaxWords = 2
  MaxRuns = 2
INVARIANTS ReportShown RunsWhatWasChecked
PROPERTIES ReportEnds
CHECK_DEADLOCK FALSE
