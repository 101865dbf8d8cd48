SPECIFICATION Spec
CONSTANTS
  f1 = f1
  f2 = f2
  f3 = f3
  f4 = f4
  t1 = t1
  t2 = t2
  Tools <- MCTools
  Rank <- MCRank
  Suspicious = {t1}
  Keywords <- MCKeywords
  Fns <- MCFns
  PlaceOf <- MCPlaceOf
  Locations <- MCLocations
  Declarable = {"SHELL_EXEC", "BENIGN_UTILITY"}
  TopLevel <- MCTopLevel
  SinkOf <- MCSinkOf
  MaxHops = 2
  MaxCalls = 3
  Selected = {{"W3", "W4", "W5"}, {"W8"}}
INVARIANTS NeverFailsBecauseOfLLM
CHECK_DEADLOCK FALSE
