SPECIFICATION RunSpec
CONSTANTS
  Platforms = {"Darwin", "Linux"}
  MaxRun = 2
INVARIANTS OwnReports WizardMeansIdle
PROPERTIES StoppedWhenDelivered RunEnds
CHECK_DEADLOCK FALSE
