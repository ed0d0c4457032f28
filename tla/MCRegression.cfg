SPECIFICATION Spec
CONSTANTS
  Tools = {"custom", "google"}
  Spelling <- MCSpelling
  Directories <- MCDirectories
  Results <- MCResults
  NewFolders <- MCNewFolders
  CommandLines <- MCCommandLines
  MaxRuns = 2
  MaxChanges = 1
INVARIANTS ReportIsTrue FilteredIsPartOfWhole IdsMeanWhatWasShown FailureLeavesReports
PROPERTIES LatestIsLastListed
CHECK_DEADLOCK FALSE
