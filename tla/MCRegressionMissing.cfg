SPECIFICATION Spec
CONSTANTS
  Tools = {"custom", "google"}
  Spelling <- MCSpelling
  Directories <- MCDirectories
  Results <- MCResults
  NewFolders <- MCNewFolders
  CommandLines <- MCCommandLines
  MaxRuns = 1
  MaxChanges = 1
INVARIANTS FasterWasMeasured
CHECK_DEADLOCK FALSE
