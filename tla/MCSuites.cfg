SPECIFICATION Spec
CONSTANTS
  Files <- MCFiles
  Letter <- MCLetter
  Numeral <- MCNumeral
  Requests <- MCRequests
  MaxTests = 3
  MaxChecks = 3
INVARIANTS IdsAreDistinct RunsWhatWasAsked CategoriesListedOnce TallyIsTrue
CHECK_DEADLOCK FALSE
