SPECIFICATION CallsSpec
CONSTANTS
  BlockCount = 3
  Null = Null
  Foreign = {foreign}
  Data = {data}
  MaxBatch = 3
  SizeMod = 4
  EnableStats = TRUE
INVARIANTS AStatisticCountsCalls
