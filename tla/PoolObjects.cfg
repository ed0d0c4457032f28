SPECIFICATION ObjectsSpec
CONSTANTS
  BlockCount = 3
  Null = Null
  Foreign = {foreign}
  Data = {data}
  MaxBatch = 1
  SizeMod = 4
  EnableStats = FALSE
  MaxDepth = 2
INVARIANTS NoBlockLost CallbackBlockIsPrivate
PROPERTIES ThrowRestores UsePoolAsCallers
