SPECIFICATION Spec
CONSTANTS
  BlockCount = 3
  Null = Null
  Foreign = {foreign}
  Data = {}
  MaxBatch = 3
  SizeMod = 4
  EnableStats = TRUE
INVARIANTS
  TypeOK
  FreeListOK
  CountsOK
  PeakIsWatermark
  StatsBalance
PROPERTIES
  IssuedBlocksWereFree
  WrittenOnlyWhenReleased
  ShortOnlyWhenFull
  ImplementsShadow
  ImplementsBlockPool
  ReturnsPileUpInOrder
