SPECIFICATION Spec
CONSTANTS
  Arenas = {p, q, r}
  BlockCounts = {1, 2}
  MaxBatch = 3
  TagMod = 2
  Null = Null
  Elsewhere = Elsewhere
INVARIANTS
  NoFalseAlarm
  BothVerify
  ProbesAreAccounted
  BaseIsArena
  ArenasAreOwned
SYMMETRY Symmetry
CHECK_DEADLOCK FALSE
