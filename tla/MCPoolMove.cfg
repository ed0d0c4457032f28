SPECIFICATION Spec
CONSTANTS
  Pools = {p1, p2, p3}
  Arenas = {a1, a2}
  Configs = {c1, c2}
  BlockCount = 2
  Null = Null
  Dead = Dead
  SizeMod = 3
  Watched = a1
SYMMETRY Symmetry
INVARIANTS ArenaHasOneOwner HeldBlockHasOwner EmptyPoolIsInert
PROPERTIES MovesAreInvisible
