SPECIFICATION Spec
CONSTANTS
  W = 6
  NodeSize = 4
INVARIANTS BlocksHoldBlockSize
