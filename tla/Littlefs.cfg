SPECIFICATION Spec
CONSTANTS
  TreeBlocks = {0, 1, 2, 3, 4, 5, 6, 7, 8}
  TreeNames = {"x", "y"}
  TreeValues = {"v"}
  Depth = 2
  TreeOps = 2
  MaxMoves = 2
  TreeLosses = 2
  PerOp = 1
  AfterLoss = FALSE
  LogBlocks = {0, 1, 2, 3, 4}
  LogNames = {1, 2, 3}
  LogValues = {1}
  RevMod = 8
  Cycles = 3
  Revs = {2, 7}
  Room = 7
  LogOps = 3
  LogLosses = 1
  MaxBad = 1
  N = 6
  Bad = {1}
  B = 6
  InlineMax = 1
  Window = 3
  Files = {"a"}
  Handles = {g, h}
  Lengths = {1, 7, 12}
  Places = {0, 1, 6, 9}
  MaxSize = 12
  FileOps = 5
SYMMETRY Symmetry
CHECK_DEADLOCK FALSE
INVARIANTS  LogIsSafe 
