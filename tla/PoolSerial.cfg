SPECIFICATION Spec
CONSTANTS
  main = main
  httpd = httpd
  b1 = b1
  b2 = b2
  None = None
  Main = main
  MAX_COMMANDS = 2
  Tasks = {main}
  Frames <- SerialFrames
  Blocks = {b1, b2}
  Wrap = 10
  Horizon = 2
  UNLIMITED = 100
SYMMETRY Buffers
INVARIANTS TypeOK PayloadsOwned CommandsWhole ExecutedRight
PROPERTY PendingKept
