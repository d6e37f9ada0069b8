SPECIFICATION Spec
CONSTANTS
  main = main
  httpd = httpd
  b1 = b1
  b2 = b2
  None = None
  Main = main
  MAX_COMMANDS = 2
  Tasks = {httpd}
  Frames <- WebFrames
  Blocks = {b1, b2}
  Wrap = 10
  Horizon = 1
  UNLIMITED = 100
PROPERTY CancelFindsIt
