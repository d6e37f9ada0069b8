SPECIFICATION FairSpec
CONSTANTS
  main = main
  httpd = httpd
  b1 = b1
  b2 = b2
  None = None
  Main = main
  MAX_COMMANDS = 2
  Tasks = {httpd}
  Frames <- WebFrames
  Blocks = {b1}
  Wrap = 10
  Horizon = 2
  UNLIMITED = 100
PROPERTIES PickedStays AllServed
