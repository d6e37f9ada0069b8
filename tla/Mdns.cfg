SPECIFICATION Spec
CONSTANTS
  Addrs = {a1, a2}
  Callers = {c1, c2}
  Asked = {"ptr", "srv", "a"}
  Arriving = {"answer", "odd"}
  SearchQueue = 3
  Again = 1
  Clock = 100
  Browsed = FALSE
  RudeStop = FALSE
  MaxNow = 4
  MaxAsked = 2
  MaxPackets = 2
  Browsable = {"s", "t"}
  Heard = {"i", "j", "changed", "other", "bye"}
  BrowseQueue = 4
  QuietDelete = TRUE
  Spaced = TRUE
  BrowseCrowded = FALSE
  MaxCalls = 3
  MaxCame = 3
  Protocols = {4, 6}
  Offered = {"s", "t"}
  Own = {"s"}
  Alike = FALSE
  Answers = {"response"}
  PcbQueue = 3
  FirstWaits = {1}
  Crowded = FALSE
  Lossy = FALSE
  Calm = TRUE
  MaxOps = 3
  MaxNames = 2
SYMMETRY Symmetry
CHECK_DEADLOCK FALSE
INVARIANTS  NamesAreClaimed
PROPERTY SearchesAreRight
