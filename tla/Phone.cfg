SPECIFICATION FairSpec
CONSTANTS
  Ids = 3
  MaxTexts = 2
  Activities = 2
  Cap = 1
  MayDrop = TRUE
  Races = FALSE
CHECK_DEADLOCK FALSE
INVARIANTS BuiltAsSaid AnswersAreOwn PendingAccounted SocketOwned SessionEnds
 
