SPECIFICATION FairSpec
CONSTANTS
  QueueLen = 1
  Package <- Packaged
  Sentences <- Said2
  Recorders = {r1, r2}
  Early = FALSE
  Overlapping = FALSE
INVARIANTS CallsAndMusic OutputIsHeard
PROPERTY CommandsEnd
