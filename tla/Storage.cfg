SPECIFICATION SpecOne
CONSTANTS
 Objects = {o1, o2}
 Names = {"f"}
 MaxSize = 2
 MaxChunk = 1
 Words = {"a", "b"}
 MaxParts = 3
 Tasks = {t1, t2}
 MinCache = 1
 MaxHandles = 2
 Fails = TRUE
 SeekFails = FALSE
 MovesDirs = FALSE
SYMMETRY Symmetry
INVARIANTS OpenIsMounted TableIsSound
PROPERTY KeptAsGiven
