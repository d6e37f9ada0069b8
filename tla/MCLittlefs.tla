----------------------------- MODULE MCLittlefs -----------------------------
(***************************************************************************)
(* Three views of littlefs, one of them in a behaviour: the directories    *)
(* and the list that threads them, one directory as two logs of tags, and  *)
(* the contents of files with the blocks they take.                        *)
(***************************************************************************)
EXTENDS Integers, FiniteSets, TLC

CONSTANTS TreeBlocks, TreeNames, TreeValues, Depth, TreeOps, MaxMoves, TreeLosses, PerOp, AfterLoss,
          LogBlocks, LogNames, LogValues, RevMod, Cycles, Revs, Room, LogOps, LogLosses, MaxBad,
          N, Bad, B, InlineMax, Window, Files, Handles, Lengths, Places, MaxSize, FileOps

VARIABLES part,
          disk, ram, treeOp, now, treeUsed,
          block, known, open, logOp, kept, logUsed,
          fs, said, got, ops

treeVars == <<disk, ram, treeOp, now, treeUsed>>
logVars == <<block, known, open, logOp, kept, logUsed>>
fileVars == <<fs, said, got, ops>>

T == INSTANCE LittleTree WITH Blocks <- TreeBlocks, Names <- TreeNames, Values <- TreeValues,
       MaxOps <- TreeOps, MaxLosses <- TreeLosses, op <- treeOp, used <- treeUsed
L == INSTANCE LittleLog WITH Blocks <- LogBlocks, Names <- LogNames, Values <- LogValues,
       MaxOps <- LogOps, MaxLosses <- LogLosses, op <- logOp, used <- logUsed
F == INSTANCE LittleFile WITH MaxOps <- FileOps

ASSUME LittlefsAssumption ==
  T!LittleTreeAssumption /\ L!LittleLogAssumption /\ F!LittleFileAssumption

Symmetry == Permutations(Handles)

Init ==
  /\ part \in {"tree", "log", "file"}
  /\ T!Init /\ L!Init /\ F!Init
  /\ part # "tree" => T!List(disk)[2] = {2, 3}
  /\ part # "log" => known # <<>> /\ \A e \in kept.before, n \in LogNames : e[1] <= n

Next ==
  /\ UNCHANGED part
  /\ \/ part = "tree" /\ T!Next /\ UNCHANGED <<logVars, fileVars>>
     \/ part = "log" /\ L!Next /\ UNCHANGED <<treeVars, fileVars>>
     \/ part = "file" /\ F!Next /\ UNCHANGED <<treeVars, logVars>>

Spec == Init /\ [][Next]_<<part, treeVars, logVars, fileVars>>

(* Power may fail at any step of an operation on the tree of directories,  *)
(* and what the next mount finds is the tree before or after (LittleTree). *)
TreeIsAtomic == part = "tree" => T!TreeIsAtomic

(* A list and a tree that differ are marked as such on disk (LittleTree).  *)
OrphansAreMarked == part = "tree" => T!OrphansAreMarked

(* A file system that says it is consistent is (LittleTree).               *)
RepairedIsWhole == part = "tree" => T!RepairedIsWhole

(* The global state on disk is one value and the one believed (LittleTree). *)
GstateAgrees == part = "tree" => T!GstateAgrees

(* A commit to a directory happens or does not (LittleLog).                *)
DirIsAtomic == part = "log" => L!DirIsAtomic

(* Reading a log forwards and backwards agrees (LittleLog).                *)
FindAgrees == part = "log" => L!FindAgrees

(* Open files stay at their entries (LittleLog).                           *)
OpenFollow == part = "log" => L!OpenFollow

(* What was synced stays readable (LittleFile).                            *)
SyncedStays == part = "file" => F!SyncedStays

(* A handle has what was written through it (LittleFile).                  *)
HandleHolds == part = "file" => F!HandleHolds

(* A read gives what is at the position (LittleFile).                      *)
ReadsAsWritten == part = "file" => F!ReadsAsWritten


(* A commit happens or does not, also when it moves the directory, a name  *)
(* is found where reading puts it, and open files stay at their entries.   *)
LogIsSafe == DirIsAtomic /\ FindAgrees /\ OpenFollow

=============================================================================
