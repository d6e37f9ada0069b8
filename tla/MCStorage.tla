------------------------------ MODULE MCStorage ------------------------------
(***************************************************************************)
(* The parts that keep data on flash, one of them in a behaviour: the      *)
(* files of the program, the settings, and the table of open files.        *)
(***************************************************************************)
EXTENDS Files, TLC

CONSTANTS Words, MaxParts, Tasks, MinCache, MaxHandles, SeekFails, MovesDirs

VARIABLES part,
          opened, nvs, answer, kept,
          registered, tree, kind, cache, list, count, file, holder, fds, doing

settingsVars == <<opened, nvs, answer, kept>>
tableVars == <<registered, tree, kind, cache, list, count, file, holder, fds, doing>>

C == INSTANCE Configuration
V == INSTANCE Vfs WITH mounted <- registered

ASSUME StorageAssumption ==
  FilesAssumption /\ C!ConfigurationAssumption /\ V!VfsAssumption

Symmetry == Permutations(Objects) \cup Permutations(Tasks)

InitOne ==
  /\ part \in {"files", "settings", "table"}
  /\ Init /\ C!Init /\ V!Init
  /\ part # "files" => disk = <<>>

NextOne ==
  /\ UNCHANGED part
  /\ \/ part = "files" /\ Next /\ UNCHANGED <<settingsVars, tableVars>>
     \/ part = "settings" /\ C!Next /\ UNCHANGED <<vars, tableVars>>
     \/ part = "table" /\ V!Next /\ UNCHANGED <<vars, settingsVars>>

SpecOne == InitOne /\ [][NextOne]_<<part, vars, settingsVars, tableVars>>

(* An append keeps what the file held, also after an insert and with a     *)
(* cursor anywhere (FileSystem.cpp:347-360).                               *)
AppendsKeep ==
  [][\A o \in DOMAIN open, b \in Buffers, short \in BOOLEAN :
       AppendBytes(o, b, short) => IsPrefix(open[o].data, open'[o].data)]_vars

(* A READ answers the last value of its key, as the kind it is             *)
(* (Configuration).                                                        *)
AnswersAsKept == C!AnswersAsKept

(* The cache, the list and the count of open files agree (Vfs).            *)
TableAgrees == V!TableAgrees

(* A descriptor stays its owner's, and with its file (Vfs).                *)
DescriptorsKept == V!DescriptorsKept

(* A file that is open is in the tree (Vfs).                               *)
OpenFilesStay == V!OpenFilesStay

(* With nobody in a call the lock of the partition is free (Vfs).          *)
LockGivenBack == V!LockGivenBack

(* What every owner closed may be unlinked (Vfs).                          *)
ClosedIsFree == V!ClosedIsFree

(* Files and settings give back what they were given: reads come in order, *)
(* an append keeps what was there, and a READ of a setting answers its     *)
(* last value (FileSystem.cpp:187-372, Configuration.cpp:120-330).         *)
KeptAsGiven == [](TypeOK /\ ReadsInOrder /\ AnswersAsKept) /\ AppendsKeep

(* The table of open files agrees with itself while it grows and shrinks,  *)
(* and a descriptor stays its owner's and with its file                    *)
(* (esp_littlefs.c:1540-1690).                                             *)
TableIsSound == V!TypeOK /\ TableAgrees /\ DescriptorsKept /\ OpenFilesStay
============================================================================
