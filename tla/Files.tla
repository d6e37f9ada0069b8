------------------------------- MODULE Files -------------------------------
(***************************************************************************)
(* The file system as the program sees it: FileSystem objects over one     *)
(* partition, which is mounted by the first load and unmounted by the last *)
(* object.  The C library and the partition below are external: a stream   *)
(* works on a content of its own, which reaches the partition when it is   *)
(* closed.  Power may fail at any moment.                                  *)
(***************************************************************************)
EXTENDS Integers, FiniteSets, SequencesExt

CONSTANTS Objects, \* FileSystem objects
          Names,   \* paths
          MaxSize, \* bound: bytes of a file
          MaxChunk, \* FILE_MAX_CHUNK_BUFFER
          Fails    \* mounting, opening and writing may fail

None == "none"
Zero == 0          \* what a gap in a file reads as
Bytes == {Zero, 1}
FilesAssumption ==
  /\ IsFiniteSet(Objects) /\ None \notin Names /\ {MaxSize, MaxChunk} \subseteq Nat
  /\ Fails \in BOOLEAN

VARIABLES
  mounted, \* FileSystem::mounted
  users,   \* FileSystem::u_count
  disk,    \* the partition: the content of each file there is
  object,  \* the objects that are alive
  open     \* the stream of each object that has one: its file and its content

vars == <<mounted, users, disk, object, open>>

Successful == "SUCCESSFUL"
Error == "ERROR"
EndOfFile == "END_OF_FILE"
BadArg == "BAD_ARG"
MountFailed == "MOUNT_FAILED"
Missing == "FILE_DOESNT_EXIST"
BadMode == "BAD_MODE"
Statuses == {Successful, Error, EndOfFile, BadArg, MountFailed, Missing, BadMode}
Modes == {"r", "w", "a"}

(* got is history: what the reads have given since the program last put    *)
(* the cursor of this file somewhere.                                      *)
New == [status |-> Successful, mode |-> None, ptr |-> 0, got |-> <<>>]

TypeOK ==
  /\ mounted \in BOOLEAN /\ users \in 0..Cardinality(Objects)
  /\ DOMAIN disk \subseteq Names /\ \A n \in DOMAIN disk : disk[n] \in Seq(Bytes)
  /\ DOMAIN open \subseteq DOMAIN object /\ DOMAIN object \subseteq Objects
  /\ \A o \in DOMAIN object :
       object[o].status \in Statuses /\ object[o].mode \in Modes \cup {None}
  /\ \A o \in DOMAIN open : open[o].name \in Names /\ open[o].data \in Seq(Bytes)

Init ==
  /\ mounted = FALSE /\ users = 0
  /\ disk \in UNION {[ns -> {<<>>, <<Zero, 1>>}] : ns \in SUBSET Names}
  /\ object = <<>> /\ open = <<>>

Without(f, x) == Restrict(f, DOMAIN f \ {x})
With(f, x, v) == [y \in DOMAIN f \cup {x} |-> IF y = x THEN v ELSE f[y]]

(* Bytes written at a position: beyond the end the gap is filled.          *)
Written(data, at, b) ==
  [i \in 1..(IF at + Len(b) > Len(data) /\ b # <<>> THEN at + Len(b) ELSE Len(data)) |->
     IF i \in (at + 1)..(at + Len(b)) THEN b[i - at]
     ELSE IF i <= Len(data) THEN data[i] ELSE Zero]

(* fclose: what was written reaches the partition.                         *)
Closed(store, o) ==
  IF o \in DOMAIN open /\ open[o].writes THEN With(store, open[o].name, open[o].data)
  ELSE store

----------------------------------------------------------------------------
(* A constructor that runs again for an object that is alive.              *)
ConstructAgain(o) ==
  /\ object' = With(object, o, New) /\ users' = users + 1
  /\ UNCHANGED <<mounted, disk, open>>
Construct(o) ==
  /\ o \notin DOMAIN object
  /\ object' = With(object, o, New) /\ users' = users + 1
  /\ UNCHANGED <<mounted, disk, open>>

LastUserEarly == users - 1 <= 1
LastUser == users - 1 = 0
Destroy(o) ==
  /\ users' = users - 1
  /\ disk' = Closed(disk, o) /\ open' = Without(open, o) /\ object' = Without(object, o)
  /\ mounted' = (mounted /\ ~LastUser)

(* The mount formats a partition it cannot read, and may fail.             *)
Mounted(o, ok, formats) ==
  /\ mounted' = (mounted \/ ok)
  /\ disk' = IF ~mounted /\ formats THEN <<>> ELSE disk

StatusAfterMount(o, ok) ==
  IF mounted THEN object[o].status ELSE IF ok THEN Successful ELSE MountFailed

Failed(o, s) == object' = [object EXCEPT ![o].status = s]

LoadNotMounted(o, ok, formats) ==
  /\ Mounted(o, ok, formats) /\ StatusAfterMount(o, ok) = MountFailed
  /\ Failed(o, MountFailed)
  /\ UNCHANGED <<users, open>>

(* A mode other than the three, or a path too long: the file that was      *)
(* loaded stays open, and in the second case its mode is already replaced. *)
LoadBadArg(o, md, ok, formats) ==
  /\ Mounted(o, ok, formats) /\ StatusAfterMount(o, ok) # MountFailed
  /\ object' = [object EXCEPT ![o].status = BadArg,
                              ![o].mode = IF md \in Modes THEN md ELSE @]
  /\ UNCHANGED <<users, open>>

(* What fopen finds: mode "a" opens what is there, and creates the file    *)
(* when it is not; mode "w" empties it.                                    *)
Found(store, n, md) ==
  IF md = "w" \/ (md = "a" /\ n \notin DOMAIN store) THEN With(store, n, <<>>) ELSE store

(* The file that was loaded before is closed after the mode was replaced.  *)
LoadFile(o, n, md, ok, formats, fails) ==
  LET kept == IF ~mounted /\ formats THEN <<>> ELSE Closed(disk, o)
      found == IF fails THEN kept ELSE Found(kept, n, md)
      opens == ~fails /\ n \in DOMAIN found
      status == IF opens THEN Successful ELSE IF n \in DOMAIN kept THEN Error ELSE Missing IN
  /\ StatusAfterMount(o, ok) # MountFailed
  /\ mounted' = (mounted \/ ok)
  /\ disk' = found
  /\ open' = IF opens THEN With(open, o, [name |-> n, data |-> found[n],
                                              writes |-> md # "r"]) ELSE Without(open, o)
  /\ object' = [object EXCEPT ![o] =
       [status |-> status, mode |-> md, ptr |-> IF opens THEN 0 ELSE @.ptr, got |-> <<>>]]
  /\ UNCHANGED users

Load(o) ==
  \E ok \in IF mounted \/ Fails THEN BOOLEAN ELSE {TRUE},
     formats \in IF Fails THEN BOOLEAN ELSE {FALSE} :
    \/ LoadNotMounted(o, ok, formats)
    \/ \E md \in Modes \cup {"x"} : LoadBadArg(o, md, ok, formats)
    \/ \E n \in Names, md \in Modes, fails \in {FALSE, Fails} :
         LoadFile(o, n, md, ok, formats, fails)

----------------------------------------------------------------------------
Exists(o) == o \in DOMAIN open /\ object[o].status = Successful
Size(o) == IF Exists(o) THEN Len(open[o].data) ELSE 0

Reads(o, at, len) ==
  /\ Exists(o) /\ object[o].mode = "r"
  /\ at + len <= Size(o) /\ len <= MaxChunk
BytesAt(o, at, len) == SubSeq(open[o].data, at + 1, at + len)

(* A read that is refused returns a status and changes nothing.            *)
Read(o, len) ==
  /\ object' = IF Reads(o, object[o].ptr, len)
               THEN [object EXCEPT ![o].ptr = @ + len,
                                   ![o].got = @ \o BytesAt(o, object[o].ptr, len)]
               ELSE object
  /\ UNCHANGED <<mounted, users, disk, open>>

(* chunk: a read from a position, after which the cursor is put back.      *)
PutBackRead(o, at, len) == at + len
PutBack(o, at, len) == object[o].ptr
Chunk(o, at, len) ==
  /\ Reads(o, at, len)
  /\ object' = [object EXCEPT ![o].ptr = PutBack(o, at, len)]
  /\ UNCHANGED <<mounted, users, disk, open>>

(* readAll, getSize and exists leave the cursor alone.                     *)
Look(o) == UNCHANGED vars

Skip(o, len) ==
  /\ len <= Size(o)
  /\ object' = [object EXCEPT ![o].ptr = len, ![o].got = <<>>]
  /\ UNCHANGED <<mounted, users, disk, open>>

(* Mode "w" writes from the start, mode "a" at the position it is given;   *)
(* the part of the buffer that is written may be short.                    *)
Writes(o) == Exists(o) /\ object[o].mode \in {"w", "a"}
WriteAt(o, at, b, short) ==
  open' = IF Writes(o)
          THEN [open EXCEPT ![o].data =
                  Written(@, IF object[o].mode = "a" THEN at ELSE 0,
                          SubSeq(b, 1, IF short THEN Len(b) - 1 ELSE Len(b)))]
          ELSE open

Write(o, b, short) ==
  /\ WriteAt(o, object[o].ptr, b, short)
  /\ UNCHANGED <<mounted, users, disk, object>>

AppendAtCursor(o) == object[o].ptr
AppendAt(o) == Size(o)
AppendBytes(o, b, short) ==
  /\ object[o].mode = "a"
  /\ WriteAt(o, AppendAt(o), b, short)
  /\ UNCHANGED <<mounted, users, disk, object>>

(* With an offset the cursor ends behind what was inserted.                *)
Insert(o, at, b, short) ==
  /\ object[o].mode = "a"
  /\ WriteAt(o, IF at # 0 THEN at ELSE object[o].ptr, b, short)
  /\ object' = [object EXCEPT ![o].ptr = IF at # 0 THEN at + Len(b) ELSE @]
  /\ UNCHANGED <<mounted, users, disk>>

Unload(o) ==
  /\ disk' = Closed(disk, o) /\ open' = Without(open, o)
  /\ object' = [object EXCEPT ![o].got = <<>>]
  /\ UNCHANGED <<mounted, users>>

(* Power fails: what no close has written is lost.                         *)
PowerFails ==
  /\ mounted' = FALSE /\ users' = 0 /\ object' = <<>> /\ open' = <<>>
  /\ UNCHANGED disk

(* append and insert compare the mode before they look at the file; the    *)
(* mode is set by the first load.                                          *)
Loaded(o) == object[o].mode # None
Buffers == {<<1>>}
Short == {FALSE, Fails}
Operate(o) ==
  \/ Load(o)
  \/ \E len \in 1..(MaxChunk + 1) : Read(o, len) \/ Skip(o, len)
  \/ \E len \in 1..(MaxChunk + 1), at \in 0..MaxSize : Chunk(o, at, len)
  \/ Look(o)
  \/ \E b \in Buffers, short \in Short : Write(o, b, short)
  \/ \E b \in Buffers, short \in Short : Loaded(o) /\ AppendBytes(o, b, short)
  \/ \E b \in Buffers, short \in Short, at \in 0..MaxSize :
       Loaded(o) /\ Insert(o, at, b, short)
  \/ Unload(o)
  \/ Destroy(o)

Bounded == \A o \in DOMAIN open : Len(open[o].data) <= MaxSize
Next ==
  \/ \E o \in Objects : Construct(o)
  \/ \E o \in DOMAIN object : Operate(o) /\ Bounded'
  \/ PowerFails

Spec == Init /\ [][Next]_vars

----------------------------------------------------------------------------
(* The reads of an object give its file piece by piece, in order and with  *)
(* nothing left out or twice, from where the cursor was last put, whatever *)
(* chunk and readAll read in between (FileSystem.cpp:178-273).             *)
ReadsInOrder ==
  \A o \in DOMAIN open :
    object[o].mode = "r" /\ object[o].status = Successful =>
      object[o].got = SubSeq(open[o].data, object[o].ptr - Len(object[o].got) + 1, object[o].ptr)

(* No file is open on a partition that is not mounted: the last object and *)
(* no other unmounts it (FileSystem.cpp:64-78).                            *)
OpenIsMounted == open # <<>> => mounted
============================================================================
