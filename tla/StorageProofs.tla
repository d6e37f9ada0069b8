---------------------------- MODULE StorageProofs ----------------------------
(***************************************************************************)
(* Theorems about what is kept on flash: the files of the program, for any *)
(* finite set of objects and any sizes, the settings, for any keys, and   *)
(* the table of open files, for any number of tasks and of files.         *)
(***************************************************************************)
EXTENDS MCStorage, FiniteSetTheorems, SequenceTheorems, TLAPS

-----------------------------------------------------------------------------
(* The file system: the partition is there as long as a file is open.     *)

\* u_count counts the objects that are alive, and only they have streams.
Counted ==
  /\ DOMAIN object \in SUBSET Objects
  /\ users = Cardinality(DOMAIN object)
  /\ DOMAIN open \in SUBSET DOMAIN object

IInv == Counted /\ OpenIsMounted /\ mounted \in BOOLEAN

LEMMA FiniteObjects == ASSUME FilesAssumption, Counted PROVE IsFiniteSet(DOMAIN object)
  BY FS_Subset DEF FilesAssumption, Counted

\* What With and Without do to the domain of a table.
LEMMA WithDomain ==
  ASSUME NEW f, NEW x, NEW v
  PROVE  DOMAIN With(f, x, v) = DOMAIN f \cup {x}
  BY DEF With

LEMMA WithoutDomain ==
  ASSUME NEW f, NEW x
  PROVE  DOMAIN Without(f, x) = DOMAIN f \ {x}
  BY DEF Without, Restrict

\* Taking the only stream, or none, from a table leaves the empty one.
LEMMA NothingLeft ==
  ASSUME NEW f, NEW x, DOMAIN f \in SUBSET {x}
  PROVE  Without(f, x) = <<>>
  <1>1. DOMAIN f \ {x} = {}
    OBVIOUS
  <1>2. QED
    BY <1>1 DEF Without, Restrict

LEMMA InitInv == ASSUME FilesAssumption, Init PROVE IInv
  <1>1. DOMAIN object = {} /\ DOMAIN open = {}
    BY DEF Init
  <1>2. QED
    BY <1>1, FS_EmptySet DEF Init, IInv, Counted, OpenIsMounted

\* A step that leaves the objects and their number alone.
LEMMA SameObjects ==
  ASSUME Counted, users' = users, DOMAIN object' = DOMAIN object,
         DOMAIN open' \in SUBSET DOMAIN object
  PROVE  Counted'
  BY DEF Counted

LEMMA ConstructInv == ASSUME FilesAssumption, IInv, NEW o \in Objects, Construct(o) PROVE IInv'
  <1>1. DOMAIN object' = DOMAIN object \cup {o} /\ o \notin DOMAIN object
    BY WithDomain DEF Construct
  <1>2. Cardinality(DOMAIN object') = Cardinality(DOMAIN object) + 1
    BY <1>1, FiniteObjects, FS_AddElement DEF IInv
  <1>3. QED
    BY <1>1, <1>2 DEF Construct, IInv, Counted, OpenIsMounted

\* The destructor of the last object, and no other, unmounts.
LEMMA DestroyInv ==
  ASSUME FilesAssumption, IInv, NEW o \in DOMAIN object, Destroy(o)
  PROVE  IInv'
  <1>1. DOMAIN object' = DOMAIN object \ {o} /\ DOMAIN open' = DOMAIN open \ {o}
    BY WithoutDomain DEF Destroy
  <1>2. Cardinality(DOMAIN object') = Cardinality(DOMAIN object) - 1
    BY <1>1, FiniteObjects, FS_RemoveElement DEF IInv
  <1>3. Counted'
    BY <1>1, <1>2 DEF Destroy, IInv, Counted
  <1>4. CASE LastUser
    <2>1. Cardinality(DOMAIN object) = 1
      BY <1>4, FiniteObjects, FS_CardinalityType DEF LastUser, IInv, Counted
    <2>2. DOMAIN object = {o}
      BY <2>1, FiniteObjects, FS_Singleton DEF IInv
    <2>3. open' = <<>>
      BY <2>2, NothingLeft DEF Destroy, IInv, Counted
    <2>4. QED
      BY <1>3, <2>3 DEF Destroy, IInv, OpenIsMounted
  <1>5. CASE ~LastUser
    <2>1. open = <<>> => open' = <<>>
      BY NothingLeft DEF Destroy
    <2>2. QED
      BY <1>3, <1>5, <2>1 DEF Destroy, IInv, OpenIsMounted
  <1>6. QED
    BY <1>4, <1>5

\* load mounts before it opens, and opens nothing on what it could not mount.
LEMMA LoadInv ==
  ASSUME FilesAssumption, IInv, NEW o \in DOMAIN object, Load(o)
  PROVE  IInv'
  <1>1. ASSUME NEW ok \in BOOLEAN, NEW formats \in BOOLEAN,
               LoadNotMounted(o, ok, formats)
        PROVE  IInv'
    BY <1>1 DEF LoadNotMounted, Mounted, Failed, IInv, Counted, OpenIsMounted
  <1>2. ASSUME NEW ok \in BOOLEAN, NEW formats \in BOOLEAN, NEW md,
               LoadBadArg(o, md, ok, formats)
        PROVE  IInv'
    BY <1>2 DEF LoadBadArg, Mounted, IInv, Counted, OpenIsMounted
  <1>3. ASSUME NEW ok \in BOOLEAN, NEW formats \in BOOLEAN, NEW n \in Names,
               NEW md \in Modes, NEW fails \in BOOLEAN,
               LoadFile(o, n, md, ok, formats, fails)
        PROVE  IInv'
    <2>1. mounted' = TRUE
      BY <1>3 DEF LoadFile, StatusAfterMount, IInv, Successful, MountFailed
    <2>2. DOMAIN object' = DOMAIN object /\ users' = users
      BY <1>3 DEF LoadFile
    <2>3. \/ DOMAIN open' = DOMAIN open \cup {o}
          \/ DOMAIN open' = DOMAIN open \ {o}
      BY <1>3, WithDomain, WithoutDomain DEF LoadFile
    <2>4. Counted'
      BY <2>2, <2>3, SameObjects DEF IInv, Counted
    <2>5. QED
      BY <2>1, <2>4 DEF IInv, OpenIsMounted
  <1>4. QED
    BY <1>1, <1>2, <1>3 DEF Load, FilesAssumption

\* A write changes the content of a stream and nothing else about it.
LEMMA WriteInv ==
  ASSUME IInv, NEW o \in DOMAIN object, NEW at, NEW b, NEW short, WriteAt(o, at, b, short),
         UNCHANGED <<mounted, users>>, DOMAIN object' = DOMAIN object
  PROVE  IInv'
  <1>1. DOMAIN open' = DOMAIN open
    BY DEF WriteAt
  <1>2. open = <<>> => open' = open
    BY DEF WriteAt, Writes, Exists
  <1>3. QED
    BY <1>1, <1>2, SameObjects DEF IInv, Counted, OpenIsMounted

LEMMA OperateInv ==
  ASSUME FilesAssumption, IInv, NEW o \in DOMAIN object, Operate(o)
  PROVE  IInv'
  <1>1. ASSUME UNCHANGED <<mounted, users, open>>, DOMAIN object' = DOMAIN object
        PROVE  IInv'
    BY <1>1 DEF IInv, Counted, OpenIsMounted
  <1>2. ASSUME NEW len, Read(o, len) \/ Skip(o, len) PROVE IInv'
    BY <1>1, <1>2 DEF Read, Skip
  <1>3. ASSUME NEW len, NEW at, Chunk(o, at, len) PROVE IInv'
    BY <1>1, <1>3 DEF Chunk
  <1>4. CASE Look(o)
    BY <1>1, <1>4 DEF Look, vars
  <1>5. ASSUME NEW b, NEW short, Write(o, b, short) \/ AppendBytes(o, b, short) PROVE IInv'
    BY <1>5, WriteInv DEF Write, AppendBytes
  <1>6. ASSUME NEW b, NEW short, NEW at, Insert(o, at, b, short) PROVE IInv'
    <2>1. DOMAIN object' = DOMAIN object
      BY <1>6 DEF Insert
    <2>2. QED
      BY <1>6, <2>1, WriteInv DEF Insert
  <1>7. CASE Unload(o)
    <2>1. DOMAIN open' = DOMAIN open \ {o} /\ DOMAIN object' = DOMAIN object
      BY <1>7, WithoutDomain DEF Unload
    <2>2. open = <<>> => open' = <<>>
      BY <1>7, NothingLeft DEF Unload
    <2>3. QED
      BY <1>7, <2>1, <2>2, SameObjects DEF Unload, IInv, Counted, OpenIsMounted
  <1>8. QED
    BY <1>2, <1>3, <1>4, <1>5, <1>6, <1>7, LoadInv, DestroyInv DEF Operate

LEMMA PowerInv == ASSUME PowerFails PROVE IInv'
  <1>1. DOMAIN object' = {} /\ DOMAIN open' = {}
    BY DEF PowerFails
  <1>2. Counted'
    BY <1>1, FS_EmptySet DEF PowerFails, Counted
  <1>3. QED
    BY <1>2 DEF PowerFails, IInv, OpenIsMounted

LEMMA StepInv == ASSUME FilesAssumption, IInv, [Next]_vars PROVE IInv'
  <1>1. CASE UNCHANGED vars
    BY <1>1 DEF vars, IInv, Counted, OpenIsMounted
  <1>2. QED
    BY <1>1, ConstructInv, OperateInv, PowerInv DEF Next

-----------------------------------------------------------------------------
(* The content of the files, and what the reads give of it.               *)

Record == [status : Statuses, mode : Modes \cup {None}, ptr : Nat, got : Seq(Bytes)]
Stream == [name : Names, data : Seq(Bytes), writes : BOOLEAN]

Typed ==
  /\ \A n \in DOMAIN disk : n \in Names /\ disk[n] \in Seq(Bytes)
  /\ \A o \in DOMAIN object : object[o] \in Record
  /\ \A o \in DOMAIN open : open[o] \in Stream

\* What was got is the part of the file that ends at the cursor.
Ends(got, data, ptr) ==
  /\ ptr <= Len(data) /\ Len(got) <= ptr
  /\ got = SubSeq(data, ptr - Len(got) + 1, ptr)

Ordered ==
  \A o \in DOMAIN open :
    object[o].mode = "r" /\ object[o].status = Successful =>
      Ends(object[o].got, open[o].data, object[o].ptr)

FilesInv == IInv /\ Typed /\ Ordered

LEMMA Nothing == <<>> \in Seq(Bytes)
  OBVIOUS

\* Nothing has been read since the cursor was put where it is.
LEMMA FromHere ==
  ASSUME NEW data, NEW ptr \in Nat, ptr <= Len(data)
  PROVE  Ends(<<>>, data, ptr)
  <1>1. Len(<<>>) = 0 /\ ptr - 0 + 1 = ptr + 1
    OBVIOUS
  <1>2. SubSeq(data, ptr + 1, ptr) = <<>>
    BY SubSeqEmpty
  <1>3. QED
    BY <1>1, <1>2 DEF Ends

\* Bytes read on from where the last ones ended continue them.
Longer(got, data, ptr, len) == got \o SubSeq(data, ptr + 1, ptr + len)

LEMMA GoesOn ==
  ASSUME NEW data \in Seq(Bytes), NEW got \in Seq(Bytes), NEW ptr \in Nat, NEW len \in Nat,
         ptr + len <= Len(data), Ends(got, data, ptr)
  PROVE  /\ Longer(got, data, ptr, len) \in Seq(Bytes)
         /\ Ends(Longer(got, data, ptr, len), data, ptr + len)
  <1> DEFINE piece == SubSeq(data, ptr + 1, ptr + len)
             all == Longer(got, data, ptr, len)
             from == ptr - Len(got) + 1
             to == ptr + len
  <1>1. piece \in Seq(Bytes) /\ Len(piece) = len
    OBVIOUS
  <1>2. all \in Seq(Bytes) /\ Len(all) = Len(got) + len
    BY <1>1 DEF Longer
  <1>3. /\ from \in 1 .. Len(data) + 1 /\ ptr \in from - 1 .. Len(data)
        /\ to \in ptr .. Len(data)
    BY DEF Ends
  <1>4. got = SubSeq(data, from, ptr) /\ all = got \o SubSeq(data, ptr + 1, to)
    BY DEF Ends, Longer
  <1>5. to - Len(all) + 1 = from /\ Len(all) <= to /\ to <= Len(data)
    BY <1>2 DEF Ends
  <1> HIDE DEF from, to, all
  <1>6. SubSeq(data, from, ptr) \o SubSeq(data, ptr + 1, to) = SubSeq(data, from, to)
    BY <1>3, ConcatAdjacentSubSeq
  <1>7. all = SubSeq(data, from, to)
    BY <1>4, <1>6
  <1>8. Ends(all, data, to)
    BY <1>5, <1>7 DEF Ends
  <1>9. QED
    BY <1>2, <1>8 DEF all, to

\* Bytes written over bytes are bytes; behind them nothing is lost.
LEMMA WrittenType ==
  ASSUME NEW data \in Seq(Bytes), NEW at \in Nat, NEW b \in Seq(Bytes)
  PROVE  /\ Written(data, at, b) \in Seq(Bytes)
         /\ Len(data) <= Len(Written(data, at, b))
         /\ at >= Len(data) => \A i \in 1 .. Len(data) : Written(data, at, b)[i] = data[i]
  <1> DEFINE n == IF at + Len(b) > Len(data) /\ b # <<>> THEN at + Len(b) ELSE Len(data)
  <1> DEFINE e(i) == IF i \in (at + 1) .. (at + Len(b)) THEN b[i - at]
                     ELSE IF i <= Len(data) THEN data[i] ELSE Zero
  <1>1. n \in Nat /\ n >= Len(data)
    OBVIOUS
  <1>2. \A i \in 1 .. n : e(i) \in Bytes
    BY <1>1 DEF Bytes
  <1>3. Written(data, at, b) = [i \in 1 .. n |-> e(i)]
    BY DEF Written
  <1>4. at >= Len(data) => \A i \in 1 .. Len(data) : e(i) = data[i]
    OBVIOUS
  <1> HIDE DEF n, e
  <1>5. Written(data, at, b) \in Seq(Bytes) /\ Len(Written(data, at, b)) = n
    BY <1>1, <1>2, <1>3
  <1>6. QED
    BY <1>1, <1>3, <1>4, <1>5

\* What a write puts down: the buffer, or the part of it there was room for.
Part(b, short) == SubSeq(b, 1, IF short THEN Len(b) - 1 ELSE Len(b))

LEMMA PartType ==
  ASSUME NEW b \in Buffers, NEW short \in BOOLEAN
  PROVE  b \in Seq(Bytes) /\ Part(b, short) \in Seq(Bytes)
  <1>1. b = <<1>>
    BY DEF Buffers
  <1>2. b \in Seq(Bytes) /\ Len(b) = 1
    BY <1>1 DEF Bytes
  <1>3. QED
    BY <1>2, SubSeqProperties DEF Part

LEMMA NewRecord == New \in Record
  BY DEF New, Record, Statuses, Successful

\* A record with its cursor put elsewhere.
At(old, ptr, got) == [old EXCEPT !.ptr = ptr, !.got = got]

LEMMA CursorRecord ==
  ASSUME NEW old \in Record, NEW ptr \in Nat, NEW got \in Seq(Bytes)
  PROVE  /\ At(old, ptr, got) \in Record
         /\ At(old, ptr, got).ptr = ptr /\ At(old, ptr, got).got = got
         /\ At(old, ptr, got).mode = old.mode /\ At(old, ptr, got).status = old.status
  BY DEF Record, At

LEMMA ClosedType ==
  ASSUME Typed, NEW o
  PROVE  \A n \in DOMAIN Closed(disk, o) :
           n \in Names /\ Closed(disk, o)[n] \in Seq(Bytes)
  <1>1. CASE o \in DOMAIN open /\ open[o].writes
    BY <1>1 DEF With, Closed, Typed, Stream
  <1>2. CASE ~(o \in DOMAIN open /\ open[o].writes)
    BY <1>2 DEF Closed, Typed
  <1>3. QED
    BY <1>1, <1>2

LEMMA FilesInit == Init => FilesInv
  <1> SUFFICES ASSUME Init PROVE FilesInv
    OBVIOUS
  <1>1. \A n \in DOMAIN disk : n \in Names /\ disk[n] \in Seq(Bytes)
    <2>1. PICK ns \in SUBSET Names : disk \in [ns -> {<<>>, <<Zero, 1>>}]
      BY DEF Init
    <2>2. <<>> \in Seq(Bytes) /\ <<Zero, 1>> \in Seq(Bytes)
      BY DEF Bytes
    <2>3. QED
      BY <2>1, <2>2
  <1>2. DOMAIN object = {} /\ DOMAIN open = {}
    BY DEF Init
  <1>3. QED
    BY <1>1, <1>2, InitInv, StorageAssumption DEF FilesInv, Typed, Ordered

\* A step that gives no object another stream or another cursor.
LEMMA SameFiles ==
  ASSUME Ordered, DOMAIN open' \in SUBSET DOMAIN open,
         \A x \in DOMAIN open' : open'[x].data = open[x].data /\ object'[x] = object[x]
  PROVE  Ordered'
  BY DEF Ordered

LEMMA ConstructFiles ==
  ASSUME FilesInv, NEW o \in Objects, Construct(o)
  PROVE  Typed' /\ Ordered'
  <1>1. \A x \in DOMAIN object' : object'[x] = IF x = o THEN New ELSE object[x]
    BY DEF Construct, With
  <1>2. DOMAIN object' = DOMAIN object \cup {o} /\ o \notin DOMAIN open
    BY WithDomain DEF Construct, FilesInv, IInv, Counted
  <1>3. Typed'
    BY <1>1, <1>2, NewRecord DEF Construct, FilesInv, Typed
  <1>4. \A x \in DOMAIN open : object'[x] = object[x]
    BY <1>1, <1>2 DEF FilesInv, IInv, Counted
  <1>5. QED
    BY <1>3, <1>4, SameFiles DEF Construct, FilesInv

LEMMA DestroyFiles ==
  ASSUME FilesInv, NEW o \in DOMAIN object, Destroy(o)
  PROVE  Typed' /\ Ordered'
  <1>1. /\ DOMAIN open' = DOMAIN open \ {o} /\ DOMAIN object' = DOMAIN object \ {o}
        /\ \A x \in DOMAIN open' : open'[x] = open[x]
        /\ \A x \in DOMAIN object' : object'[x] = object[x]
    BY DEF Destroy, Without, Restrict
  <1>2. Typed'
    BY <1>1, ClosedType DEF Destroy, FilesInv, Typed
  <1>3. \A x \in DOMAIN open' : open'[x].data = open[x].data /\ object'[x] = object[x]
    BY <1>1 DEF FilesInv, IInv, Counted
  <1>4. QED
    BY <1>1, <1>2, <1>3, SameFiles DEF FilesInv

\* A load that fails before it looks for the file leaves an object that is not
\* successful, and its file as it was.
LEMMA RefusedFiles ==
  ASSUME FilesInv, NEW o \in DOMAIN object, NEW s \in Statuses, NEW m \in Modes \cup {None},
         s # Successful, object' = [object EXCEPT ![o].status = s, ![o].mode = m],
         NEW formats, disk' = IF ~mounted /\ formats THEN <<>> ELSE disk, open' = open
  PROVE  Typed' /\ Ordered'
  <1>1. /\ DOMAIN object' = DOMAIN object
        /\ object'[o] = [object[o] EXCEPT !.status = s, !.mode = m]
        /\ \A x \in DOMAIN object \ {o} : object'[x] = object[x]
    OBVIOUS
  <1>2. object[o] \in Record
    BY DEF FilesInv, Typed
  <1>3. object'[o] \in Record /\ object'[o].status = s
    BY <1>1, <1>2 DEF Record
  <1>4. Typed'
    BY <1>1, <1>3 DEF FilesInv, Typed
  <1>5. Ordered'
    BY <1>1, <1>3 DEF FilesInv, Ordered, IInv, Counted
  <1>6. QED
    BY <1>4, <1>5

LEMMA LoadFiles ==
  ASSUME FilesInv, NEW o \in DOMAIN object, Load(o)
  PROVE  Typed' /\ Ordered'
  <1>1. ASSUME NEW ok \in BOOLEAN, NEW formats \in BOOLEAN, LoadNotMounted(o, ok, formats)
        PROVE  Typed' /\ Ordered'
    <2>1. object[o] \in Record
      BY DEF FilesInv, Typed
    <2>2. [object[o] EXCEPT !.status = MountFailed]
            = [object[o] EXCEPT !.status = MountFailed, !.mode = object[o].mode]
      BY <2>1 DEF Record
    <2>3. object' = [object EXCEPT ![o].status = MountFailed, ![o].mode = object[o].mode]
      BY <1>1, <2>2 DEF LoadNotMounted, Failed
    <2>4. MountFailed \in Statuses /\ MountFailed # Successful
      BY DEF Statuses, MountFailed, Successful
    <2>5. object[o].mode \in Modes \cup {None}
      BY <2>1 DEF Record
    <2>6. QED
      BY <1>1, <2>3, <2>4, <2>5, RefusedFiles DEF LoadNotMounted, Mounted
  <1>2. ASSUME NEW ok \in BOOLEAN, NEW formats \in BOOLEAN, NEW md,
               LoadBadArg(o, md, ok, formats)
        PROVE  Typed' /\ Ordered'
    <2>1. object[o].mode \in Modes \cup {None}
      BY DEF FilesInv, Typed, Record
    <2> DEFINE m == IF md \in Modes THEN md ELSE object[o].mode
    <2>2. m \in Modes \cup {None}
      BY <2>1
    <2>3. object' = [object EXCEPT ![o].status = BadArg, ![o].mode = m]
      BY <1>2 DEF LoadBadArg
    <2>4. BadArg \in Statuses /\ BadArg # Successful
      BY DEF Statuses, BadArg, Successful
    <2> HIDE DEF m
    <2>5. QED
      BY <1>2, <2>2, <2>3, <2>4, RefusedFiles DEF LoadBadArg, Mounted
  <1>3. ASSUME NEW ok \in BOOLEAN, NEW formats \in BOOLEAN, NEW n \in Names,
               NEW md \in Modes, NEW fails \in BOOLEAN,
               LoadFile(o, n, md, ok, formats, fails)
        PROVE  Typed' /\ Ordered'
    <2> DEFINE before == IF ~mounted /\ formats THEN <<>> ELSE Closed(disk, o)
               found == IF fails THEN before ELSE Found(before, n, md)
               opens == ~fails /\ n \in DOMAIN found
               status == IF opens THEN Successful
                         ELSE IF n \in DOMAIN before THEN Error ELSE Missing
               ptr == IF opens THEN 0 ELSE object[o].ptr
    <2>1. /\ disk' = found
          /\ open' = IF opens THEN With(open, o, [name |-> n, data |-> found[n],
                                                      writes |-> md # "r"])
                     ELSE Without(open, o)
          /\ object' = [object EXCEPT ![o] =
                          [status |-> status, mode |-> md, ptr |-> ptr, got |-> <<>>]]
      BY <1>3 DEF LoadFile
    <2>2. \A x \in DOMAIN before : x \in Names /\ before[x] \in Seq(Bytes)
      BY ClosedType DEF FilesInv
    <2>3. \A x \in DOMAIN found : x \in Names /\ found[x] \in Seq(Bytes)
      <3>0. found = before \/ found = With(before, n, <<>>)
        BY DEF Found
      <3>1. <<>> \in Seq(Bytes)
        OBVIOUS
      <3> HIDE DEF before, found
      <3>2. CASE found = before
        BY <2>2, <3>2
      <3>3. CASE found = With(before, n, <<>>)
        BY <2>2, <3>1, <3>3 DEF With
      <3>4. QED
        BY <3>0, <3>2, <3>3
    <2>4. status \in Statuses /\ ptr \in Nat
      BY DEF Statuses, Successful, Error, Missing, FilesInv, Typed, Record
    <2> HIDE DEF before, found, status, ptr
    <2>5. /\ DOMAIN object' = DOMAIN object
          /\ object'[o] = [status |-> status, mode |-> md, ptr |-> ptr, got |-> <<>>]
          /\ \A x \in DOMAIN object \ {o} : object'[x] = object[x]
      BY <2>1
    <2>6. object'[o] \in Record
      BY <2>4, <2>5 DEF Record
    <2>7. CASE opens
      <3>1. [name |-> n, data |-> found[n], writes |-> md # "r"] \in Stream
        BY <2>3, <2>7 DEF Stream
      <3>2. /\ DOMAIN open' = DOMAIN open \cup {o}
            /\ open'[o] = [name |-> n, data |-> found[n], writes |-> md # "r"]
            /\ \A x \in DOMAIN open \ {o} : open'[x] = open[x]
        BY <2>1, <2>7 DEF With
      <3>3. Typed'
        BY <2>1, <2>3, <2>5, <2>6, <3>1, <3>2 DEF FilesInv, Typed
      <3>4. ptr = 0
        BY <2>7 DEF ptr
      <3>5. 0 \in Nat /\ Len(found[n]) \in Nat
        BY <2>3, <2>7
      <3>6. Ends(object'[o].got, open'[o].data, object'[o].ptr)
        BY <2>5, <3>2, <3>4, <3>5, FromHere
      <3>7. Ordered'
        BY <2>5, <3>2, <3>6 DEF FilesInv, Ordered, IInv, Counted
      <3>8. QED
        BY <3>3, <3>7
    <2>8. CASE ~opens
      <3>1. /\ DOMAIN open' = DOMAIN open \ {o}
            /\ \A x \in DOMAIN open' : open'[x] = open[x]
        BY <2>1, <2>8 DEF Without, Restrict
      <3>2. Typed'
        BY <2>1, <2>3, <2>5, <2>6, <3>1 DEF FilesInv, Typed
      <3>3. QED
        BY <2>5, <3>1, <3>2, SameFiles DEF FilesInv, IInv, Counted
    <2>9. QED
      BY <2>7, <2>8
  <1>4. QED
    BY <1>1, <1>2, <1>3, StorageAssumption DEF Load, FilesAssumption

\* A write goes to a file that is not being read, wherever it is put.
LEMMA WriteFiles ==
  ASSUME FilesInv, NEW o \in DOMAIN object, NEW at \in Nat, NEW b \in Buffers,
         NEW short \in BOOLEAN, WriteAt(o, at, b, short), disk' = disk,
         DOMAIN object' = DOMAIN object, object'[o] \in Record,
         object'[o].mode = object[o].mode, object'[o].status = object[o].status,
         \A x \in DOMAIN object \ {o} : object'[x] = object[x],
         object'[o] = object[o] \/ object[o].mode = "a"
  PROVE  Typed' /\ Ordered'
  <1>1. CASE Writes(o)
    <2> DEFINE w == IF object[o].mode = "a" THEN at ELSE 0
    <2>1. open' = [open EXCEPT ![o].data = Written(open[o].data, w, Part(b, short))]
      BY <1>1 DEF WriteAt, Part
    <2>2. open[o] \in Stream /\ o \in DOMAIN open
      BY <1>1 DEF Writes, Exists, FilesInv, Typed
    <2>3. w \in Nat
      OBVIOUS
    <2> HIDE DEF w
    <2>4. Written(open[o].data, w, Part(b, short)) \in Seq(Bytes)
      BY <2>2, <2>3, PartType, WrittenType DEF Stream
    <2>5. /\ DOMAIN open' = DOMAIN open /\ open'[o] \in Stream
          /\ \A x \in DOMAIN open \ {o} : open'[x] = open[x]
      BY <2>1, <2>2, <2>4 DEF Stream
    <2>6. Typed'
      BY <2>5 DEF FilesInv, Typed
    <2>7. Ordered'
      BY <1>1, <2>5 DEF Writes, FilesInv, Ordered, IInv, Counted
    <2>8. QED
      BY <2>6, <2>7
  <1>2. CASE ~Writes(o)
    <2>1. open' = open
      BY <1>2 DEF WriteAt
    <2>2. Typed'
      BY <2>1 DEF FilesInv, Typed
    <2>3. Ordered'
      BY <2>1 DEF FilesInv, Ordered, IInv, Counted
    <2>4. QED
      BY <2>2, <2>3
  <1>3. QED
    BY <1>1, <1>2

\* A read takes the next bytes of the file.
LEMMA ReadFiles ==
  ASSUME FilesInv, NEW o \in DOMAIN object, NEW len \in Nat, Read(o, len)
  PROVE  Typed' /\ Ordered'
  <1>1. CASE ~Reads(o, object[o].ptr, len)
    BY <1>1 DEF Read, FilesInv, Typed, Ordered
  <1>2. CASE Reads(o, object[o].ptr, len)
    <2>1. o \in DOMAIN open /\ object[o].mode = "r" /\ object[o].status = Successful
      BY <1>2 DEF Reads, Exists
    <2>2. object[o] \in Record /\ open[o].data \in Seq(Bytes)
      BY <2>1 DEF FilesInv, Typed, Stream
    <2>3. /\ object[o].ptr \in Nat /\ object[o].got \in Seq(Bytes)
          /\ Ends(object[o].got, open[o].data, object[o].ptr)
      BY <2>1, <2>2 DEF Record, FilesInv, Ordered
    <2>4. object[o].ptr + len <= Len(open[o].data)
      BY <1>2, <2>1 DEF Reads, Exists, Size
    <2>5. /\ Longer(object[o].got, open[o].data, object[o].ptr, len) \in Seq(Bytes)
          /\ Ends(Longer(object[o].got, open[o].data, object[o].ptr, len), open[o].data,
                  object[o].ptr + len)
      BY <2>2, <2>3, <2>4, GoesOn
    <2> DEFINE all == Longer(object[o].got, open[o].data, object[o].ptr, len)
               to == object[o].ptr + len
    <2>6. to \in Nat /\ all \in Seq(Bytes) /\ Ends(all, open[o].data, to)
      BY <2>3, <2>5
    <2>7. object' = [object EXCEPT ![o].ptr = to, ![o].got = all]
      BY <1>2 DEF Read, BytesAt, Longer
    <2> HIDE DEF all, to
    <2>8. /\ DOMAIN object' = DOMAIN object /\ object'[o] = At(object[o], to, all)
          /\ \A x \in DOMAIN object \ {o} : object'[x] = object[x]
      BY <2>7 DEF At
    <2>9. /\ object'[o] \in Record /\ object'[o].ptr = to /\ object'[o].got = all
          /\ object'[o].mode = object[o].mode /\ object'[o].status = object[o].status
      <3>1. /\ At(object[o], to, all) \in Record
            /\ At(object[o], to, all).ptr = to /\ At(object[o], to, all).got = all
            /\ At(object[o], to, all).mode = object[o].mode
            /\ At(object[o], to, all).status = object[o].status
        BY <2>2, <2>6, CursorRecord
      <3>2. QED
        BY <2>8, <3>1
    <2>10. open' = open /\ disk' = disk
      BY DEF Read
    <2>11. Typed'
      BY <2>8, <2>9, <2>10 DEF FilesInv, Typed
    <2>12. ASSUME NEW x \in DOMAIN open, x # o PROVE object'[x] = object[x]
      BY <2>8, <2>12 DEF FilesInv, IInv, Counted
    <2>13. Ordered'
      BY <2>6, <2>9, <2>10, <2>12 DEF FilesInv, Ordered
    <2>14. QED
      BY <2>11, <2>13
  <1>3. QED
    BY <1>1, <1>2

LEMMA OperateFiles ==
  ASSUME FilesInv, NEW o \in DOMAIN object, Operate(o)
  PROVE  Typed' /\ Ordered'
  <1>0. object[o] \in Record /\ object[o].ptr \in Nat
    BY DEF FilesInv, Typed, Record
  <1>1. ASSUME NEW len \in Nat, Skip(o, len) PROVE Typed' /\ Ordered'
    <2>1. /\ DOMAIN object' = DOMAIN object /\ open' = open /\ disk' = disk
          /\ object'[o] = [object[o] EXCEPT !.ptr = len, !.got = <<>>]
          /\ \A x \in DOMAIN object \ {o} : object'[x] = object[x]
      BY <1>1 DEF Skip
    <2>2. /\ object'[o] \in Record /\ object'[o].ptr = len /\ object'[o].got = <<>>
          /\ object'[o].mode = object[o].mode /\ object'[o].status = object[o].status
      BY <1>0, <2>1, Nothing DEF Record
    <2>3. Typed'
      BY <2>1, <2>2 DEF FilesInv, Typed
    <2>4. ASSUME o \in DOMAIN open, object[o].status = Successful
          PROVE  len <= Len(open[o].data)
      BY <1>1, <2>4 DEF Skip, Size, Exists
    <2>5. ASSUME o \in DOMAIN open, object[o].status = Successful
          PROVE  Ends(object'[o].got, open[o].data, object'[o].ptr)
      BY <2>2, <2>4, <2>5, FromHere
    <2>6. Ordered'
      BY <2>1, <2>2, <2>5 DEF FilesInv, Ordered, IInv, Counted
    <2>7. QED
      BY <2>3, <2>6
  <1>2. ASSUME NEW len, NEW at, Chunk(o, at, len) PROVE Typed' /\ Ordered'
    <2>1. /\ DOMAIN object' = DOMAIN object /\ open' = open /\ disk' = disk
          /\ object'[o] = [object[o] EXCEPT !.ptr = object[o].ptr]
          /\ \A x \in DOMAIN object \ {o} : object'[x] = object[x]
      BY <1>2 DEF Chunk, PutBack
    <2>2. object'[o] = object[o]
      BY <1>0, <2>1 DEF Record
    <2>3. QED
      BY <2>1, <2>2, SameFiles DEF FilesInv, Typed, IInv, Counted
  <1>3. CASE Look(o)
    BY <1>3 DEF Look, vars, FilesInv, Typed, Ordered
  <1>4. ASSUME NEW b \in Buffers, NEW short \in BOOLEAN,
               Write(o, b, short) \/ AppendBytes(o, b, short)
        PROVE  Typed' /\ Ordered'
    <2>1. CASE Write(o, b, short)
      BY <1>0, <2>1, WriteFiles DEF Write
    <2>2. CASE AppendBytes(o, b, short)
      <3>1. Size(o) \in Nat
        BY DEF Size, Exists, FilesInv, Typed, Stream
      <3>2. QED
        BY <1>0, <2>2, <3>1, WriteFiles DEF AppendBytes, AppendAt
    <2>3. QED
      BY <1>4, <2>1, <2>2
  <1>5. ASSUME NEW b \in Buffers, NEW short \in BOOLEAN, NEW at \in 0 .. MaxSize,
               Insert(o, at, b, short)
        PROVE  Typed' /\ Ordered'
    <2> DEFINE w == IF at # 0 THEN at ELSE object[o].ptr
               p == IF at # 0 THEN at + Len(b) ELSE object[o].ptr
    <2>1. at \in Nat /\ Len(b) \in Nat
      BY PartType, StorageAssumption DEF FilesAssumption
    <2>2. w \in Nat /\ p \in Nat
      BY <1>0, <2>1
    <2>3. object' = [object EXCEPT ![o].ptr = p] /\ WriteAt(o, w, b, short) /\ disk' = disk
      BY <1>5 DEF Insert
    <2> HIDE DEF w, p
    <2>4. /\ DOMAIN object' = DOMAIN object
          /\ object'[o] = [object[o] EXCEPT !.ptr = p]
          /\ \A x \in DOMAIN object \ {o} : object'[x] = object[x]
      BY <2>3
    <2>5. /\ object'[o] \in Record /\ object'[o].mode = object[o].mode
          /\ object'[o].status = object[o].status
      BY <1>0, <2>2, <2>4 DEF Record
    <2>6. object[o].mode = "a"
      BY <1>5 DEF Insert
    <2>7. QED
      BY <2>2, <2>3, <2>4, <2>5, <2>6, WriteFiles
  <1>6. CASE Unload(o)
    <2>1. /\ DOMAIN object' = DOMAIN object
          /\ object'[o] = [object[o] EXCEPT !.got = <<>>]
          /\ \A x \in DOMAIN object \ {o} : object'[x] = object[x]
      BY <1>6 DEF Unload
    <2>2. object'[o] \in Record
      BY <1>0, <2>1, Nothing DEF Record
    <2>3. DOMAIN open' = DOMAIN open \ {o} /\ \A x \in DOMAIN open' : open'[x] = open[x]
      BY <1>6 DEF Unload, Without, Restrict
    <2>4. Typed'
      BY <1>6, <2>1, <2>2, <2>3, ClosedType DEF Unload, FilesInv, Typed
    <2>5. QED
      BY <2>1, <2>3, <2>4, SameFiles DEF FilesInv, IInv, Counted
  <1>7. Short \subseteq BOOLEAN /\ 1 .. (MaxChunk + 1) \subseteq Nat
    BY StorageAssumption DEF Short, FilesAssumption
  <1>8. QED
    BY <1>1, <1>2, <1>3, <1>4, <1>5, <1>6, <1>7, LoadFiles, ReadFiles, DestroyFiles DEF Operate

LEMMA FilesStep == FilesInv /\ [Next]_vars => FilesInv'
  <1> SUFFICES ASSUME FilesInv, [Next]_vars PROVE FilesInv'
    OBVIOUS
  <1>1. IInv'
    BY StepInv, StorageAssumption DEF FilesInv
  <1>2. CASE PowerFails
    <2>1. DOMAIN object' = {} /\ DOMAIN open' = {} /\ disk' = disk
      BY <1>2 DEF PowerFails
    <2>2. QED
      BY <1>1, <2>1 DEF FilesInv, Typed, Ordered
  <1>3. CASE UNCHANGED vars
    BY <1>1, <1>3 DEF vars, FilesInv, Typed, Ordered
  <1>4. QED
    BY <1>1, <1>2, <1>3, ConstructFiles, OperateFiles DEF Next, FilesInv

LEMMA FilesTypes == FilesInv => TypeOK
  <1> SUFFICES ASSUME FilesInv PROVE TypeOK
    OBVIOUS
  <1>1. users \in 0 .. Cardinality(Objects)
    <2>1. IsFiniteSet(Objects) /\ DOMAIN object \in SUBSET Objects
      BY StorageAssumption DEF FilesAssumption, FilesInv, IInv, Counted
    <2>2. /\ Cardinality(DOMAIN object) \in Nat /\ Cardinality(Objects) \in Nat
          /\ Cardinality(DOMAIN object) <= Cardinality(Objects)
      BY <2>1, FS_Subset, FS_CardinalityType
    <2>3. QED
      BY <2>2 DEF FilesInv, IInv, Counted
  <1>2. QED
    BY <1>1 DEF FilesInv, IInv, Counted, Typed, Record, Stream, TypeOK

\* append puts what it is given behind what there is.
LEMMA AppendKeeps ==
  ASSUME FilesInv, NEW o \in DOMAIN open, NEW b \in Buffers, NEW short \in BOOLEAN,
         AppendBytes(o, b, short)
  PROVE  IsPrefix(open[o].data, open'[o].data)
  <1>1. open[o].data \in Seq(Bytes)
    BY DEF FilesInv, Typed, Stream
  <1>2. CASE Writes(o)
    <2> DEFINE old == open[o].data
               new == Written(old, Len(old), Part(b, short))
    <2>1. open' = [open EXCEPT ![o].data = new]
      BY <1>2 DEF AppendBytes, AppendAt, WriteAt, Writes, Size, Part
    <2>2. open'[o].data = new
      BY <2>1 DEF FilesInv, Typed, Stream
    <2> HIDE DEF old
    <2>3. old \in Seq(Bytes) /\ Len(old) \in Nat /\ Len(old) >= Len(old)
      BY <1>1 DEF old
    <2>4. /\ new \in Seq(Bytes) /\ Len(old) <= Len(new)
          /\ \A i \in 1 .. Len(old) : new[i] = old[i]
      BY <2>3, PartType, WrittenType
    <2> HIDE DEF new
    <2>5. SubSeq(old, 1, Len(old)) = SubSeq(new, 1, Len(old))
      BY <2>3, <2>4
    <2>6. QED
      BY <2>2, <2>4, <2>5 DEF IsPrefix, old
  <1>3. CASE ~Writes(o)
    BY <1>1, <1>3 DEF AppendBytes, WriteAt, IsPrefix
  <1>4. QED
    BY <1>2, <1>3

-----------------------------------------------------------------------------
(* The settings.                                                          *)

\* What the storage holds of a key is the last value it was given, as a type
\* that says what kind of setting it is.
Agree ==
  /\ DOMAIN nvs = DOMAIN kept
  /\ \A k \in DOMAIN nvs :
       /\ nvs[k].value = kept[k].value
       /\ \A type \in C!Types : nvs[k].type = C!Stored(type) <=> kept[k].type = C!Kind(type)

SettingsInv == Agree /\ AnswersAsKept

\* A type is stored as a number, as a byte or as a text: its kind says which.
LEMMA StoredIsKind ==
  ASSUME NEW type \in C!Types, NEW other \in C!Types
  PROVE  C!Stored(type) = C!Stored(other) <=> C!Kind(type) = C!Kind(other)
  BY DEF C!Types, C!Stored, C!Kind, C!I, C!F, C!B, C!S

\* The same answer is found in the storage and in the history.
LEMMA SameAnswer ==
  ASSUME Agree, NEW type \in C!Types, NEW k, NEW default
  PROVE  C!Get(nvs, k, C!Stored(type), default) = C!Get(kept, k, C!Kind(type), default)
  BY DEF Agree, C!Get

LEMMA StoreInv ==
  ASSUME SettingsInv, NEW k, NEW type \in C!Types, NEW v, NEW room, C!Store(k, type, v, room)
  PROVE  SettingsInv'
  <1>1. (opened /\ room /\ C!Fits(nvs, k, C!Stored(type)))
          <=> (opened /\ room /\ C!Fits(kept, k, C!Kind(type)))
    BY DEF SettingsInv, Agree, C!Fits
  <1>2. CASE opened /\ room /\ C!Fits(nvs, k, C!Stored(type))
    <2>1. /\ nvs' = C!Set(nvs, k, C!Stored(type), v)
          /\ kept' = C!Set(kept, k, C!Kind(type), v)
      BY <1>1, <1>2 DEF C!Store
    <2>2. Agree'
      BY <2>1, StoredIsKind DEF C!Set, SettingsInv, Agree
    <2>3. QED
      BY <2>2 DEF C!Store, SettingsInv, AnswersAsKept, C!AnswersAsKept
  <1>3. CASE ~(opened /\ room /\ C!Fits(nvs, k, C!Stored(type)))
    BY <1>1, <1>3 DEF C!Store, SettingsInv, Agree, AnswersAsKept, C!AnswersAsKept
  <1>4. QED
    BY <1>2, <1>3

LEMMA SettingsStep == SettingsInv /\ [C!Next]_settingsVars => SettingsInv'
  <1> SUFFICES ASSUME SettingsInv, [C!Next]_settingsVars PROVE SettingsInv'
    OBVIOUS
  <1>1. ASSUME UNCHANGED <<nvs, kept>>, answer' = C!NoAnswer PROVE SettingsInv'
    BY <1>1 DEF SettingsInv, Agree, AnswersAsKept, C!AnswersAsKept
  <1>2. ASSUME NEW erased \in BOOLEAN, NEW initialised \in BOOLEAN, NEW handle \in BOOLEAN,
               C!Open(erased, initialised, handle)
        PROVE  SettingsInv'
    <2>1. CASE erased
      BY <1>2, <2>1 DEF C!Open, SettingsInv, Agree, AnswersAsKept, C!AnswersAsKept
    <2>2. CASE ~erased
      BY <1>1, <1>2, <2>2 DEF C!Open
    <2>3. QED
      BY <2>1, <2>2
  <1>3. CASE C!Close
    BY <1>1, <1>3 DEF C!Close
  <1>4. ASSUME NEW type \in C!Types, NEW size, NEW k, NEW v, NEW room,
               C!WriteNumber(type, size, k, v, room)
        PROVE  SettingsInv'
    BY <1>4, StoreInv DEF C!WriteNumber
  <1>5. ASSUME NEW size, NEW payload, NEW room, C!WriteString(size, payload, room)
        PROVE  SettingsInv'
    BY <1>5, StoreInv DEF C!WriteString, C!Types
  <1>6. ASSUME NEW type \in C!Types, NEW size, NEW k, C!Read(type, size, k)
        PROVE  SettingsInv'
    <2>1. Agree'
      BY <1>6 DEF C!Read, SettingsInv, Agree
    <2>2. /\ answer'.type = type /\ answer'.key = k
          /\ answer'.value = IF opened THEN C!Get(nvs, k, C!Stored(type), C!Default(type))
                             ELSE C!Default(type)
          /\ UNCHANGED <<opened, kept>>
      BY <1>6 DEF C!Read
    <2>3. AnswersAsKept'
      BY <2>2, SameAnswer DEF SettingsInv, AnswersAsKept, C!AnswersAsKept
    <2>4. QED
      BY <2>1, <2>3 DEF SettingsInv
  <1>7. CASE UNCHANGED settingsVars
    BY <1>7 DEF settingsVars, SettingsInv, Agree, AnswersAsKept, C!AnswersAsKept
  <1>8. QED
    BY <1>2, <1>3, <1>4, <1>5, <1>6, <1>7
       DEF C!Next, C!Execute, C!Ignore, C!vars, settingsVars

-----------------------------------------------------------------------------
(* The table of open files.                                               *)

File == [path : V!Paths \cup {<<>>}, node : V!Nodes \cup {V!None}, isopen : BOOLEAN]

TreeTypes ==
  /\ DOMAIN tree \subseteq V!Paths /\ \A p \in DOMAIN tree : tree[p] \in V!Nodes
  /\ kind \in [V!Nodes -> {"reg", "dir"}]

TableTypes ==
  /\ registered \in BOOLEAN /\ holder \in Tasks \cup {"nobody"}
  /\ TreeTypes /\ file \in [V!Handles -> File]
  /\ DOMAIN fds = Tasks /\ doing \in [Tasks -> Nat]

Once(l) == \A i, j \in DOMAIN l : l[i] = l[j] => i = j

\* The cache holds each open file once, and so does the list.
Held == {i \in DOMAIN cache : cache[i] # V!None}

Counts ==
  /\ cache \in Seq(V!Handles \cup {V!None}) /\ list \in Seq(V!Handles)
  /\ \A i, j \in Held : cache[i] = cache[j] => i = j
  /\ Once(list)
  /\ {cache[i] : i \in Held} = V!Range(list)
  /\ count = Len(list) /\ count = Cardinality(Held)

\* Every descriptor that a task has, or truncates, is that of an open file, and
\* it is no other's.
OpenFd(fd) == fd \in Held /\ file[cache[fd]].isopen

Owned ==
  /\ \A t \in Tasks : \A fd \in DOMAIN fds[t] :
       OpenFd(fd) /\ file[cache[fd]].node = fds[t][fd] /\ fd # doing[t]
  /\ \A t \in Tasks : doing[t] # V!None => OpenFd(doing[t])
  /\ \A t, u \in Tasks : t # u =>
       /\ \A fd \in DOMAIN fds[t] : fd \notin DOMAIN fds[u] /\ fd # doing[u]
       /\ doing[t] # V!None => doing[t] # doing[u]
  /\ ~registered =>
       list = <<>> /\ cache = <<>> /\ \A t \in Tasks : DOMAIN fds[t] = {} /\ doing[t] = V!None

\* Each path has a node of its own, and is below a directory.
Tree ==
  /\ \A x, y \in DOMAIN tree : tree[x] = tree[y] => x = y
  /\ \A x \in DOMAIN tree : V!HasParent(x)

\* A file that littlefs has open is where its path says.
InTree ==
  \A h \in V!Range(list) : file[h].isopen =>
    /\ file[h].path \in DOMAIN tree /\ tree[file[h].path] = file[h].node
    /\ kind[file[h].node] = "reg"

TableInv == TableTypes /\ Counts /\ Owned /\ Tree /\ InTree

LEMMA NoHandle == V!None \notin V!Handles
  BY DEF V!None, V!Handles

\* Growing the cache moves nothing.
LEMMA GrownCache ==
  ASSUME Counts
  PROVE  /\ V!Grown(cache) \in Seq(V!Handles \cup {V!None})
         /\ Len(cache) <= Len(V!Grown(cache))
         /\ \A i \in DOMAIN cache : V!Grown(cache)[i] = cache[i]
         /\ \A i \in DOMAIN V!Grown(cache) \ DOMAIN cache : V!Grown(cache)[i] = V!None
  <1> DEFINE S == V!Handles \cup {V!None}
             more == [i \in 1 .. Len(cache) |-> V!None]
  <1>1. cache \in Seq(S) /\ more \in Seq(S) /\ Len(more) = Len(cache)
    BY DEF Counts
  <1> HIDE DEF S
  <1>2. CASE V!Grown(cache) = cache
    BY <1>1, <1>2 DEF S
  <1>3. CASE V!Grown(cache) = cache \o more
    <2> DEFINE all == cache \o more
    <2>1. /\ all \in Seq(S) /\ Len(all) = Len(cache) + Len(cache)
          /\ \A i \in 1 .. Len(cache) : all[i] = cache[i]
          /\ \A i \in Len(cache) + 1 .. Len(all) : all[i] = V!None
      BY <1>1
    <2> HIDE DEF all
    <2>2. Len(cache) \in Nat /\ DOMAIN cache = 1 .. Len(cache) /\ DOMAIN all = 1 .. Len(all)
      BY <1>1, <2>1
    <2>3. QED
      BY <1>3, <2>1, <2>2 DEF all, S
  <1>4. QED
    BY <1>2, <1>3 DEF V!Grown

LEMMA HeldFinite ==
  ASSUME Counts
  PROVE  IsFiniteSet(Held) /\ Held \subseteq Nat
  <1>1. Len(cache) \in Nat /\ DOMAIN cache = 1 .. Len(cache)
    BY DEF Counts
  <1>2. IsFiniteSet(1 .. Len(cache))
    BY <1>1, FS_Interval
  <1>3. Held \in SUBSET (1 .. Len(cache))
    BY <1>1 DEF Held
  <1>4. QED
    <2>1. IsFiniteSet(Held)
      BY <1>2, <1>3, FS_Subset
    <2>2. 1 .. Len(cache) \subseteq Nat
      BY <1>1
    <2>3. QED
      BY <1>3, <2>1, <2>2

\* An entry put in front of a list that does not have it.
Put(h, l) == <<h>> \o l

LEMMA Listed ==
  ASSUME NEW S, NEW l \in Seq(S), NEW h \in S, h \notin V!Range(l), Once(l)
  PROVE  /\ Put(h, l) \in Seq(S) /\ Len(Put(h, l)) = Len(l) + 1
         /\ Once(Put(h, l)) /\ V!Range(Put(h, l)) = V!Range(l) \cup {h}
  <1> DEFINE m == Put(h, l)
  <1>0. m = <<h>> \o l
    BY DEF Put
  <1> HIDE DEF m
  <1>1. Len(l) \in Nat /\ DOMAIN l = 1 .. Len(l)
    OBVIOUS
  <1>2. <<h>> \in Seq(S) /\ Len(<<h>>) = 1 /\ <<h>>[1] = h
    OBVIOUS
  <1>3. m \in Seq(S) /\ Len(m) = Len(l) + 1
    BY <1>0, <1>2
  <1>4. DOMAIN m = 1 .. Len(l) + 1
    BY <1>3
  <1>5. \A i \in 1 .. Len(l) + 1 : m[i] = IF i = 1 THEN h ELSE l[i - 1]
    BY <1>0, <1>1, <1>2
  <1>6. Once(m)
    <2> SUFFICES ASSUME NEW i \in 1 .. Len(l) + 1, NEW j \in 1 .. Len(l) + 1, m[i] = m[j]
                 PROVE  i = j
      BY <1>4 DEF Once
    <2>1. i # 1 => i - 1 \in DOMAIN l
      BY <1>1
    <2>2. j # 1 => j - 1 \in DOMAIN l
      BY <1>1
    <2>3. \A k \in DOMAIN l : l[k] # h
      BY DEF V!Range
    <2>4. QED
      BY <1>5, <2>1, <2>2, <2>3 DEF Once
  <1>7. m[1] = h /\ 1 \in DOMAIN m
    BY <1>1, <1>4, <1>5
  <1>8. \A k \in DOMAIN l : k + 1 \in DOMAIN m /\ m[k + 1] = l[k]
    <2> SUFFICES ASSUME NEW k \in 1 .. Len(l) PROVE k + 1 \in 1 .. Len(l) + 1 /\ m[k + 1] = l[k]
      BY <1>1, <1>4
    <2>1. k + 1 \in 1 .. Len(l) + 1 /\ k + 1 # 1 /\ (k + 1) - 1 = k
      BY <1>1
    <2>2. m[k + 1] = l[(k + 1) - 1]
      BY <1>5, <2>1
    <2>3. QED
      BY <2>1, <2>2
  <1>9. \A i \in DOMAIN m : m[i] \in V!Range(l) \cup {h}
    <2> SUFFICES ASSUME NEW i \in 1 .. Len(l) + 1, i # 1 PROVE m[i] \in V!Range(l)
      BY <1>4, <1>7
    <2>1. i - 1 \in DOMAIN l /\ m[i] = l[i - 1]
      BY <1>1, <1>5
    <2>2. QED
      BY <2>1 DEF V!Range
  <1>10. V!Range(m) = V!Range(l) \cup {h}
    <2>1. V!Range(m) \subseteq V!Range(l) \cup {h}
      BY <1>9 DEF V!Range
    <2>2. h \in V!Range(m)
      BY <1>7 DEF V!Range
    <2>3. \A x \in V!Range(l) : x \in V!Range(m)
      BY <1>8 DEF V!Range
    <2>4. QED
      BY <2>1, <2>2, <2>3
  <1>11. QED
    BY <1>3, <1>6, <1>10 DEF m

\* esp_littlefs_allocate_fd: the file gets a descriptor and a place in the list
\* that nobody had.
LEMMA Allocates ==
  ASSUME TableTypes, Counts, NEW h \in V!Handles, NEW fd, NEW p \in V!Paths, NEW n \in V!Nodes,
         V!AllocateFd(h, fd, p, n)
  PROVE  /\ Counts' /\ file' \in [V!Handles -> File]
         /\ fd \notin Held /\ h \notin V!Range(list) /\ fd \in Nat /\ fd # V!None
         /\ Held' = Held \cup {fd} /\ cache'[fd] = h
         /\ \A i \in Held : cache'[i] = cache[i]
         /\ V!Range(list') = V!Range(list) \cup {h}
         /\ file'[h] = [path |-> p, node |-> n, isopen |-> TRUE]
         /\ \A g \in V!Handles \ {h} : file'[g] = file[g]
  <1> DEFINE S == V!Handles \cup {V!None}
             G == V!Grown(cache)
  <1>1. /\ G \in Seq(S) /\ \A i \in DOMAIN cache : i \in DOMAIN G /\ G[i] = cache[i]
        /\ \A i \in DOMAIN G \ DOMAIN cache : G[i] = V!None
    <2>1. Len(cache) \in Nat /\ DOMAIN cache = 1 .. Len(cache)
      BY DEF Counts
    <2>2. DOMAIN G = 1 .. Len(G) /\ Len(G) \in Nat
      BY GrownCache
    <2>3. QED
      BY <2>1, <2>2, GrownCache
  <1>2. fd \in DOMAIN G /\ G[fd] = V!None /\ cache' = [G EXCEPT ![fd] = h]
    <2>1. V!FirstFree(G, fd) /\ cache' = [G EXCEPT ![fd] = h]
      BY DEF V!AllocateFd
    <2>2. QED
      BY <2>1 DEF V!FirstFree
  <1>3. h \notin V!Range(list) /\ list' = <<h>> \o list /\ count' = count + 1
    <2>1. h \in V!Least(V!Unused)
      BY DEF V!AllocateFd
    <2>2. list' = <<h>> \o list /\ count' = count + 1
      BY DEF V!AllocateFd
    <2>3. QED
      BY <2>1, <2>2 DEF V!Unused, V!Least
  <1>4. file' = [file EXCEPT ![h] = [path |-> p, node |-> n, isopen |-> TRUE]]
    BY DEF V!AllocateFd
  <1> HIDE DEF G
  <1>5. /\ DOMAIN cache' = DOMAIN G /\ cache'[fd] = h
        /\ \A i \in DOMAIN G \ {fd} : cache'[i] = G[i]
    BY <1>1, <1>2
  <1>6. cache' \in Seq(S) /\ fd \in Nat \ {0}
    BY <1>1, <1>2
  <1>7. fd \notin Held /\ Held' = Held \cup {fd} /\ \A i \in Held : cache'[i] = cache[i]
    BY <1>1, <1>2, <1>5, NoHandle DEF Held
  <1>8. Cardinality(Held') = Cardinality(Held) + 1
    BY <1>7, HeldFinite, FS_AddElement
  <1>9. /\ list' \in Seq(V!Handles) /\ Len(list') = Len(list) + 1
        /\ Once(list') /\ V!Range(list') = V!Range(list) \cup {h}
    <2>1. list' = Put(h, list) /\ list \in Seq(V!Handles) /\ Once(list)
      BY <1>3 DEF Counts, Put
    <2>2. /\ Put(h, list) \in Seq(V!Handles) /\ Len(Put(h, list)) = Len(list) + 1
          /\ Once(Put(h, list)) /\ V!Range(Put(h, list)) = V!Range(list) \cup {h}
      BY <1>3, <2>1, Listed
    <2>3. QED
      BY <2>1, <2>2
  <1>10. {cache'[i] : i \in Held'} = V!Range(list')
    BY <1>5, <1>7, <1>9 DEF Counts
  <1>11. \A i, j \in Held' : cache'[i] = cache'[j] => i = j
    <2>1. \A i \in Held : cache[i] # h
      BY <1>3 DEF Counts
    <2>2. QED
      BY <1>5, <1>7, <2>1 DEF Counts
  <1>12. Counts'
    BY <1>3, <1>6, <1>8, <1>9, <1>10, <1>11 DEF Counts
  <1>13. [path |-> p, node |-> n, isopen |-> TRUE] \in File
    BY DEF File
  <1>14. /\ file' \in [V!Handles -> File]
         /\ file'[h] = [path |-> p, node |-> n, isopen |-> TRUE]
         /\ \A g \in V!Handles \ {h} : file'[g] = file[g]
    BY <1>4, <1>13 DEF TableTypes
  <1>15. QED
    BY <1>3, <1>5, <1>6, <1>7, <1>9, <1>12, <1>14 DEF V!None

\* One entry less of a list that has none twice.
LEMMA Unlisted ==
  ASSUME NEW S, NEW l \in Seq(S), NEW k \in DOMAIN l, Once(l)
  PROVE  /\ V!RemoveAt(l, k) \in Seq(S) /\ Len(V!RemoveAt(l, k)) = Len(l) - 1
         /\ Once(V!RemoveAt(l, k)) /\ V!Range(V!RemoveAt(l, k)) = V!Range(l) \ {l[k]}
  <1> DEFINE m == V!RemoveAt(l, k)
  <1>1. Len(l) \in Nat /\ k \in 1 .. Len(l) /\ DOMAIN l = 1 .. Len(l)
    OBVIOUS
  <1> DEFINE a == SubSeq(l, 1, k - 1)
             b == SubSeq(l, k + 1, Len(l))
  <1>2. a \in Seq(S) /\ Len(a) = k - 1 /\ \A i \in 1 .. k - 1 : a[i] = l[i]
    BY <1>1
  <1>3. b \in Seq(S) /\ Len(b) = Len(l) - k /\ \A i \in 1 .. Len(l) - k : b[i] = l[i + k]
    BY <1>1
  <1>4. m = a \o b
    BY DEF m, V!RemoveAt
  <1> HIDE DEF a, b, m
  <1>5. m \in Seq(S) /\ Len(m) = Len(l) - 1 /\ DOMAIN m = 1 .. Len(l) - 1
    <2>1. m \in Seq(S)
      BY <1>2, <1>3, <1>4
    <2>2. Len(m) = Len(a) + Len(b)
      BY <1>2, <1>3, <1>4, ConcatProperties
    <2>3. Len(m) = Len(l) - 1
      BY <1>1, <1>2, <1>3, <2>2
    <2>4. QED
      BY <1>1, <2>1, <2>3
  <1>6. \A i \in 1 .. Len(l) - 1 : m[i] = IF i < k THEN a[i] ELSE b[i - (k - 1)]
    BY <1>1, <1>2, <1>3, <1>4
  <1>7. \A i \in 1 .. Len(l) - 1 : m[i] = IF i < k THEN l[i] ELSE l[i + 1]
    <2> SUFFICES ASSUME NEW i \in 1 .. Len(l) - 1
                 PROVE  m[i] = IF i < k THEN l[i] ELSE l[i + 1]
      OBVIOUS
    <2>1. CASE i < k
      BY <1>1, <1>2, <1>6, <2>1
    <2>2. CASE ~(i < k)
      <3>1. i - (k - 1) \in 1 .. Len(l) - k /\ (i - (k - 1)) + k = i + 1
        BY <1>1, <2>2
      <3>2. b[i - (k - 1)] = l[(i - (k - 1)) + k]
        BY <1>3, <3>1
      <3>3. QED
        BY <1>6, <2>2, <3>1, <3>2
    <2>3. QED
      BY <2>1, <2>2
  <1>8. Once(m)
    <2> SUFFICES ASSUME NEW i \in 1 .. Len(l) - 1, NEW j \in 1 .. Len(l) - 1, m[i] = m[j]
                 PROVE  i = j
      BY <1>5 DEF Once
    <2> DEFINE x == IF i < k THEN i ELSE i + 1
               y == IF j < k THEN j ELSE j + 1
    <2>1. x \in 1 .. Len(l) /\ y \in 1 .. Len(l) /\ l[x] = l[y]
      BY <1>1, <1>7
    <2>2. x = y
      BY <1>1, <2>1 DEF Once
    <2>3. QED
      BY <1>1, <2>2
  <1>9. \A i \in DOMAIN m : m[i] \in V!Range(l) \ {l[k]}
    <2> SUFFICES ASSUME NEW i \in 1 .. Len(l) - 1 PROVE m[i] \in V!Range(l) \ {l[k]}
      BY <1>5
    <2> DEFINE x == IF i < k THEN i ELSE i + 1
    <2>1. x \in 1 .. Len(l) /\ x # k /\ m[i] = l[x]
      BY <1>1, <1>7
    <2> HIDE DEF x
    <2>2. QED
      BY <1>1, <2>1 DEF V!Range, Once
  <1>10. \A x \in DOMAIN l : x # k => l[x] \in V!Range(m)
    <2> SUFFICES ASSUME NEW x \in 1 .. Len(l), x # k PROVE l[x] \in V!Range(m)
      BY <1>1
    <2> DEFINE i == IF x < k THEN x ELSE x - 1
    <2>1. i \in 1 .. Len(l) - 1 /\ (IF i < k THEN i ELSE i + 1) = x
      BY <1>1
    <2>2. m[i] = l[x]
      BY <1>7, <2>1
    <2> HIDE DEF i
    <2>3. QED
      BY <1>5, <2>1, <2>2 DEF V!Range
  <1>11. QED
    BY <1>5, <1>8, <1>9, <1>10 DEF V!Range, m

\* esp_littlefs_free_fd: the file loses its descriptor and its place.
LEMMA Frees ==
  ASSUME TableTypes, Counts, NEW fd \in Held, V!FreeFd(fd)
  PROVE  /\ Counts' /\ file' \in [V!Handles -> File]
         /\ Held' = Held \ {fd} /\ \A i \in Held' : cache'[i] = cache[i]
         /\ V!Range(list') = V!Range(list) \ {cache[fd]}
         /\ \A g \in V!Handles \ {cache[fd]} : file'[g] = file[g]
  <1> DEFINE S == V!Handles \cup {V!None}
             c == cache[fd]
  <1>1. PICK k \in DOMAIN list : list[k] = c /\ list' = V!RemoveAt(list, k)
    BY DEF V!FreeFd
  <1>2. cache' = [cache EXCEPT ![fd] = V!None] /\ count' = count - 1
    BY DEF V!FreeFd
  <1>3. file' = [file EXCEPT ![c] = V!NoFile] /\ c \in V!Handles /\ fd \in DOMAIN cache
    BY DEF V!FreeFd, Held, Counts
  <1> HIDE DEF c
  <1>4. /\ DOMAIN cache' = DOMAIN cache /\ cache'[fd] = V!None
        /\ \A i \in DOMAIN cache \ {fd} : cache'[i] = cache[i]
    BY <1>2, <1>3
  <1>5. cache' \in Seq(S)
    BY <1>2, <1>3 DEF Counts
  <1>6. Held' = Held \ {fd} /\ \A i \in Held' : cache'[i] = cache[i]
    BY <1>4 DEF Held
  <1>7. Cardinality(Held') = Cardinality(Held) - 1
    BY <1>6, HeldFinite, FS_RemoveElement
  <1>8. /\ list' \in Seq(V!Handles) /\ Len(list') = Len(list) - 1
        /\ Once(list') /\ V!Range(list') = V!Range(list) \ {c}
    <2>1. list \in Seq(V!Handles) /\ Once(list)
      BY DEF Counts
    <2>2. /\ V!RemoveAt(list, k) \in Seq(V!Handles) /\ Len(V!RemoveAt(list, k)) = Len(list) - 1
          /\ Once(V!RemoveAt(list, k)) /\ V!Range(V!RemoveAt(list, k)) = V!Range(list) \ {list[k]}
      BY <2>1, Unlisted
    <2>3. QED
      BY <1>1, <2>2
  <1>9. {cache'[i] : i \in Held'} = V!Range(list')
    <2>1. \A i \in Held : cache[i] = c => i = fd
      BY DEF Counts, c
    <2>2. {cache[i] : i \in Held \ {fd}} = V!Range(list) \ {c}
      BY <2>1 DEF Counts, c
    <2>3. QED
      BY <1>6, <1>8, <2>2
  <1>10. \A i, j \in Held' : cache'[i] = cache'[j] => i = j
    BY <1>6 DEF Counts
  <1>11. Counts'
    BY <1>2, <1>5, <1>7, <1>8, <1>9, <1>10 DEF Counts
  <1>12. V!NoFile \in File
    BY DEF V!NoFile, File
  <1>13. /\ file' \in [V!Handles -> File]
         /\ \A g \in V!Handles \ {c} : file'[g] = file[g]
    BY <1>3, <1>12 DEF TableTypes
  <1>14. QED
    BY <1>6, <1>8, <1>11, <1>13 DEF c

\* A close frees the descriptor, or leaves a closed file in the table; the other
\* descriptors stay as they are.
LEMMA Closes ==
  ASSUME TableTypes, Counts, NEW fd \in Held, V!CloseFd(fd)
  PROVE  /\ Counts' /\ file' \in [V!Handles -> File]
         /\ \A i \in Held \ {fd} : i \in Held' /\ cache'[i] = cache[i] /\ file'[cache[i]] = file[cache[i]]
         /\ \A g \in V!Range(list') : g \in V!Range(list) /\ (file'[g].isopen => file'[g] = file[g])
  <1>1. \A i \in Held : cache[i] \in V!Handles /\ (i # fd => cache[i] # cache[fd])
    BY DEF Counts, Held
  <1>2. V!Range(list) \subseteq V!Handles
    BY DEF Counts, V!Range
  <1>3. CASE V!FreeFd(fd)
    BY <1>1, <1>2, <1>3, Frees
  <1>4. CASE V!CloseFails(fd)
    <2> DEFINE c == cache[fd]
               r == [file[c] EXCEPT !.isopen = FALSE]
    <2>1. UNCHANGED <<cache, list, count>> /\ file' = [file EXCEPT ![c].isopen = FALSE]
      BY <1>4 DEF V!CloseFails
    <2>2. c \in V!Handles
      BY <1>1
    <2> HIDE DEF c
    <2>3. /\ DOMAIN file' = V!Handles /\ file'[c] = r
          /\ \A g \in V!Handles \ {c} : file'[g] = file[g]
      BY <2>1, <2>2 DEF TableTypes
    <2>4. r \in File /\ ~r.isopen /\ file' = [file EXCEPT ![c] = r]
      BY <2>1, <2>2 DEF TableTypes, File
    <2> HIDE DEF r
    <2>5. file' \in [V!Handles -> File]
      BY <2>2, <2>4 DEF TableTypes
    <2>6. Held' = Held
      BY <2>1 DEF Held
    <2>7. Counts'
      BY <2>1, <2>6 DEF Counts
    <2>8. QED
      BY <1>1, <1>2, <2>1, <2>3, <2>4, <2>5, <2>6, <2>7 DEF c
  <1>5. QED
    BY <1>3, <1>4 DEF V!CloseFd

\* A path is a name, or a name below a directory.
PathNames == {"f", "d", "e"}

LEMMA PathLengths == \A p \in V!Paths : p \in Seq(PathNames) /\ (Len(p) = 1 \/ Len(p) = 2)
  <1> DEFINE Good(p) == p \in Seq(PathNames) /\ (Len(p) = 1 \/ Len(p) = 2)
  <1>1. Good(<<"f">>) /\ Good(<<"d">>) /\ Good(<<"e">>)
    BY DEF PathNames
  <1>2. Good(<<"d", "f">>) /\ Good(<<"e", "f">>)
    BY DEF PathNames
  <1> HIDE DEF Good
  <1>3. \A p \in V!Paths : Good(p)
    BY <1>1, <1>2 DEF V!Paths
  <1>4. QED
    BY <1>3 DEF Good

LEMMA WholePath ==
  ASSUME NEW p \in V!Paths
  PROVE  /\ V!IsPrefix(p, p)
         /\ \A q \in V!Paths : q \o SubSeq(p, Len(p) + 1, Len(p)) = q
  <1>1. p \in Seq(PathNames) /\ Len(p) \in Nat
    BY PathLengths
  <1>2. SubSeq(p, Len(p) + 1, Len(p)) = <<>>
    BY <1>1
  <1>3. \A q \in V!Paths : q \o <<>> = q
    BY PathLengths
  <1>4. V!IsPrefix(p, p)
    BY <1>1 DEF V!IsPrefix
  <1>5. QED
    BY <1>2, <1>3, <1>4

LEMMA BelowPath ==
  ASSUME NEW p \in V!Paths, NEW x \in V!Paths, V!IsPrefix(p, x), p # x
  PROVE  Len(x) # 1 /\ V!Front(x) = p
  <1>1. p \in Seq(PathNames) /\ x \in Seq(PathNames) /\ Len(p) \in {1, 2} /\ Len(x) \in {1, 2}
    BY PathLengths
  <1>2. SubSeq(p, 1, Len(p)) = p /\ SubSeq(x, 1, Len(x)) = x
    BY <1>1
  <1>3. Len(p) <= Len(x) /\ p = SubSeq(x, 1, Len(p))
    BY <1>2 DEF V!IsPrefix
  <1>4. Len(p) = 1 /\ Len(x) = 2
    BY <1>1, <1>2, <1>3
  <1>5. V!Front(x) = SubSeq(x, 1, Len(x) - 1) /\ Len(x) - 1 = 1
    BY <1>4 DEF V!Front
  <1>6. p = SubSeq(x, 1, 1) /\ V!Front(x) = SubSeq(x, 1, 1)
    BY <1>3, <1>4, <1>5
  <1>7. QED
    BY <1>4, <1>6

LEMMA AboveFront ==
  ASSUME NEW p \in V!Paths, NEW x \in V!Paths, Len(x) # 1, V!Front(x) = p
  PROVE  V!IsPrefix(p, x) /\ p # x
  <1>1. p \in Seq(PathNames) /\ x \in Seq(PathNames) /\ Len(p) \in {1, 2} /\ Len(x) \in {1, 2}
    BY PathLengths
  <1>2. SubSeq(p, 1, Len(p)) = p
    BY <1>1
  <1>3. V!Front(x) = SubSeq(x, 1, Len(x) - 1) /\ Len(x) - 1 = 1
    BY <1>1 DEF V!Front
  <1>4. Len(x) = 2 /\ SubSeq(x, 1, 1) = p
    BY <1>1, <1>3
  <1>5. Len(p) = 1
    BY <1>1, <1>4
  <1>6. QED
    BY <1>2, <1>4, <1>5 DEF V!IsPrefix

\* Nothing is below a path that is not a directory.
LEMMA NotBelow ==
  ASSUME TreeTypes, Tree, NEW p \in V!Paths, ~V!IsDir(p)
  PROVE  /\ \A x \in DOMAIN tree : Len(x) = 1 \/ V!Front(x) # p
         /\ \A x \in DOMAIN tree : x # p => ~V!IsPrefix(p, x)
  <1>1. \A x \in DOMAIN tree : Len(x) = 1 \/ V!Front(x) # p
    BY DEF Tree, V!HasParent
  <1>2. \A x \in V!Paths : V!IsPrefix(p, x) /\ p # x => Len(x) # 1 /\ V!Front(x) = p
    BY BelowPath
  <1>3. QED
    BY <1>1, <1>2 DEF TreeTypes

\* The tree as it is after a path was made, on a node that nobody has: what was
\* there is still there.
LEMMA MadeTree ==
  ASSUME TreeTypes, Tree, NEW p \in V!Paths, ~V!Exists(p), V!HasParent(p),
         NEW k \in {"reg", "dir"}, NEW n \in V!Fresh, V!Made(p, k, n)
  PROVE  /\ TreeTypes' /\ Tree' /\ n \in V!Nodes
         /\ DOMAIN tree' = DOMAIN tree \cup {p} /\ tree'[p] = n /\ kind'[n] = k
         /\ \A x \in DOMAIN tree : tree'[x] = tree[x] /\ kind'[tree[x]] = kind[tree[x]]
         /\ \A h \in V!Handles : file[h].node # n
  <1>1. n \in V!Nodes /\ n \notin V!Range(tree) /\ n \notin {file[h].node : h \in V!Handles}
    BY DEF V!Fresh, V!Least
  <1>2. tree' = V!With(tree, p, n) /\ kind' = [kind EXCEPT ![n] = k]
    BY DEF V!Made
  <1>3. /\ DOMAIN tree' = DOMAIN tree \cup {p} /\ tree'[p] = n
        /\ \A x \in DOMAIN tree \ {p} : tree'[x] = tree[x]
    BY <1>2 DEF V!With
  <1>4. /\ kind' \in [V!Nodes -> {"reg", "dir"}] /\ kind'[n] = k
        /\ \A m \in V!Nodes \ {n} : kind'[m] = kind[m]
    BY <1>1, <1>2 DEF TreeTypes
  <1>5. p \notin DOMAIN tree
    BY DEF V!Exists
  <1>6. \A x \in DOMAIN tree : tree[x] \in V!Nodes /\ tree[x] # n
    BY <1>1 DEF TreeTypes, V!Range
  <1>7. \A x \in DOMAIN tree : tree'[x] = tree[x] /\ kind'[tree[x]] = kind[tree[x]]
    BY <1>3, <1>4, <1>5, <1>6
  <1>8. TreeTypes'
    BY <1>1, <1>3, <1>4, <1>5, <1>6 DEF TreeTypes
  <1>9. \A x, y \in DOMAIN tree' : tree'[x] = tree'[y] => x = y
    BY <1>3, <1>5, <1>6 DEF Tree
  <1>10. \A x \in V!Paths : V!HasParent(x) => V!HasParent(x)'
    BY <1>3, <1>7 DEF V!HasParent, V!IsDir, V!Exists
  <1>11. Tree'
    BY <1>3, <1>9, <1>10 DEF Tree, TreeTypes
  <1>12. QED
    BY <1>1, <1>3, <1>4, <1>7, <1>8, <1>11

\* The tree as it is after a path was removed that no other is below.
LEMMA RemovedTree ==
  ASSUME TreeTypes, Tree, NEW p \in DOMAIN tree, V!Removed(p),
         \A x \in DOMAIN tree : Len(x) = 1 \/ V!Front(x) # p
  PROVE  /\ TreeTypes' /\ Tree'
         /\ DOMAIN tree' = DOMAIN tree \ {p}
         /\ \A x \in DOMAIN tree' : tree'[x] = tree[x] /\ kind'[tree[x]] = kind[tree[x]]
  <1>1. tree' = V!Without(tree, p) /\ kind' = [kind EXCEPT ![tree[p]] = "reg"]
    BY DEF V!Removed
  <1>2. DOMAIN tree' = DOMAIN tree \ {p} /\ \A x \in DOMAIN tree \ {p} : tree'[x] = tree[x]
    BY <1>1 DEF V!Without, V!Restrict
  <1>3. /\ kind' \in [V!Nodes -> {"reg", "dir"}]
        /\ \A m \in V!Nodes \ {tree[p]} : kind'[m] = kind[m]
    BY <1>1 DEF TreeTypes
  <1>4. \A x \in DOMAIN tree \ {p} : tree[x] # tree[p] /\ tree[x] \in V!Nodes
    BY DEF Tree, TreeTypes
  <1>5. \A x \in DOMAIN tree' : tree'[x] = tree[x] /\ kind'[tree[x]] = kind[tree[x]]
    BY <1>2, <1>3, <1>4
  <1>6. TreeTypes'
    BY <1>2, <1>3, <1>4 DEF TreeTypes
  <1>7. \A x, y \in DOMAIN tree' : tree'[x] = tree'[y] => x = y
    BY <1>2 DEF Tree
  <1>8. \A x \in DOMAIN tree' : V!HasParent(x)'
    BY <1>2, <1>5 DEF Tree, V!HasParent, V!IsDir, V!Exists
  <1>9. QED
    BY <1>2, <1>5, <1>6, <1>7, <1>8 DEF Tree

\* The tree as it is after a file was renamed, over another or to a new path.
LEMMA RenamedTree ==
  ASSUME TreeTypes, Tree, NEW p \in V!Paths, NEW q \in V!Paths,
         V!CanRename(p, q), ~V!IsDir(p), V!Renamed(p, q)
  PROVE  /\ TreeTypes' /\ Tree' /\ kind' = kind
         /\ \A x \in DOMAIN tree \ {p, q} : x \in DOMAIN tree' /\ tree'[x] = tree[x]
  <1>1. p \in DOMAIN tree /\ ~V!IsPrefix(p, q) /\ p # q /\ V!HasParent(q)
    BY WholePath DEF V!CanRename, V!Exists
  <1>2. ~V!IsDir(q)
    BY DEF V!CanRename, V!IsDir
  <1> DEFINE at(x) == IF V!IsPrefix(p, x) THEN q \o SubSeq(x, Len(p) + 1, Len(x)) ELSE x
             moved == {at(x) : x \in DOMAIN tree \ {q}}
  <1>3. \A x \in DOMAIN tree : x # p => ~V!IsPrefix(p, x)
    BY NotBelow
  <1>4. \A x \in DOMAIN tree : x # q => ~V!IsPrefix(q, x)
    BY <1>2, NotBelow
  <1>5. V!IsPrefix(p, p) /\ V!IsPrefix(q, q)
    BY WholePath
  <1>6. q \o SubSeq(p, Len(p) + 1, Len(p)) = q /\ p \o SubSeq(q, Len(q) + 1, Len(q)) = p
    BY WholePath
  <1>7. at(p) = q
    BY <1>5, <1>6
  <1>8. \A x \in DOMAIN tree \ {p} : at(x) = x
    BY <1>3
  <1>9. moved = (DOMAIN tree \ {p, q}) \cup {q}
    BY <1>1, <1>7, <1>8
  <1>10. /\ DOMAIN tree' = moved /\ kind' = kind
         /\ \A x \in moved : tree'[x] =
              IF V!IsPrefix(q, x) /\ x \notin DOMAIN tree \ {q}
              THEN tree[p \o SubSeq(x, Len(q) + 1, Len(x))] ELSE tree[x]
    BY DEF V!Renamed
  <1>11. tree'[q] = tree[p]
    BY <1>5, <1>6, <1>9, <1>10
  <1>12. \A x \in DOMAIN tree \ {p, q} : x \in DOMAIN tree' /\ tree'[x] = tree[x]
    BY <1>9, <1>10
  <1>13. TreeTypes'
    BY <1>1, <1>9, <1>10, <1>11, <1>12 DEF TreeTypes
  <1>14. \A x, y \in DOMAIN tree' : tree'[x] = tree'[y] => x = y
    BY <1>1, <1>9, <1>10, <1>11, <1>12 DEF Tree
  <1>15. \A d : V!IsDir(d) => V!IsDir(d)'
    BY <1>2, <1>10, <1>12 DEF V!IsDir, V!Exists
  <1>16. \A x \in DOMAIN tree' : V!HasParent(x)'
    BY <1>1, <1>9, <1>10, <1>15 DEF Tree, V!HasParent
  <1>17. QED
    BY <1>10, <1>12, <1>13, <1>14, <1>16 DEF Tree

-----------------------------------------------------------------------------
\* A call that leaves the table of open files alone.
LEMMA SameTable ==
  ASSUME Counts, Owned, UNCHANGED <<cache, list, count, file, fds, doing, registered>>
  PROVE  Counts' /\ Owned'
  <1>1. Held' = Held
    BY DEF Held
  <1>2. Counts'
    BY <1>1 DEF Counts
  <1>3. Owned'
    BY <1>1 DEF Owned, OpenFd
  <1>4. QED
    BY <1>2, <1>3

\* A file that is open is where its path says, so what does not touch the paths
\* of open files loses none.
LEMMA SameInTree ==
  ASSUME InTree, UNCHANGED <<list, file>>,
         \A h \in V!Range(list) : file[h].isopen =>
           LET x == file[h].path IN
           x \in DOMAIN tree' /\ tree'[x] = tree[x] /\ kind'[tree[x]] = kind[tree[x]]
  PROVE  InTree'
  BY DEF InTree, V!Range

LEMMA NotBusy ==
  ASSUME Counts, NEW p, ~V!Busy(p)
  PROVE  \A h \in V!Range(list) : file[h].path # p
  <1>1. \A i \in Held : file[cache[i]].path # p
    BY DEF V!Busy, V!FdByName, Held
  <1>2. QED
    BY <1>1 DEF Counts

LEMMA TableRegister == ASSUME V!VfsAssumption, TableInv, V!Register PROVE TableInv'
  <1>1. /\ list = <<>> /\ cache = <<>> /\ cache' = [i \in 1 .. MinCache |-> V!None]
        /\ \A t \in Tasks : DOMAIN fds[t] = {} /\ doing[t] = V!None
        /\ registered' = TRUE /\ UNCHANGED <<tree, kind, list, count, file, holder, fds, doing>>
    BY DEF V!Register, TableInv, Owned
  <1>2. Held = {} /\ Held' = {}
    BY <1>1 DEF Held
  <1>3. cache' \in Seq(V!Handles \cup {V!None})
    BY <1>1 DEF V!VfsAssumption
  <1>4. Counts'
    BY <1>1, <1>2, <1>3 DEF TableInv, Counts
  <1>5. Owned'
    BY <1>1 DEF Owned
  <1>6. TableTypes' /\ Tree' /\ InTree'
    BY <1>1 DEF TableInv, TableTypes, TreeTypes, Tree, InTree, V!Range, V!HasParent, V!IsDir,
                V!Exists
  <1>7. QED
    BY <1>4, <1>5, <1>6 DEF TableInv

LEMMA TableUnregister == ASSUME TableInv, V!Unregister PROVE TableInv'
  <1>1. /\ registered' = FALSE /\ cache' = <<>> /\ list' = <<>> /\ count' = 0
        /\ file' = [h \in V!Handles |-> V!NoFile]
        /\ UNCHANGED <<tree, kind, holder, fds, doing>>
    BY DEF V!Unregister
  <1>2. \A t \in Tasks : DOMAIN fds[t] = {} /\ doing[t] = V!None
    BY DEF V!Unregister
  <1>3. Held' = {} /\ Cardinality({}) = 0
    BY <1>1, FS_EmptySet DEF Held
  <1>4. {cache'[i] : i \in Held'} = {} /\ V!Range(list') = {}
    BY <1>1, <1>3 DEF V!Range
  <1>5. Counts'
    BY <1>1, <1>3, <1>4 DEF Counts, Once
  <1>6. Owned'
    BY <1>1, <1>2 DEF Owned
  <1>7. V!NoFile \in File
    BY DEF V!NoFile, File
  <1>8. TableTypes' /\ Tree' /\ InTree'
    BY <1>1, <1>4, <1>7 DEF TableInv, TableTypes, TreeTypes, Tree, InTree, V!HasParent, V!IsDir,
                            V!Exists
  <1>9. QED
    BY <1>5, <1>6, <1>8 DEF TableInv

\* What an open leaves, whoever opens and whatever for.
LEMMA Opened ==
  ASSUME TableInv, NEW p \in V!Paths, NEW writes, NEW h \in V!Handles, NEW fd,
         V!OpenFile(p, writes, h, fd)
  PROVE  /\ TreeTypes' /\ file' \in [V!Handles -> File] /\ Counts' /\ Tree' /\ InTree'
         /\ fd \notin Held /\ fd \in Nat /\ fd # V!None
         /\ Held' = Held \cup {fd} /\ cache'[fd] = h /\ file'[h].isopen
         /\ \A i \in Held : cache'[i] = cache[i] /\ file'[cache[i]] = file[cache[i]]
  <1>1. ASSUME NEW n \in V!Nodes, V!AllocateFd(h, fd, p, n)
        PROVE  /\ Counts' /\ file' \in [V!Handles -> File]
               /\ fd \notin Held /\ fd \in Nat /\ fd # V!None
               /\ Held' = Held \cup {fd} /\ cache'[fd] = h
               /\ \A i \in Held : cache'[i] = cache[i] /\ file'[cache[i]] = file[cache[i]]
               /\ V!Range(list') = V!Range(list) \cup {h}
               /\ file'[h].path = p /\ file'[h].node = n /\ file'[h].isopen
               /\ \A g \in V!Range(list) : file'[g] = file[g]
    <2>1. \A g \in V!Range(list) : g \in V!Handles
      BY DEF TableInv, Counts, V!Range
    <2>2. \A i \in Held : cache[i] \in V!Range(list)
      BY DEF TableInv, Counts
    <2>3. /\ Counts' /\ file' \in [V!Handles -> File]
          /\ fd \notin Held /\ h \notin V!Range(list) /\ fd \in Nat /\ fd # V!None
          /\ Held' = Held \cup {fd} /\ cache'[fd] = h
          /\ \A i \in Held : cache'[i] = cache[i]
          /\ V!Range(list') = V!Range(list) \cup {h}
          /\ file'[h] = [path |-> p, node |-> n, isopen |-> TRUE]
          /\ \A g \in V!Handles \ {h} : file'[g] = file[g]
      BY <1>1, Allocates DEF TableInv
    <2>4. QED
      BY <2>1, <2>2, <2>3
  <1>2. CASE V!Exists(p) /\ V!AllocateFd(h, fd, p, tree[p]) /\ UNCHANGED <<tree, kind>>
    <2>1. p \in DOMAIN tree /\ tree[p] \in V!Nodes /\ kind[tree[p]] = "reg"
      BY <1>2 DEF V!OpenFile, V!Opens, V!IsDir, V!Exists, TableInv, TableTypes, TreeTypes
    <2>2. TreeTypes' /\ Tree'
      BY <1>2 DEF TableInv, TableTypes, TreeTypes, Tree, V!HasParent, V!IsDir, V!Exists
    <2>3. InTree'
      BY <1>1, <1>2, <2>1 DEF TableInv, InTree
    <2>4. QED
      BY <1>1, <1>2, <2>1, <2>2, <2>3
  <1>3. ASSUME ~V!Exists(p), NEW n \in V!Fresh, V!Made(p, "reg", n), V!AllocateFd(h, fd, p, n)
        PROVE  /\ TreeTypes' /\ file' \in [V!Handles -> File] /\ Counts' /\ Tree' /\ InTree'
               /\ fd \notin Held /\ fd \in Nat /\ fd # V!None
               /\ Held' = Held \cup {fd} /\ cache'[fd] = h /\ file'[h].isopen
               /\ \A i \in Held : cache'[i] = cache[i] /\ file'[cache[i]] = file[cache[i]]
    <2>1. V!HasParent(p)
      BY DEF V!OpenFile, V!Opens
    <2>2. /\ TreeTypes' /\ Tree' /\ n \in V!Nodes
          /\ DOMAIN tree' = DOMAIN tree \cup {p} /\ tree'[p] = n /\ kind'[n] = "reg"
          /\ \A x \in DOMAIN tree : tree'[x] = tree[x] /\ kind'[tree[x]] = kind[tree[x]]
      BY <1>3, <2>1, MadeTree DEF TableInv, TableTypes
    <2>3. InTree'
      BY <1>1, <1>3, <2>2 DEF TableInv, InTree
    <2>4. QED
      BY <1>1, <1>3, <2>2, <2>3
  <1>4. QED
    BY <1>2, <1>3 DEF V!OpenFile

LEMMA TableOpen ==
  ASSUME TableInv, NEW t \in Tasks, NEW p \in V!Paths, NEW writes \in BOOLEAN,
         V!Open(t, p, writes)
  PROVE  TableInv'
  <1>1. registered /\ UNCHANGED <<registered, holder, doing>>
    BY DEF V!Open, V!Lock
  <1>2. PICK h \in V!Handles, fd \in 1 .. (2 * MaxHandles + MinCache) :
          /\ V!OpenFile(p, writes, h, fd)
          /\ fds' = [fds EXCEPT ![t] = V!With(@, fd, file'[h].node)]
    BY DEF V!Open
  <1>3. /\ TreeTypes' /\ file' \in [V!Handles -> File] /\ Counts' /\ Tree' /\ InTree'
        /\ fd \notin Held /\ fd \in Nat /\ fd # V!None
        /\ Held' = Held \cup {fd} /\ cache'[fd] = h /\ file'[h].isopen
        /\ \A i \in Held : cache'[i] = cache[i] /\ file'[cache[i]] = file[cache[i]]
    BY <1>2, Opened
  <1>4. /\ DOMAIN fds' = Tasks /\ \A u \in Tasks \ {t} : fds'[u] = fds[u]
        /\ fds'[t] = V!With(fds[t], fd, file'[h].node)
    BY <1>2 DEF TableInv, TableTypes
  <1>5. /\ DOMAIN fds'[t] = DOMAIN fds[t] \cup {fd} /\ fds'[t][fd] = file'[h].node
        /\ \A x \in DOMAIN fds[t] \ {fd} : fds'[t][x] = fds[t][x]
    BY <1>4 DEF V!With
  <1>6. \A x : OpenFd(x) => OpenFd(x)' /\ file'[cache'[x]].node = file[cache[x]].node /\ x # fd
    BY <1>3 DEF OpenFd
  <1>7. OpenFd(fd)'
    BY <1>3 DEF OpenFd
  <1>8. \A u \in Tasks : /\ \A x \in DOMAIN fds[u] : OpenFd(x)
                         /\ doing[u] # V!None => OpenFd(doing[u])
    BY DEF TableInv, Owned
  <1>9. \A u \in Tasks : fd \notin DOMAIN fds[u] /\ fd # doing[u]
    BY <1>3, <1>6, <1>8
  <1>10. \A u \in Tasks : \A x \in DOMAIN fds'[u] :
           OpenFd(x)' /\ file'[cache'[x]].node = fds'[u][x] /\ x # doing'[u]
    <2>1. \A x \in DOMAIN fds[t] : OpenFd(x)' /\ file'[cache'[x]].node = fds'[t][x] /\ x # doing'[t]
      BY <1>1, <1>5, <1>6, <1>8, <1>9 DEF TableInv, Owned
    <2>2. file'[cache'[fd]].node = fds'[t][fd] /\ fd # doing'[t]
      BY <1>1, <1>3, <1>5, <1>9
    <2>3. \A u \in Tasks \ {t} : \A x \in DOMAIN fds[u] :
            OpenFd(x)' /\ file'[cache'[x]].node = fds'[u][x] /\ x # doing'[u]
      BY <1>1, <1>4, <1>6, <1>8 DEF TableInv, Owned
    <2>4. QED
      BY <1>4, <1>5, <1>7, <2>1, <2>2, <2>3
  <1>11. \A u \in Tasks : doing'[u] # V!None => OpenFd(doing[u])'
    BY <1>1, <1>6, <1>8
  <1>12. \A u, v \in Tasks : u # v =>
           /\ \A x \in DOMAIN fds'[u] : x \notin DOMAIN fds'[v] /\ x # doing'[v]
           /\ doing'[u] # V!None => doing'[u] # doing'[v]
    BY <1>1, <1>4, <1>5, <1>9 DEF TableInv, Owned
  <1>13. Owned'
    BY <1>1, <1>10, <1>11, <1>12 DEF Owned, OpenFd
  <1>14. TableTypes'
    BY <1>1, <1>3, <1>4 DEF TableInv, TableTypes
  <1>15. QED
    BY <1>3, <1>13, <1>14 DEF TableInv

LEMMA TableOpenFails ==
  ASSUME TableInv, NEW t \in Tasks, NEW p \in V!Paths, NEW writes \in BOOLEAN,
         V!OpenFails(t, p, writes)
  PROVE  TableInv'
  <1>1. /\ registered /\ cache' \in {cache, V!Grown(cache)}
        /\ UNCHANGED <<registered, tree, kind, list, count, file, holder, fds, doing>>
    BY DEF V!OpenFails, V!Lock
  <1>2. /\ cache' \in Seq(V!Handles \cup {V!None}) /\ Len(cache) <= Len(cache')
        /\ \A i \in DOMAIN cache : cache'[i] = cache[i]
        /\ \A i \in DOMAIN cache' \ DOMAIN cache : cache'[i] = V!None
    BY <1>1, GrownCache DEF TableInv, Counts
  <1>3. DOMAIN cache \subseteq DOMAIN cache'
    BY <1>2 DEF TableInv, Counts
  <1>4. Held' = Held /\ \A i \in Held : cache'[i] = cache[i]
    BY <1>2, <1>3 DEF Held
  <1>5. {cache'[i] : i \in Held'} = {cache[i] : i \in Held}
    BY <1>4
  <1>6. Counts'
    BY <1>1, <1>2, <1>4, <1>5 DEF TableInv, Counts
  <1>7. Owned'
    BY <1>1, <1>4 DEF TableInv, Owned, OpenFd
  <1>8. TableTypes' /\ Tree' /\ InTree'
    BY <1>1 DEF TableInv, TableTypes, TreeTypes, Tree, InTree, V!Range, V!HasParent, V!IsDir,
                V!Exists
  <1>9. QED
    BY <1>6, <1>7, <1>8 DEF TableInv

\* What a close leaves of everything but the descriptor that was closed.
LEMMA CloseLeaves ==
  ASSUME TableInv, NEW fd, OpenFd(fd), V!CloseFd(fd), UNCHANGED <<tree, kind>>
  PROVE  /\ Counts' /\ file' \in [V!Handles -> File] /\ TreeTypes' /\ Tree' /\ InTree'
         /\ \A x : OpenFd(x) /\ x # fd =>
              OpenFd(x)' /\ file'[cache'[x]].node = file[cache[x]].node
  <1>1. /\ Counts' /\ file' \in [V!Handles -> File]
        /\ \A i \in Held \ {fd} : i \in Held' /\ cache'[i] = cache[i] /\ file'[cache[i]] = file[cache[i]]
        /\ \A g \in V!Range(list') : g \in V!Range(list) /\ (file'[g].isopen => file'[g] = file[g])
    BY Closes DEF TableInv, OpenFd
  <1>2. TreeTypes' /\ Tree'
    BY DEF TableInv, TableTypes, TreeTypes, Tree, V!HasParent, V!IsDir, V!Exists
  <1>3. InTree'
    BY <1>1 DEF TableInv, InTree
  <1>4. \A x : OpenFd(x) /\ x # fd => OpenFd(x)' /\ file'[cache'[x]].node = file[cache[x]].node
    BY <1>1 DEF OpenFd
  <1>5. QED
    BY <1>1, <1>2, <1>3, <1>4

LEMMA TableClose ==
  ASSUME TableInv, NEW t \in Tasks, NEW fd \in DOMAIN fds[t], V!Close(t, fd)
  PROVE  TableInv'
  <1>1. /\ registered /\ UNCHANGED <<registered, tree, kind, holder, doing>> /\ V!CloseFd(fd)
        /\ fds' = [fds EXCEPT ![t] = V!Without(@, fd)]
    BY DEF V!Close, V!Lock
  <1>2. /\ OpenFd(fd) /\ \A u \in Tasks \ {t} : fd \notin DOMAIN fds[u]
        /\ \A u \in Tasks : fd # doing[u]
    BY DEF TableInv, Owned
  <1>3. /\ Counts' /\ file' \in [V!Handles -> File] /\ TreeTypes' /\ Tree' /\ InTree'
        /\ \A x : OpenFd(x) /\ x # fd =>
             OpenFd(x)' /\ file'[cache'[x]].node = file[cache[x]].node
    BY <1>1, <1>2, CloseLeaves
  <1>4. /\ DOMAIN fds' = Tasks /\ \A u \in Tasks \ {t} : fds'[u] = fds[u]
        /\ fds'[t] = V!Without(fds[t], fd)
    BY <1>1 DEF TableInv, TableTypes
  <1>5. /\ DOMAIN fds'[t] = DOMAIN fds[t] \ {fd}
        /\ \A x \in DOMAIN fds'[t] : fds'[t][x] = fds[t][x]
    BY <1>4 DEF V!Without, V!Restrict
  <1>6. \A u \in Tasks : \A x \in DOMAIN fds'[u] :
          x \in DOMAIN fds[u] /\ x # fd /\ fds'[u][x] = fds[u][x]
    BY <1>2, <1>4, <1>5
  <1>7. \A u \in Tasks : \A x \in DOMAIN fds'[u] :
          OpenFd(x)' /\ file'[cache'[x]].node = fds'[u][x] /\ x # doing'[u]
    BY <1>1, <1>3, <1>6 DEF TableInv, Owned
  <1>8. \A u \in Tasks : doing'[u] # V!None => OpenFd(doing[u])'
    BY <1>1, <1>2, <1>3 DEF TableInv, Owned
  <1>9. \A u, v \in Tasks : u # v =>
          /\ \A x \in DOMAIN fds'[u] : x \notin DOMAIN fds'[v] /\ x # doing'[v]
          /\ doing'[u] # V!None => doing'[u] # doing'[v]
    BY <1>1, <1>6 DEF TableInv, Owned
  <1>10. Owned'
    BY <1>1, <1>7, <1>8, <1>9 DEF Owned, OpenFd
  <1>11. TableTypes'
    BY <1>1, <1>3, <1>4 DEF TableInv, TableTypes
  <1>12. QED
    BY <1>3, <1>10, <1>11 DEF TableInv

LEMMA TableTruncate ==
  ASSUME TableInv, NEW t \in Tasks, NEW p \in V!Paths, V!Truncate(t, p)
  PROVE  TableInv'
  <1>1. registered /\ UNCHANGED <<registered, holder, fds>> /\ doing[t] = V!None
    BY DEF V!Truncate, V!Lock
  <1>2. PICK h \in V!Handles, fd \in 1 .. (2 * MaxHandles + MinCache) :
          V!OpenFile(p, FALSE, h, fd) /\ doing' = [doing EXCEPT ![t] = fd]
    BY DEF V!Truncate
  <1>3. /\ TreeTypes' /\ file' \in [V!Handles -> File] /\ Counts' /\ Tree' /\ InTree'
        /\ fd \notin Held /\ fd \in Nat /\ fd # V!None
        /\ Held' = Held \cup {fd} /\ cache'[fd] = h /\ file'[h].isopen
        /\ \A i \in Held : cache'[i] = cache[i] /\ file'[cache[i]] = file[cache[i]]
    BY <1>2, Opened
  <1>4. /\ doing' \in [Tasks -> Nat] /\ doing'[t] = fd
        /\ \A u \in Tasks \ {t} : doing'[u] = doing[u]
    BY <1>2, <1>3 DEF TableInv, TableTypes
  <1>5. \A x : OpenFd(x) => OpenFd(x)' /\ file'[cache'[x]].node = file[cache[x]].node /\ x # fd
    BY <1>3 DEF OpenFd
  <1>6. OpenFd(fd)'
    BY <1>3 DEF OpenFd
  <1>7. \A u \in Tasks : /\ \A x \in DOMAIN fds[u] : OpenFd(x) /\ x # fd
                         /\ doing[u] # V!None => OpenFd(doing[u]) /\ doing[u] # fd
    BY <1>5 DEF TableInv, Owned
  <1>8. \A u \in Tasks : \A x \in DOMAIN fds'[u] :
          OpenFd(x)' /\ file'[cache'[x]].node = fds'[u][x] /\ x # doing'[u]
    BY <1>1, <1>4, <1>5, <1>7 DEF TableInv, Owned
  <1>9. \A u \in Tasks : doing'[u] # V!None => OpenFd(doing[u])'
    <2>1. \A u \in Tasks \ {t} : doing[u] # V!None => OpenFd(doing[u])'
      BY <1>4, <1>5, <1>7 DEF OpenFd
    <2>2. OpenFd(doing[t])'
      BY <1>4, <1>6 DEF OpenFd
    <2>3. QED
      BY <1>4, <2>1, <2>2
  <1>10. \A u, v \in Tasks : u # v =>
           /\ \A x \in DOMAIN fds'[u] : x \notin DOMAIN fds'[v] /\ x # doing'[v]
           /\ doing'[u] # V!None => doing'[u] # doing'[v]
    BY <1>1, <1>3, <1>4, <1>7 DEF TableInv, Owned
  <1>11. Owned'
    BY <1>1, <1>8, <1>9, <1>10 DEF Owned, OpenFd
  <1>12. TableTypes'
    BY <1>1, <1>3, <1>4 DEF TableInv, TableTypes
  <1>13. QED
    BY <1>3, <1>11, <1>12 DEF TableInv

LEMMA TableTruncateCloses ==
  ASSUME TableInv, NEW t \in Tasks, V!TruncateCloses(t)
  PROVE  TableInv'
  <1> DEFINE fd == doing[t]
  <1>1. /\ UNCHANGED <<registered, tree, kind, holder, fds>> /\ V!CloseFd(fd)
        /\ fd # V!None /\ doing' = [doing EXCEPT ![t] = V!None]
    BY DEF V!TruncateCloses
  <1>2. /\ OpenFd(fd) /\ registered
        /\ \A u \in Tasks : fd \notin DOMAIN fds[u] /\ (u # t => fd # doing[u])
    BY <1>1 DEF TableInv, Owned
  <1> HIDE DEF fd
  <1>3. /\ Counts' /\ file' \in [V!Handles -> File] /\ TreeTypes' /\ Tree' /\ InTree'
        /\ \A x : OpenFd(x) /\ x # fd =>
             OpenFd(x)' /\ file'[cache'[x]].node = file[cache[x]].node
    BY <1>1, <1>2, CloseLeaves
  <1>4. /\ doing' \in [Tasks -> Nat] /\ doing'[t] = V!None
        /\ \A u \in Tasks \ {t} : doing'[u] = doing[u]
    BY <1>1 DEF TableInv, TableTypes, V!None
  <1>5. \A u \in Tasks : \A x \in DOMAIN fds[u] : x # fd
    BY <1>2
  <1>6. \A u \in Tasks : \A x \in DOMAIN fds[u] : x # V!None
    BY DEF TableInv, Owned, OpenFd, Held, Counts, V!None
  <1>7. \A u \in Tasks : \A x \in DOMAIN fds'[u] :
          OpenFd(x)' /\ file'[cache'[x]].node = fds'[u][x] /\ x # doing'[u]
    BY <1>1, <1>3, <1>4, <1>5, <1>6 DEF TableInv, Owned
  <1>8. \A u \in Tasks : doing'[u] # V!None => OpenFd(doing[u])'
    <2>1. \A u \in Tasks \ {t} : doing[u] # V!None => OpenFd(doing[u]) /\ doing[u] # fd
      BY <1>2 DEF TableInv, Owned
    <2>2. QED
      BY <1>3, <1>4, <2>1 DEF OpenFd
  <1>9. \A u, v \in Tasks : u # v =>
          /\ \A x \in DOMAIN fds'[u] : x \notin DOMAIN fds'[v] /\ x # doing'[v]
          /\ doing'[u] # V!None => doing'[u] # doing'[v]
    BY <1>1, <1>4, <1>6 DEF TableInv, Owned
  <1>10. Owned'
    BY <1>1, <1>2, <1>7, <1>8, <1>9 DEF Owned, OpenFd
  <1>11. TableTypes'
    BY <1>1, <1>3, <1>4 DEF TableInv, TableTypes
  <1>12. QED
    BY <1>3, <1>10, <1>11 DEF TableInv

LEMMA TableTree ==
  ASSUME TableInv, NEW t \in Tasks, NEW p \in V!Paths,
         V!Unlink(t, p) \/ V!Mkdir(t, p) \/ V!Rmdir(t, p)
  PROVE  TableInv'
  <1>1. UNCHANGED <<registered, cache, list, count, file, holder, fds, doing>>
    BY DEF V!Unlink, V!Mkdir, V!Rmdir, V!fdVars
  <1>2. Counts' /\ Owned'
    BY <1>1, SameTable DEF TableInv
  <1>3. \A h \in V!Range(list) : file[h].isopen =>
          /\ file[h].path \in DOMAIN tree /\ tree[file[h].path] = file[h].node
          /\ kind[file[h].node] = "reg"
    BY DEF TableInv, InTree
  <1>4. CASE V!Unlink(t, p)
    <2>1. p \in DOMAIN tree /\ ~V!Busy(p) /\ ~V!IsDir(p) /\ V!Removed(p)
      BY <1>4 DEF V!Unlink, V!MayUnlink, V!Exists
    <2>2. \A x \in DOMAIN tree : Len(x) = 1 \/ V!Front(x) # p
      BY <2>1, NotBelow DEF TableInv, TableTypes
    <2>3. /\ TreeTypes' /\ Tree'
          /\ DOMAIN tree' = DOMAIN tree \ {p}
          /\ \A x \in DOMAIN tree' : tree'[x] = tree[x] /\ kind'[tree[x]] = kind[tree[x]]
      BY <2>1, <2>2, RemovedTree DEF TableInv, TableTypes
    <2>4. \A h \in V!Range(list) : file[h].path # p
      BY <2>1, NotBusy DEF TableInv
    <2>5. InTree'
      BY <1>1, <1>3, <2>3, <2>4, SameInTree DEF TableInv
    <2>6. QED
      BY <1>1, <1>2, <2>3, <2>5 DEF TableInv, TableTypes
  <1>5. CASE V!Mkdir(t, p)
    <2>1. PICK n \in V!Fresh : V!Made(p, "dir", n)
      BY <1>5 DEF V!Mkdir
    <2>2. ~V!Exists(p) /\ V!HasParent(p)
      BY <1>5 DEF V!Mkdir
    <2>3. /\ TreeTypes' /\ Tree' /\ DOMAIN tree' = DOMAIN tree \cup {p}
          /\ \A x \in DOMAIN tree : tree'[x] = tree[x] /\ kind'[tree[x]] = kind[tree[x]]
      BY <2>1, <2>2, MadeTree DEF TableInv, TableTypes
    <2>4. InTree'
      BY <1>1, <1>3, <2>3, SameInTree DEF TableInv
    <2>5. QED
      BY <1>1, <1>2, <2>3, <2>4 DEF TableInv, TableTypes
  <1>6. CASE V!Rmdir(t, p)
    <2>1. p \in DOMAIN tree /\ kind[tree[p]] = "dir" /\ V!Below(p) = {p} /\ V!Removed(p)
      BY <1>6 DEF V!Rmdir, V!IsDir, V!Exists
    <2>2. \A x \in DOMAIN tree : Len(x) = 1 \/ V!Front(x) # p
      <3> SUFFICES ASSUME NEW x \in DOMAIN tree, Len(x) # 1, V!Front(x) = p PROVE FALSE
        OBVIOUS
      <3>1. V!IsPrefix(p, x) /\ p # x
        BY AboveFront DEF TableInv, TableTypes, TreeTypes
      <3>2. QED
        BY <2>1, <3>1 DEF V!Below
    <2>3. /\ TreeTypes' /\ Tree'
          /\ DOMAIN tree' = DOMAIN tree \ {p}
          /\ \A x \in DOMAIN tree' : tree'[x] = tree[x] /\ kind'[tree[x]] = kind[tree[x]]
      BY <2>1, <2>2, RemovedTree DEF TableInv, TableTypes
    <2>4. \A h \in V!Range(list) : file[h].isopen => file[h].path # p
      BY <1>3, <2>1
    <2>5. InTree'
      BY <1>1, <1>3, <2>3, <2>4, SameInTree DEF TableInv
    <2>6. QED
      BY <1>1, <1>2, <2>3, <2>5 DEF TableInv, TableTypes
  <1>7. QED
    BY <1>4, <1>5, <1>6

\* esp_littlefs.c:2393-2404: a file is renamed only while neither path is open.
LEMMA TableRename ==
  ASSUME TableInv, ~MovesDirs, NEW t \in Tasks, NEW p \in V!Paths, NEW q \in V!Paths,
         V!Rename(t, p, q)
  PROVE  TableInv'
  <1>1. /\ UNCHANGED <<registered, cache, list, count, file, holder, fds, doing>>
        /\ ~V!Busy(p) /\ ~V!Busy(q) /\ V!CanRename(p, q) /\ ~V!IsDir(p) /\ V!Renamed(p, q)
    BY DEF V!Rename, V!MayRename, V!fdVars
  <1>2. Counts' /\ Owned'
    BY <1>1, SameTable DEF TableInv
  <1>3. /\ TreeTypes' /\ Tree' /\ kind' = kind
        /\ \A x \in DOMAIN tree \ {p, q} : x \in DOMAIN tree' /\ tree'[x] = tree[x]
    BY <1>1, RenamedTree DEF TableInv, TableTypes
  <1>4. \A h \in V!Range(list) : file[h].path # p /\ file[h].path # q
    BY <1>1, NotBusy DEF TableInv
  <1>5. InTree'
    BY <1>1, <1>3, <1>4, SameInTree DEF TableInv, InTree
  <1>6. QED
    BY <1>1, <1>2, <1>3, <1>5 DEF TableInv, TableTypes

LEMMA TableStep ==
  ASSUME V!VfsAssumption, ~MovesDirs, TableInv, [V!Next]_tableVars
  PROVE  TableInv'
  <1>1. ASSUME UNCHANGED <<registered, tree, kind, cache, list, count, file, fds, doing>>,
               holder' \in Tasks \cup {"nobody"}
        PROVE  TableInv'
    <2>1. Counts' /\ Owned'
      BY <1>1, SameTable DEF TableInv
    <2>2. InTree'
      BY <1>1, SameInTree DEF TableInv, InTree
    <2>3. QED
      BY <1>1, <2>1, <2>2 DEF TableInv, TableTypes, TreeTypes, Tree, V!HasParent, V!IsDir, V!Exists
  <1>2. holder \in Tasks \cup {"nobody"}
    BY DEF TableInv, TableTypes
  <1>3. ASSUME NEW t \in Tasks, NEW fd \in DOMAIN fds[t], V!Use(t, fd) \/ V!UseAt(t, fd)
        PROVE  TableInv'
    BY <1>1, <1>2, <1>3 DEF V!Use, V!UseAt, V!vars, V!fdVars
  <1>4. ASSUME NEW t \in Tasks, V!Call(t) PROVE TableInv'
    BY <1>3, <1>4, TableOpen, TableOpenFails, TableClose, TableTree, TableTruncate, TableRename,
       TableTruncateCloses DEF V!Call
  <1>5. CASE UNCHANGED tableVars
    BY <1>1, <1>2, <1>5 DEF tableVars
  <1>6. QED
    BY <1>4, <1>5, TableRegister, TableUnregister DEF V!Next

LEMMA TableInit == ASSUME V!Init PROVE TableInv
  <1>1. Held = {} /\ DOMAIN tree = {} /\ V!Range(list) = {} /\ {cache[i] : i \in Held} = {}
    BY DEF V!Init, Held, V!Range
  <1>2. Counts
    BY <1>1, FS_EmptySet DEF V!Init, Counts, Once
  <1>3. V!NoFile \in File /\ V!None \in Nat
    BY DEF V!NoFile, File, V!None
  <1>4. TableTypes
    BY <1>1, <1>3 DEF V!Init, TableTypes, TreeTypes
  <1>5. Owned
    BY DEF V!Init, Owned
  <1>6. Tree /\ InTree
    BY <1>1 DEF Tree, InTree
  <1>7. QED
    BY <1>2, <1>4, <1>5, <1>6 DEF TableInv

\* No more files are open than there is room for.
LEMMA FewHandles == ASSUME V!VfsAssumption, Counts PROVE count \in 0 .. MaxHandles
  <1>1. /\ list \in Seq(V!Handles) /\ Once(list) /\ count = Len(list)
    BY DEF Counts
  <1>2. Len(list) \in Nat /\ DOMAIN list = 1 .. Len(list) /\ list \in [1 .. Len(list) -> V!Handles]
    BY <1>1
  <1>3. MaxHandles \in Nat \ {0}
    BY DEF V!VfsAssumption
  <1>4. \A n \in Nat : IsFiniteSet(1 .. n) /\ Cardinality(1 .. n) = n
    <2> SUFFICES ASSUME NEW n \in Nat PROVE IsFiniteSet(1 .. n) /\ Cardinality(1 .. n) = n
      OBVIOUS
    <2>1. IsFiniteSet(1 .. n) /\ Cardinality(1 .. n) = IF 1 > n THEN 0 ELSE n - 1 + 1
      BY FS_Interval
    <2>2. QED
      BY <2>1
  <1>5. ~(MaxHandles < Len(list))
    <2> SUFFICES ASSUME MaxHandles < Len(list) PROVE FALSE
      OBVIOUS
    <2>1. /\ IsFiniteSet(1 .. Len(list)) /\ IsFiniteSet(V!Handles)
          /\ Cardinality(V!Handles) < Cardinality(1 .. Len(list))
      BY <1>2, <1>3, <1>4 DEF V!Handles
    <2>2. \E i, j \in 1 .. Len(list) : i # j /\ list[i] = list[j]
      BY <1>2, <2>1, FS_PigeonHole
    <2>3. QED
      BY <1>1, <1>2, <2>2 DEF Once
  <1>6. QED
    BY <1>1, <1>2, <1>3, <1>5

\* Vfs counts as this module does.
LEMMA SameCount == \A S : V!Cardinality(S) = Cardinality(S)
  BY DEF V!Cardinality, Cardinality

LEMMA TableMeans == ASSUME V!VfsAssumption, TableInv PROVE TableIsSound
  <1>1. V!TypeOK
    <2>1. V!Range(list) \subseteq V!Handles /\ \A i \in DOMAIN cache : cache[i] \in V!Handles \cup {V!None}
      BY DEF TableInv, Counts, V!Range
    <2>2. V!Range(tree) \subseteq V!Nodes
      BY DEF TableInv, TableTypes, TreeTypes, V!Range
    <2>3. count \in 0 .. MaxHandles
      BY FewHandles DEF TableInv
    <2>4. \A h \in V!Handles : /\ file[h].path \in V!Paths \cup {<<>>}
                               /\ file[h].node \in V!Nodes \cup {V!None}
      BY DEF TableInv, TableTypes, File
    <2>5. /\ registered \in BOOLEAN /\ DOMAIN tree \subseteq V!Paths
          /\ kind \in [V!Nodes -> {"reg", "dir"}] /\ holder \in Tasks \cup {"nobody"}
          /\ DOMAIN fds = Tasks /\ doing \in [Tasks -> Nat]
      BY DEF TableInv, TableTypes, TreeTypes
    <2>6. QED
      BY <2>1, <2>2, <2>3, <2>4, <2>5 DEF V!TypeOK
  <1>2. TableAgrees
    BY SameCount DEF TableAgrees, V!TableAgrees, TableInv, Counts, Held
  <1>3. DescriptorsKept
    BY DEF DescriptorsKept, V!DescriptorsKept, TableInv, Owned, OpenFd, Held
  <1>4. OpenFilesStay
    BY DEF OpenFilesStay, V!OpenFilesStay, TableInv, InTree, V!Range
  <1>5. QED
    BY <1>1, <1>2, <1>3, <1>4 DEF TableIsSound

-----------------------------------------------------------------------------
(* The parts together.                                                    *)

allVars == <<part, vars, settingsVars, tableVars>>

\* Each part takes its own steps, and rests while another takes one.
LEMMA PartSteps ==
  [NextOne]_allVars =>
    [Next]_vars /\ [C!Next]_settingsVars /\ [V!Next]_tableVars
  BY DEF NextOne, allVars

LEMMA Kept == SpecOne => [](FilesInv /\ SettingsInv)
  <1>1. InitOne => FilesInv /\ SettingsInv
    BY FilesInit DEF InitOne, C!Init, SettingsInv, Agree, AnswersAsKept, C!AnswersAsKept
  <1>2. FilesInv /\ SettingsInv /\ [NextOne]_allVars => (FilesInv /\ SettingsInv)'
    BY PartSteps, FilesStep, SettingsStep
  <1>3. QED
    BY <1>1, <1>2, PTL DEF SpecOne, allVars

\* FileSystem.cpp:64-78: however many objects there are, whatever they load, and
\* whichever fails to mount, none loses the partition under its open file.
THEOREM OpenStaysMounted == SpecOne => []OpenIsMounted
  <1>1. FilesInv => OpenIsMounted
    BY DEF FilesInv, IInv
  <1>2. QED
    BY <1>1, Kept, PTL

\* FileSystem.cpp:178-372, Configuration.cpp:53-330: for files of any size, any
\* number of objects and any keys, the reads of a file come in order and whole
\* whatever chunk reads in between, an append keeps what the file held, and a
\* READ of a setting answers the last value that was kept of it, as its kind.
THEOREM GivesBack == SpecOne => KeptAsGiven
  <1> DEFINE Appends == \A o \in DOMAIN open, b \in Buffers, short \in BOOLEAN :
                          AppendBytes(o, b, short) => IsPrefix(open[o].data, open'[o].data)
  <1>1. FilesInv /\ SettingsInv => TypeOK /\ ReadsInOrder /\ AnswersAsKept
    BY FilesTypes DEF FilesInv, Ordered, Ends, ReadsInOrder, SettingsInv
  <1>2. FilesInv => [Appends]_vars
    BY AppendKeeps
  <1>3. QED
    BY <1>1, <1>2, Kept, PTL DEF KeptAsGiven, AppendsKeep

\* esp_littlefs.c:1540-1725, 2350-2404: for any number of tasks, of files open at
\* a time and of descriptors to begin with, the cache, the list and the count
\* agree, a descriptor stays its owner's and with its file, and a file that is
\* open is in the tree.  The program never renames a directory.
THEOREM TableSound == ASSUME ~MovesDirs PROVE SpecOne => []TableIsSound
  <1>1. V!VfsAssumption
    BY StorageAssumption
  <1>2. InitOne => TableInv
    BY TableInit DEF InitOne
  <1>3. TableInv /\ [NextOne]_allVars => TableInv'
    BY <1>1, PartSteps, TableStep
  <1>4. TableInv => TableIsSound
    BY <1>1, TableMeans
  <1>5. QED
    BY <1>2, <1>3, <1>4, PTL DEF SpecOne, allVars
=============================================================================
