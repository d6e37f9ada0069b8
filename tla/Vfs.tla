-------------------------------- MODULE Vfs --------------------------------
(***************************************************************************)
(* esp_littlefs: the file descriptors, and the calls of the virtual file   *)
(* system on one partition, by several tasks.  A call holds the lock of    *)
(* the partition while it works, so it is one step here; truncate takes    *)
(* the lock three times.  littlefs below is a tree of nodes.               *)
(***************************************************************************)
EXTENDS Integers, FiniteSets, SequencesExt

CONSTANTS Tasks,
          MinCache,   \* the descriptors the cache starts with (4)
          MaxHandles, \* bound: files open at a time
          Fails,      \* memory may run out, and littlefs may fail
          SeekFails,  \* lfs_file_seek may fail
          MovesDirs   \* a directory may be renamed

Paths == {<<"f">>, <<"d">>, <<"d", "f">>} \cup
         (IF MovesDirs THEN {<<"e">>, <<"e", "f">>} ELSE {})
Nodes == 1..(Cardinality(Paths) + MaxHandles)
None == 0
VfsAssumption ==
  /\ {MinCache, MaxHandles} \subseteq Nat \ {0}
  /\ {Fails, SeekFails, MovesDirs} \subseteq BOOLEAN

VARIABLES
  mounted, \* the partition is registered
  tree,    \* the node of each path there is
  kind,    \* what each node is
  cache,   \* efs->cache: the open file of each descriptor, or NULL
  list,    \* efs->file: the open files, the last opened first
  count,   \* efs->fd_count
  file,    \* an open file: its path, its node, whether littlefs has it open
  holder,  \* the task that holds efs->lock
  fds,     \* the descriptors each task was given, and the node of each
  doing    \* the descriptor a task truncates

vars == <<mounted, tree, kind, cache, list, count, file, holder, fds, doing>>
fdVars == <<cache, list, count, file>>

Handles == 1..MaxHandles
NoFile == [path |-> <<>>, node |-> None, isopen |-> FALSE]
TypeOK ==
  /\ mounted \in BOOLEAN
  /\ DOMAIN tree \subseteq Paths /\ Range(tree) \subseteq Nodes
  /\ kind \in [Nodes -> {"reg", "dir"}]
  /\ \A i \in DOMAIN cache : cache[i] \in Handles \cup {None}
  /\ Range(list) \subseteq Handles /\ count \in 0..MaxHandles
  /\ \A h \in Handles : file[h].path \in Paths \cup {<<>>} /\ file[h].node \in Nodes \cup {None}
  /\ holder \in Tasks \cup {"nobody"}
  /\ DOMAIN fds = Tasks /\ doing \in [Tasks -> Nat]

Init ==
  /\ mounted = FALSE /\ tree = <<>> /\ kind = [n \in Nodes |-> "reg"]
  /\ cache = <<>> /\ list = <<>> /\ count = 0 /\ file = [h \in Handles |-> NoFile]
  /\ holder = "nobody" /\ fds = [t \in Tasks |-> <<>>] /\ doing = [t \in Tasks |-> None]

With(f, x, v) == [y \in DOMAIN f \cup {x} |-> IF y = x THEN v ELSE f[y]]
Without(f, x) == Restrict(f, DOMAIN f \ {x})

----------------------------------------------------------------------------
(* The descriptors.                                                        *)
Grown(c) == IF count + 1 > Len(c) THEN c \o [i \in 1..Len(c) |-> None] ELSE c
FirstFreeCounted(c, fd) == fd = count + 1
FirstFree(c, fd) == fd \in DOMAIN c /\ c[fd] = None /\ \A j \in 1..(fd - 1) : c[j] # None
Least(S) == {x \in S : \A y \in S : x <= y}
Unused == Handles \ Range(list)

AllocateFd(h, fd, p, n) ==
  /\ h \in Least(Unused) /\ FirstFree(Grown(cache), fd)
  /\ cache' = [Grown(cache) EXCEPT ![fd] = h]
  /\ list' = <<h>> \o list /\ count' = count + 1
  /\ file' = [file EXCEPT ![h] = [path |-> p, node |-> n, isopen |-> TRUE]]

FreeFdListed(fd) ==
  /\ UNCHANGED list
  /\ cache' = [cache EXCEPT ![fd] = None] /\ count' = count - 1
  /\ file' = [file EXCEPT ![cache[fd]] = NoFile]
FreeFd(fd) ==
  /\ \E k \in DOMAIN list : list[k] = cache[fd] /\ list' = RemoveAt(list, k)
  /\ cache' = [cache EXCEPT ![fd] = None] /\ count' = count - 1
  /\ file' = [file EXCEPT ![cache[fd]] = NoFile]

(* The cache is searched until as many files were seen as are open.        *)
FdByName(p) == {i \in DOMAIN cache : cache[i] # None /\ file[cache[i]].path = p}
Busy(p) == FdByName(p) # {}

----------------------------------------------------------------------------
(* littlefs.                                                               *)
Exists(p) == p \in DOMAIN tree
IsDir(p) == Exists(p) /\ kind[tree[p]] = "dir"
HasParent(p) == Len(p) = 1 \/ IsDir(Front(p))
Below(p) == {q \in DOMAIN tree : IsPrefix(p, q)}
Fresh == Least(Nodes \ (Range(tree) \cup {file[h].node : h \in Handles}))
Made(p, k, n) == tree' = With(tree, p, n) /\ kind' = [kind EXCEPT ![n] = k]
Removed(p) == tree' = Without(tree, p) /\ kind' = [kind EXCEPT ![tree[p]] = "reg"]
CanRename(p, q) ==
  /\ Exists(p) /\ HasParent(q) /\ ~IsPrefix(p, q)
  /\ Exists(q) => IsDir(p) = IsDir(q) /\ Below(q) = {q}
Renamed(p, q) ==
  LET moved == {IF IsPrefix(p, x) THEN q \o SubSeq(x, Len(p) + 1, Len(x)) ELSE x :
                  x \in DOMAIN tree \ {q}} IN
  /\ tree' = [x \in moved |->
                IF IsPrefix(q, x) /\ x \notin DOMAIN tree \ {q}
                THEN tree[p \o SubSeq(x, Len(q) + 1, Len(x))] ELSE tree[x]]
  /\ UNCHANGED kind

----------------------------------------------------------------------------
Lock(t) == mounted /\ doing[t] = None /\ holder \in {"nobody", t}

Register ==
  /\ ~mounted /\ mounted' = TRUE
  /\ cache' = [i \in 1..MinCache |-> None]
  /\ UNCHANGED <<tree, kind, list, count, file, holder, fds, doing>>

(* The program closes its files before it unregisters the partition; what  *)
(* a failed close left in the table is freed with it.                      *)
Unregister ==
  /\ mounted /\ \A t \in Tasks : fds[t] = <<>> /\ doing[t] = None
  /\ mounted' = FALSE /\ cache' = <<>> /\ list' = <<>> /\ count' = 0
  /\ file' = [h \in Handles |-> NoFile]
  /\ UNCHANGED <<tree, kind, holder, fds, doing>>

(* An open for writing makes the file if it is not there.  A descriptor is *)
(* taken first, and given back when littlefs cannot open the file; then    *)
(* only the cache may have grown.                                          *)
Opens(p, writes) == ~IsDir(p) /\ HasParent(p) /\ (Exists(p) \/ writes)
OpenFile(p, writes, h, fd) ==
  /\ Opens(p, writes)
  /\ \/ Exists(p) /\ AllocateFd(h, fd, p, tree[p]) /\ UNCHANGED <<tree, kind>>
     \/ ~Exists(p) /\ \E n \in Fresh : Made(p, "reg", n) /\ AllocateFd(h, fd, p, n)

Open(t, p, writes) ==
  /\ Lock(t) /\ Unused # {}
  /\ \E h \in Handles, fd \in 1..(2 * MaxHandles + MinCache) :
       /\ OpenFile(p, writes, h, fd)
       /\ fds' = [fds EXCEPT ![t] = With(@, fd, file'[h].node)]
  /\ UNCHANGED <<mounted, holder, doing>>

OpenFails(t, p, writes) ==
  /\ Lock(t) /\ (Opens(p, writes) => Fails)
  /\ cache' \in {cache, Grown(cache)}
  /\ UNCHANGED <<mounted, tree, kind, list, count, file, holder, fds, doing>>

(* littlefs has closed the file also when the close fails, but then the    *)
(* descriptor is kept, though nobody has it any more.                      *)
CloseFails(fd) ==
  /\ Fails
  /\ file' = [file EXCEPT ![cache[fd]].isopen = FALSE]
  /\ UNCHANGED <<cache, list, count>>
CloseFd(fd) == FreeFd(fd) \/ CloseFails(fd)

Close(t, fd) ==
  /\ Lock(t)
  /\ CloseFd(fd)
  /\ fds' = [fds EXCEPT ![t] = Without(@, fd)]
  /\ UNCHANGED <<mounted, tree, kind, holder, doing>>

(* read, write, lseek, fsync and fstat leave the table alone; pread and    *)
(* pwrite give the lock back only when they could seek.                    *)
Use(t, fd) == Lock(t) /\ UNCHANGED vars
UseAt(t, fd) ==
  /\ Lock(t)
  /\ holder' \in {holder} \cup (IF SeekFails THEN {t} ELSE {})
  /\ UNCHANGED <<mounted, tree, kind, fdVars, fds, doing>>

MayUnlink(p) == Exists(p) /\ ~Busy(p) /\ ~IsDir(p)
Unlink(t, p) ==
  /\ Lock(t) /\ MayUnlink(p)
  /\ Removed(p)
  /\ UNCHANGED <<mounted, fdVars, holder, fds, doing>>

MayRenameSource(p, q) == ~Busy(p)
MayRename(p, q) == ~Busy(p) /\ ~Busy(q)
Rename(t, p, q) ==
  /\ Lock(t) /\ MayRename(p, q) /\ CanRename(p, q) /\ (IsDir(p) => MovesDirs)
  /\ Renamed(p, q)
  /\ UNCHANGED <<mounted, fdVars, holder, fds, doing>>

Mkdir(t, p) ==
  /\ Lock(t) /\ ~Exists(p) /\ HasParent(p)
  /\ \E n \in Fresh : Made(p, "dir", n)
  /\ UNCHANGED <<mounted, fdVars, holder, fds, doing>>

Rmdir(t, p) ==
  /\ Lock(t) /\ IsDir(p) /\ Below(p) = {p}
  /\ Removed(p)
  /\ UNCHANGED <<mounted, fdVars, holder, fds, doing>>

(* truncate opens the file, truncates it and closes it, and other tasks    *)
(* may come in between.                                                    *)
Truncate(t, p) ==
  /\ Lock(t) /\ Unused # {} /\ Exists(p)
  /\ \E h \in Handles, fd \in 1..(2 * MaxHandles + MinCache) :
       OpenFile(p, FALSE, h, fd) /\ doing' = [doing EXCEPT ![t] = fd]
  /\ UNCHANGED <<mounted, holder, fds>>
TruncateCloses(t) ==
  /\ doing[t] # None /\ holder \in {"nobody", t}
  /\ CloseFd(doing[t])
  /\ doing' = [doing EXCEPT ![t] = None]
  /\ UNCHANGED <<mounted, tree, kind, holder, fds>>

Call(t) ==
  \/ \E p \in Paths, writes \in BOOLEAN : Open(t, p, writes) \/ OpenFails(t, p, writes)
  \/ \E fd \in DOMAIN fds[t] : Close(t, fd) \/ Use(t, fd) \/ UseAt(t, fd)
  \/ \E p \in Paths : Unlink(t, p) \/ Mkdir(t, p) \/ Rmdir(t, p) \/ Truncate(t, p)
  \/ \E p, q \in Paths : Rename(t, p, q)
  \/ TruncateCloses(t)

Next == Register \/ Unregister \/ \E t \in Tasks : Call(t)
Spec == Init /\ [][Next]_vars

----------------------------------------------------------------------------
(* The cache, the list and the count agree on what is open, whatever was   *)
(* opened and closed in between and however the cache grew                 *)
(* (esp_littlefs.c:1614-1725).                                             *)
TableAgrees ==
  LET held == {i \in DOMAIN cache : cache[i] # None} IN
  /\ {cache[i] : i \in held} = Range(list)
  /\ Cardinality(held) = count /\ Len(list) = count

(* A descriptor is its owner's: it stays with the file it was opened for   *)
(* until the owner closes it, and no other task is given it                *)
(* (esp_littlefs.c:1677-1687, 2130-2174).                                  *)
DescriptorsKept ==
  \A t \in Tasks : \A fd \in DOMAIN fds[t] :
    /\ fd \in DOMAIN cache /\ cache[fd] # None
    /\ file[cache[fd]].node = fds[t][fd] /\ file[cache[fd]].isopen
    /\ \A u \in Tasks \ {t} : fd \notin DOMAIN fds[u] /\ fd # doing[u]

(* A file that somebody has open is in the tree: unlink and rename refuse  *)
(* it (esp_littlefs.c:2350-2357, 2393-2404).                               *)
OpenFilesStay == \A h \in Range(list) : file[h].isopen => file[h].node \in Range(tree)

(* With nobody in a call the lock is free.                                 *)
LockGivenBack == holder = "nobody"

(* What is closed may be unlinked (the message at esp_littlefs.c:2352).    *)
ClosedIsFree ==
  \A p \in Paths :
    Busy(p) => \/ \E t \in Tasks : doing[t] # None
               \/ \E t \in Tasks : \E fd \in DOMAIN fds[t] : file[cache[fd]].path = p
============================================================================
