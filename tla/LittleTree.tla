----------------------------- MODULE LittleTree -----------------------------
(***************************************************************************)
(* littlefs: the directories.  A directory is a pair of blocks, named by   *)
(* an entry of its parent and threaded on a list of all directories by     *)
(* their tails.  An operation is a row of commits, each of them atomic     *)
(* (LittleLog), and power may fail between any two; a commit may have to   *)
(* move its directory to another pair.  What is half done is marked in the *)
(* global state, whose parts on the list are xored, and repaired later.    *)
(***************************************************************************)
EXTENDS Integers, FiniteSets, SequencesExt, FiniteSetsExt

CONSTANTS Blocks,   \* the blocks, 0 and 1 of them the root's
          Names, Values,
          Depth,    \* bound: directories on a path
          MaxOps, MaxMoves, MaxLosses, \* bounds: operations, relocations, power losses
          PerOp,    \* bound: relocations in one operation
          AfterLoss \* a commit may relocate after a power loss

Root == {0, 1}
NoPair == {}
Keep == {-1}        \* a commit that leaves the tail
LittleTreeAssumption ==
  /\ IsFiniteSet(Blocks) /\ Root \subseteq Blocks /\ Blocks \subseteq Nat
  /\ {Depth, MaxOps, MaxMoves, MaxLosses, PerOp} \subseteq Nat /\ AfterLoss \in BOOLEAN

VARIABLES
  disk, \* what each block holds of a directory
  ram,  \* lfs->gstate, lfs->gdisk and lfs->gdelta
  op,   \* the operation that runs: the steps it has left
  now,  \* history: the tree before and after the operation that runs
  used  \* history: operations, relocations and losses so far

vars == <<disk, ram, op, now, used>>

(* A value of the global state; the count of orphans is one bit on disk.   *)
NoG == [orph |-> FALSE, move |-> {}]
Xor(a, b) == [orph |-> a.orph # b.orph, move |-> SymDiff(a.move, b.move)]

File(v) == [is |-> v, pair |-> NoPair]
Folder(p) == [is |-> "dir", pair |-> p]
Blank == [ver |-> 0, ent |-> <<>>, tail |-> NoPair, g |-> NoG]

With(f, x, v) == [y \in DOMAIN f \cup {x} |-> IF y = x THEN v ELSE f[y]]
Without(f, s) == Restrict(f, DOMAIN f \ s)
Same(p, q) == p \cap q # {}

----------------------------------------------------------------------------
(* Reading.                                                                *)
Newest(d, p) == CHOOSE b \in p : \A c \in p : d[c].ver <= d[b].ver
Fetch(d, p) == d[Newest(d, p)]

List(d) ==
  LET L[i \in 1..Cardinality(Blocks)] ==
        IF i = 1 THEN Root ELSE IF L[i - 1] = NoPair THEN NoPair ELSE Fetch(d, L[i - 1]).tail IN
  SelectSeq([i \in 1..Cardinality(Blocks) |-> L[i]], LAMBDA p : p # NoPair)

OnDisk(d) == FoldSeq(LAMBDA p, g : Xor(Fetch(d, p).g, g), NoG, List(d))

(* An entry that is being moved is not seen where it comes from.           *)
Seen(d, g, p) ==
  {n \in DOMAIN Fetch(d, p).ent : \A m \in g.move : ~(Same(m.pair, p) /\ m.name = n)}
Folders(d, g, p) == {n \in Seen(d, g, p) : Fetch(d, p).ent[n].is = "dir"}

(* The pair of the directory at a path.                                    *)
Find(d, g, path) ==
  LET D[i \in 0..Len(path)] ==
        IF i = 0 THEN Root
        ELSE IF D[i - 1] # NoPair /\ path[i] \in Folders(d, g, D[i - 1])
             THEN Fetch(d, D[i - 1]).ent[path[i]].pair ELSE NoPair IN
  D[Len(path)]

(* What somebody who mounts the disk sees: the directories, and the tree.  *)
Dirs(d) ==
  LET g == OnDisk(d)
      D[i \in 0..(2 * Depth)] ==
        IF i = 0 THEN {<<<<>>, Root>>}
        ELSE D[i - 1] \cup {<<Append(x[1], n), Fetch(d, x[2]).ent[n].pair>> :
               <<x, n>> \in {y \in D[i - 1] \X Names : y[2] \in Folders(d, g, y[1][2])}} IN
  D[2 * Depth]
Tree(d) ==
  LET g == OnDisk(d) IN
  UNION {{<<Append(x[1], n), Fetch(d, x[2]).ent[n].is>> : n \in Seen(d, g, x[2])} : x \in Dirs(d)}
DirPairs(d) == {x[2] : x \in Dirs(d)}

(* The entry that names a directory, the first on the list, and the pair   *)
(* whose tail it is.                                                       *)
Parents(d, g, p) ==
  {<<q, n>> \in Range(List(d)) \X Names :
     n \in Folders(d, g, q) /\ Same(Fetch(d, q).ent[n].pair, p)}
Place(d, p) == SelectInSeq(List(d), LAMBDA q : q = p)
Parent(d, g, p) ==
  CHOOSE x \in Parents(d, g, p) : \A y \in Parents(d, g, p) : Place(d, x[1]) <= Place(d, y[1])
Preds(d, p) == {q \in Range(List(d)) : Same(Fetch(d, q).tail, p)}
Pred(d, p) == CHOOSE q \in Preds(d, p) : \A r \in Preds(d, p) : Place(d, q) <= Place(d, r)

(* The blocks an allocation takes to be in use.                            *)
Traversed(d) ==
  UNION {p \cup UNION {Fetch(d, p).ent[n].pair : n \in DOMAIN Fetch(d, p).ent} : p \in Range(List(d))}
Free == Blocks \ (Traversed(disk) \cup op.live)

----------------------------------------------------------------------------
(* One commit.                                                             *)
Gstate(r) == [orph |-> r.orphans > 0, move |-> r.move]
Pending(r) == Xor(Xor(Gstate(r), r.gdisk), r.gdelta)
Flushed(r) == [r EXCEPT !.gdelta = NoG, !.gdisk = Gstate(r)]

Edited(m, del, put, tail, delta) ==
  [m EXCEPT !.ent = [n \in (DOMAIN @ \ del) \cup DOMAIN put |->
                       IF n \in DOMAIN put THEN put[n] ELSE @[n]],
            !.tail = IF tail = Keep THEN @ ELSE tail, !.g = Xor(@, delta)]

(* Where it goes: into the pair, or, with one of its blocks replaced, into *)
(* another pair, which nobody knows yet; the pending global state waits    *)
(* for the commit that makes it known.                                     *)
Ways(p) ==
  {"append"} \cup (IF p # Root /\ Free # {} /\ used.moves < MaxMoves /\ op.moves < PerOp
                      /\ (used.losses > 0 => AfterLoss) THEN {"relocate"} ELSE {})
Target(p, way) == IF way = "append" THEN Newest(disk, p) ELSE Min(Free)
PairAfter(p, way) == IF way = "relocate" THEN {Newest(disk, p), Target(p, way)} ELSE p

Written(r, p, del, put, tail, way) ==
  LET delta == IF way = "relocate" THEN r.gdelta ELSE Pending(r)
      m == Edited(Fetch(disk, p), del, put, tail, delta) IN
  /\ disk' = [disk EXCEPT ![Target(p, way)] = IF way = "append" THEN m ELSE [m EXCEPT !.ver = @ + 1]]
  /\ ram' = IF way = "relocate" THEN [r EXCEPT !.gdelta = NoG] ELSE Flushed(r)
  /\ used' = IF way = "relocate" THEN [used EXCEPT !.moves = @ + 1] ELSE used

PrepOrphans(r, n) == [r EXCEPT !.orphans = @ + n]
NoPrepMove(r, m) == r
PrepMove(r, m) == [r EXCEPT !.move = m]

(* A move that is pending in a pair is finished by a commit to it.         *)
MoveHere(r, p) == {m \in r.move : Same(m.pair, p)}
Moved(r, p) == {m.name : m \in MoveHere(r, p)}
MoveFixed(r, p) == IF MoveHere(r, p) # {} THEN PrepMove(r, {}) ELSE r

----------------------------------------------------------------------------
(* The steps of an operation.                                              *)
Commit(p, del, put, tail) ==
  [a |-> "commit", at |-> p, del |-> del, put |-> put, tail |-> tail]
FixParent(l, n) == [a |-> "parent", from |-> l, to |-> n]
FixPred(l, n, hasparent) == [a |-> "pred", from |-> l, to |-> n, hasparent |-> hasparent]
DropDir(p) == [a |-> "drop", dir |-> p]
DeleteMoved(p, n) == [a |-> "unmove", at |-> p, name |-> n]
Deorphan(power) == [a |-> "deorphan", power |-> power, pass |-> 0, more |-> FALSE, begun |-> FALSE]

NoOp == [todo |-> <<>>, live |-> {}, orphaned |-> FALSE, moves |-> 0]

(* A directory that is going to be dropped follows its pair.               *)
Tracked(todo, l, n) ==
  [i \in DOMAIN todo |-> IF todo[i].a = "drop" /\ Same(todo[i].dir, l)
                         THEN [todo[i] EXCEPT !.dir = n] ELSE todo[i]]

(* After a commit: with the pair relocated its parent is next, after that  *)
(* the commit is done; when that left orphans behind they are repaired.    *)
Ended(todo) ==
  IF ~op.orphaned THEN todo
  ELSE IF todo # <<>> /\ Head(todo).a = "deorphan" /\ Head(todo).begun
       THEN <<[Head(todo) EXCEPT !.more = TRUE]>> \o Tail(todo)
       ELSE <<Deorphan(FALSE)>> \o todo
Continue(todo, orphaned) == op' = [op EXCEPT !.todo = todo, !.orphaned = orphaned]

After(p, way, rest) ==
  LET n == PairAfter(p, way) IN
  op' = [op EXCEPT
    !.todo = IF way = "relocate" THEN <<FixParent(p, n)>> \o Tracked(rest, p, n) ELSE Ended(rest),
    !.orphaned = way = "relocate" /\ @, !.live = @ \cup n,
    !.moves = IF way = "relocate" THEN @ + 1 ELSE @]

DoCommit(s, rest) ==
  /\ s.a = "commit"
  /\ \E way \in Ways(s.at) :
       Written(ram, s.at, s.del, s.put, s.tail, way) /\ After(s.at, way, rest)

(* The other half of a move, unless a relocation has done it.              *)
DoDeleteMoved(s, rest) ==
  /\ s.a = "unmove"
  /\ \/ ram.move = {} /\ Continue(rest, op.orphaned) /\ UNCHANGED <<disk, ram, used>>
     \/ /\ ram.move # {}
        /\ \E way \in Ways(s.at) :
             /\ Written(PrepMove(ram, {}), s.at, {s.name}, <<>>, Keep, way)
             /\ After(s.at, way, rest)

DoFixParent(s, rest) ==
  /\ s.a = "parent"
  /\ \/ /\ Parents(disk, ram.gdisk, s.from) = {}
        /\ Continue(<<FixPred(s.from, s.to, FALSE)>> \o rest, op.orphaned)
        /\ UNCHANGED <<disk, ram, used>>
     \/ /\ Parents(disk, ram.gdisk, s.from) # {}
        /\ LET x == Parent(disk, ram.gdisk, s.from)
               r == PrepOrphans(ram, 1) IN
           \E way \in Ways(x[1]) :
             /\ Written(MoveFixed(r, x[1]), x[1], Moved(r, x[1]), x[2] :> Folder(s.to), Keep, way)
             /\ IF way = "relocate"
                THEN op' = [op EXCEPT
                       !.todo = <<FixParent(x[1], PairAfter(x[1], way))>>
                                \o Tracked(rest, x[1], PairAfter(x[1], way)),
                       !.orphaned = TRUE, !.live = @ \cup PairAfter(x[1], way), !.moves = @ + 1]
                ELSE Continue(<<FixPred(s.from, s.to, TRUE)>> \o rest, op.orphaned)

DoFixPred(s, rest) ==
  /\ s.a = "pred"
  /\ \/ /\ Preds(disk, s.from) = {}
        /\ Continue(Ended(rest), FALSE) /\ UNCHANGED <<disk, ram, used>>
     \/ /\ Preds(disk, s.from) # {}
        /\ LET p == Pred(disk, s.from)
               r == IF ram.orphans > 0 /\ s.hasparent THEN PrepOrphans(ram, -1) ELSE ram IN
           \E way \in Ways(p) :
             /\ Written(MoveFixed(r, p), p, Moved(r, p), <<>>, s.to, way)
             /\ After(p, way, rest)

(* The tail and the global state of a dropped directory are its pred's.    *)
Stolen(r, p) == [r EXCEPT !.gdelta = Xor(@, Fetch(disk, p).g)]
DoDrop(s, rest) ==
  /\ s.a = "drop"
  /\ \/ ram.orphans = 0 /\ Continue(rest, op.orphaned) /\ UNCHANGED <<disk, ram, used>>
     \/ /\ ram.orphans > 0
        /\ LET p == Pred(disk, s.dir) IN
           \E way \in Ways(p) :
             /\ Written(Stolen(PrepOrphans(ram, -1), s.dir), p, {}, <<>>, Fetch(disk, s.dir).tail, way)
             /\ After(p, way, rest)

(* Two passes over the list: for pairs that were relocated, and, after a   *)
(* power loss, for directories that nobody names.                          *)
Desynced(i) ==
  LET t == List(disk)[i] IN
  /\ Parents(disk, ram.gdisk, t) # {}
  /\ LET x == Parent(disk, ram.gdisk, t) IN Fetch(disk, x[1]).ent[x[2]].pair # t
Orphaned(i) == Parents(disk, ram.gdisk, List(disk)[i]) = {}
ToFix(s) ==
  {i \in 2..Len(List(disk)) : IF s.pass = 0 THEN Desynced(i) ELSE s.power /\ Orphaned(i)}

DoDeorphan(s, rest) ==
  /\ s.a = "deorphan"
  /\ \/ /\ ram.orphans = 0 \/ s.pass = 2
        /\ Continue(rest, FALSE) /\ ram' = [ram EXCEPT !.orphans = 0] /\ UNCHANGED <<disk, used>>
     \/ /\ ram.orphans > 0 /\ s.pass < 2 /\ ToFix(s) = {}
        /\ Continue(<<[s EXCEPT !.begun = TRUE, !.more = FALSE,
                                !.pass = IF s.more THEN 0 ELSE @ + 1]>> \o rest, FALSE)
        /\ UNCHANGED <<disk, ram, used>>
     \/ /\ ram.orphans > 0 /\ s.pass < 2 /\ ToFix(s) # {}
        /\ LET i == Min(ToFix(s))
               p == List(disk)[i - 1]
               t == List(disk)[i]
               x == Parent(disk, ram.gdisk, t)
               again == <<[s EXCEPT !.begun = TRUE]>> \o rest IN
           \E way \in Ways(p) :
             /\ IF s.pass = 0
                THEN Written(MoveFixed(ram, p), p, Moved(ram, p), <<>>,
                             Fetch(disk, x[1]).ent[x[2]].pair, way)
                ELSE Written(Stolen(ram, t), p, {}, <<>>, Fetch(disk, t).tail, way)
             /\ After(p, way, again)

(* A new directory: the version of its first block is behind whatever the  *)
(* other one still holds.                                                  *)
VerOfNew(b) == disk[b].ver + 1
Make(p, n) == [a |-> "make", at |-> p, name |-> n]
DoMake(s, rest) ==
  /\ s.a = "make" /\ Cardinality(Free) >= 2
  /\ LET b == Min(Free)
         c == Min(Free \ {b}) IN
     /\ disk' = [disk EXCEPT ![b] = [ver |-> VerOfNew(c), ent |-> <<>>,
                                     tail |-> Fetch(disk, s.at).tail, g |-> Pending(ram)]]
     /\ ram' = Flushed(ram)
     /\ op' = [op EXCEPT !.live = @ \cup {b, c},
                         !.todo = <<Commit(s.at, {}, s.name :> Folder({b, c}), {b, c})>> \o rest]
  /\ UNCHANGED used

Step ==
  /\ op.todo # <<>>
  /\ LET s == Head(op.todo)
         rest == Tail(op.todo) IN
     \/ DoCommit(s, rest) \/ DoDeleteMoved(s, rest) \/ DoFixParent(s, rest)
     \/ DoFixPred(s, rest) \/ DoDrop(s, rest) \/ DoDeorphan(s, rest) \/ DoMake(s, rest)
  /\ now' = IF op'.todo = <<>> THEN [before |-> now.after, after |-> now.after] ELSE now

----------------------------------------------------------------------------
(* The operations.                                                         *)
Consistent == ram.orphans = 0 /\ ram.gdisk.move = {}
Begin(r, todo, after) ==
  /\ op.todo = <<>> /\ Consistent /\ used.ops < MaxOps
  /\ ram' = r /\ op' = [NoOp EXCEPT !.todo = todo]
  /\ now' = [before |-> now.after, after |-> after]
  /\ used' = [used EXCEPT !.ops = @ + 1] /\ UNCHANGED disk

(* Every operation that writes repairs first what it finds half done: the  *)
(* move of the global state, then the orphans.                             *)
Demove ==
  [i \in 1..Cardinality(ram.gdisk.move) |->
     LET m == CHOOSE x \in ram.gdisk.move : TRUE IN DeleteMoved(m.pair, m.name)]

ForceConsistency ==
  /\ op.todo = <<>> /\ ~Consistent
  /\ op' = [NoOp EXCEPT !.todo = Demove \o <<Deorphan(TRUE)>>]
  /\ UNCHANGED <<disk, ram, now, used>>

At(path) == Find(disk, ram.gdisk, path)
Cwd(path) == At(Front(path))
There(path) == Cwd(path) # NoPair /\ Last(path) \in Seen(disk, ram.gdisk, Cwd(path))
Entry(path) == Fetch(disk, Cwd(path)).ent[Last(path)]
IsFolder(path) == There(path) /\ Entry(path).is = "dir"
IsEmpty(path) == Fetch(disk, Entry(path).pair).ent = <<>>

Subtree(path) == {x \in now.after : IsPrefix(path, x[1])}
Put(tree, path, is) == {x \in tree : x[1] # path} \cup {<<path, is>>}

Store(path, v) ==
  /\ Cwd(path) # NoPair /\ ~IsFolder(path)
  /\ Begin(ram, <<Commit(Cwd(path), {}, Last(path) :> File(v), Keep)>>, Put(now.after, path, v))

Mkdir(path) ==
  /\ Cwd(path) # NoPair /\ ~There(path)
  /\ Begin(ram, <<Make(Cwd(path), Last(path))>>, Put(now.after, path, "dir"))

(* The directory is marked as an orphan with the commit that deletes its   *)
(* entry.                                                                  *)
UnmarkedUnlink(r, dropped) == r
Unlinked(r, dropped) == IF dropped THEN PrepOrphans(r, 1) ELSE r
Dropping(path, dropped) == IF dropped THEN <<DropDir(Entry(path).pair)>> ELSE <<>>

Delete(path) ==
  /\ There(path) /\ (IsFolder(path) => IsEmpty(path))
  /\ Begin(Unlinked(ram, IsFolder(path)),
           <<Commit(Cwd(path), {Last(path)}, <<>>, Keep)>> \o Dropping(path, IsFolder(path)),
           now.after \ Subtree(path))

(* A move within a directory is one commit; another one is marked by the   *)
(* commit that creates the new entry, and hides the old one from then on.  *)
Rename(path, to) ==
  LET same == Same(Cwd(path), Cwd(to))
      replaces == IsFolder(to)
      r == Unlinked(ram, replaces)
      mark == {[pair |-> Cwd(path), name |-> Last(path)]}
      moved == {<<to \o SubSeq(x[1], Len(path) + 1, Len(x[1])), x[2]>> : x \in Subtree(path)} IN
  /\ There(path) /\ Cwd(to) # NoPair /\ ~IsPrefix(path, to)
  /\ There(to) => IsFolder(to) = IsFolder(path) /\ (IsFolder(to) => IsEmpty(to))
  /\ Begin(IF same THEN r ELSE PrepMove(r, mark),
           (IF same THEN <<Commit(Cwd(to), {Last(path)}, Last(to) :> Entry(path), Keep)>>
            ELSE <<Commit(Cwd(to), {}, Last(to) :> Entry(path), Keep),
                   DeleteMoved(Cwd(path), Last(path))>>)
           \o Dropping(to, replaces),
           (now.after \ (Subtree(path) \cup Subtree(to))) \cup moved)

(* Power fails; what the next mount reads.                                 *)
MountedBlind(d) ==
  [orphans |-> 0, move |-> OnDisk(d).move, gdisk |-> OnDisk(d), gdelta |-> NoG]
Mounted(d) ==
  [orphans |-> IF OnDisk(d).orph THEN 1 ELSE 0, move |-> OnDisk(d).move,
   gdisk |-> OnDisk(d), gdelta |-> NoG]
PowerLoss ==
  /\ op.todo # <<>> /\ used.losses < MaxLosses
  /\ ram' = Mounted(disk) /\ op' = NoOp
  /\ now' = [before |-> Tree(disk), after |-> Tree(disk)]
  /\ used' = [used EXCEPT !.losses = @ + 1] /\ UNCHANGED disk

Paths == UNION {[1..k -> Names] : k \in 1..Depth}

(* Two directories in the root, the older one last on the list; or one in  *)
(* the other.                                                              *)
Dir(ver, ent, tail) == [ver |-> ver, ent |-> ent, tail |-> tail, g |-> NoG]
Laid(contents) == [b \in Blocks |-> IF b \in DOMAIN contents THEN contents[b] ELSE Blank]
Init ==
  /\ LET x == CHOOSE n \in Names : TRUE
         y == CHOOSE n \in Names \ {x} : TRUE
         f == File(CHOOSE v \in Values : TRUE) IN
     disk \in {Laid((0 :> Dir(1, (x :> Folder({2, 3})) @@ (y :> Folder({4, 5})), {4, 5})) @@
                    (2 :> Dir(1, <<>>, NoPair)) @@ (4 :> Dir(1, x :> f, {2, 3}))),
               Laid((0 :> Dir(1, x :> Folder({2, 3}), {2, 3})) @@
                    (2 :> Dir(1, (x :> Folder({4, 5})) @@ (y :> f), {4, 5})) @@
                    (4 :> Dir(1, <<>>, NoPair)))}
  /\ ram = Mounted(disk) /\ op = NoOp
  /\ now = [before |-> Tree(disk), after |-> Tree(disk)]
  /\ used = [ops |-> 0, moves |-> 0, losses |-> 0]

Next ==
  \/ Step \/ ForceConsistency \/ PowerLoss
  \/ \E path \in Paths : Mkdir(path) \/ Delete(path) \/ \E v \in Values : Store(path, v)
  \/ \E path, to \in Paths : Rename(path, to)

Spec == Init /\ [][Next]_vars

----------------------------------------------------------------------------
(* Whenever power fails, what the next mount sees is the tree before the   *)
(* operation or after it, and after it the tree is as the operation says:  *)
(* a rename neither loses an entry nor leaves it in both places, also when *)
(* directories had to be relocated on the way (lfs.c:3969-4112, 2409-2598).*)
TreeIsAtomic ==
  /\ Tree(disk) \in {now.before, now.after}
  /\ op.todo = <<>> => Tree(disk) = now.after

(* The list of directories and the tree differ only while the disk says so *)
(* (lfs.c:3922-3926, 2500-2594, 5000-5128).                                *)
OrphansAreMarked == Range(List(disk)) # DirPairs(disk) => OnDisk(disk).orph

(* With nothing to repair they agree, and nothing is being moved.          *)
RepairedIsWhole ==
  op.todo = <<>> /\ Consistent => Range(List(disk)) = DirPairs(disk) /\ OnDisk(disk).move = {}

(* What is read back of the global state is one of its values, and what    *)
(* the running system believes to be on disk (lfs.c:1396-1412, 2308-2339). *)
GstateAgrees ==
  /\ Cardinality(OnDisk(disk).move) <= 1
  /\ op.todo = <<>> => OnDisk(disk) = ram.gdisk
============================================================================
