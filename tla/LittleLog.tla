----------------------------- MODULE LittleLog -----------------------------
(***************************************************************************)
(* littlefs: one directory as it lies on the flash.  Two blocks hold logs  *)
(* of commits, each commit a row of tags closed by a checksum; the block   *)
(* with the newer revision counts.  A commit is appended, or, when there   *)
(* is no room or the flash refuses, the log is compacted into the other    *)
(* block, or into a new one when that is worn or bad.  Entries are         *)
(* addressed by their place, which every create and delete shifts: reading *)
(* replays the shifts, and files that are open are shifted along.          *)
(***************************************************************************)
EXTENDS Integers, FiniteSets, SequencesExt, FiniteSetsExt

CONSTANTS
  Blocks,
  Names, Values,    \* names are numbers, for their order
  RevMod, Cycles,   \* revisions wrap; every Cycles-th compaction moves
  Revs,             \* bound: the revisions that blocks were left with
  Room,             \* tags in a block
  MaxOps, MaxLosses, MaxBad \* bounds: operations, power losses, refused writes

LittleLogAssumption ==
  /\ IsFiniteSet(Blocks) /\ Cardinality(Blocks) > 1 /\ IsFiniteSet(Names) /\ Names \subseteq Nat
  /\ RevMod \in Nat \ {0, 1} /\ Cycles \in 2..(RevMod \div 2 - 1) /\ Revs \subseteq 0..(RevMod - 1) /\ 2 * Cardinality(Names) <= Room
  /\ {MaxOps, MaxLosses, MaxBad} \subseteq Nat

VARIABLES
  block,  \* what each block holds
  known,  \* the pair its parent names
  open,   \* lfs->mlist: the files of this directory that are open
  op,     \* the commit that runs
  kept,   \* history: the entries before and after the commit that runs
  used    \* history: operations, losses and refused writes so far

vars == <<block, known, open, op, kept, used>>

Create(id) == [t |-> "create", id |-> id, is |-> 0]
Delete(id) == [t |-> "delete", id |-> id, is |-> 0]
Name(id, n) == [t |-> "name", id |-> id, is |-> n]
Struct(id, v) == [t |-> "struct", id |-> id, is |-> v]
IsSplice(tag) == tag.t \in {"create", "delete"}
Splice(tag) == IF tag.t = "create" THEN 1 ELSE -1

----------------------------------------------------------------------------
(* Reading.  Revisions are compared as signed differences.                 *)
ScmpPlain(a, b) == a > b
Scmp(a, b) == LET d == (a - b) % RevMod IN d > 0 /\ 2 * d < RevMod
First(p) == IF Scmp(block[p[2]].rev, block[p[1]].rev) THEN 2 ELSE 1
FetchedFrom(p) == IF block[p[First(p)]].log # <<>> THEN First(p) ELSE 3 - First(p)

(* What follows the last commit is known to be erased by its checksum.     *)
Erased(b) == block[b].after = "erased" /\ Len(FlattenSeq(block[b].log)) < Room
Fetch(p) ==
  LET i == FetchedFrom(p) IN
  [pair |-> <<p[i], p[3 - i]>>, rev |-> block[p[i]].rev, erased |-> Erased(p[i])]
Tags(m) == FlattenSeq(block[m.pair[1]].log)

Count(tags) ==
  FoldLeft(LAMBDA c, tag : IF IsSplice(tag) THEN c + Splice(tag)
                           ELSE IF tag.t = "name" /\ tag.id >= c THEN tag.id + 1 ELSE c, 0, tags)

(* Backwards, for the tag of a place: the place moves with every splice,   *)
(* and a create of the place itself ends the search.                       *)
NoTag == [t |-> "none", id |-> -1, is |-> -1]
Slice(tags, type, id) ==
  FoldRight(
    LAMBDA tag, s :
      IF s.done THEN s
      ELSE LET own == IsSplice(tag) /\ tag.id <= s.id
               moved == IF own THEN s.id - Splice(tag) ELSE s.id IN
           IF tag.t = "create" /\ tag.id = s.id THEN [s EXCEPT !.done = TRUE]
           ELSE IF tag.t = type /\ tag.id = moved THEN [done |-> TRUE, id |-> moved, tag |-> tag]
           ELSE [s EXCEPT !.id = moved],
    tags, [done |-> FALSE, id |-> id, tag |-> NoTag]).tag
Entry(tags, id) == <<Slice(tags, "name", id).is, Slice(tags, "struct", id).is>>
View(m) == {Entry(Tags(m), i) : i \in 0..(Count(Tags(m)) - 1)}

(* Forwards, for a name: the best tag so far, which is either the name's   *)
(* or the first that is greater, the place where it would be.              *)
None == [id |-> 1023, valid |-> FALSE]
MatchAnywhere(best, tag, n) ==
  CASE tag.t = "name" /\ tag.is = n -> [id |-> tag.id, valid |-> TRUE]
    [] tag.t = "name" /\ tag.is > n /\ ~best.valid -> [id |-> tag.id, valid |-> FALSE]
    [] tag.t = "delete" /\ tag.id = best.id -> [best EXCEPT !.valid = FALSE]
    [] IsSplice(tag) /\ best # None /\ tag.id <= best.id /\ tag # Delete(best.id) ->
         [best EXCEPT !.id = @ + Splice(tag)]
    [] OTHER -> best
Match(best, tag, n) ==
  CASE tag.t = "name" /\ tag.is = n -> [id |-> tag.id, valid |-> TRUE]
    [] tag.t = "name" /\ tag.is # n /\ tag.id = best.id -> None
    [] tag.t = "name" /\ tag.is > n /\ tag.id < best.id -> [id |-> tag.id, valid |-> FALSE]
    [] tag.t = "delete" /\ tag.id = best.id -> [best EXCEPT !.valid = FALSE]
    [] IsSplice(tag) /\ best # None /\ tag.id <= best.id /\ tag # Delete(best.id) ->
         [best EXCEPT !.id = @ + Splice(tag)]
    [] OTHER -> best
Find(tags, n) ==
  LET best == FoldLeft(LAMBDA b, tag : Match(b, tag, n), None, tags) IN
  [id |-> Min({best.id, Count(tags)}), found |-> best.valid]

----------------------------------------------------------------------------
(* Compacting: what no later tag replaces, under its final place.          *)
ShiftOf(place, tag) ==
  IF IsSplice(tag) /\ tag.id <= place.id THEN [place EXCEPT !.id = @ + Splice(tag)] ELSE place
Filtered(own, tag) ==
  IF own = NoTag \/ (tag.t = own.t /\ tag.id = own.id) \/ tag = Delete(own.id) THEN NoTag
  ELSE ShiftOf(own, tag)
Compacted(tags) ==
  LET final == [i \in DOMAIN tags |-> FoldLeft(Filtered, tags[i], SubSeq(tags, i + 1, Len(tags)))] IN
  SelectSeq(final, LAMBDA tag : tag.t \in {"name", "struct"})

(* Files that are open follow the splices of others' commits.              *)
FollowedNot(h, attrs) == h
Followed(h, attrs) ==
  FoldLeft(LAMBDA g, tag : IF tag.t = "delete" /\ tag.id = g.id THEN [g EXCEPT !.pair = <<>>]
                           ELSE ShiftOf(g, tag), h, attrs)

Same(p, q) == Range(p) \cap Range(q) # {}
Tired(rev) == (rev + 1) % Cycles = 0
Frozen(p) == Range(p) = {0, 1}
Cleared(rev) == [rev |-> rev, log |-> <<>>, after |-> "torn"]
FreeBlocks == Blocks \ ({0, 1} \cup Range(known) \cup Range(op.m.pair))

(* lfs_dir_alloc: the revision of the new block is made to follow what the *)
(* other block of the pair still holds, up to the next multiple.           *)
AlignUp(rev) == LET r == (rev + Cycles - 1) % RevMod IN r - (r % Cycles)

NoMdir == [pair |-> <<>>, rev |-> 0, erased |-> FALSE]
NoOp == [at |-> "idle", m |-> NoMdir, attrs |-> <<>>, tired |-> FALSE, moved |-> FALSE, self |-> {}]
Idle == op.at = "idle"

----------------------------------------------------------------------------
(* A commit begins: the attributes of the operation, and the entries as    *)
(* they will be.                                                           *)
Commit(m, attrs, self, after) ==
  /\ Idle /\ used.ops < MaxOps
  /\ op' = [NoOp EXCEPT !.at = IF m.erased THEN "append" ELSE "compact",
                        !.m = m, !.attrs = attrs, !.self = self]
  /\ kept' = [before |-> kept.after, after |-> after]
  /\ used' = [used EXCEPT !.ops = @ + 1] /\ UNCHANGED <<block, known, open>>

Dir == Fetch(known)
Looked(n) == Find(Tags(Dir), n)
Value(n) == Slice(Tags(Dir), "struct", Looked(n).id).is
Without(n) == {e \in kept.after : e[1] # n}
IsOpen(n) == \E h \in open : h.name = n

NewPair == LET b == Min(Blocks \ {0, 1}) IN <<Min(Blocks \ {0, 1, b}), b>>
MakeDir ==
  /\ known = <<>> /\ Idle
  /\ op' = [NoOp EXCEPT !.at = "compact",
                        !.m = [pair |-> NewPair, rev |-> AlignUp(block[NewPair[1]].rev), erased |-> FALSE]]
  /\ UNCHANGED <<block, known, open, kept, used>>

Open(n, new) ==
  /\ known # <<>> /\ ~IsOpen(n)
  /\ LET at == Looked(n).id
         h == [name |-> n, pair |-> Dir.pair, id |-> at] IN
     \/ /\ Looked(n).found /\ ~new /\ Idle /\ open' = open \cup {h}
        /\ UNCHANGED <<block, known, op, kept, used>>
     \/ /\ ~Looked(n).found /\ new
        /\ Commit(Dir, <<Create(at), Name(at, n), Struct(at, 0)>>, {h}, kept.after \cup {<<n, 0>>})

Sync(h, v) ==
  /\ h.pair # <<>>
  /\ Commit(Fetch(h.pair), <<Struct(h.id, v)>>, {}, Without(h.name) \cup {<<h.name, v>>})

Close(h) == Idle /\ open' = open \ {h} /\ UNCHANGED <<block, known, op, kept, used>>

Unlink(n) ==
  /\ known # <<>> /\ Looked(n).found /\ ~IsOpen(n)
  /\ Commit(Dir, <<Delete(Looked(n).id)>>, {}, Without(n))

(* Within the directory: the old entry has moved up when the new one comes *)
(* before it and replaces none.                                            *)
OldPlace(old, new) == IF ~new.found /\ new.id <= old.id THEN old.id + 1 ELSE old.id
Rename(n, to) ==
  LET old == Looked(n)
      new == Looked(to) IN
  /\ known # <<>> /\ n # to /\ old.found /\ ~IsOpen(n) /\ ~IsOpen(to)
  /\ Commit(Dir, (IF new.found THEN <<Delete(new.id)>> ELSE <<>>)
                 \o <<Create(new.id), Name(new.id, to), Struct(new.id, Value(n)),
                      Delete(OldPlace(old, new))>>, {},
            {e \in kept.after : e[1] \notin {n, to}} \cup {<<to, Value(n)>>})

----------------------------------------------------------------------------
(* The commit.                                                             *)
Go(at) == op' = [op EXCEPT !.at = at]

(* The tags are on the flash: open files are told, and a pair that changed *)
(* is made known by its parent.                                            *)
Committed(m) ==
  /\ open' = {IF Same(h.pair, op.m.pair) THEN [Followed(h, op.attrs) EXCEPT !.pair = m.pair] ELSE h : h \in open}
             \cup {[h EXCEPT !.pair = m.pair] : h \in op.self}
  /\ IF op.moved \/ known = <<>> THEN op' = [op EXCEPT !.at = "parent", !.m = m] ELSE op' = NoOp
  /\ kept' = IF op'.at = "idle" THEN [kept EXCEPT !.before = kept.after] ELSE kept
  /\ UNCHANGED known

Extend ==
  /\ op.at = "append"
  /\ \/ /\ Len(Tags(op.m)) + Len(op.attrs) <= Room /\ Go("program")
        /\ block' = [block EXCEPT ![op.m.pair[1]].after = "torn"]
     \/ /\ Len(Tags(op.m)) + Len(op.attrs) > Room /\ Go("compact")
        /\ \E a \in {"erased", "torn"} : block' = [block EXCEPT ![op.m.pair[1]].after = a]
  /\ UNCHANGED <<known, open, kept, used>>

Program ==
  /\ op.at = "program"
  /\ block' = [block EXCEPT ![op.m.pair[1]].log = Append(@, op.attrs), ![op.m.pair[1]].after = "erased"]
  /\ Committed(op.m) /\ UNCHANGED used

(* The flash refuses, or what is read back is not what was written.        *)
Refused == used.bad < MaxBad /\ used' = [used EXCEPT !.bad = @ + 1]
ProgramRefused ==
  /\ op.at = "program" /\ Refused /\ Go("compact") /\ UNCHANGED <<block, known, open, kept>>

Compact ==
  /\ op.at = "compact"
  /\ op' = [op EXCEPT !.at = IF Tired(op.m.rev) /\ ~Frozen(op.m.pair) THEN "relocate" ELSE "erase",
                      !.tired = Tired(op.m.rev), !.m.rev = (@ + 1) % RevMod]
  /\ UNCHANGED <<block, known, open, kept, used>>

(* The revision it shows until it is written may be newer or older.        *)
Erase ==
  /\ op.at = "erase" /\ Go("write")
  /\ \E rev \in {op.m.rev, (op.m.rev - 2) % RevMod} : block' = [block EXCEPT ![op.m.pair[2]] = Cleared(rev)]
  /\ UNCHANGED <<known, open, kept, used>>

(* A new directory has no log to compact.                                  *)
CompactedLog == Compacted((IF known = <<>> THEN <<>> ELSE Tags(op.m)) \o op.attrs)
Swapped == [op.m EXCEPT !.pair = <<op.m.pair[2], op.m.pair[1]>>]
Write ==
  /\ op.at = "write"
  /\ block' = [block EXCEPT ![op.m.pair[2]] = [rev |-> op.m.rev, log |-> <<CompactedLog>>, after |-> "erased"]]
  /\ Committed(Swapped) /\ UNCHANGED used
WriteRefused ==
  /\ op.at = "write" /\ Refused /\ Go("relocate") /\ UNCHANGED <<block, known, open, kept>>

(* Another block instead of the worn or bad one.  A block that is only     *)
(* worn is used once more when there is none; the superblock cannot move.  *)
Fail == op' = NoOp /\ kept' = [kept EXCEPT !.after = kept.before] /\ open' = open
Relocate ==
  /\ op.at = "relocate" /\ UNCHANGED <<block, known, used>>
  /\ \/ Frozen(op.m.pair) /\ Fail
     \/ /\ ~Frozen(op.m.pair) /\ FreeBlocks # {} /\ UNCHANGED <<open, kept>>
        /\ op' = [op EXCEPT !.at = "erase", !.tired = FALSE, !.moved = TRUE, !.m.pair[2] = Min(FreeBlocks)]
     \/ /\ ~Frozen(op.m.pair) /\ FreeBlocks = {} /\ op.tired /\ UNCHANGED <<open, kept>>
        /\ op' = [op EXCEPT !.at = "erase", !.tired = FALSE, !.moved = TRUE]
     \/ ~Frozen(op.m.pair) /\ FreeBlocks = {} /\ ~op.tired /\ Fail

(* The parent's entry, and the tail of the directory before it.            *)
Parent ==
  /\ op.at = "parent" /\ known' = op.m.pair /\ op' = NoOp
  /\ kept' = [kept EXCEPT !.before = kept.after] /\ UNCHANGED <<block, open, used>>

PowerLoss ==
  /\ ~Idle /\ used.losses < MaxLosses /\ op' = NoOp /\ open' = {}
  /\ LET seen == IF known = <<>> THEN {} ELSE View(Dir) IN kept' = [before |-> seen, after |-> seen]
  /\ used' = [used EXCEPT !.losses = @ + 1] /\ UNCHANGED <<block, known>>

(* The root of a file system; or no directory yet, and blocks that still   *)
(* hold another one.                                                       *)
Entered(id, n, v) == <<Create(id), Name(id, n), Struct(id, v)>>
Stale(rev) == [rev |-> rev, log |-> <<Entered(0, Min(Names), Min(Values))>>, after |-> "torn"]
Init ==
  /\ \/ /\ known = <<0, 1>>
        /\ \E n \in Names :
             /\ block = [b \in Blocks |-> IF b = 0 THEN [rev |-> 1, log |-> <<Entered(0, n, 0)>>, after |-> "erased"]
                                          ELSE Stale(0)]
             /\ kept = [before |-> {<<n, 0>>}, after |-> {<<n, 0>>}]
     \/ /\ known = <<>> /\ \E rev \in Revs : block = [b \in Blocks |-> Stale(rev)]
        /\ kept = [before |-> {}, after |-> {}]
  /\ open = {} /\ op = NoOp
  /\ used = [ops |-> 0, losses |-> 0, bad |-> 0]

Next ==
  \/ MakeDir
  \/ \E n \in Names : Unlink(n) \/ (\E new \in BOOLEAN : Open(n, new)) \/ \E to \in Names : Rename(n, to)
  \/ \E h \in open : Close(h) \/ \E v \in Values : Sync(h, v)
  \/ Extend \/ Program \/ ProgramRefused \/ Compact \/ Erase \/ Write \/ WriteRefused
  \/ Relocate \/ Parent \/ PowerLoss

Spec == Init /\ [][Next]_vars

----------------------------------------------------------------------------
(* Whenever power fails, mounting finds the entries from before the commit *)
(* or from after it, and between commits those of the last one: whatever   *)
(* the flash refused, whichever block is newer and however often revisions *)
(* have wrapped (lfs.c:1107-1387, 1953-2123).                              *)
DirIsAtomic ==
  known # <<>> =>
    /\ View(Dir) \in {kept.before, kept.after} /\ Cardinality(View(Dir)) = Count(Tags(Dir))
    /\ Idle => View(Dir) = kept.after

(* Reading forwards and backwards agree: a name is found where its entry   *)
(* is, and one that is not there is given its place in the order           *)
(* (lfs.c:719-778, 1248-1330).                                             *)
FindAgrees ==
  known # <<>> => \A n \in Names :
    LET f == Looked(n) IN
    /\ f.found <=> \E e \in View(Dir) : e[1] = n
    /\ f.found => Entry(Tags(Dir), f.id)[1] = n
    /\ f.id = Cardinality({e \in View(Dir) : e[1] < n})

(* A file that is open stays at its entry while others come and go before  *)
(* it and its directory is compacted and moved (lfs.c:2356-2400).          *)
OpenFollow ==
  Idle => \A h \in open : h.pair # <<>> /\ Same(h.pair, known) /\ Entry(Tags(Dir), h.id)[1] = h.name
=============================================================================
