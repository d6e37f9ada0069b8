----------------------------- MODULE LittleFile -----------------------------
(***************************************************************************)
(* littlefs: the contents of files.  A small file lies in its directory    *)
(* entry; a larger one in blocks, each with pointers to the blocks         *)
(* 1, 2, 4, ... before it, read from the last.  Writing copies: the blocks *)
(* of the new content are private to the handle until it is synced.  What  *)
(* is free is found by walking what is in use, a window of blocks at a     *)
(* time.                                                                   *)
(***************************************************************************)
EXTENDS Integers, FiniteSets, SequencesExt, FiniteSetsExt

CONSTANTS
  N, Bad,       \* blocks 0..N-1, and those that cannot be erased
  B,            \* cells in a block; a pointer takes one
  InlineMax,    \* cells that fit in the entry
  Window,       \* blocks that are looked ahead
  Files, Handles,
  Lengths, Places, \* what is read and written at a time, where to seek and truncate
  MaxSize, MaxOps   \* bounds: cells of a file, operations

LittleFileAssumption ==
  /\ {N, B, InlineMax, Window, MaxSize, MaxOps} \cup Lengths \cup Places \subseteq Nat
  /\ N > 0 /\ B > 5 /\ 0 < InlineMax /\ InlineMax < B /\ Window > 0 /\ Bad \subseteq 0..(N - 1)

VARIABLES
  fs,   \* the flash, the entries, the open files and the allocator
  said, \* history: what was written, per file and per handle
  got,  \* the last read and what it should have been
  ops   \* operations so far

vars == <<fs, said, got, ops>>

Inline == N    \* LFS_BLOCK_INLINE, a number of no block
NoBlock == N + 1
NoHandle == [file |-> "none"]
Empty == [head |-> Inline, size |-> 0, buf |-> <<>>]
IsOpen(s, x) == s.h[x] # NoHandle
Has(s, x, flag) == flag \in s.h[x].fl

----------------------------------------------------------------------------
(* The list of blocks of a file.                                           *)
RECURSIVE Popc(_), Ctz(_), Npw2(_)
Popc(n) == IF n = 0 THEN 0 ELSE (n % 2) + Popc(n \div 2)
Ctz(n) == IF n % 2 = 1 THEN 0 ELSE 1 + Ctz(n \div 2)
Npw2(n) == IF n <= 1 THEN 0 ELSE 1 + Npw2((n + 1) \div 2)

(* In which block a position lies, and where in it.                        *)
Index(pos) ==
  LET b == B - 2
      i == (pos - (Popc(pos \div b - 1) + 2)) \div b IN
  IF pos < b THEN [i |-> 0, off |-> pos] ELSE [i |-> i, off |-> pos - b * i - Popc(i)]

RECURSIVE Walk(_, _, _, _)
Skip(current, target) == Min({Npw2(current - target + 1) - 1, Ctz(current)})
Walk(flash, head, current, target) ==
  IF current <= target THEN head
  ELSE LET k == Skip(current, target) IN Walk(flash, flash[head][k], current - 2^k, target)
BlockAt(flash, head, size, pos) ==
  IF size = 0 THEN NoBlock ELSE Walk(flash, head, Index(size - 1).i, Index(pos).i)

(* All of its blocks: two at a time from an even one.                      *)
RECURSIVE Chain(_, _, _)
Chain(flash, head, index) ==
  {head} \cup (IF index = 0 THEN {}
               ELSE IF index % 2 = 1 THEN Chain(flash, flash[head][0], index - 1)
               ELSE {flash[head][0]} \cup Chain(flash, flash[head][1], index - 2))
Blocks(flash, head, size) == IF size = 0 THEN {} ELSE Chain(flash, head, Index(size - 1).i)

Cell(flash, head, size, pos) == flash[BlockAt(flash, head, size, pos)][Index(pos).off]
Content(flash, c) ==
  IF c.head = Inline THEN SubSeq(c.buf, 1, c.size)
  ELSE [i \in 1..c.size |-> Cell(flash, c.head, c.size, i - 1)]

----------------------------------------------------------------------------
(* Blocks.                                                                 *)
(* A step of a function that returns as soon as one of its calls fails.    *)
Then(s, Step(_)) == IF s.err THEN s ELSE Step(s)

InUseNot(h) == FALSE
InUseByDirty(h) == h.fl \cap {"dirty", "dusty"} # {}
InUseOpen(s) == UNION {Blocks(s.flash, s.h[x].head, s.h[x].size) : x \in {y \in Handles : IsOpen(s, y) /\ ~Has(s, y, "inline")}}
InUse(s) ==
  UNION {IF s.entry[f].head = Inline THEN {} ELSE Blocks(s.flash, s.entry[f].head, s.entry[f].size) : f \in Files}
  \cup UNION {(IF InUseByDirty(s.h[x]) /\ ~Has(s, x, "inline")
               THEN Blocks(s.flash, s.h[x].head, s.h[x].size) ELSE {})
              \cup (IF Has(s, x, "writing") /\ ~Has(s, x, "inline")
                    THEN Blocks(s.flash, s.h[x].block, s.h[x].pos) ELSE {}) : x \in {y \in Handles : IsOpen(s, y)}}

Ckpoint(s) == [s EXCEPT !.look.ckpoint = N]
Scan(s) ==
  LET start == (s.look.start + s.look.next) % N
      size == Min({Window, s.look.ckpoint}) IN
  [s EXCEPT !.look = [start |-> start, next |-> 0, size |-> size, ckpoint |-> @.ckpoint,
                      used |-> {(b - start + N) % N : b \in InUse(s)} \cap 0..(size - 1)]]

RECURSIVE Alloc(_)
Alloc(s) ==
  LET l == s.look
      free == (l.next..(l.size - 1)) \ l.used
      next == IF free = {} THEN l.size ELSE Min((Min(free) + 1..l.size) \ (l.used \ {l.size}))
      s1 == [s EXCEPT !.look.next = next, !.look.ckpoint = @ - (next - l.next)] IN
  IF free # {} THEN [s1 EXCEPT !.new = (l.start + Min(free)) % N]
  ELSE IF s1.look.ckpoint <= 0 THEN [s1 EXCEPT !.err = TRUE]
  ELSE Alloc(Scan(s1))

Blank == [i \in 0..(B - 1) |-> 0]
RECURSIVE AllocErased(_)
AllocErased(s) ==
  Then(Alloc(s), LAMBDA t : IF t.new \in Bad THEN AllocErased(t) ELSE [t EXCEPT !.flash[t.new] = Blank])

(* The block that follows position "size" of a list: a copy of its last    *)
(* block when that is not full, else a new one with its pointers.          *)
Pointers(flash, head, index) ==
  LET P[i \in 0..Ctz(index)] == IF i = 0 THEN head ELSE flash[P[i - 1]][i - 1] IN P
ExtendInto(s, x, head, size) ==
  LET last == Index(size - 1)
      P == Pointers(s.flash, head, last.i + 1) IN
  IF size = 0 THEN [s EXCEPT !.h[x].block = s.new, !.h[x].off = 0]
  ELSE IF last.off + 1 < B
       THEN [s EXCEPT !.flash[s.new] = [i \in 0..(B - 1) |-> IF i <= last.off THEN s.flash[head][i] ELSE @[i]],
                      !.h[x].block = s.new, !.h[x].off = last.off + 1]
  ELSE [s EXCEPT !.flash[s.new] = [i \in 0..(B - 1) |-> IF i \in DOMAIN P THEN P[i] ELSE @[i]],
                 !.h[x].block = s.new, !.h[x].off = Ctz(last.i + 1) + 1]
Extend(s, x, head, size) == Then(AllocErased(s), LAMBDA t : ExtendInto(t, x, head, size))

----------------------------------------------------------------------------
(* Writing.                                                                *)
Erred(s, x) == IF s.err THEN [s EXCEPT !.h[x].fl = @ \cup {"erred"}] ELSE s

(* An inline file that grows too large moves to a block.                   *)
Outline(s, x) ==
  Then(AllocErased(Ckpoint([s EXCEPT !.h[x].off = s.h[x].pos])), LAMBDA t :
       [t EXCEPT !.flash[t.new] = [i \in 0..(B - 1) |-> IF i < t.h[x].off THEN t.h[x].buf[i + 1] ELSE @[i]],
                 !.h[x].block = t.new, !.h[x].fl = (@ \cup {"writing"}) \ {"inline"}])

NextBlock(s, x) ==
  LET h == s.h[x]
      After(block) == Extend(Ckpoint([s EXCEPT !.h[x].block = block]), x, block, h.pos) IN
  IF "inline" \in h.fl
  THEN [s EXCEPT !.h[x].block = Inline, !.h[x].off = h.pos, !.h[x].fl = @ \cup {"writing"}]
  ELSE Then(After(IF "writing" \notin h.fl /\ h.pos > 0 THEN BlockAt(s.flash, h.head, h.size, h.pos - 1) ELSE h.block),
            LAMBDA t : [t EXCEPT !.h[x].fl = @ \cup {"writing"}])

Put(s, x, v) ==
  LET h == s.h[x] IN
  IF "inline" \in h.fl
  THEN [s EXCEPT !.h[x].buf = [i \in 1..(IF h.off < Len(@) THEN Len(@) ELSE h.off + 1) |-> IF i = h.off + 1 THEN v ELSE @[i]],
                 !.h[x].pos = @ + 1, !.h[x].off = @ + 1]
  ELSE Ckpoint([s EXCEPT !.flash[h.block][h.off] = v, !.h[x].pos = @ + 1, !.h[x].off = @ + 1])

RECURSIVE Cells(_, _, _, _)
Cells(s, x, vs, i) ==
  IF s.err \/ i > Len(vs) THEN s
  ELSE Then(IF ~Has(s, x, "writing") \/ s.h[x].off = B THEN NextBlock(s, x) ELSE s,
            LAMBDA t : Cells(Put(t, x, vs[i]), x, vs, i + 1))
FlushedWrite(s, x, vs) ==
  LET h == s.h[x]
      s1 == IF "inline" \in h.fl /\ Max({h.pos + Len(vs), h.size}) > InlineMax THEN Outline(s, x) ELSE s IN
  Erred(Cells(s1, x, vs, 1), x)

(* Flushing a write copies what follows it from the old list, which then   *)
(* is the new one.                                                         *)
RECURSIVE CopyRest(_, _)
CopyRest(s, x) ==
  LET h == s.h[x] IN
  IF s.err \/ h.pos >= h.size THEN s
  ELSE CopyRest(FlushedWrite(s, x, <<Cell(s.flash, h.head, h.size, h.pos)>>), x)
Flush(s, x) ==
  LET h == s.h[x]
      clean == [s EXCEPT !.h[x].fl = @ \ {"reading"}] IN
  IF "writing" \notin h.fl THEN clean
  ELSE Then(IF "inline" \in h.fl THEN [clean EXCEPT !.h[x].pos = Max({@, h.size})] ELSE CopyRest(clean, x),
            LAMBDA t : [t EXCEPT !.h[x].head = t.h[x].block, !.h[x].size = t.h[x].pos, !.h[x].pos = h.pos,
                                 !.h[x].fl = (@ \ {"writing"}) \cup {"dirty"}])

(* The entry names the new list; other handles of the file keep the old.   *)
Dusty(s, x, y) == IsOpen(s, y) /\ y # x /\ s.h[y].file = s.h[x].file
Named(s, x) ==
  LET h == s.h[x] IN
  IF "dirty" \notin h.fl THEN s
  ELSE [s EXCEPT !.entry[h.file] = [head |-> h.head, size |-> h.size,
                                    buf |-> IF h.head = Inline THEN SubSeq(h.buf, 1, h.size) ELSE <<>>]]
Cleaned(s, x) ==
  [s EXCEPT !.h = [y \in Handles |->
     IF y = x THEN [s.h[x] EXCEPT !.fl = @ \ {"dirty", "erred", "dusty"}]
     ELSE IF Dusty(s, x, y) THEN [s.h[y] EXCEPT !.fl = @ \cup {"dusty"}] ELSE s.h[y]]]
SyncOf(s, x) == Erred(Then(Flush(s, x), LAMBDA t : Cleaned(Named(t, x), x)), x)

RECURSIVE Fill(_, _, _)
Fill(s, x, to) ==
  IF s.err \/ s.h[x].pos >= to THEN s ELSE Fill(FlushedWrite(s, x, <<0>>), x, to)
Padded(s, x) ==
  LET h == s.h[x] IN
  IF "writing" \notin h.fl /\ h.pos > h.size THEN Fill([s EXCEPT !.h[x].pos = h.size], x, h.pos) ELSE s
WriteOf(s, x, vs) ==
  LET padded == Then(IF Has(s, x, "reading") THEN Flush(s, x) ELSE s, LAMBDA t : Padded(t, x))
      written == Then(padded, LAMBDA t : FlushedWrite(t, x, vs)) IN
  Then(written, LAMBDA t : [t EXCEPT !.h[x].fl = @ \ {"erred", "dusty"}])

RECURSIVE ReadOf(_, _, _)
ReadOf(s, x, n) ==
  LET h == s.h[x]
      there == IF "reading" \notin h.fl \/ h.off = B
               THEN IF "inline" \in h.fl THEN [block |-> Inline, off |-> h.pos]
                    ELSE [block |-> BlockAt(s.flash, h.head, h.size, h.pos), off |-> Index(h.pos).off]
               ELSE [block |-> h.block, off |-> h.off]
      c == IF "inline" \in h.fl THEN h.buf[there.off + 1] ELSE s.flash[there.block][there.off] IN
  IF n = 0 \/ h.pos >= h.size THEN s
  ELSE ReadOf([s EXCEPT !.out = Append(@, c), !.h[x].block = there.block, !.h[x].off = there.off + 1,
                        !.h[x].pos = @ + 1, !.h[x].fl = @ \cup {"reading"}], x, n - 1)

(* Within the block being read a seek need not drop it.                    *)
Near(h, pos) == "reading" \in h.fl /\ h.off # B /\ Index(h.pos).i = Index(pos).i
SeekOf(s, x, pos, near) ==
  IF s.h[x].pos = pos THEN s
  ELSE IF near /\ Near(s.h[x], pos) THEN [s EXCEPT !.h[x].pos = pos, !.h[x].off = Index(pos).off]
  ELSE Then(Flush(s, x), LAMBDA t : [t EXCEPT !.h[x].pos = pos])

SizeOf(h) == IF "writing" \in h.fl THEN Max({h.pos, h.size}) ELSE h.size
(* The content of a handle: what it has written, then what is left of the  *)
(* old list.                                                               *)
View(s, x) ==
  LET h == s.h[x] IN
  [i \in 1..SizeOf(h) |->
     IF "inline" \in h.fl THEN h.buf[i]
     ELSE IF "writing" \in h.fl /\ i <= h.pos THEN Cell(s.flash, h.block, h.pos, i - 1)
     ELSE Cell(s.flash, h.head, h.size, i - 1)]
RECURSIVE Zeros(_, _, _)
Zeros(s, x, size) == IF s.err \/ s.h[x].pos >= size THEN s ELSE Zeros(WriteOf(s, x, <<0>>), x, size)
BackInline(s, x, size) ==
  [s EXCEPT !.h[x].head = Inline, !.h[x].size = size, !.h[x].buf = s.out,
            !.h[x].fl = @ \cup {"dirty", "reading", "inline"}]
CutAt(s, x, size, b) ==
  [s EXCEPT !.h[x].block = b, !.h[x].head = b, !.h[x].size = size, !.h[x].pos = size,
            !.h[x].fl = @ \cup {"dirty", "reading"}]
Shrunk(s, x, size, near) ==
  IF size <= InlineMax
  THEN Then(SeekOf(s, x, 0, near), LAMBDA t : BackInline(ReadOf([t EXCEPT !.out = <<>>], x, size), x, size))
  ELSE Then(Flush(s, x), LAMBDA t : CutAt(t, x, size, BlockAt(t.flash, t.h[x].head, t.h[x].size, size - 1)))
TruncateOf(s, x, size, near) ==
  LET old == SizeOf(s.h[x])
      sized == IF size < old THEN Shrunk(s, x, size, near)
               ELSE IF size > old THEN Zeros(SeekOf(s, x, old, near), x, size) ELSE s IN
  Then(sized, LAMBDA t : SeekOf(t, x, s.h[x].pos, near))

----------------------------------------------------------------------------
(* The operations, one at a time.                                          *)
Settled(s) == [s EXCEPT !.err = FALSE, !.new = 0, !.out = <<>>]
Do(s) == fs' = Settled(s) /\ ops < MaxOps /\ ops' = ops + 1

(* What the program wrote: cells from a position, zeros before them.       *)
Laid(view, from, cells) ==
  [i \in 1..Max({Len(view), from + Len(cells)}) |->
     IF i > from /\ i <= from + Len(cells) THEN cells[i - from] ELSE IF i <= Len(view) THEN view[i] ELSE 0]
Zeroed(n) == [i \in 1..n |-> 0]

Open(x, f, trunc) ==
  LET e == fs.entry[f] IN
  /\ ~IsOpen(fs, x)
  /\ Do([fs EXCEPT !.h[x] =
       [file |-> f, pos |-> 0, off |-> 0, block |-> NoBlock,
        head |-> IF trunc THEN Inline ELSE e.head, size |-> IF trunc THEN 0 ELSE e.size,
        buf |-> IF trunc THEN <<>> ELSE e.buf,
        fl |-> (IF trunc THEN {"dirty"} ELSE {}) \cup (IF trunc \/ e.head = Inline THEN {"inline"} ELSE {})]])
  /\ said' = [said EXCEPT !.view[x] = IF trunc THEN <<>> ELSE said.file[f]] /\ UNCHANGED got

Write(x, n) ==
  LET view == said.view[x]
      pos == fs.h[x].pos
      from == Min({pos, Len(view)})
      cells == Zeroed(pos - from) \o [i \in 1..n |-> ops + 1] IN
  /\ IsOpen(fs, x) /\ pos + n <= MaxSize
  /\ \E s \in {WriteOf(fs, x, [i \in 1..n |-> ops + 1])} :
    /\ Do(s)
    /\ said' = [said EXCEPT !.view[x] = Laid(view, from, SubSeq(cells, 1, s.h[x].pos - from))] /\ UNCHANGED got

Synced(s, x) == IF s.err THEN said ELSE [said EXCEPT !.file[fs.h[x].file] = said.view[x]]
Sync(x) ==
  LET s == SyncOf(fs, x) IN
  /\ IsOpen(fs, x) /\ fs.h[x].fl \cap {"dirty", "writing"} # {} /\ Do(s)
  /\ said' = Synced(s, x) /\ UNCHANGED got

Close(x) ==
  LET s == IF Has(fs, x, "erred") THEN fs ELSE SyncOf(fs, x)
      synced == ~Has(fs, x, "erred") /\ fs.h[x].fl \cap {"dirty", "writing"} # {} IN
  /\ IsOpen(fs, x) /\ Do([s EXCEPT !.h[x] = NoHandle])
  /\ said' = [(IF synced THEN Synced(s, x) ELSE said) EXCEPT !.view[x] = <<>>] /\ UNCHANGED got

Read(x, n) ==
  LET s == IF Has(fs, x, "writing") THEN Flush(fs, x) ELSE fs
      s1 == ReadOf(s, x, n) IN
  /\ IsOpen(fs, x) /\ UNCHANGED said
  /\ IF s.err THEN Do(s) /\ UNCHANGED got
     ELSE Do(s1) /\ got' = [is |-> s1.out,
                            due |-> SubSeq(said.view[x], fs.h[x].pos + 1, Min({fs.h[x].pos + n, Len(said.view[x])}))]

Seek(x, pos, near) ==
  /\ IsOpen(fs, x) /\ pos # fs.h[x].pos /\ Do(SeekOf(fs, x, pos, near)) /\ UNCHANGED <<said, got>>

Truncate(x, size, near) ==
  LET kept == SubSeq(said.view[x], 1, Min({size, Len(said.view[x])})) IN
  /\ IsOpen(fs, x) /\ UNCHANGED got
  /\ \E s \in {TruncateOf(fs, x, size, near)} :
    /\ Do(s)
    /\ said' = [said EXCEPT !.view[x] = IF s.err THEN View(s, x) ELSE kept \o Zeroed(size - Len(kept))]

Unlink(f) ==
  /\ fs.entry[f] # Empty /\ \A x \in Handles : fs.h[x].file # f
  /\ Do([fs EXCEPT !.entry[f] = Empty]) /\ said' = [said EXCEPT !.file[f] = <<>>] /\ UNCHANGED got

(* Power fails, and somebody mounts again: the window starts anywhere.     *)
Closed == [x \in Handles |-> NoHandle]
Fresh(start) == [start |-> start, next |-> 0, size |-> 0, ckpoint |-> N, used |-> {}]
Remount ==
  /\ \E start \in 0..(N - 1) : Do([fs EXCEPT !.h = Closed, !.look = Fresh(start)])
  /\ said' = [said EXCEPT !.view = [x \in Handles |-> <<>>]] /\ UNCHANGED got

Init ==
  /\ fs = [flash |-> [b \in 0..(N - 1) |-> Blank], entry |-> [f \in Files |-> Empty], h |-> Closed,
           look |-> Fresh(0), new |-> 0, err |-> FALSE, out |-> <<>>]
  /\ said = [file |-> [f \in Files |-> <<>>], view |-> [x \in Handles |-> <<>>]]
  /\ got = [is |-> <<>>, due |-> <<>>] /\ ops = 0

Next ==
  \/ \E x \in Handles : \/ Sync(x) \/ Close(x)
                        \/ \E f \in Files, trunc \in BOOLEAN : Open(x, f, trunc)
                        \/ \E n \in Lengths : Write(x, n) \/ Read(x, n)
                        \/ \E n \in Places, near \in BOOLEAN : Seek(x, n, near) \/ Truncate(x, n, near)
  \/ Remount \/ \E f \in Files : Unlink(f)

Spec == Init /\ [][Next]_vars

----------------------------------------------------------------------------
(* What was synced of a file stays readable, whatever is written to it or  *)
(* to others afterwards, and power may fail at any time (lfs.c:614-716,    *)
(* 4701-4800, 2922-3019).                                                  *)
SyncedStays == \A f \in Files : Content(fs.flash, fs.entry[f]) = said.file[f]

(* A handle has the contents that were written through it: nobody writes   *)
(* to blocks it will still copy from (lfs.c:3353-3431, 3487-3494).         *)
HandleHolds == \A x \in Handles : IsOpen(fs, x) => View(fs, x) = said.view[x]

(* A read gives what is at the position, also right behind a seek, a write *)
(* or a truncation (lfs.c:3500-3577, 3708-3850).                           *)
ReadsAsWritten == got.is = got.due
=============================================================================
