---------------------------- MODULE RuntimeMemory ----------------------------
(***************************************************************************)
(* The static buffer allocator (RuntimeMemory.cpp): three pools of blocks  *)
(* of 64, 128 and 256 bytes, one registry entry per block, and a circular  *)
(* cursor per pool.  A registry entry is 0 for a free block, the length of *)
(* the run for its first block, and CONT_MARK for the others.              *)
(*                                                                         *)
(* e_malloc and e_free hold allocatorLock for the whole call, so each call *)
(* is one step.                                                            *)
(***************************************************************************)
EXTENDS Integers

CONSTANTS
  CountA, CountB, CountC, (* POOL_A_COUNT, ...: 80, 40 and 40              *)
  UnitA, UnitB, UnitC,    (* POOL_A_BLOCK, ...: 64, 128 and 256            *)
  Sizes,                  (* the sizes e_malloc is asked for               *)
  NULL                    (* the null pointer                              *)

CONT_MARK == 255

Pools == {"A", "B", "C"}
Count == [p \in Pools |->
           IF p = "A" THEN CountA ELSE IF p = "B" THEN CountB ELSE CountC]
Unit  == [p \in Pools |->
           IF p = "A" THEN UnitA ELSE IF p = "B" THEN UnitB ELSE UnitC]
First == [p \in Pools |->
           IF p = "A" THEN 0 ELSE IF p = "B" THEN CountA ELSE CountA + CountB]

End(p)        == First[p] + Count[p]
PoolBlocks(p) == First[p] .. End(p) - 1
Blocks        == 0 .. CountA + CountB + CountC - 1

ASSUME MemoryAssumption ==
  /\ CountA \in Nat \ {0} /\ CountB \in Nat \ {0} /\ CountC \in Nat \ {0}
  /\ CountA + CountA <= 255        \* indices are e_uint8, and CONT_MARK is 255
  /\ CountA + CountB + CountB <= 255
  /\ CountA + CountB + CountC + CountC <= 255
  /\ UnitA \in Nat \ {0} /\ UnitB \in Nat \ {0} /\ UnitC \in Nat \ {0}
  /\ Sizes \subseteq Nat
  /\ NULL \notin Int

VARIABLES
  ready,  \* initRuntimeMemory has made the lock
  reg,    \* the registry
  cursor, \* cursorA, cursorB, cursorC
  last    \* the last e_malloc: the size asked for, and the block or NULL it got

vars == <<ready, reg, cursor, last>>

Span(i, n) == i .. i + n - 1

Init ==
  /\ ready = FALSE
  /\ reg = [b \in Blocks |-> 0]
  /\ cursor = First
  /\ last = [size |-> 0, block |-> NULL]

initRuntimeMemory ==
  /\ ~ready
  /\ ready' = TRUE
  /\ UNCHANGED <<reg, cursor, last>>

-----------------------------------------------------------------------------
(* getFree: n blocks in a row, all free, in one pool.                        *)

\* Mutant of Fits: only the first block is looked at.
FitsFirst(p, i, n) == i + n <= End(p) /\ reg[i] = 0

Fits(p, i, n) == i + n <= End(p) /\ \A b \in Span(i, n) : reg[b] = 0

Fitting(p, n) ==
  IF n = 0 \/ n > Count[p] \/ End(p) + n > 255 THEN {}
  ELSE {i \in PoolBlocks(p) : Fits(p, i, n)}

\* How far the circular walk from the cursor goes to reach block i.
Walk(p, i) == IF i >= cursor[p] THEN i - cursor[p] ELSE i - cursor[p] + Count[p]

\* Mutant of Take: continuation blocks are left unmarked.
TakeUnmarked(p, i, n) ==
  /\ reg' = [reg EXCEPT ![i] = n]
  /\ cursor' = [cursor EXCEPT ![p] =
                 IF i + n >= End(p) THEN i + n - Count[p] ELSE i + n]

\* The run is marked and the cursor moves just past it.
Take(p, i, n) ==
  /\ reg' = [b \in Blocks |-> IF b = i THEN n
                              ELSE IF b \in Span(i, n) THEN CONT_MARK ELSE reg[b]]
  /\ cursor' = [cursor EXCEPT ![p] =
                 IF i + n >= End(p) THEN i + n - Count[p] ELSE i + n]

getFree(p, n, size) ==
  \E i \in Fitting(p, n) :
    /\ \A j \in Fitting(p, n) : Walk(p, i) <= Walk(p, j)
    /\ Take(p, i, n)
    /\ last' = [size |-> size, block |-> i]

-----------------------------------------------------------------------------
(* e_malloc: a single block of the smallest fitting pool, or a run of C, then *)
(* of B, then of A for what no single block can hold.                        *)

Need(p, size) ==
  IF size <= UnitC THEN 1
  ELSE IF size % Unit[p] = 0 THEN size \div Unit[p] ELSE size \div Unit[p] + 1

Tried(size) ==
  IF size <= UnitA THEN {"A"}
  ELSE IF size <= UnitB THEN {"B"}
  ELSE IF size <= UnitC THEN {"C"} ELSE Pools

\* The pools of the chain that are tried before p.
Before(p) == IF p = "C" THEN {} ELSE IF p = "B" THEN {"C"} ELSE {"C", "B"}

e_malloc(size) ==
  /\ ready
  /\ \E p \in Tried(size) :
       /\ \A q \in Before(p) \cap Tried(size) : Fitting(q, Need(q, size)) = {}
       /\ getFree(p, Need(p, size), size)
  /\ UNCHANGED ready

MallocFails(size) ==
  /\ ~ready \/ \A p \in Tried(size) : Fitting(p, Need(p, size)) = {}
  /\ last' = [size |-> size, block |-> NULL]
  /\ UNCHANGED <<ready, reg, cursor>>

-----------------------------------------------------------------------------
(* e_free and freeBuffer: only the start of a run gives anything back.       *)

Given(b) == reg[b] # 0 /\ reg[b] # CONT_MARK

Cleared(b) == [c \in Blocks |-> IF c \in Span(b, reg[b]) THEN 0 ELSE reg[c]]

e_free(b) ==
  /\ ready
  /\ Given(b)
  /\ reg' = Cleared(b)
  /\ UNCHANGED <<ready, cursor, last>>

Next ==
  \/ initRuntimeMemory
  \/ \E size \in Sizes : e_malloc(size) \/ MallocFails(size)
  \/ \E b \in Blocks : e_free(b)

Spec == Init /\ [][Next]_vars

-----------------------------------------------------------------------------
(* Properties.                                                               *)

\* The registry holds what an e_uint8 holds, and each cursor stays inside its
\* pool's part of it: getFree would otherwise walk another pool's entries.
TypeOK ==
  /\ ready \in BOOLEAN
  /\ reg \in [Blocks -> 0 .. CONT_MARK]
  /\ cursor \in [Pools -> Blocks]
  /\ \A p \in Pools : cursor[p] \in PoolBlocks(p)
  /\ last \in [size : Sizes \cup {0}, block : Blocks \cup {NULL}]

Starts == {b \in Blocks : Given(b)}

\* The registry describes disjoint runs: the blocks after a run's first are
\* marked, the run ends inside its pool, and every marked block is in a run.
\* freeBuffer trusts it when it clears as many blocks as the first entry says.
WellFormed ==
  /\ \A b \in Starts, p \in Pools : b \in PoolBlocks(p) =>
       /\ b + reg[b] <= End(p)
       /\ \A c \in Span(b, reg[b]) \ {b} : reg[c] = CONT_MARK
  /\ \A c \in Blocks : reg[c] = CONT_MARK =>
       \E b \in Starts : c \in Span(b, reg[b])

\* The allocator keeps the promise of the header: runs that are long enough,
\* disjoint, and given back only by their own start.
Runs == {[start |-> b, len |-> reg[b]] : b \in Starts}

H == INSTANCE Heap WITH live <- Runs

KeepsPromise == H!HeapSpec

\* RuntimeMemory.h:20: e_malloc "will find a pool that fits your requested size
\* and if none concatenate pools for you", and fails only "if all means failed":
\* a failure means that no run of any pool is free and large enough.
FailsOnlyWhenFull ==
  [][\A size \in Sizes : ready /\ MallocFails(size) =>
       \A p \in Pools : \A n \in 1 .. Count[p] :
         n * Unit[p] >= size =>
           \A i \in PoolBlocks(p) :
             i + n <= End(p) => \E b \in Span(i, n) : reg[b] # 0]_vars
=============================================================================
