------------------------- MODULE RuntimeMemoryProofs -------------------------
(***************************************************************************)
(* The allocator for any three pools: its registry always describes        *)
(* disjoint runs, and it implements Heap.                                  *)
(***************************************************************************)
EXTENDS RuntimeMemory, TLAPS

LEMMA Sizing ==
  ASSUME NEW p \in Pools
  PROVE  /\ First[p] \in Nat
         /\ Count[p] \in Nat /\ 1 <= Count[p] /\ Count[p] <= 127
         /\ Unit[p] \in Nat /\ Unit[p] > 0
         /\ First[p] + Count[p] + Count[p] <= 255
BY MemoryAssumption DEF Pools, First, Count, Unit

LEMMA Layout ==
  ASSUME NEW p \in Pools
  PROVE  /\ PoolBlocks(p) = First[p] .. First[p] + Count[p] - 1
         /\ PoolBlocks(p) \subseteq Blocks
BY MemoryAssumption DEF Pools, First, Count, PoolBlocks, End, Blocks

LEMMA InSomePool ==
  ASSUME NEW b \in Blocks
  PROVE  \E p \in Pools : b \in PoolBlocks(p)
BY MemoryAssumption DEF Pools, First, Count, PoolBlocks, End, Blocks

\* What getFree found: n free blocks of one pool, in a row.
LEMMA Found ==
  ASSUME NEW p \in Pools, NEW n \in Nat, NEW i \in Fitting(p, n)
  PROVE  /\ n \in 1 .. Count[p]
         /\ i \in PoolBlocks(p)
         /\ i + n <= First[p] + Count[p]
         /\ Span(i, n) \subseteq PoolBlocks(p)
         /\ i \in Span(i, n)
         /\ \A b \in Span(i, n) : reg[b] = 0
<1>1. /\ n # 0 /\ n <= Count[p]
      /\ i \in PoolBlocks(p)
      /\ Fits(p, i, n)
  <2>1. ~(n = 0 \/ n > Count[p] \/ End(p) + n > 255)
    BY DEF Fitting
  <2>2. i \in {j \in PoolBlocks(p) : Fits(p, j, n)}
    BY <2>1 DEF Fitting
  <2>3. Count[p] \in Nat
    BY Sizing
  <2> QED
    BY <2>1, <2>2, <2>3
<1>2. First[p] \in Nat /\ Count[p] \in Nat /\ i \in First[p] .. First[p] + Count[p] - 1
  BY <1>1, Layout, Sizing
<1>3. i + n <= First[p] + Count[p]
  BY <1>1 DEF Fits, End
<1>4. \A b \in Span(i, n) : reg[b] = 0
  BY <1>1 DEF Fits
<1>5. Span(i, n) \subseteq First[p] .. First[p] + Count[p] - 1 /\ i \in Span(i, n)
  BY <1>1, <1>2, <1>3 DEF Span
<1> QED
  BY <1>1, <1>2, <1>3, <1>4, <1>5, Layout

LEMMA NeedIsNat ==
  ASSUME NEW p \in Pools, NEW size \in Nat
  PROVE  Need(p, size) \in Nat
<1>1. Unit[p] \in Nat /\ Unit[p] > 0
  BY Sizing
<1>2. size \div Unit[p] \in Nat
  BY <1>1
<1> QED
  BY <1>2 DEF Need

-----------------------------------------------------------------------------
(* The type invariant.                                                       *)

LEMMA TypeInit == Init => TypeOK
<1> SUFFICES ASSUME Init PROVE TypeOK
  OBVIOUS
<1>1. First \in [Pools -> Blocks] /\ \A p \in Pools : First[p] \in PoolBlocks(p)
  BY Layout, MemoryAssumption DEF First, Pools, Blocks, Count
<1>3. reg \in [Blocks -> 0 .. CONT_MARK]
  BY DEF Init, CONT_MARK
<1>4. last \in [size : Sizes \cup {0}, block : Blocks \cup {NULL}]
  BY DEF Init
<1> QED
  BY <1>1, <1>3, <1>4 DEF Init, TypeOK

LEMMA TakeKeepsType ==
  ASSUME TypeOK, NEW p \in Pools, NEW n \in Nat, NEW i \in Fitting(p, n),
         Take(p, i, n)
  PROVE  /\ reg' \in [Blocks -> 0 .. CONT_MARK]
         /\ cursor' \in [Pools -> Blocks]
         /\ \A q \in Pools : cursor'[q] \in PoolBlocks(q)
<1>1. /\ First[p] \in Nat /\ Count[p] \in Nat /\ Count[p] <= 127
      /\ n \in Nat /\ n > 0 /\ n <= Count[p]
      /\ i \in Int /\ First[p] <= i
      /\ i + n <= First[p] + Count[p]
  BY Found, Layout, Sizing
<1>2. reg' \in [Blocks -> 0 .. CONT_MARK]
  <2>1. n \in 0 .. CONT_MARK
    BY <1>1 DEF CONT_MARK
  <2> QED
    BY <2>1 DEF Take, TypeOK, CONT_MARK
<1> DEFINE next == IF i + n >= End(p) THEN i + n - Count[p] ELSE i + n
<1>3. next \in PoolBlocks(p)
  <2>1. next \in First[p] .. First[p] + Count[p] - 1
    BY <1>1 DEF End
  <2> QED
    BY <2>1, Layout
<1>4. next \in Blocks
  BY <1>3, Layout
<1>5. cursor' = [cursor EXCEPT ![p] = next]
  BY DEF Take
<1> HIDE DEF next
<1> QED
  BY <1>2, <1>3, <1>4, <1>5 DEF TypeOK

\* What a successful e_malloc did.
LEMMA Taken ==
  ASSUME NEW size \in Sizes, e_malloc(size)
  PROVE  \E p \in Tried(size) : \E i \in Fitting(p, Need(p, size)) :
           /\ p \in Pools
           /\ Need(p, size) \in Nat
           /\ Take(p, i, Need(p, size))
           /\ last' = [size |-> size, block |-> i]
<1>1. PICK p \in Tried(size) : getFree(p, Need(p, size), size)
  BY DEF e_malloc
<1>2. p \in Pools
  BY DEF Tried, Pools
<1>3. Need(p, size) \in Nat
  BY <1>2, MemoryAssumption, NeedIsNat
<1> QED
  BY <1>1, <1>2, <1>3 DEF getFree

LEMMA TypeStep == TypeOK /\ [Next]_vars => TypeOK'
<1> SUFFICES ASSUME TypeOK, [Next]_vars PROVE TypeOK'
  OBVIOUS
<1>1. CASE initRuntimeMemory
  BY <1>1 DEF initRuntimeMemory, TypeOK
<1>2. ASSUME NEW size \in Sizes, e_malloc(size)
      PROVE  TypeOK'
  <2>1. PICK p \in Tried(size) : \E i \in Fitting(p, Need(p, size)) :
          /\ p \in Pools
          /\ Need(p, size) \in Nat
          /\ Take(p, i, Need(p, size))
          /\ last' = [size |-> size, block |-> i]
    BY <1>2, Taken
  <2>2. PICK i \in Fitting(p, Need(p, size)) :
          /\ Take(p, i, Need(p, size))
          /\ last' = [size |-> size, block |-> i]
    BY <2>1
  <2>3. i \in Blocks
    BY <2>1, Found, Layout
  <2> QED
    BY <1>2, <2>1, <2>2, <2>3, TakeKeepsType DEF TypeOK, e_malloc
<1>3. ASSUME NEW size \in Sizes, MallocFails(size)
      PROVE  TypeOK'
  BY <1>3 DEF MallocFails, TypeOK
<1>4. ASSUME NEW b \in Blocks, e_free(b)
      PROVE  TypeOK'
  <2>1. reg' \in [Blocks -> 0 .. CONT_MARK]
    BY <1>4 DEF e_free, Cleared, TypeOK, CONT_MARK
  <2> QED
    BY <1>4, <2>1 DEF e_free, TypeOK
<1>5. CASE UNCHANGED vars
  BY <1>5 DEF vars, TypeOK
<1> QED
  BY <1>1, <1>2, <1>3, <1>4, <1>5 DEF Next

\* Whatever the sizes of the pools, the cursors stay inside their own pool's
\* part of the registry, and no entry outgrows its e_uint8.
THEOREM TypeCorrect == Spec => []TypeOK
BY TypeInit, TypeStep, PTL DEF Spec
-----------------------------------------------------------------------------
(* The registry describes runs.                                              *)

\* The two halves of WellFormed.
RunsFit ==
  \A b \in Starts, p \in Pools : b \in PoolBlocks(p) =>
    /\ b + reg[b] <= End(p)
    /\ \A c \in Span(b, reg[b]) \ {b} : reg[c] = CONT_MARK

MarksOwned ==
  \A c \in Blocks : reg[c] = CONT_MARK => \E b \in Starts : c \in Span(b, reg[b])

LEMMA Halves == WellFormed <=> RunsFit /\ MarksOwned
BY DEF WellFormed, RunsFit, MarksOwned

\* A run lies in its pool, and its length is a count of blocks.
LEMMA RunInPool ==
  ASSUME TypeOK, RunsFit, NEW b \in Starts
  PROVE  /\ b \in Int /\ reg[b] \in Nat /\ reg[b] > 0
         /\ Span(b, reg[b]) \subseteq Blocks
         /\ b \in Span(b, reg[b])
<1>1. b \in Blocks /\ reg[b] \in 0 .. CONT_MARK /\ reg[b] # 0
  BY DEF Starts, Given, TypeOK
<1>2. b \in Int /\ reg[b] \in Nat /\ reg[b] > 0
  BY <1>1 DEF Blocks, CONT_MARK
<1>3. PICK p \in Pools : b \in PoolBlocks(p)
  BY <1>1, InSomePool
<1>4. b + reg[b] <= First[p] + Count[p] /\ First[p] <= b
  BY <1>3, Layout, Sizing DEF RunsFit, End
<1>5. Span(b, reg[b]) \subseteq PoolBlocks(p)
  BY <1>2, <1>4, Layout, Sizing DEF Span
<1>6. b \in Span(b, reg[b])
  BY <1>2 DEF Span
<1> QED
  BY <1>2, <1>3, <1>5, <1>6, Layout

\* No block is in two runs.
LEMMA RunsDisjoint ==
  ASSUME TypeOK, RunsFit, NEW b \in Starts, NEW d \in Starts, b # d
  PROVE  Span(b, reg[b]) \cap Span(d, reg[d]) = {}
<1>1. ASSUME NEW x \in Starts, NEW y \in Starts, x < y, NEW c \in Span(x, reg[x]),
             c \in Span(y, reg[y])
      PROVE  FALSE
  <2>1. x \in Int /\ y \in Int /\ reg[x] \in Nat /\ reg[y] \in Nat
    BY RunInPool
  <2>2. y \in Span(x, reg[x]) \ {x}
    BY <1>1, <2>1 DEF Span
  <2>3. x \in Blocks
    BY DEF Starts
  <2>4. PICK p \in Pools : x \in PoolBlocks(p)
    BY <2>3, InSomePool
  <2>5. reg[y] = CONT_MARK
    BY <2>2, <2>4 DEF RunsFit
  <2> QED
    BY <2>5 DEF Starts, Given
<1>2. b \in Int /\ d \in Int
  BY RunInPool
<1>3. CASE b < d
  BY <1>1, <1>3
<1>4. CASE d < b
  BY <1>1, <1>4
<1> QED
  BY <1>2, <1>3, <1>4

\* The starts once a run has been taken: the old ones and the new one.
LEMMA StartsAfterTake ==
  ASSUME TypeOK, RunsFit, NEW p \in Pools, NEW n \in Nat, NEW i \in Fitting(p, n),
         Take(p, i, n)
  PROVE  /\ Starts' = Starts \cup {i}
         /\ i \notin Starts
         /\ reg'[i] = n
         /\ \A c \in Span(i, n) \ {i} : reg'[c] = CONT_MARK
         /\ \A c \in Blocks \ Span(i, n) : reg'[c] = reg[c]
         /\ \A b \in Starts : reg'[b] = reg[b] /\ Span(b, reg[b]) \cap Span(i, n) = {}
<1>1. /\ n # 0 /\ n # CONT_MARK
      /\ i \in Span(i, n)
      /\ Span(i, n) \subseteq Blocks
      /\ \A b \in Span(i, n) : reg[b] = 0
  BY Found, Layout, Sizing DEF CONT_MARK
<1>2. reg' = [b \in Blocks |-> IF b = i THEN n
                              ELSE IF b \in Span(i, n) THEN CONT_MARK ELSE reg[b]]
  BY DEF Take
<1>3. /\ reg'[i] = n
      /\ \A c \in Span(i, n) \ {i} : reg'[c] = CONT_MARK
      /\ \A c \in Blocks \ Span(i, n) : reg'[c] = reg[c]
  BY <1>1, <1>2
<1>4. \A b \in Starts : b \in Blocks \ Span(i, n)
  BY <1>1 DEF Starts, Given
<1>5. Starts' = Starts \cup {i} /\ i \notin Starts
  BY <1>1, <1>3, <1>4 DEF Starts, Given
<1>6. ASSUME NEW b \in Starts, NEW c \in Span(b, reg[b])
      PROVE  c \notin Span(i, n)
  <2>1. PICK q \in Pools : b \in PoolBlocks(q)
    BY InSomePool DEF Starts
  <2>2. c = b \/ reg[c] = CONT_MARK
    BY <1>6, <2>1 DEF RunsFit
  <2> QED
    BY <1>1, <1>4, <2>2 DEF CONT_MARK
<1> QED
  BY <1>3, <1>4, <1>5, <1>6

LEMMA TakeKeepsRuns ==
  ASSUME TypeOK, RunsFit, MarksOwned,
         NEW p \in Pools, NEW n \in Nat, NEW i \in Fitting(p, n), Take(p, i, n)
  PROVE  RunsFit' /\ MarksOwned'
<1>1. ASSUME NEW b \in Starts', NEW q \in Pools, b \in PoolBlocks(q)
      PROVE  /\ b + reg'[b] <= End(q)
             /\ \A c \in Span(b, reg'[b]) \ {b} : reg'[c] = CONT_MARK
  <2>1. CASE b = i
    <3>1. i + n <= End(q)
      <4>1. p = q
        BY <1>1, <2>1, Found, MemoryAssumption DEF PoolBlocks, End, First, Count, Pools
      <4> QED
        BY <4>1, Found DEF End
    <3> QED
      BY <2>1, <3>1, StartsAfterTake
  <2>2. CASE b \in Starts
    <3>1. reg'[b] = reg[b] /\ Span(b, reg[b]) \subseteq Blocks \ Span(i, n)
      BY <2>2, StartsAfterTake, RunInPool
    <3>2. b + reg[b] <= End(q) /\ \A c \in Span(b, reg[b]) \ {b} : reg[c] = CONT_MARK
      BY <1>1, <2>2 DEF RunsFit
    <3> QED
      BY <3>1, <3>2, StartsAfterTake
  <2> QED
    BY <1>1, <2>1, <2>2, StartsAfterTake
<1>2. ASSUME NEW c \in Blocks, reg'[c] = CONT_MARK
      PROVE  \E b \in Starts' : c \in Span(b, reg'[b])
  <2>1. CASE c \in Span(i, n)
    BY <2>1, StartsAfterTake
  <2>2. CASE c \notin Span(i, n)
    <3>1. reg[c] = CONT_MARK
      BY <1>2, <2>2, StartsAfterTake
    <3> QED
      BY <3>1, StartsAfterTake DEF MarksOwned
  <2> QED
    BY <2>1, <2>2
<1>3. RunsFit'
  BY <1>1 DEF RunsFit, Span, End
<1> QED
  BY <1>2, <1>3 DEF MarksOwned, Span

\* The starts once a run has been given back: the others.
LEMMA StartsAfterFree ==
  ASSUME TypeOK, RunsFit, NEW b \in Blocks, e_free(b)
  PROVE  /\ b \in Starts
         /\ Starts' = Starts \ {b}
         /\ \A c \in Span(b, reg[b]) : reg'[c] = 0
         /\ \A c \in Blocks \ Span(b, reg[b]) : reg'[c] = reg[c]
         /\ \A d \in Starts \ {b} :
              reg'[d] = reg[d] /\ Span(d, reg[d]) \cap Span(b, reg[b]) = {}
<1>1. b \in Starts
  BY DEF e_free, Starts
<1>2. b \in Span(b, reg[b]) /\ Span(b, reg[b]) \subseteq Blocks
  BY <1>1, RunInPool
<1>3. reg' = [c \in Blocks |-> IF c \in Span(b, reg[b]) THEN 0 ELSE reg[c]]
  BY DEF e_free, Cleared
<1>4. /\ \A c \in Span(b, reg[b]) : reg'[c] = 0
      /\ \A c \in Blocks \ Span(b, reg[b]) : reg'[c] = reg[c]
  BY <1>2, <1>3
<1>5. ASSUME NEW d \in Starts \ {b}
      PROVE  /\ d \in Blocks \ Span(b, reg[b])
             /\ Span(d, reg[d]) \cap Span(b, reg[b]) = {}
  <2>1. Span(d, reg[d]) \cap Span(b, reg[b]) = {}
    BY <1>1, RunsDisjoint
  <2>2. d \in Span(d, reg[d]) /\ d \in Blocks
    BY RunInPool DEF Starts
  <2> QED
    BY <2>1, <2>2
<1>6. Starts' = Starts \ {b}
  BY <1>2, <1>4, <1>5 DEF Starts, Given
<1> QED
  BY <1>1, <1>4, <1>5, <1>6

LEMMA FreeKeepsRuns ==
  ASSUME TypeOK, RunsFit, MarksOwned, NEW b \in Blocks, e_free(b)
  PROVE  RunsFit' /\ MarksOwned'
<1>1. ASSUME NEW d \in Starts', NEW q \in Pools, d \in PoolBlocks(q)
      PROVE  /\ d + reg'[d] <= End(q)
             /\ \A c \in Span(d, reg'[d]) \ {d} : reg'[c] = CONT_MARK
  <2>1. d \in Starts \ {b}
    BY StartsAfterFree
  <2>2. reg'[d] = reg[d] /\ Span(d, reg[d]) \subseteq Blocks \ Span(b, reg[b])
    BY <2>1, StartsAfterFree, RunInPool
  <2>3. d + reg[d] <= End(q) /\ \A c \in Span(d, reg[d]) \ {d} : reg[c] = CONT_MARK
    BY <1>1, <2>1 DEF RunsFit
  <2> QED
    BY <2>2, <2>3, StartsAfterFree
<1>2. ASSUME NEW c \in Blocks, reg'[c] = CONT_MARK
      PROVE  \E d \in Starts' : c \in Span(d, reg'[d])
  <2>1. c \notin Span(b, reg[b]) /\ reg[c] = CONT_MARK
    BY <1>2, StartsAfterFree DEF CONT_MARK
  <2>2. PICK d \in Starts : c \in Span(d, reg[d])
    BY <2>1 DEF MarksOwned
  <2> QED
    BY <2>1, <2>2, StartsAfterFree
<1>3. RunsFit'
  BY <1>1 DEF RunsFit, Span, End
<1> QED
  BY <1>2, <1>3 DEF MarksOwned, Span

IInv == TypeOK /\ RunsFit /\ MarksOwned

LEMMA RunsInit == Init => RunsFit /\ MarksOwned
BY DEF Init, RunsFit, MarksOwned, Starts, Given, CONT_MARK

LEMMA RunsStep == IInv /\ [Next]_vars => RunsFit' /\ MarksOwned'
<1> SUFFICES ASSUME IInv, [Next]_vars PROVE RunsFit' /\ MarksOwned'
  OBVIOUS
<1> USE DEF IInv
<1>1. ASSUME reg' = reg PROVE RunsFit' /\ MarksOwned'
  BY <1>1 DEF RunsFit, MarksOwned, Starts, Given, Span, End
<1>2. ASSUME NEW size \in Sizes, e_malloc(size)
      PROVE  RunsFit' /\ MarksOwned'
  BY <1>2, Taken, TakeKeepsRuns
<1>3. ASSUME NEW b \in Blocks, e_free(b)
      PROVE  RunsFit' /\ MarksOwned'
  BY <1>3, FreeKeepsRuns
<1> QED
  BY <1>1, <1>2, <1>3 DEF Next, initRuntimeMemory, MallocFails, vars

\* The registry always describes disjoint runs inside their pools, so that
\* freeBuffer may trust the length in a run's first entry.
THEOREM RegistryWellFormed == Spec => []WellFormed
<1>1. Init => IInv
  BY TypeInit, RunsInit DEF IInv
<1>2. IInv /\ [Next]_vars => IInv'
  BY TypeStep, RunsStep DEF IInv
<1>3. IInv => WellFormed
  BY Halves DEF IInv
<1> QED
  BY <1>1, <1>2, <1>3, PTL DEF Spec
-----------------------------------------------------------------------------
(* The allocator implements Heap.                                            *)

LEMMA Remainder ==
  ASSUME NEW a \in Nat, NEW u \in Nat, u > 0
  PROVE  /\ a \div u \in Nat
         /\ a % u \in Nat
         /\ a = u * (a \div u) + (a % u)
         /\ a % u < u
OBVIOUS

\* The blocks e_malloc asks getFree for hold the bytes that were asked for.
LEMMA NeedIsEnough ==
  ASSUME NEW size \in Sizes, NEW p \in Tried(size), p \in Pools
  PROVE  Need(p, size) * Unit[p] >= size
<1>1. size \in Nat
  BY MemoryAssumption
<1>2. CASE size <= UnitC
  <2>1. Unit[p] >= size
    BY <1>1, <1>2, MemoryAssumption DEF Tried, Unit, Pools
  <2> QED
    BY <1>2, <2>1, Sizing DEF Need
<1>3. CASE ~(size <= UnitC)
  <2> DEFINE u == Unit[p]
             q == size \div u
             r == size % u
  <2>1. u \in Nat /\ u > 0
    BY Sizing
  <2>2. q \in Nat /\ r \in Nat /\ size = u * q + r /\ r < u
    BY <1>1, <2>1, Remainder
  <2>3. Need(p, size) = IF r = 0 THEN q ELSE q + 1
    BY <1>3 DEF Need
  <2> HIDE DEF u, q, r
  <2>4. q * u = u * q /\ (q + 1) * u = u * q + u
    BY <2>1, <2>2
  <2>5. (IF r = 0 THEN q ELSE q + 1) * u >= size
    BY <1>1, <2>1, <2>2, <2>4
  <2> QED
    BY <2>3, <2>5 DEF u
<1> QED
  BY <1>2, <1>3

LEMMA SameLayout ==
  /\ \A p \in Pools : H!PoolBlocks(p) = PoolBlocks(p)
  /\ Blocks = H!Blocks
<1>1. \A p \in Pools : H!PoolBlocks(p) = PoolBlocks(p)
  BY Layout DEF H!PoolBlocks
<1>2. Blocks = UNION {PoolBlocks(p) : p \in Pools}
  BY InSomePool, Layout
<1> QED
  BY <1>1, <1>2 DEF H!Blocks

LEMMA HeapInit == Init => H!HeapInit
BY DEF Init, H!HeapInit, Runs, Starts, Given

LEMMA MallocIsGrant ==
  ASSUME IInv, NEW size \in Sizes, e_malloc(size)
  PROVE  H!Grant(size)
<1> USE DEF IInv
<1>1. PICK p \in Tried(size) : \E i \in Fitting(p, Need(p, size)) :
        /\ p \in Pools
        /\ Need(p, size) \in Nat
        /\ Take(p, i, Need(p, size))
        /\ last' = [size |-> size, block |-> i]
  BY Taken
<1> DEFINE n == Need(p, size)
<1>2. PICK i \in Fitting(p, n) : Take(p, i, n) /\ last' = [size |-> size, block |-> i]
  BY <1>1
<1>3. p \in Pools /\ n \in Nat /\ n * Unit[p] >= size
  BY <1>1, NeedIsEnough
<1> HIDE DEF n
<1>4. /\ n \in 1 .. Count[p]
      /\ i \in H!PoolBlocks(p)
      /\ H!Span(i, n) \subseteq H!PoolBlocks(p)
  BY <1>3, Found, SameLayout DEF H!Span, Span
<1>5. Runs' = Runs \cup {[start |-> i, len |-> n]}
  <2>1. Runs' = {[start |-> b, len |-> reg'[b]] : b \in Starts \cup {i}}
    BY <1>2, <1>3, StartsAfterTake DEF Runs
  <2>2. reg'[i] = n /\ \A b \in Starts : reg'[b] = reg[b]
    BY <1>2, <1>3, StartsAfterTake
  <2> QED
    BY <2>1, <2>2 DEF Runs
<1>6. \A r \in Runs : H!Disjoint(r, [start |-> i, len |-> n])
  BY <1>2, <1>3, StartsAfterTake DEF Runs, H!Disjoint, H!Span, Span
<1> QED
  BY <1>2, <1>3, <1>4, <1>5, <1>6 DEF H!Grant

LEMMA FreeIsGiveBack ==
  ASSUME IInv, NEW b \in Blocks, e_free(b)
  PROVE  H!GiveBack(b)
<1> USE DEF IInv
<1>1. Runs' = {[start |-> d, len |-> reg[d]] : d \in Starts \ {b}}
  <2>1. Starts' = Starts \ {b} /\ \A d \in Starts \ {b} : reg'[d] = reg[d]
    BY StartsAfterFree
  <2> QED
    BY <2>1 DEF Runs
<1>2. Runs' = {r \in Runs : r.start # b}
  BY <1>1 DEF Runs
<1> QED
  BY <1>2 DEF H!GiveBack, e_free

\* Every call of the allocator is one the header promises: a run that is free
\* and long enough, a failure, or the return of exactly one run.
THEOREM AllocatorKeepsPromise == Spec => KeepsPromise
<1>1. Init => IInv /\ H!HeapInit
  BY TypeInit, RunsInit, HeapInit DEF IInv
<1>2. IInv /\ [Next]_vars => IInv'
  BY TypeStep, RunsStep DEF IInv
<1>3. IInv /\ [Next]_vars => [H!HeapNext]_<<Runs, last>>
  <2> SUFFICES ASSUME IInv, [Next]_vars PROVE [H!HeapNext]_<<Runs, last>>
    OBVIOUS
  <2>1. ASSUME reg' = reg, last' = last PROVE UNCHANGED <<Runs, last>>
    BY <2>1 DEF Runs, Starts, Given
  <2>2. ASSUME NEW size \in Sizes, e_malloc(size) PROVE H!HeapNext
    BY <2>2, MallocIsGrant DEF H!HeapNext
  <2>3. ASSUME NEW size \in Sizes, MallocFails(size) PROVE H!HeapNext
    <3>1. Runs' = Runs
      BY <2>3 DEF MallocFails, Runs, Starts, Given
    <3>2. H!Refuse(size)
      BY <2>3, <3>1 DEF MallocFails, H!Refuse
    <3> QED
      BY <3>2 DEF H!HeapNext
  <2>4. ASSUME NEW b \in Blocks, e_free(b) PROVE H!HeapNext
    BY <2>4, FreeIsGiveBack, SameLayout DEF H!HeapNext
  <2> QED
    BY <2>1, <2>2, <2>3, <2>4 DEF Next, initRuntimeMemory, vars
<1> QED
  BY <1>1, <1>2, <1>3, PTL DEF Spec, KeepsPromise, H!HeapSpec
=============================================================================
