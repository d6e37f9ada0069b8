--------------------------------- MODULE Heap ---------------------------------
(***************************************************************************)
(* What e_malloc and e_free promise (RuntimeMemory.h): a call either fails *)
(* or gets a run of contiguous blocks of one pool that is long enough and  *)
(* that nobody else has; giving back the start of a run gives back exactly *)
(* that run, and anything else that is passed to e_free changes nothing.   *)
(***************************************************************************)
EXTENDS Integers

CONSTANTS
  Pools,  (* the pools                                             *)
  First,  (* First[p]: the first block of pool p                   *)
  Count,  (* Count[p]: how many blocks pool p has                  *)
  Unit,   (* Unit[p]: the size of a block of pool p                *)
  Sizes,  (* the sizes that are asked for                          *)
  NULL    (* what a failed e_malloc returns                        *)

VARIABLES
  live,   \* the runs that are allocated
  last    \* the last e_malloc: what it asked for and what it got

PoolBlocks(p) == First[p] .. First[p] + Count[p] - 1

Blocks == UNION {PoolBlocks(p) : p \in Pools}

\* The blocks of the run of n blocks that starts at i.
Span(i, n) == i .. i + n - 1

Disjoint(r, s) == Span(r.start, r.len) \cap Span(s.start, s.len) = {}

HeapInit == live = {} /\ last = [size |-> 0, block |-> NULL]

Grant(size) ==
  \E p \in Pools : \E i \in PoolBlocks(p) :
    /\ last' = [size |-> size, block |-> i]
    /\ \E n \in 1 .. Count[p] :
         /\ n * Unit[p] >= size
         /\ Span(i, n) \subseteq PoolBlocks(p)
         /\ live' = live \cup {[start |-> i, len |-> n]}
         /\ \A r \in live : Disjoint(r, [start |-> i, len |-> n])

Refuse(size) == last' = [size |-> size, block |-> NULL] /\ live' = live

GiveBack(b) ==
  /\ live' = {r \in live : r.start # b}
  /\ last' = last

HeapNext ==
  \/ \E size \in Sizes : Grant(size) \/ Refuse(size)
  \/ \E b \in Blocks : GiveBack(b)

HeapSpec == HeapInit /\ [][HeapNext]_<<live, last>>
=============================================================================
